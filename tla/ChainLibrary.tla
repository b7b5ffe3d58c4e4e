---------------------------- MODULE ChainLibrary ----------------------------
(***************************************************************************)
(* The chains of an installation and their versions: the routes under      *)
(* /chains (agents.ts), the tables they write, and the chain designers of  *)
(* the consoles that edit them (ChainsSection of SettingsView.tsx).        *)
(*                                                                         *)
(* A transaction of two statements is two actions or more: between them    *)
(* others commit.  The database runs at READ COMMITTED: a statement sees   *)
(* what was committed when it began (seen), waits for the rows among them  *)
(* that another transaction holds, and sees no row inserted since.         *)
(***************************************************************************)
EXTENDS Naturals, Sequences

CONSTANTS Consoles,     \* designers open in browsers
          Callers,      \* clients of POST /chains/:id/versions/activate
          Chains,
          NoChain,      \* nothing is selected
          MaxVersion,   \* bound: versions of a chain
          MaxLoads      \* bound: loadChainSpec calls under way in a designer

ASSUME LibraryAssumption ==
  /\ NoChain \notin Chains
  /\ MaxVersion \in Nat \ {0}
  /\ MaxLoads \in Nat \ {0}

VARIABLES
  unborn,    \* chains that have never been created
  exists,    \* rows of app.chains
  versions,  \* rows of app.chain_versions, as committed
  act,       \* callers: the activation under way
  known,     \* chains: what the designer lists
  sel,       \* selectedChainId
  steps,     \* chainSteps: the chains that the shown steps were made for
  last,      \* lastLoadedChainRef
  deleting,  \* the chain whose deletion awaits its answer
  loads,     \* loadChainSpec calls that await their versions
  save,      \* persistChainSpec under way
  astray,    \* history: the shown steps may be those of another chain
  raced      \* history: chains of which a save overtook an activation

vars == <<unborn, exists, versions, act, known, sel, steps, last, deleting, loads, save, astray,
          raced>>

Tables   == <<unborn, exists, versions>>
Designer == <<known, sel, steps, last, loads, astray>>
Shared   == <<act, save, raced>>

-----------------------------------------------------------------------------
Numbers == 1 .. MaxVersion
Origins == SUBSET Chains
Version == [n : Numbers, active : BOOLEAN]

Save == [st : {"none", "listing", "posting", "inserted", "sweeping"},
         chain : Chains \cup {NoChain}, of : Origins, astray : BOOLEAN,
         n : 0 .. MaxVersion, seen : SUBSET Numbers]
Activation == [st : {"none", "clearing", "cleared"}, chain : Chains \cup {NoChain},
               n : 0 .. MaxVersion, seen : SUBSET Numbers, overtaken : BOOLEAN]

NoSave == [st |-> "none", chain |-> NoChain, of |-> {}, astray |-> FALSE, n |-> 0, seen |-> {}]
NoActivation == [st |-> "none", chain |-> NoChain, n |-> 0, seen |-> {}, overtaken |-> FALSE]

Committed(c) == {v.n : v \in versions[c]}
Active(c)    == {v \in versions[c] : v.active}

(* Row n of chain c is inserted and not committed.                         *)
Pending(c, n) == \E d \in Consoles :
  save[d].st \in {"inserted", "sweeping"} /\ save[d].chain = c /\ save[d].n = n

(* Rows of chain c that an activation has cleared and not committed.       *)
Held(c) == UNION {act[a].seen : a \in {b \in Callers : act[b].st = "cleared" /\ act[b].chain = c}}

Untouched(c) ==
  /\ \A d \in Consoles : ~(save[d].st \in {"inserted", "sweeping"} /\ save[d].chain = c)
  /\ \A a \in Callers : ~(act[a].st = "cleared" /\ act[a].chain = c)

(* Designers that have been opened, with a chain selected and loaded.      *)
Init ==
  /\ exists \in SUBSET Chains
  /\ unborn = Chains \ exists
  /\ \E stored \in SUBSET exists :
       versions = [c \in Chains |-> IF c \in stored THEN {[n |-> 1, active |-> TRUE]} ELSE {}]
  /\ act = [a \in Callers |-> NoActivation]
  /\ known = [d \in Consoles |-> exists]
  /\ sel \in [Consoles -> IF exists = {} THEN {NoChain} ELSE exists]
  /\ steps = [d \in Consoles |-> {c \in exists : c = sel[d] /\ versions[c] # {}}]
  /\ last = sel
  /\ deleting = [d \in Consoles |-> NoChain]
  /\ loads = [d \in Consoles |-> <<>>]
  /\ save = [d \in Consoles |-> NoSave]
  /\ astray = [d \in Consoles |-> FALSE]
  /\ raced = {}

-----------------------------------------------------------------------------
(* The designer: what is selected and shown *)

Shows(d, c, s) ==
  /\ sel' = [sel EXCEPT ![d] = c]
  /\ steps' = [steps EXCEPT ![d] = s]
  /\ IF c = NoChain \/ last[d] = c
     THEN UNCHANGED loads
     ELSE /\ Len(loads[d]) < MaxLoads
          /\ loads' = [loads EXCEPT ![d] = Append(@, c)]
  /\ astray' = [astray EXCEPT ![d] = @ \/ (c # NoChain /\ loads[d] # <<>>)]

(* The effect on the listed chains: a selection that is not among them     *)
(* gives way to the first of them.                                         *)
Settles(d, ks, s) ==
  /\ known' = [known EXCEPT ![d] = ks]
  /\ IF ks = {} THEN Shows(d, NoChain, {}) ELSE \E first \in ks : Shows(d, first, s)

(* handleSelectChain, or a jump from the Agents tab.                       *)
Select(d, c) ==
  /\ c \in known[d] /\ c # sel[d]
  /\ Shows(d, c, steps[d])
  /\ UNCHANGED <<Tables, known, last, deleting, Shared>>

(* Another agent in the filter: its first chain, or none if it has none.   *)
Refilter(d) ==
  /\ \E c \in known[d] \cup {NoChain} : Shows(d, c, {})
  /\ UNCHANGED <<Tables, known, last, deleting, Shared>>

(* handleChainVisibilityChange failed: refreshChains.                      *)
Refresh(d) ==
  /\ sel[d] # NoChain
  /\ IF sel[d] \in exists
     THEN /\ known' = [known EXCEPT ![d] = exists]
          /\ UNCHANGED <<sel, steps, loads, astray>>
     ELSE Settles(d, exists, steps[d])
  /\ UNCHANGED <<Tables, last, deleting, Shared>>

Without(s, i) == [j \in 1 .. Len(s) - 1 |-> IF j < i THEN s[j] ELSE s[j + 1]]

(* The active version, or else the newest; no steps without a version.     *)
Loaded(d, c) == IF versions[c] = {} THEN {} ELSE {c}

(* The answers come in any order, and count whatever is selected by then.  *)
LoadAnswers(d, i) ==
  LET c == loads[d][i] IN
  /\ loads' = [loads EXCEPT ![d] = Without(@, i)]
  /\ steps' = [steps EXCEPT ![d] = Loaded(d, c)]
  /\ last' = [last EXCEPT ![d] = c]
  /\ astray' = [astray EXCEPT ![d] = @ /\ ~(Len(loads[d]) = 1 /\ c = sel[d])]
  /\ UNCHANGED <<Tables, known, sel, deleting, Shared>>

LoadFails(d, i) ==
  /\ loads' = [loads EXCEPT ![d] = Without(@, i)]
  /\ astray' = [astray EXCEPT ![d] = TRUE]
  /\ UNCHANGED <<Tables, known, sel, steps, last, deleting, Shared>>

(* handleAddStep, handleImportSpec and "clear chain". Steps made while no  *)
(* chain is selected are made for none.                                    *)
Edit(d) ==
  /\ LET own == {sel[d]} \ {NoChain}
     IN  \E s \in {steps[d] \cup own, own, {}} : steps' = [steps EXCEPT ![d] = s]
  /\ UNCHANGED <<Tables, known, sel, last, deleting, loads, astray, Shared>>

(* handleCreateChain: the chain is selected, and its steps are not loaded. *)
Create(d, c) ==
  /\ c \in unborn
  /\ unborn' = unborn \ {c}
  /\ exists' = exists \cup {c}
  /\ known' = [known EXCEPT ![d] = @ \cup {c}]
  /\ sel' = [sel EXCEPT ![d] = c]
  /\ astray' = [astray EXCEPT ![d] = TRUE]
  /\ UNCHANGED <<versions, steps, last, deleting, loads, Shared>>

(* DELETE /chains/:id, for which open transactions on the chain have to    *)
(* end; the error of a chain that is gone leaves the designer alone.       *)
Delete(d) ==
  /\ deleting[d] = NoChain
  /\ sel[d] \in exists /\ Untouched(sel[d])
  /\ exists' = exists \ {sel[d]}
  /\ versions' = [versions EXCEPT ![sel[d]] = {}]
  /\ deleting' = [deleting EXCEPT ![d] = sel[d]]
  /\ UNCHANGED <<unborn, Designer, Shared>>

(* The answer clears the selection, whatever is selected by then.          *)
DeleteAnswers(d) ==
  /\ deleting[d] # NoChain
  /\ deleting' = [deleting EXCEPT ![d] = NoChain]
  /\ \/ Settles(d, known[d] \ {deleting[d]}, {}) /\ UNCHANGED last
     \/ UNCHANGED Designer      \* the answer is lost
  /\ UNCHANGED <<Tables, Shared>>

-----------------------------------------------------------------------------
(* persistChainSpec, and POST /chains/:id/versions *)

(* One save at a time; it keeps the chain and the steps of its click.      *)
Begins(d, s) ==
  /\ sel[d] # NoChain /\ s # {} /\ save[d].st = "none"
  /\ save' = [save EXCEPT ![d] = [NoSave EXCEPT !.st = "listing", !.chain = sel[d], !.of = s,
                                                !.astray = astray[d] \/ loads[d] # <<>>]]

SaveSpec(d) ==
  /\ Begins(d, steps[d])
  /\ UNCHANGED <<Tables, Designer, deleting, act, raced>>

(* handleRemoveStep saves what is left, unless a save is under way, the    *)
(* spec cannot be built, or nothing is left.                               *)
RemoveStep(d) ==
  /\ \E gone \in steps[d] : \E s \in {steps[d], steps[d] \ {gone}} :
       /\ steps' = [steps EXCEPT ![d] = s]
       /\ Begins(d, s) \/ UNCHANGED save
  /\ UNCHANGED <<Tables, known, sel, last, deleting, loads, astray, act, raced>>

(* GET /chains/:id/versions: the next number; 1 if it fails.               *)
NextNumber(c) == IF versions[c] = {} THEN 1
            ELSE 1 + CHOOSE m \in Committed(c) : \A n \in Committed(c) : n <= m

\* Mutant: the version goes to the chain that is selected by now.
PostsToSelected(d) == sel[d]

PostsTo(d) == save[d].chain

SaveLists(d) ==
  /\ save[d].st = "listing"
  /\ \E n \in {NextNumber(save[d].chain), 1} :
       /\ n \in Numbers
       /\ save' = [save EXCEPT ![d].st = "posting", ![d].n = n, ![d].chain = PostsTo(d)]
  /\ UNCHANGED <<Tables, Designer, deleting, act, raced>>

\* Mutant: the table has no unique constraint on (chain_id, version).
NumberTaken(c, n) == c \in exists

(* UNIQUE (chain_id, version), and the foreign key: an INSERT waits while  *)
(* another transaction has inserted the same number.                       *)
NumberFree(c, n) == c \in exists /\ n \notin Committed(c) /\ ~Pending(c, n)

Inserts(d) ==
  /\ save[d].st = "posting"
  /\ NumberFree(save[d].chain, save[d].n)
  /\ save' = [save EXCEPT ![d].st = "inserted"]
  /\ UNCHANGED <<Tables, Designer, deleting, act, raced>>

(* UPDATE ... SET active = false, of the other rows of the chain.          *)
SweepStarts(d) ==
  /\ save[d].st = "inserted"
  /\ save' = [save EXCEPT ![d].st = "sweeping", ![d].seen = Committed(save[d].chain)]
  /\ UNCHANGED <<Tables, Designer, deleting, act, raced>>

Cleared(rows, numbers) == {[v EXCEPT !.active = @ /\ v.n \notin numbers] : v \in rows}

SweepCommits(d) ==
  LET c == save[d].chain
      new == [n |-> save[d].n, active |-> TRUE] IN
  /\ save[d].st = "sweeping" /\ save[d].seen \cap Held(c) = {}
  /\ versions' = [versions EXCEPT ![c] = Cleared(@, save[d].seen) \cup {new}]
  /\ act' = [a \in Callers |-> [act[a] EXCEPT !.overtaken = @ \/ act[a].chain = c]]
  /\ raced' = raced \ {c}
  /\ save' = [save EXCEPT ![d] = NoSave]
  /\ UNCHANGED <<unborn, exists, Designer, deleting>>

(* The spec or the number is refused, or a request or a statement fails.   *)
SaveFails(d) ==
  /\ save[d].st # "none"
  /\ save' = [save EXCEPT ![d] = NoSave]
  /\ UNCHANGED <<Tables, Designer, deleting, act, raced>>

-----------------------------------------------------------------------------
(* POST /chains/:id/versions/activate *)

(* UPDATE ... SET active = false, of all rows of the chain, begins.        *)
ActivateStarts(a, c, n) ==
  /\ act[a].st = "none" /\ c \in exists
  /\ act' = [act EXCEPT ![a] = [st |-> "clearing", chain |-> c, n |-> n,
                                seen |-> Committed(c), overtaken |-> FALSE]]
  /\ UNCHANGED <<Tables, Designer, deleting, save, raced>>

(* It holds the rows that are still there. *)
ActivateClears(a) ==
  LET c == act[a].chain IN
  /\ act[a].st = "clearing" /\ act[a].seen \cap Held(c) = {}
  /\ act' = [act EXCEPT ![a].st = "cleared", ![a].seen = @ \cap Committed(c)]
  /\ UNCHANGED <<Tables, Designer, deleting, save, raced>>

(* UPDATE ... SET active = true found its row; otherwise not_found, and    *)
(* the transaction is rolled back.                                         *)
TargetFound(a) == act[a].n \in Committed(act[a].chain)

ActivateCommits(a) ==
  LET c == act[a].chain IN
  /\ act[a].st = "cleared" /\ TargetFound(a)
  /\ versions' = [versions EXCEPT ![c] = {[v EXCEPT !.active = @ \/ v.n = act[a].n] :
                                            v \in Cleared(@, act[a].seen)}]
  /\ raced' = IF act[a].overtaken THEN raced \cup {c} ELSE raced \ {c}
  /\ act' = [act EXCEPT ![a] = NoActivation]
  /\ UNCHANGED <<unborn, exists, Designer, deleting, save>>

ActivateFails(a) ==
  /\ act[a].st # "none"
  /\ act' = [act EXCEPT ![a] = NoActivation]
  /\ UNCHANGED <<Tables, Designer, deleting, save, raced>>

-----------------------------------------------------------------------------
Browses(d) ==
  \/ \E c \in Chains : Select(d, c) \/ Create(d, c)
  \/ \E i \in 1 .. Len(loads[d]) : LoadAnswers(d, i) \/ LoadFails(d, i)
  \/ Refilter(d) \/ Refresh(d) \/ Edit(d) \/ RemoveStep(d) \/ DeleteAnswers(d)

Saves(d) ==
  \/ SaveSpec(d) \/ SaveLists(d) \/ SaveFails(d)
  \/ Inserts(d) \/ SweepStarts(d) \/ SweepCommits(d)

Activates(a) ==
  \/ \E c \in Chains, n \in Numbers : ActivateStarts(a, c, n)
  \/ ActivateClears(a) \/ ActivateCommits(a) \/ ActivateFails(a)

Next ==
  \/ \E d \in Consoles : Browses(d) \/ Saves(d) \/ Delete(d)
  \/ \E a \in Callers : Activates(a)

Spec == Init /\ [][Next]_vars

-----------------------------------------------------------------------------
(* Every variable keeps its shape.                                         *)
TypeOK ==
  /\ unborn \in SUBSET Chains /\ exists \in SUBSET Chains
  /\ versions \in [Chains -> SUBSET Version]
  /\ act \in [Callers -> Activation]
  /\ known \in [Consoles -> SUBSET Chains]
  /\ sel \in [Consoles -> Chains \cup {NoChain}]
  /\ steps \in [Consoles -> Origins]
  /\ last \in [Consoles -> Chains \cup {NoChain}]
  /\ deleting \in [Consoles -> Chains \cup {NoChain}]
  /\ loads \in [Consoles -> Seq(Chains)]
  /\ save \in [Consoles -> Save]
  /\ astray \in [Consoles -> BOOLEAN]
  /\ raced \in SUBSET Chains

(* At most one version of a chain is active, whatever saves and            *)
(* activations overlap: the number a designer took keeps two saves apart.  *)
(* Only an activation that a save overtakes leaves two, until the next     *)
(* save or activation of the chain.                                        *)
OneActiveVersion ==
  \A c \in Chains \ raced : \A v, w \in Active(c) : v = w

(* A chain that can be run stays so until it is deleted: a save or an      *)
(* activation that fails, or meets another, never leaves it without an     *)
(* active version.                                                         *)
StaysRunnable ==
  [][\A c \in exists' : Active(c) # {} => Active(c)' # {}]_vars

(* What a save posts to a chain are steps that were loaded from it or made *)
(* while it was selected, however late lists, saves and deletions are      *)
(* answered and whatever is selected meanwhile - unless at the click steps *)
(* were still being loaded, or the last load had failed, been overtaken,   *)
(* or never been made, for a chain just created.                           *)
SavesGoHome ==
  \A d \in Consoles :
    save[d].st = "none" \/ save[d].astray \/ save[d].of \subseteq {save[d].chain}
=============================================================================
