----------------------------- MODULE ChainProofs -----------------------------
(***************************************************************************)
(* Proofs about chains: the library they are kept in and the engine that   *)
(* runs them.                                                              *)
(*                                                                         *)
(* The library, for any consoles, clients and chains and any bounds: a     *)
(* designer posts steps only to the chain they belong to, a chain has at   *)
(* most one active version, and it stays runnable.  Inv is inductive:      *)
(* Steady says what the shown steps are while the designer is not astray,  *)
(* and Numbered with Saving that the numbers of a chain have no gap, so    *)
(* that two transactions never hold a row of it uncommitted.               *)
(*                                                                         *)
(* The engine, for any chains and any bound on threads: the types, and     *)
(* that nothing is dispatched after a stop.  ShapeInv is what keeps the    *)
(* stacks: a frame stands on one that may call its step, and a step lies   *)
(* deeper than the other frames of its runner.                             *)
(* For chains without a retry below a parallel step: only a stop takes one *)
(* down, and a retry repeats what failed in it.  EngineInv is inductive;   *)
(* FlagInv says when the flags are set and TreeInv which threads there are.*)
(* For any chains again: no threads wait only for one another, since by    *)
(* WaitInv branches stand deeper than who waits for them; the rows of a    *)
(* run are stored all at once or not at all; and after a stop every thread *)
(* counts down.                                                            *)
(***************************************************************************)
EXTENDS ChainLibrary, ChainEngine, WellFoundedInduction, FiniteSetTheorems, TLAPS

Born ==
  /\ exists \cap unborn = {}
  /\ \A d \in Consoles :
       /\ known[d] \cap unborn = {}
       /\ sel[d] \notin unborn
       /\ save[d].chain \notin unborn

Steady ==
  \A d \in Consoles : ~astray[d] =>
    /\ loads[d] = <<>> => steps[d] \subseteq {last[d]} /\ (sel[d] # NoChain => last[d] = sel[d])
    /\ loads[d] # <<>> => Len(loads[d]) = 1 /\ (sel[d] # NoChain => loads[d][1] = sel[d])

\* A number has one row, and the numbers below it have theirs.
Numbered ==
  \A c \in Chains :
    /\ \A v, w \in versions[c] : v.n = w.n => v = w
    /\ \A n \in Committed(c) : \A k \in 1 .. n : k \in Committed(c)

Follows(c, n) == n = 1 \/ n - 1 \in Committed(c)

Inserted(d) == save[d].st \in {"inserted", "sweeping"}

Saving ==
  \A d \in Consoles :
    /\ save[d].st # "none" => save[d].chain \in Chains
    /\ save[d].st \in {"posting", "inserted", "sweeping"} =>
         /\ save[d].n \in Numbers
         /\ save[d].chain \in exists => Follows(save[d].chain, save[d].n)
    /\ Inserted(d) =>
         /\ save[d].chain \in exists
         /\ save[d].n \notin Committed(save[d].chain)
         /\ \A e \in Consoles \ {d} : Inserted(e) => save[e].chain # save[d].chain
    /\ save[d].st = "sweeping" => Committed(save[d].chain) \subseteq save[d].seen

Activating ==
  \A a \in Callers : act[a].st # "none" =>
    /\ act[a].chain \in Chains
    /\ ~act[a].overtaken => Committed(act[a].chain) \subseteq act[a].seen

Versioned == Numbered /\ Saving /\ Activating /\ OneActiveVersion

Inv == TypeOK /\ Born /\ Steady /\ SavesGoHome /\ Versioned

-----------------------------------------------------------------------------
(* The records and the rows *)

LEMMA NoSaveType == NoSave \in Save /\ NoSave.st = "none" /\ NoSave.chain = NoChain
BY LibraryAssumption DEF NoSave, Save, Origins

LEMMA NoActivationType == NoActivation \in Activation /\ NoActivation.st = "none"
BY LibraryAssumption DEF NoActivation, Activation

LEMMA ClearedRows ==
  ASSUME NEW rows \in SUBSET Version, NEW ns \in SUBSET Numbers
  PROVE  /\ Cleared(rows, ns) \in SUBSET Version
         /\ {v.n : v \in Cleared(rows, ns)} = {v.n : v \in rows}
         /\ \A v \in Cleared(rows, ns) : v.n \in ns => ~v.active
         /\ (\A v, w \in rows : v.n = w.n => v = w)
            => \A v, w \in Cleared(rows, ns) : v.n = w.n => v = w
<1> DEFINE f(w) == [w EXCEPT !.active = @ /\ w.n \notin ns]
<1>1. \A w \in rows : /\ f(w) \in Version
                      /\ f(w).n = w.n
                      /\ w.n \in ns => ~f(w).active
  <2> SUFFICES ASSUME NEW w \in rows
               PROVE  f(w) \in Version /\ f(w).n = w.n /\ (w.n \in ns => ~f(w).active)
    OBVIOUS
  <2>1. w \in Version
    OBVIOUS
  <2>2. f(w).n = w.n /\ f(w).active = (w.active /\ w.n \notin ns)
    BY <2>1 DEF Version
  <2> DEFINE b == w.active /\ w.n \notin ns
  <2>3. b \in BOOLEAN
    OBVIOUS
  <2> HIDE DEF b
  <2>4. [w EXCEPT !.active = b] \in Version
    BY <2>1, <2>3 DEF Version
  <2>5. f(w) \in Version
    BY <2>4 DEF b
  <2> QED
    BY <2>2, <2>5
<1>2. Cleared(rows, ns) = {f(w) : w \in rows}
  BY DEF Cleared
<1> HIDE DEF f
<1>3. Cleared(rows, ns) \in SUBSET Version
  BY <1>1, <1>2
<1>4. {v.n : v \in Cleared(rows, ns)} = {v.n : v \in rows}
  BY <1>1, <1>2
<1> QED
  BY <1>1, <1>2, <1>3, <1>4

LEMMA ActivatedRow ==
  ASSUME NEW v \in Version, NEW n
  PROVE  LET row == [v EXCEPT !.active = @ \/ v.n = n]
         IN  row \in Version /\ row.n = v.n /\ row.active = (v.active \/ v.n = n)
<1> DEFINE b == v.active \/ v.n = n
<1>1. b \in BOOLEAN
  BY DEF Version
<1>2. [v EXCEPT !.active = @ \/ v.n = n].n = v.n /\ [v EXCEPT !.active = @ \/ v.n = n].active = b
  BY DEF Version
<1> HIDE DEF b
<1>3. [v EXCEPT !.active = b] \in Version
  BY <1>1 DEF Version
<1> QED
  BY <1>2, <1>3 DEF b

-----------------------------------------------------------------------------
(* Types *)

DesignerTypes ==
  /\ known \in [Consoles -> SUBSET Chains]
  /\ sel \in [Consoles -> Chains \cup {NoChain}]
  /\ steps \in [Consoles -> Origins]
  /\ last \in [Consoles -> Chains \cup {NoChain}]
  /\ loads \in [Consoles -> Seq(Chains)]
  /\ astray \in [Consoles -> BOOLEAN]

TableTypes ==
  /\ unborn \in SUBSET Chains /\ exists \in SUBSET Chains
  /\ versions \in [Chains -> SUBSET Version]

SharedTypes ==
  /\ act \in [Callers -> Activation]
  /\ save \in [Consoles -> Save]
  /\ raced \in SUBSET Chains

LEMMA TypesSplit ==
  TypeOK <=> /\ DesignerTypes /\ TableTypes /\ SharedTypes
             /\ deleting \in [Consoles -> Chains \cup {NoChain}]
BY DEF TypeOK, DesignerTypes, TableTypes, SharedTypes

LEMMA WithoutType ==
  ASSUME NEW s \in Seq(Chains), NEW i \in 1 .. Len(s)
  PROVE  Without(s, i) \in Seq(Chains) /\ Len(Without(s, i)) = Len(s) - 1
BY DEF Without

LEMMA ShowsTypes ==
  ASSUME DesignerTypes, NEW d \in Consoles, NEW c \in Chains \cup {NoChain}, NEW s \in Origins,
         Shows(d, c, s)
  PROVE  /\ sel' \in [Consoles -> Chains \cup {NoChain}]
         /\ steps' \in [Consoles -> Origins]
         /\ loads' \in [Consoles -> Seq(Chains)]
         /\ astray' \in [Consoles -> BOOLEAN]
<1>1. sel' \in [Consoles -> Chains \cup {NoChain}] /\ steps' \in [Consoles -> Origins]
  BY DEF DesignerTypes, Shows
<1>2. loads' \in [Consoles -> Seq(Chains)]
  <2>1. CASE loads' = loads
    BY <2>1 DEF DesignerTypes
  <2>2. CASE c \in Chains /\ loads' = [loads EXCEPT ![d] = Append(@, c)]
    <3>1. Append(loads[d], c) \in Seq(Chains)
      BY <2>2 DEF DesignerTypes
    <3> QED
      BY <2>2, <3>1 DEF DesignerTypes
  <2> QED
    BY <2>1, <2>2 DEF Shows
<1>3. astray' \in [Consoles -> BOOLEAN]
  BY DEF DesignerTypes, Shows
<1> QED
  BY <1>1, <1>2, <1>3

LEMMA SettlesTypes ==
  ASSUME DesignerTypes, NEW d \in Consoles, NEW ks \in SUBSET Chains, NEW s \in Origins,
         Settles(d, ks, s), last' = last
  PROVE  DesignerTypes'
<1>1. known' \in [Consoles -> SUBSET Chains]
  BY DEF DesignerTypes, Settles
<1>2. PICK c \in Chains \cup {NoChain}, t \in Origins : Shows(d, c, t)
  BY DEF Settles, Origins
<1> QED
  BY <1>1, <1>2, ShowsTypes DEF DesignerTypes

LEMMA DesignerTypesKept == TypeOK /\ [Next]_vars => DesignerTypes'
<1> SUFFICES ASSUME TypeOK, [Next]_vars PROVE DesignerTypes'
  OBVIOUS
<1> USE TypesSplit
<1>1. ASSUME NEW d \in Consoles, NEW c \in Chains, Select(d, c) PROVE DesignerTypes'
  <2>1. steps[d] \in Origins
    BY DEF DesignerTypes
  <2> QED
    BY <1>1, <2>1, ShowsTypes DEF Select, DesignerTypes
<1>2. ASSUME NEW d \in Consoles, NEW c \in Chains, Create(d, c) PROVE DesignerTypes'
  BY <1>2 DEF Create, DesignerTypes
<1>3. ASSUME NEW d \in Consoles, NEW i \in 1 .. Len(loads[d]), LoadAnswers(d, i) PROVE DesignerTypes'
  <2>1. loads[d] \in Seq(Chains) /\ loads[d][i] \in Chains
    BY DEF DesignerTypes
  <2>2. Loaded(d, loads[d][i]) \in Origins
    BY <2>1 DEF Loaded, Origins
  <2>3. loads' \in [Consoles -> Seq(Chains)]
    BY <1>3, <2>1, WithoutType DEF LoadAnswers, DesignerTypes
  <2>4. astray' \in [Consoles -> BOOLEAN]
    BY <1>3 DEF LoadAnswers, DesignerTypes
  <2> QED
    BY <1>3, <2>1, <2>2, <2>3, <2>4 DEF LoadAnswers, DesignerTypes
<1>4. ASSUME NEW d \in Consoles, NEW i \in 1 .. Len(loads[d]), LoadFails(d, i) PROVE DesignerTypes'
  BY <1>4, WithoutType DEF LoadFails, DesignerTypes
<1>5. ASSUME NEW d \in Consoles, Refilter(d) PROVE DesignerTypes'
  <2>1. PICK c \in known[d] \cup {NoChain} : Shows(d, c, {})
    BY <1>5 DEF Refilter
  <2>2. c \in Chains \cup {NoChain} /\ {} \in Origins
    BY DEF DesignerTypes, Origins
  <2> QED
    BY <1>5, <2>1, <2>2, ShowsTypes DEF Refilter, DesignerTypes
<1>6. ASSUME NEW d \in Consoles, Refresh(d) PROVE DesignerTypes'
  <2>1. steps[d] \in Origins /\ exists \in SUBSET Chains
    BY DEF DesignerTypes, TableTypes
  <2>2. CASE Settles(d, exists, steps[d])
    BY <1>6, <2>1, <2>2, SettlesTypes DEF Refresh
  <2>3. CASE known' = [known EXCEPT ![d] = exists] /\ UNCHANGED <<sel, steps, loads, astray>>
    BY <1>6, <2>1, <2>3 DEF Refresh, DesignerTypes
  <2> QED
    BY <1>6, <2>2, <2>3 DEF Refresh
<1>7. ASSUME NEW d \in Consoles, Edit(d) PROVE DesignerTypes'
  BY <1>7 DEF Edit, DesignerTypes, Origins
<1>8. ASSUME NEW d \in Consoles, RemoveStep(d) PROVE DesignerTypes'
  BY <1>8 DEF RemoveStep, DesignerTypes, Origins
<1>9. ASSUME NEW d \in Consoles, DeleteAnswers(d) PROVE DesignerTypes'
  <2>1. known[d] \ {deleting[d]} \in SUBSET Chains /\ {} \in Origins
    BY DEF DesignerTypes, Origins
  <2>2. CASE Settles(d, known[d] \ {deleting[d]}, {}) /\ UNCHANGED last
    BY <2>1, <2>2, SettlesTypes
  <2> QED
    BY <1>9, <2>2 DEF DeleteAnswers, Designer, DesignerTypes
<1>10. CASE UNCHANGED Designer
  BY <1>10 DEF Designer, DesignerTypes
<1>11. ASSUME NEW d \in Consoles, Saves(d) \/ Delete(d) PROVE UNCHANGED Designer
  BY <1>11 DEF Saves, SaveSpec, SaveLists, SaveFails, Inserts, SweepStarts, SweepCommits, Delete
<1>12. ASSUME NEW a \in Callers, Activates(a) PROVE UNCHANGED Designer
  BY <1>12 DEF Activates, ActivateStarts, ActivateClears, ActivateCommits, ActivateFails
<1>13. UNCHANGED vars => UNCHANGED Designer
  BY DEF vars, Designer
<1> QED
  BY <1>1, <1>2, <1>3, <1>4, <1>5, <1>6, <1>7, <1>8, <1>9, <1>10, <1>11, <1>12, <1>13
     DEF Next, Browses

LEMMA TableTypesKept == Inv /\ [Next]_vars => TableTypes'
<1> SUFFICES ASSUME Inv, [Next]_vars PROVE TableTypes'
  OBVIOUS
<1>0. TableTypes /\ SharedTypes /\ Saving
  BY TypesSplit DEF Inv, Versioned
<1>1. ASSUME NEW d \in Consoles, NEW c \in Chains, Create(d, c) PROVE TableTypes'
  BY <1>0, <1>1 DEF Create, TableTypes
<1>2. ASSUME NEW d \in Consoles, Delete(d) PROVE TableTypes'
  BY <1>0, <1>2 DEF Delete, TableTypes
<1>3. ASSUME NEW d \in Consoles, SweepCommits(d) PROVE TableTypes'
  <2> DEFINE c == save[d].chain
             new == [n |-> save[d].n, active |-> TRUE]
             rows == Cleared(versions[c], save[d].seen) \cup {new}
  <2>1. save[d] \in Save /\ c \in Chains /\ save[d].n \in Numbers
    BY <1>0, <1>3 DEF SharedTypes, Saving, SweepCommits
  <2>2. versions' = [versions EXCEPT ![c] = rows]
    BY <1>3 DEF SweepCommits
  <2>3. versions[c] \in SUBSET Version /\ save[d].seen \in SUBSET Numbers
    BY <1>0, <2>1 DEF TableTypes, Save
  <2>4. new \in Version
    BY <2>1 DEF Version
  <2>5. rows \in SUBSET Version
    BY <2>3, <2>4, ClearedRows
  <2> QED
    BY <1>0, <1>3, <2>2, <2>5 DEF SweepCommits, TableTypes
<1>4. ASSUME NEW a \in Callers, ActivateCommits(a) PROVE TableTypes'
  <2> DEFINE c == act[a].chain
             f(v) == [v EXCEPT !.active = @ \/ v.n = act[a].n]
             old == Cleared(versions[c], act[a].seen)
  <2>1. act[a] \in Activation /\ c \in Chains
    BY <1>0, <1>4 DEF SharedTypes, Inv, Versioned, Activating, ActivateCommits
  <2>2. old \in SUBSET Version
    BY <1>0, <2>1, ClearedRows DEF TableTypes, Activation
  <2>3. \A v \in old : f(v) \in Version
    BY <2>2, ActivatedRow
  <2>4. versions' = [versions EXCEPT ![c] = {f(v) : v \in old}]
    BY <1>4 DEF ActivateCommits
  <2> HIDE DEF f, old
  <2>5. {f(v) : v \in old} \in SUBSET Version
    BY <2>3
  <2> QED
    BY <1>0, <1>4, <2>4, <2>5 DEF ActivateCommits, TableTypes
<1>5. CASE UNCHANGED Tables
  BY <1>0, <1>5 DEF Tables, TableTypes
<1>6. ASSUME NEW d \in Consoles, NEW c \in Chains, Select(d, c) PROVE UNCHANGED Tables
  BY <1>6 DEF Select
<1>7. ASSUME NEW d \in Consoles, NEW i \in 1 .. Len(loads[d]), LoadAnswers(d, i) \/ LoadFails(d, i)
      PROVE  UNCHANGED Tables
  BY <1>7 DEF LoadAnswers, LoadFails
<1>8. ASSUME NEW d \in Consoles,
             Refilter(d) \/ Refresh(d) \/ Edit(d) \/ RemoveStep(d) \/ DeleteAnswers(d)
      PROVE  UNCHANGED Tables
  BY <1>8 DEF Refilter, Refresh, Edit, RemoveStep, DeleteAnswers
<1>9. ASSUME NEW d \in Consoles,
             SaveSpec(d) \/ SaveLists(d) \/ SaveFails(d) \/ Inserts(d) \/ SweepStarts(d)
      PROVE  UNCHANGED Tables
  BY <1>9 DEF SaveSpec, SaveLists, SaveFails, Inserts, SweepStarts
<1>10. ASSUME NEW a \in Callers, Activates(a), ~ActivateCommits(a) PROVE UNCHANGED Tables
  BY <1>10 DEF Activates, ActivateStarts, ActivateClears, ActivateFails
<1>11. UNCHANGED vars => UNCHANGED Tables
  BY DEF vars, Tables
<1> QED
  BY <1>1, <1>2, <1>3, <1>4, <1>5, <1>6, <1>7, <1>8, <1>9, <1>10, <1>11
     DEF Next, Browses, Saves

LEMMA SharedTypesKept == Inv /\ [Next]_vars => SharedTypes'
<1> SUFFICES ASSUME Inv, [Next]_vars PROVE SharedTypes'
  OBVIOUS
<1>0. TableTypes /\ SharedTypes /\ DesignerTypes /\ Saving /\ Activating
  BY TypesSplit DEF Inv, Versioned
<1>a. \A d \in Consoles : save[d] \in Save
  BY <1>0 DEF SharedTypes
<1>b. \A a \in Callers : act[a] \in Activation
  BY <1>0 DEF SharedTypes
<1>c. \A c \in Chains : Committed(c) \in SUBSET Numbers
  BY <1>0 DEF TableTypes, Committed, Version
<1>1. ASSUME NEW d \in Consoles, NEW s \in Origins, Begins(d, s) PROVE save' \in [Consoles -> Save]
  <2> DEFINE new == [NoSave EXCEPT !.st = "listing", !.chain = sel[d], !.of = s,
                                   !.astray = astray[d] \/ loads[d] # <<>>]
             b == astray[d] \/ loads[d] # <<>>
  <2>1. b \in BOOLEAN
    BY <1>0 DEF DesignerTypes
  <2>2. sel[d] \in Chains \cup {NoChain}
    BY <1>0 DEF DesignerTypes
  <2> HIDE DEF b
  <2>3. [NoSave EXCEPT !.st = "listing", !.chain = sel[d], !.of = s, !.astray = b] \in Save
    BY <2>1, <2>2, NoSaveType DEF Save
  <2>4. new \in Save
    BY <2>3 DEF b
  <2> HIDE DEF new
  <2>5. save' = [save EXCEPT ![d] = new]
    BY <1>1 DEF Begins, new
  <2> QED
    BY <2>4, <2>5, <1>0 DEF SharedTypes
<1>2. ASSUME NEW d \in Consoles, SaveSpec(d) PROVE SharedTypes'
  BY <1>0, <1>1, <1>2 DEF SaveSpec, DesignerTypes, SharedTypes
<1>3. ASSUME NEW d \in Consoles, RemoveStep(d) PROVE SharedTypes'
  <2>1. PICK s \in Origins : Begins(d, s) \/ UNCHANGED save
    BY <1>0, <1>3 DEF RemoveStep, DesignerTypes, Origins
  <2> QED
    BY <1>0, <1>1, <1>3, <2>1 DEF RemoveStep, SharedTypes
<1>4. ASSUME NEW d \in Consoles, SaveLists(d) PROVE SharedTypes'
  <2>1. PICK n \in Numbers :
          save' = [save EXCEPT ![d].st = "posting", ![d].n = n, ![d].chain = PostsTo(d)]
    BY <1>4 DEF SaveLists
  <2>2. PostsTo(d) \in Chains \cup {NoChain} /\ n \in 0 .. MaxVersion
    BY <1>a, <2>1 DEF PostsTo, Save, Numbers
  <2> DEFINE new == [save[d] EXCEPT !.st = "posting", !.n = n, !.chain = PostsTo(d)]
  <2>3. new \in Save
    BY <1>a, <2>2 DEF Save
  <2>4. save' = [save EXCEPT ![d] = new]
    BY <1>0, <1>a, <2>1 DEF SharedTypes, Save
  <2> HIDE DEF new
  <2>5. save' \in [Consoles -> Save]
    BY <1>0, <2>3, <2>4 DEF SharedTypes
  <2> QED
    BY <1>0, <1>4, <2>5 DEF SaveLists, SharedTypes
<1>5. ASSUME NEW d \in Consoles, Inserts(d) PROVE SharedTypes'
  BY <1>0, <1>5 DEF Inserts, SharedTypes, Save
<1>6. ASSUME NEW d \in Consoles, SweepStarts(d) PROVE SharedTypes'
  <2>1. Committed(save[d].chain) \in SUBSET Numbers
    BY <1>0, <1>c, <1>6 DEF Saving, SweepStarts
  <2> DEFINE new == [save[d] EXCEPT !.st = "sweeping", !.seen = Committed(save[d].chain)]
  <2>2. new \in Save
    BY <1>a, <2>1 DEF Save
  <2>3. save' = [save EXCEPT ![d] = new]
    BY <1>0, <1>a, <1>6 DEF SweepStarts, SharedTypes, Save
  <2> HIDE DEF new
  <2>4. save' \in [Consoles -> Save]
    BY <1>0, <2>2, <2>3 DEF SharedTypes
  <2> QED
    BY <1>0, <1>6, <2>4 DEF SweepStarts, SharedTypes
<1>7. ASSUME NEW d \in Consoles, SweepCommits(d) PROVE SharedTypes'
  <2> DEFINE c == save[d].chain
             late(a) == act[a].overtaken \/ act[a].chain = c
             f(a) == [act[a] EXCEPT !.overtaken = @ \/ act[a].chain = c]
  <2>1. \A a \in Callers : late(a) \in BOOLEAN
    BY <1>b DEF Activation
  <2>2. \A a \in Callers : f(a) = [act[a] EXCEPT !.overtaken = late(a)]
    BY <1>b DEF Activation
  <2> HIDE DEF late
  <2>3. \A a \in Callers : f(a) \in Activation
    BY <1>b, <2>1, <2>2 DEF Activation
  <2>4. act' = [a \in Callers |-> f(a)]
    BY <1>7 DEF SweepCommits
  <2> HIDE DEF f
  <2> QED
    BY <1>0, <1>7, <2>3, <2>4, NoSaveType DEF SweepCommits, SharedTypes
<1>8. ASSUME NEW d \in Consoles, SaveFails(d) PROVE SharedTypes'
  BY <1>0, <1>8, NoSaveType DEF SaveFails, SharedTypes
<1>9. ASSUME NEW a \in Callers, NEW c \in Chains, NEW n \in Numbers, ActivateStarts(a, c, n)
      PROVE  SharedTypes'
  <2> DEFINE new == [st |-> "clearing", chain |-> c, n |-> n, seen |-> Committed(c),
                     overtaken |-> FALSE]
  <2>1. new \in Activation
    BY <1>c DEF Activation, Numbers
  <2> HIDE DEF new
  <2>2. act' = [act EXCEPT ![a] = new]
    BY <1>9 DEF ActivateStarts, new
  <2> QED
    BY <1>0, <1>9, <2>1, <2>2 DEF ActivateStarts, SharedTypes
<1>10. ASSUME NEW a \in Callers, ActivateClears(a) PROVE SharedTypes'
  <2> DEFINE left == act[a].seen \cap Committed(act[a].chain)
             new == [act[a] EXCEPT !.st = "cleared", !.seen = left]
  <2>1. left \in SUBSET Numbers
    BY <1>b, Zenon DEF Activation
  <2>2. new \in Activation
    BY <1>b, <2>1 DEF Activation
  <2>3. act' = [act EXCEPT ![a] = new]
    BY <1>0, <1>b, <1>10 DEF ActivateClears, SharedTypes, Activation
  <2> HIDE DEF new, left
  <2> QED
    BY <1>0, <1>10, <2>2, <2>3 DEF ActivateClears, SharedTypes
<1>11. ASSUME NEW a \in Callers, ActivateCommits(a) PROVE SharedTypes'
  <2>1. act[a].chain \in Chains
    BY <1>0, <1>11 DEF ActivateCommits, Activating
  <2> QED
    BY <1>0, <1>11, <2>1, NoActivationType DEF ActivateCommits, SharedTypes
<1>12. ASSUME NEW a \in Callers, ActivateFails(a) PROVE SharedTypes'
  BY <1>0, <1>12, NoActivationType DEF ActivateFails, SharedTypes
<1>13. CASE UNCHANGED Shared
  BY <1>0, <1>13 DEF Shared, SharedTypes
<1>14. ASSUME NEW d \in Consoles, NEW c \in Chains, Select(d, c) \/ Create(d, c)
       PROVE  UNCHANGED Shared
  BY <1>14 DEF Select, Create
<1>15. ASSUME NEW d \in Consoles, NEW i \in 1 .. Len(loads[d]), LoadAnswers(d, i) \/ LoadFails(d, i)
       PROVE  UNCHANGED Shared
  BY <1>15 DEF LoadAnswers, LoadFails
<1>16. ASSUME NEW d \in Consoles,
              Refilter(d) \/ Refresh(d) \/ Edit(d) \/ DeleteAnswers(d) \/ Delete(d)
       PROVE  UNCHANGED Shared
  BY <1>16 DEF Refilter, Refresh, Edit, DeleteAnswers, Delete
<1>17. UNCHANGED vars => UNCHANGED Shared
  BY DEF vars, Shared
<1> QED
  BY <1>2, <1>3, <1>4, <1>5, <1>6, <1>7, <1>8, <1>9, <1>10, <1>11, <1>12, <1>13, <1>14, <1>15,
     <1>16, <1>17 DEF Next, Browses, Saves, Activates

LEMMA TypesKept == Inv /\ [Next]_vars => TypeOK'
<1> SUFFICES ASSUME Inv, [Next]_vars PROVE deleting' \in [Consoles -> Chains \cup {NoChain}]
  BY DesignerTypesKept, TableTypesKept, SharedTypesKept, TypesSplit DEF Inv, TypeOK, DesignerTypes,
     TableTypes, SharedTypes
<1>1. deleting \in [Consoles -> Chains \cup {NoChain}] /\ sel \in [Consoles -> Chains \cup {NoChain}]
  BY DEF Inv, TypeOK
<1>2. ASSUME NEW d \in Consoles, Delete(d) \/ DeleteAnswers(d)
      PROVE  deleting' \in [Consoles -> Chains \cup {NoChain}]
  BY <1>1, <1>2 DEF Delete, DeleteAnswers
<1>3. ASSUME NEW d \in Consoles, Browses(d), ~DeleteAnswers(d) PROVE UNCHANGED deleting
  BY <1>3 DEF Browses, Select, Create, LoadAnswers, LoadFails, Refilter, Refresh, Edit, RemoveStep
<1>4. ASSUME NEW d \in Consoles, Saves(d) PROVE UNCHANGED deleting
  BY <1>4 DEF Saves, SaveSpec, SaveLists, SaveFails, Inserts, SweepStarts, SweepCommits
<1>5. ASSUME NEW a \in Callers, Activates(a) PROVE UNCHANGED deleting
  BY <1>5 DEF Activates, ActivateStarts, ActivateClears, ActivateCommits, ActivateFails
<1> QED
  BY <1>1, <1>2, <1>3, <1>4, <1>5 DEF Next, vars

-----------------------------------------------------------------------------
(* What a designer shows, and what it saves *)

\* The statements of a save keep its chain and its steps.
SameSave(d) ==
  /\ save'[d].chain = save[d].chain /\ save'[d].of = save[d].of
  /\ save'[d].astray = save[d].astray
  /\ \A e \in Consoles \ {d} : save'[e] = save[e]

LEMMA ListsStep ==
  ASSUME save \in [Consoles -> Save], NEW d \in Consoles, SaveLists(d)
  PROVE  /\ SameSave(d) /\ save'[d].st = "posting" /\ save'[d].n \in Numbers
         /\ save'[d].n \in {NextNumber(save[d].chain), 1}
<1>1. PICK n \in {NextNumber(save[d].chain), 1} :
        /\ n \in Numbers
        /\ save' = [save EXCEPT ![d].st = "posting", ![d].n = n, ![d].chain = save[d].chain]
  BY DEF SaveLists, PostsTo
<1>2. save[d] \in Save
  OBVIOUS
<1>3. save' = [save EXCEPT ![d] = [save[d] EXCEPT !.st = "posting", !.n = n, !.chain = save[d].chain]]
  BY <1>1, <1>2 DEF Save
<1>4. save'[d] = [save[d] EXCEPT !.st = "posting", !.n = n, !.chain = save[d].chain]
  BY <1>2, <1>3
<1> QED
  BY <1>1, <1>2, <1>3, <1>4 DEF SameSave, Save

LEMMA InsertsStep ==
  ASSUME save \in [Consoles -> Save], NEW d \in Consoles, Inserts(d)
  PROVE  SameSave(d) /\ save'[d].st = "inserted" /\ save'[d].n = save[d].n
BY DEF Inserts, SameSave, Save

LEMMA SweepStep ==
  ASSUME save \in [Consoles -> Save], NEW d \in Consoles, SweepStarts(d)
  PROVE  /\ SameSave(d) /\ save'[d].st = "sweeping" /\ save'[d].n = save[d].n
         /\ save'[d].seen = Committed(save[d].chain)
BY DEF SweepStarts, SameSave, Save

LEMMA SaveEnds ==
  ASSUME save \in [Consoles -> Save], NEW d \in Consoles, SweepCommits(d) \/ SaveFails(d)
  PROVE  /\ save'[d].st = "none" /\ save'[d].chain = NoChain
         /\ \A e \in Consoles \ {d} : save'[e] = save[e]
BY NoSaveType DEF SweepCommits, SaveFails

LEMMA BeginsStep ==
  ASSUME save \in [Consoles -> Save], NEW d \in Consoles, NEW s, Begins(d, s)
  PROVE  /\ save'[d].st = "listing" /\ save'[d].chain = sel[d] /\ save'[d].of = s
         /\ save'[d].astray = (astray[d] \/ loads[d] # <<>>)
         /\ \A e \in Consoles \ {d} : save'[e] = save[e]
BY DEF Begins, NoSave

LEMMA BornKept == Inv /\ [Next]_vars => Born'
<1> SUFFICES ASSUME Inv, [Next]_vars PROVE Born'
  OBVIOUS
<1>0. Born /\ TypeOK
  BY DEF Inv
<1>a. NoChain \notin unborn /\ NoChain \notin unborn' /\ unborn' \subseteq unborn
  <2>1. unborn' \subseteq unborn
    BY DEF Next, Browses, Saves, Activates, Select, Create, LoadAnswers, LoadFails, Refilter,
           Refresh, Edit, RemoveStep, DeleteAnswers, SaveSpec, SaveLists, SaveFails, Inserts,
           SweepStarts, SweepCommits, Delete, ActivateStarts, ActivateClears, ActivateCommits,
           ActivateFails, Tables, vars
  <2> QED
    BY <1>0, <2>1, LibraryAssumption DEF TypeOK
<1>b. exists' \cap unborn' = {}
  BY <1>0, <1>a DEF Born, Next, Browses, Saves, Activates, Select, Create, LoadAnswers, LoadFails,
         Refilter, Refresh, Edit, RemoveStep, DeleteAnswers, SaveSpec, SaveLists, SaveFails,
         Inserts, SweepStarts, SweepCommits, Delete, ActivateStarts, ActivateClears,
         ActivateCommits, ActivateFails, Tables, vars
<1>1. ASSUME NEW d \in Consoles, NEW ks \in SUBSET Chains, ks \cap unborn = {}, NEW s, Settles(d, ks, s)
      PROVE  \A e \in Consoles : known'[e] \cap unborn = {} /\ sel'[e] \notin unborn
  BY <1>0, <1>1, <1>a DEF Settles, Shows, Born, TypeOK
<1>2. ASSUME NEW d \in Consoles, NEW s, Begins(d, s)
      PROVE  \A e \in Consoles : save'[e].chain \notin unborn
  <2>1. save' = [save EXCEPT ![d] = save'[d]] /\ save'[d].chain = sel[d]
    BY <1>0, <1>2 DEF Begins, TypeOK, NoSave
  <2> QED
    BY <1>0, <2>1 DEF Born, TypeOK
<1>3. \A e \in Consoles : known'[e] \cap unborn' = {} /\ sel'[e] \notin unborn'
  <2>1. ASSUME NEW d \in Consoles, NEW c \in Chains, Select(d, c)
        PROVE  \A e \in Consoles : known'[e] \cap unborn' = {} /\ sel'[e] \notin unborn'
    BY <1>0, <1>a, <2>1 DEF Select, Shows, Born, TypeOK
  <2>2. ASSUME NEW d \in Consoles, NEW c \in Chains, Create(d, c)
        PROVE  \A e \in Consoles : known'[e] \cap unborn' = {} /\ sel'[e] \notin unborn'
    BY <1>0, <1>a, <2>2 DEF Create, Born, TypeOK
  <2>3. ASSUME NEW d \in Consoles, Refilter(d)
        PROVE  \A e \in Consoles : known'[e] \cap unborn' = {} /\ sel'[e] \notin unborn'
    BY <1>0, <1>a, <2>3 DEF Refilter, Shows, Born, TypeOK
  <2>4. ASSUME NEW d \in Consoles, Refresh(d)
        PROVE  \A e \in Consoles : known'[e] \cap unborn' = {} /\ sel'[e] \notin unborn'
    <3>1. CASE Settles(d, exists, steps[d])
      BY <1>0, <1>1, <1>a, <3>1 DEF Born, TypeOK
    <3>2. CASE known' = [known EXCEPT ![d] = exists] /\ UNCHANGED sel
      BY <1>0, <1>a, <3>2 DEF Born, TypeOK
    <3> QED
      BY <2>4, <3>1, <3>2 DEF Refresh
  <2>5. ASSUME NEW d \in Consoles, DeleteAnswers(d)
        PROVE  \A e \in Consoles : known'[e] \cap unborn' = {} /\ sel'[e] \notin unborn'
    <3>1. CASE Settles(d, known[d] \ {deleting[d]}, {})
      <4>1. (known[d] \ {deleting[d]}) \in SUBSET Chains
        BY <1>0 DEF TypeOK
      <4>2. (known[d] \ {deleting[d]}) \cap unborn = {}
        BY <1>0 DEF Born
      <4> QED
        BY <1>1, <1>a, <3>1, <4>1, <4>2
    <3>2. CASE UNCHANGED Designer
      BY <1>0, <1>a, <3>2 DEF Designer, Born
    <3> QED
      BY <2>5, <3>1, <3>2 DEF DeleteAnswers
  <2>6. CASE UNCHANGED <<known, sel>>
    BY <1>0, <1>a, <2>6 DEF Born
  <2>7. ASSUME NEW d \in Consoles, NEW i \in 1 .. Len(loads[d]), LoadAnswers(d, i) \/ LoadFails(d, i)
        PROVE  UNCHANGED <<known, sel>>
    BY <2>7 DEF LoadAnswers, LoadFails
  <2>8. ASSUME NEW d \in Consoles, Edit(d) \/ RemoveStep(d) \/ Saves(d) \/ Delete(d)
        PROVE  UNCHANGED <<known, sel>>
    BY <2>8 DEF Edit, RemoveStep, Saves, SaveSpec, SaveLists, SaveFails, Inserts, SweepStarts,
                SweepCommits, Delete, Designer
  <2>9. ASSUME NEW a \in Callers, Activates(a) PROVE UNCHANGED <<known, sel>>
    BY <2>9 DEF Activates, ActivateStarts, ActivateClears, ActivateCommits, ActivateFails, Designer
  <2>10. UNCHANGED vars => UNCHANGED <<known, sel>>
    BY DEF vars
  <2> QED
    BY <2>1, <2>2, <2>3, <2>4, <2>5, <2>6, <2>7, <2>8, <2>9, <2>10 DEF Next, Browses
<1>4. \A e \in Consoles : save'[e].chain \notin unborn'
  <2>1. ASSUME NEW d \in Consoles, SaveSpec(d) PROVE \A e \in Consoles : save'[e].chain \notin unborn
    BY <1>2, <2>1 DEF SaveSpec
  <2>2. ASSUME NEW d \in Consoles, RemoveStep(d)
        PROVE  \A e \in Consoles : save'[e].chain \notin unborn
    BY <1>0, <1>2, <2>2 DEF RemoveStep, Born
  <2>3. ASSUME NEW d \in Consoles, SaveLists(d) \/ Inserts(d) \/ SweepStarts(d)
        PROVE  \A e \in Consoles : save'[e].chain \notin unborn
    <3>1. SameSave(d)
      BY <1>0, <2>3, ListsStep, InsertsStep, SweepStep DEF TypeOK
    <3> QED
      BY <1>0, <3>1 DEF Born, SameSave
  <2>4. ASSUME NEW d \in Consoles, SweepCommits(d) \/ SaveFails(d)
        PROVE  \A e \in Consoles : save'[e].chain \notin unborn
    BY <1>0, <1>a, <2>4, NoSaveType DEF SweepCommits, SaveFails, Born, TypeOK
  <2>5. UNCHANGED save => \A e \in Consoles : save'[e].chain \notin unborn
    BY <1>0 DEF Born
  <2>6. ASSUME NEW d \in Consoles, Browses(d) \/ Delete(d), ~RemoveStep(d) PROVE UNCHANGED save
    BY <2>6 DEF Browses, Select, Create, LoadAnswers, LoadFails, Refilter, Refresh, Edit,
                DeleteAnswers, Delete, Shared
  <2>7. ASSUME NEW a \in Callers, Activates(a) PROVE UNCHANGED save
    BY <2>7 DEF Activates, ActivateStarts, ActivateClears, ActivateCommits, ActivateFails
  <2>8. \A e \in Consoles : save'[e].chain \notin unborn
    BY <2>1, <2>2, <2>3, <2>4, <2>5, <2>6, <2>7 DEF Next, Saves, vars
  <2> QED
    BY <1>a, <2>8
<1> QED
  BY <1>b, <1>3, <1>4 DEF Born

LEMMA ShowsSteady ==
  ASSUME TypeOK, Steady, NEW d \in Consoles, NEW c \in Chains \cup {NoChain}, NEW s \in Origins,
         s \subseteq steps[d], Shows(d, c, s), last' = last
  PROVE  Steady'
<1>1. \A e \in Consoles \ {d} :
        /\ sel'[e] = sel[e] /\ steps'[e] = steps[e] /\ loads'[e] = loads[e] /\ astray'[e] = astray[e]
  BY DEF Shows, TypeOK
<1>2. sel'[d] = c /\ steps'[d] = s /\ astray'[d] = (astray[d] \/ (c # NoChain /\ loads[d] # <<>>))
  BY DEF Shows, TypeOK
<1>3. CASE c = NoChain
  <2>1. loads' = loads
    BY <1>3 DEF Shows
  <2> QED
    BY <1>1, <1>2, <1>3, <2>1 DEF Steady
<1>4. CASE c # NoChain /\ last[d] = c
  <2>1. loads' = loads
    BY <1>4 DEF Shows
  <2> QED
    BY <1>1, <1>2, <1>4, <2>1 DEF Steady
<1>5. CASE c # NoChain /\ last[d] # c
  <2>1. loads'[d] = Append(loads[d], c) /\ c \in Chains
    BY <1>5 DEF Shows, TypeOK
  <2>2. loads[d] = <<>> => loads'[d] # <<>> /\ Len(loads'[d]) = 1 /\ loads'[d][1] = c
    BY <2>1
  <2> QED
    BY <1>1, <1>2, <1>5, <2>2 DEF Steady
<1> QED
  BY <1>3, <1>4, <1>5

LEMMA SteadyKept == Inv /\ [Next]_vars => Steady'
<1> SUFFICES ASSUME Inv, [Next]_vars PROVE Steady'
  OBVIOUS
<1>0. TypeOK /\ Steady
  BY DEF Inv
<1>a. {} \in Origins /\ \A d \in Consoles : steps[d] \in Origins
  BY <1>0 DEF TypeOK, Origins
<1>1. ASSUME NEW d \in Consoles, NEW ks \in SUBSET Chains, NEW s \in Origins, s \subseteq steps[d],
             Settles(d, ks, s), last' = last
      PROVE  Steady'
  <2>1. PICK c \in Chains \cup {NoChain}, t \in Origins : t \subseteq steps[d] /\ Shows(d, c, t)
    BY <1>1, <1>a DEF Settles
  <2> QED
    BY <1>0, <1>1, <2>1, ShowsSteady
<1>2. ASSUME NEW d \in Consoles, NEW c \in Chains, Select(d, c) PROVE Steady'
  BY <1>0, <1>2, <1>a, ShowsSteady DEF Select
<1>3. ASSUME NEW d \in Consoles, Refilter(d) PROVE Steady'
  <2>1. PICK c \in known[d] \cup {NoChain} : Shows(d, c, {})
    BY <1>3 DEF Refilter
  <2>2. c \in Chains \cup {NoChain}
    BY <1>0 DEF TypeOK
  <2> QED
    BY <1>0, <1>3, <1>a, <2>1, <2>2, ShowsSteady DEF Refilter
<1>4. ASSUME NEW d \in Consoles, Refresh(d) PROVE Steady'
  <2>1. CASE Settles(d, exists, steps[d])
    BY <1>0, <1>1, <1>4, <1>a, <2>1 DEF Refresh, TypeOK
  <2>2. CASE UNCHANGED <<sel, steps, loads, astray>>
    BY <1>0, <1>4, <2>2 DEF Refresh, Steady
  <2> QED
    BY <1>4, <2>1, <2>2 DEF Refresh
<1>5. ASSUME NEW d \in Consoles, DeleteAnswers(d) PROVE Steady'
  <2>1. CASE Settles(d, known[d] \ {deleting[d]}, {}) /\ UNCHANGED last
    <3>1. (known[d] \ {deleting[d]}) \in SUBSET Chains
      BY <1>0 DEF TypeOK
    <3> QED
      BY <1>1, <1>a, <2>1, <3>1
  <2>2. CASE UNCHANGED Designer
    BY <1>0, <2>2 DEF Designer, Steady
  <2> QED
    BY <1>5, <2>1, <2>2 DEF DeleteAnswers
<1>6. ASSUME NEW d \in Consoles, NEW i \in 1 .. Len(loads[d]), LoadAnswers(d, i) PROVE Steady'
  <2> DEFINE c == loads[d][i]
  <2>1. loads[d] \in Seq(Chains) /\ c \in Chains
    BY <1>0 DEF TypeOK
  <2>2. loads'[d] = Without(loads[d], i) /\ Len(loads'[d]) = Len(loads[d]) - 1
    BY <1>0, <1>6, <2>1, WithoutType DEF LoadAnswers, TypeOK
  <2>3. sel'[d] = sel[d] /\ steps'[d] \subseteq {c} /\ last'[d] = c
    BY <1>0, <1>6 DEF LoadAnswers, Loaded, TypeOK
  <2>4. ~astray'[d] => loads'[d] = <<>> /\ (sel'[d] # NoChain => c = sel'[d])
    <3>1. ASSUME ~astray'[d] PROVE Len(loads[d]) = 1 /\ (sel[d] # NoChain => c = sel[d])
      <4>1. astray'[d] = (astray[d] /\ ~(Len(loads[d]) = 1 /\ c = sel[d]))
        BY <1>0, <1>6 DEF LoadAnswers, TypeOK
      <4>2. CASE Len(loads[d]) = 1 /\ c = sel[d]
        BY <4>2
      <4>3. CASE ~astray[d]
        <5>1. loads[d] # <<>>
          BY <2>1
        <5>2. Len(loads[d]) = 1 /\ (sel[d] # NoChain => loads[d][1] = sel[d])
          BY <1>0, <4>3, <5>1 DEF Steady
        <5> QED
          BY <5>2
      <4> QED
        BY <3>1, <4>1, <4>2, <4>3
    <3>2. Len(loads[d]) = 1 => loads'[d] = <<>>
      BY <2>1, <2>2, WithoutType
    <3> QED
      BY <2>3, <3>1, <3>2
  <2>5. \A e \in Consoles \ {d} :
          /\ sel'[e] = sel[e] /\ steps'[e] = steps[e] /\ loads'[e] = loads[e]
          /\ astray'[e] = astray[e] /\ last'[e] = last[e]
    BY <1>0, <1>6 DEF LoadAnswers, TypeOK
  <2> HIDE DEF c
  <2> QED
    BY <1>0, <2>3, <2>4, <2>5 DEF Steady
<1>7. ASSUME NEW d \in Consoles, NEW i \in 1 .. Len(loads[d]), LoadFails(d, i) PROVE Steady'
  <2>1. astray'[d]
    BY <1>0, <1>7 DEF LoadFails, TypeOK
  <2>2. \A e \in Consoles \ {d} :
          /\ sel'[e] = sel[e] /\ steps'[e] = steps[e] /\ loads'[e] = loads[e]
          /\ astray'[e] = astray[e] /\ last'[e] = last[e]
    BY <1>0, <1>7 DEF LoadFails, TypeOK
  <2> QED
    BY <1>0, <2>1, <2>2 DEF Steady
<1>8. ASSUME NEW d \in Consoles, Edit(d) PROVE Steady'
  <2>1. UNCHANGED <<sel, last, loads, astray>>
    BY <1>8 DEF Edit
  <2>2. /\ steps'[d] \subseteq steps[d] \cup ({sel[d]} \ {NoChain})
        /\ \A e \in Consoles \ {d} : steps'[e] = steps[e]
    BY <1>0, <1>8 DEF Edit, TypeOK
  <2> QED
    BY <1>0, <2>1, <2>2 DEF Steady
<1>9. ASSUME NEW d \in Consoles, NEW c \in Chains, Create(d, c) PROVE Steady'
  <2>1. astray'[d] /\ UNCHANGED <<steps, last, loads>>
    BY <1>0, <1>9 DEF Create, TypeOK
  <2>2. \A e \in Consoles \ {d} : sel'[e] = sel[e] /\ astray'[e] = astray[e]
    BY <1>0, <1>9 DEF Create, TypeOK
  <2> QED
    BY <1>0, <2>1, <2>2 DEF Steady
<1>10. ASSUME NEW d \in Consoles, RemoveStep(d) PROVE Steady'
  <2>1. UNCHANGED <<sel, last, loads, astray>>
    BY <1>10 DEF RemoveStep
  <2>2. \A e \in Consoles : steps'[e] \subseteq steps[e]
    BY <1>0, <1>10 DEF RemoveStep, TypeOK
  <2> QED
    BY <1>0, <2>1, <2>2 DEF Steady
<1>11. CASE UNCHANGED Designer
  BY <1>0, <1>11 DEF Designer, Steady
<1>12. ASSUME NEW d \in Consoles, Saves(d) \/ Delete(d) PROVE UNCHANGED Designer
  BY <1>12 DEF Saves, SaveSpec, SaveLists, SaveFails, Inserts, SweepStarts, SweepCommits, Delete
<1>13. ASSUME NEW a \in Callers, Activates(a) PROVE UNCHANGED Designer
  BY <1>13 DEF Activates, ActivateStarts, ActivateClears, ActivateCommits, ActivateFails
<1>14. UNCHANGED vars => UNCHANGED Designer
  BY DEF vars, Designer
<1> QED
  BY <1>2, <1>3, <1>4, <1>5, <1>6, <1>7, <1>8, <1>9, <1>10, <1>11, <1>12, <1>13, <1>14
     DEF Next, Browses

LEMMA HomeKept == Inv /\ [Next]_vars => SavesGoHome'
<1> SUFFICES ASSUME Inv, [Next]_vars PROVE SavesGoHome'
  OBVIOUS
<1>0. save \in [Consoles -> Save] /\ Steady /\ SavesGoHome
  BY DEF Inv, TypeOK
<1>1. ASSUME NEW d \in Consoles, NEW s, s \subseteq steps[d], Begins(d, s) PROVE SavesGoHome'
  <2>1. ~save'[d].astray => save'[d].of \subseteq {save'[d].chain}
    <3>1. sel[d] # NoChain
      BY <1>1 DEF Begins
    <3>2. save'[d].astray = (astray[d] \/ loads[d] # <<>>) /\ save'[d].of = s /\ save'[d].chain = sel[d]
      BY <1>0, <1>1, BeginsStep
    <3>3. ~astray[d] /\ loads[d] = <<>> => steps[d] \subseteq {sel[d]}
      BY <1>0, <3>1 DEF Steady
    <3> QED
      BY <1>1, <3>2, <3>3
  <2> QED
    BY <1>0, <1>1, <2>1, BeginsStep DEF SavesGoHome
<1>2. ASSUME NEW d \in Consoles, SaveSpec(d) PROVE SavesGoHome'
  BY <1>1, <1>2 DEF SaveSpec
<1>3. ASSUME NEW d \in Consoles, RemoveStep(d) PROVE SavesGoHome'
  <2>1. PICK s : s \subseteq steps[d] /\ (Begins(d, s) \/ UNCHANGED save)
    BY <1>3 DEF RemoveStep
  <2> QED
    BY <1>0, <1>1, <2>1 DEF SavesGoHome
<1>4. ASSUME NEW d \in Consoles, SaveLists(d) \/ Inserts(d) \/ SweepStarts(d) PROVE SavesGoHome'
  <2>1. SameSave(d) /\ save[d].st # "none"
    BY <1>0, <1>4, ListsStep, InsertsStep, SweepStep DEF SaveLists, Inserts, SweepStarts
  <2> QED
    BY <1>0, <2>1 DEF SavesGoHome, SameSave
<1>5. ASSUME NEW d \in Consoles, SweepCommits(d) \/ SaveFails(d) PROVE SavesGoHome'
  BY <1>0, <1>5, SaveEnds DEF SavesGoHome
<1>6. CASE UNCHANGED save
  BY <1>0, <1>6 DEF SavesGoHome
<1>7. ASSUME NEW d \in Consoles, Browses(d) \/ Delete(d), ~RemoveStep(d) PROVE UNCHANGED save
  BY <1>7 DEF Browses, Select, Create, LoadAnswers, LoadFails, Refilter, Refresh, Edit,
              DeleteAnswers, Delete, Shared
<1>8. ASSUME NEW a \in Callers, Activates(a) PROVE UNCHANGED save
  BY <1>8 DEF Activates, ActivateStarts, ActivateClears, ActivateCommits, ActivateFails
<1> QED
  BY <1>2, <1>3, <1>4, <1>5, <1>6, <1>7, <1>8 DEF Next, Saves, vars

-----------------------------------------------------------------------------
(* The versions of a chain *)

LEMMA Greatest ==
  ASSUME NEW S \in SUBSET Numbers, S # {}
  PROVE  \E k \in S : \A n \in S : n <= k
<1> DEFINE T == {MaxVersion - n : n \in S}
<1>1. \A n \in S : n \in Nat /\ n <= MaxVersion /\ MaxVersion - n \in Nat
  BY LibraryAssumption DEF Numbers
<1>2. T \in SUBSET Nat /\ T # {}
  BY <1>1
<1> HIDE DEF T
<1>3. PICK t \in T : \A u \in T : <<u, t>> \notin OpToRel(<, Nat)
  BY <1>2, WFMin, NatLessThanWellFounded
<1>4. \A u \in T : ~(u < t)
  BY <1>2, <1>3 DEF OpToRel
<1>5. t \in T /\ \A u \in T : t <= u
  BY <1>2, <1>4
<1> USE DEF T
<1>6. PICK k \in S : t = MaxVersion - k
  BY <1>5
<1>7. \A n \in S : MaxVersion - k <= MaxVersion - n
  BY <1>5, <1>6
<1> QED
  BY <1>1, <1>6, <1>7, LibraryAssumption

LEMMA NextFollows ==
  ASSUME NEW c \in Chains, versions[c] \in SUBSET Version, NextNumber(c) \in Numbers
  PROVE  Follows(c, NextNumber(c))
<1>1. CASE versions[c] = {}
  BY <1>1 DEF NextNumber, Follows
<1>2. CASE versions[c] # {}
  <2> DEFINE m == CHOOSE k \in Committed(c) : \A n \in Committed(c) : n <= k
  <2>1. Committed(c) \in SUBSET Numbers /\ Committed(c) # {}
    BY <1>2 DEF Committed, Version
  <2>2. \E k \in Committed(c) : \A n \in Committed(c) : n <= k
    BY <2>1, Greatest
  <2>3. m \in Committed(c)
    BY <2>2
  <2>4. NextNumber(c) = 1 + m
    BY <1>2 DEF NextNumber
  <2>5. m \in Nat
    BY <2>1, <2>3 DEF Numbers
  <2> HIDE DEF m
  <2> QED
    BY <2>3, <2>4, <2>5 DEF Follows
<1> QED
  BY <1>1, <1>2

LEMMA OneGap ==
  ASSUME Numbered, NEW c \in Chains, NEW m \in Numbers, NEW n \in Numbers,
         Follows(c, m), Follows(c, n), m \notin Committed(c), n \notin Committed(c)
  PROVE  m = n
<1>1. ASSUME NEW i \in Numbers, NEW j \in Numbers, i < j, Follows(c, j), i \notin Committed(c)
      PROVE  FALSE
  <2>1. j - 1 \in Committed(c)
    BY <1>1 DEF Follows, Numbers
  <2>2. i \in 1 .. (j - 1)
    BY <1>1, LibraryAssumption DEF Numbers
  <2> QED
    BY <1>1, <2>1, <2>2 DEF Numbered
<1> QED
  BY <1>1, LibraryAssumption DEF Numbers

LEMMA VersionsMove ==
  ASSUME [Next]_vars
  PROVE  \/ \E d \in Consoles : SweepCommits(d) \/ Delete(d)
         \/ \E a \in Callers : ActivateCommits(a)
         \/ UNCHANGED <<versions, raced>>
<1>1. ASSUME NEW d \in Consoles, Browses(d) PROVE UNCHANGED <<versions, raced>>
  BY <1>1 DEF Browses, Select, Create, LoadAnswers, LoadFails, Refilter, Refresh, Edit, RemoveStep,
              DeleteAnswers, Tables, Shared
<1>2. ASSUME NEW d \in Consoles, Saves(d), ~SweepCommits(d) PROVE UNCHANGED <<versions, raced>>
  BY <1>2 DEF Saves, SaveSpec, SaveLists, SaveFails, Inserts, SweepStarts, Tables
<1>3. ASSUME NEW a \in Callers, Activates(a), ~ActivateCommits(a)
      PROVE  UNCHANGED <<versions, raced>>
  BY <1>3 DEF Activates, ActivateStarts, ActivateClears, ActivateFails, Tables
<1> QED
  BY <1>1, <1>2, <1>3 DEF Next, vars

\* The commit of an activation: the rows stay, and what it saw is inactive.
LEMMA ActivationMoves ==
  ASSUME Inv, NEW a \in Callers, ActivateCommits(a), NEW b, b = act[a].chain
  PROVE  /\ b \in Chains /\ Committed(b)' = Committed(b)
         /\ \A c \in Chains \ {b} : versions'[c] = versions[c]
         /\ \A v, w \in versions'[b] : v.n = w.n => v = w
         /\ ~act[a].overtaken => \A v \in versions'[b] : v.active => v.n = act[a].n
         /\ \E v \in versions'[b] : v.active
<1> DEFINE f(v) == [v EXCEPT !.active = @ \/ v.n = act[a].n]
           old == Cleared(versions[b], act[a].seen)
<1>0. TableTypes /\ SharedTypes /\ Activating /\ Numbered
  BY TypesSplit DEF Inv, Versioned
<1>1. b \in Chains /\ (~act[a].overtaken => Committed(b) \subseteq act[a].seen)
  BY <1>0 DEF Activating, ActivateCommits
<1>2. act[a].seen \in SUBSET Numbers /\ versions[b] \in SUBSET Version
  BY <1>0, <1>1 DEF SharedTypes, TableTypes, Activation
<1>3. \A v, w \in versions[b] : v.n = w.n => v = w
  BY <1>0, <1>1 DEF Numbered
<1>4. /\ old \in SUBSET Version /\ {v.n : v \in old} = Committed(b)
      /\ \A v \in old : v.n \in act[a].seen => ~v.active
      /\ \A v, w \in old : v.n = w.n => v = w
  BY <1>2, <1>3, ClearedRows DEF Committed
<1>5. \A v \in old : f(v).n = v.n /\ f(v).active = (v.active \/ v.n = act[a].n)
  BY <1>4, ActivatedRow
<1>6. versions' = [versions EXCEPT ![b] = {f(v) : v \in old}]
  BY DEF ActivateCommits
<1> HIDE DEF f, old
<1>7. versions'[b] = {f(v) : v \in old} /\ \A c \in Chains \ {b} : versions'[c] = versions[c]
  BY <1>0, <1>1, <1>6 DEF TableTypes
<1>8. Committed(b)' = Committed(b)
  BY <1>4, <1>5, <1>7 DEF Committed
<1>9. \A v, w \in versions'[b] : v.n = w.n => v = w
  BY <1>4, <1>5, <1>7
<1>10. ASSUME ~act[a].overtaken, NEW v \in versions'[b], v.active PROVE v.n = act[a].n
  <2>1. PICK w \in old : v = f(w)
    BY <1>7
  <2>2. w.n \in Committed(b)
    BY <1>4
  <2>3. ~w.active
    BY <1>1, <1>4, <1>10, <2>2
  <2> QED
    BY <1>5, <1>10, <2>1, <2>3
<1>11. PICK v \in old : v.n = act[a].n
  BY <1>4 DEF ActivateCommits, TargetFound
<1>12. f(v) \in versions'[b] /\ f(v).active
  BY <1>5, <1>7, <1>11
<1> QED
  BY <1>1, <1>7, <1>8, <1>9, <1>10, <1>12

\* What a step does to the numbers of the chains.
LEMMA NumbersMove ==
  ASSUME Inv, [Next]_vars
  PROVE  \/ \A c \in Chains : Committed(c)' = Committed(c)
         \/ \E d \in Consoles : SweepCommits(d) \/ Delete(d)
<1>1. UNCHANGED versions => \A c \in Chains : Committed(c)' = Committed(c)
  BY DEF Committed
<1>2. ASSUME NEW a \in Callers, ActivateCommits(a)
      PROVE  \A c \in Chains : Committed(c)' = Committed(c)
  <2>1. PICK b : b = act[a].chain
    OBVIOUS
  <2> QED
    BY <1>2, <2>1, ActivationMoves DEF Committed
<1> QED
  BY <1>1, <1>2, VersionsMove

\* The commit of a save: one more row, and the only active one.
LEMMA CommitAdds ==
  ASSUME Inv, NEW d \in Consoles, SweepCommits(d), NEW c, c = save[d].chain
  PROVE  /\ c \in exists /\ c \in Chains /\ Inserted(d) /\ save[d].n \in Numbers
         /\ save[d].n \notin Committed(c) /\ Follows(c, save[d].n)
         /\ \A e \in Consoles \ {d} : Inserted(e) => save[e].chain # c
         /\ Committed(c)' = Committed(c) \cup {save[d].n}
         /\ \A b \in Chains \ {c} : versions'[b] = versions[b]
         /\ \A v \in versions'[c] : v.active => v.n = save[d].n
         /\ \A v, w \in versions'[c] : v.n = w.n => v = w
         /\ \E v \in versions'[c] : v.active
<1> DEFINE new == [n |-> save[d].n, active |-> TRUE]
           old == Cleared(versions[c], save[d].seen)
<1>0. TableTypes /\ SharedTypes /\ Saving /\ Numbered
  BY TypesSplit DEF Inv, Versioned
<1>1. Inserted(d) /\ save[d].st = "sweeping"
  BY DEF SweepCommits, Inserted
<1>2. /\ c \in exists /\ c \in Chains /\ save[d].n \in Numbers
      /\ save[d].n \notin Committed(c) /\ Follows(c, save[d].n)
      /\ Committed(c) \subseteq save[d].seen
      /\ \A e \in Consoles \ {d} : Inserted(e) => save[e].chain # c
  BY <1>0, <1>1 DEF Saving
<1>3. versions[c] \in SUBSET Version /\ save[d].seen \in SUBSET Numbers
  BY <1>0, <1>2 DEF TableTypes, SharedTypes, Save
<1>4. \A v, w \in versions[c] : v.n = w.n => v = w
  BY <1>0, <1>2 DEF Numbered
<1>5. /\ {v.n : v \in old} = Committed(c)
      /\ \A v \in old : v.n \in save[d].seen => ~v.active
      /\ \A v, w \in old : v.n = w.n => v = w
  BY <1>3, <1>4, ClearedRows DEF Committed
<1>6. \A v \in old : v.n \in Committed(c) /\ ~v.active
  BY <1>2, <1>5
<1>7. versions' = [versions EXCEPT ![c] = old \cup {new}]
  BY DEF SweepCommits
<1> HIDE DEF old
<1>8. versions'[c] = old \cup {new} /\ \A b \in Chains \ {c} : versions'[b] = versions[b]
  BY <1>0, <1>2, <1>7 DEF TableTypes
<1>9. Committed(c)' = {v.n : v \in old} \cup {save[d].n}
  <2>1. {v.n : v \in old \cup {new}} = {v.n : v \in old} \cup {new.n}
    OBVIOUS
  <2>2. Committed(c)' = {v.n : v \in versions'[c]}
    BY DEF Committed
  <2> QED
    BY <1>8, <2>1, <2>2
<1>10. new.n = save[d].n /\ \A v \in old : v.n # save[d].n
  BY <1>2, <1>6
<1>11. new \in versions'[c] /\ new.active
  BY <1>8
<1> HIDE DEF new
<1>12. \A v \in versions'[c] : v.active => v.n = save[d].n
  BY <1>6, <1>8, <1>10
<1>13. \A v, w \in versions'[c] : v.n = w.n => v = w
  BY <1>5, <1>8, <1>10
<1>14. Committed(c)' = Committed(c) \cup {save[d].n}
  BY <1>5, <1>9
<1> QED
  BY <1>1, <1>2, <1>8, <1>11, <1>12, <1>13, <1>14

LEMMA DeleteEmpties ==
  ASSUME Inv, NEW d \in Consoles, Delete(d), NEW c, c = sel[d]
  PROVE  /\ c \in Chains /\ exists' = exists \ {c} /\ UNCHANGED Shared
         /\ versions'[c] = {} /\ Committed(c)' = {}
         /\ \A b \in Chains \ {c} : versions'[b] = versions[b] /\ Committed(b)' = Committed(b)
         /\ \A e \in Consoles : Inserted(e) => save[e].chain # c
<1>0. TableTypes
  BY TypesSplit DEF Inv
<1>1. c \in exists /\ c \in Chains /\ versions' = [versions EXCEPT ![c] = {}]
  BY <1>0 DEF Delete, TableTypes
<1>2. versions'[c] = {} /\ \A b \in Chains \ {c} : versions'[b] = versions[b]
  BY <1>0, <1>1 DEF TableTypes
<1>3. Committed(c)' = {} /\ \A b \in Chains \ {c} : Committed(b)' = Committed(b)
  BY <1>2 DEF Committed
<1>4. \A e \in Consoles : Inserted(e) => save[e].chain # c
  BY DEF Delete, Untouched, Inserted
<1> QED
  BY <1>1, <1>2, <1>3, <1>4 DEF Delete

LEMMA NumberedKept == Inv /\ [Next]_vars => Numbered'
<1> SUFFICES ASSUME Inv, [Next]_vars PROVE Numbered'
  OBVIOUS
<1>0. Numbered /\ TableTypes /\ SharedTypes /\ Activating
  BY TypesSplit DEF Inv, Versioned
<1>a. \A c \in Chains : Committed(c) \in SUBSET Numbers
  BY <1>0 DEF TableTypes, Committed, Version
<1>1. ASSUME NEW d \in Consoles, SweepCommits(d) PROVE Numbered'
  <2>1. PICK c \in Chains : c = save[d].chain
    BY <1>1, CommitAdds
  <2>2. /\ save[d].n \in Numbers /\ Follows(c, save[d].n)
        /\ Committed(c)' = Committed(c) \cup {save[d].n}
        /\ \A b \in Chains \ {c} : versions'[b] = versions[b]
        /\ \A v, w \in versions'[c] : v.n = w.n => v = w
    BY <1>1, <2>1, CommitAdds
  <2>3. \A b \in Chains \ {c} : Committed(b)' = Committed(b)
    BY <2>2 DEF Committed
  <2>4. \A n \in Committed(c)' : \A k \in 1 .. n : k \in Committed(c)'
    <3>1. ASSUME NEW k \in 1 .. save[d].n PROVE k \in Committed(c) \cup {save[d].n}
      <4>1. CASE save[d].n = 1 \/ k = save[d].n
        BY <2>2, <4>1 DEF Numbers
      <4>2. CASE save[d].n # 1 /\ k # save[d].n
        <5>1. save[d].n - 1 \in Committed(c) /\ k \in 1 .. (save[d].n - 1)
          BY <2>2, <4>2 DEF Follows, Numbers
        <5> QED
          BY <1>0, <5>1 DEF Numbered
      <4> QED
        BY <4>1, <4>2
    <3>2. \A n \in Committed(c) : \A k \in 1 .. n : k \in Committed(c)
      BY <1>0 DEF Numbered
    <3> QED
      BY <2>2, <3>1, <3>2
  <2> QED
    BY <1>0, <2>2, <2>3, <2>4 DEF Numbered
<1>2. ASSUME NEW d \in Consoles, Delete(d) PROVE Numbered'
  <2>1. PICK c \in Chains : c = sel[d]
    BY <1>2, DeleteEmpties
  <2> QED
    BY <1>0, <1>2, <2>1, DeleteEmpties DEF Numbered
<1>3. ASSUME \A c \in Chains : Committed(c)' = Committed(c),
             \A c \in Chains : \A v, w \in versions'[c] : v.n = w.n => v = w
      PROVE  Numbered'
  BY <1>0, <1>3 DEF Numbered
<1>4. ASSUME NEW a \in Callers, ActivateCommits(a)
      PROVE  \A c \in Chains : \A v, w \in versions'[c] : v.n = w.n => v = w
  <2>1. PICK b \in Chains : b = act[a].chain
    BY <1>0, <1>4 DEF Activating, ActivateCommits
  <2>2. /\ \A c \in Chains \ {b} : versions'[c] = versions[c]
        /\ \A v, w \in versions'[b] : v.n = w.n => v = w
    BY <1>4, <2>1, ActivationMoves
  <2> QED
    BY <1>0, <2>2 DEF Numbered
<1>5. UNCHANGED versions => \A c \in Chains : \A v, w \in versions'[c] : v.n = w.n => v = w
  BY <1>0 DEF Numbered
<1>6. \/ \E d \in Consoles : SweepCommits(d) \/ Delete(d)
      \/ \E a \in Callers : ActivateCommits(a)
      \/ UNCHANGED versions
  BY VersionsMove
<1> QED
  BY <1>1, <1>2, <1>3, <1>4, <1>5, <1>6, NumbersMove

LEMMA OneActiveKept == Inv /\ [Next]_vars => OneActiveVersion'
<1> SUFFICES ASSUME Inv, [Next]_vars PROVE OneActiveVersion'
  OBVIOUS
<1>0. OneActiveVersion /\ Activating /\ TypeOK
  BY DEF Inv, Versioned
<1>1. ASSUME NEW d \in Consoles, SweepCommits(d) PROVE OneActiveVersion'
  <2>1. PICK c \in Chains : c = save[d].chain
    BY <1>1, CommitAdds
  <2>2. /\ \A b \in Chains \ {c} : versions'[b] = versions[b]
        /\ \A v \in versions'[c] : v.active => v.n = save[d].n
        /\ \A v, w \in versions'[c] : v.n = w.n => v = w
    BY <1>1, <2>1, CommitAdds
  <2>3. raced' = raced \ {c}
    BY <1>1, <2>1 DEF SweepCommits
  <2> QED
    BY <1>0, <2>2, <2>3 DEF OneActiveVersion, Active
<1>2. ASSUME NEW d \in Consoles, Delete(d) PROVE OneActiveVersion'
  <2>1. PICK c \in Chains : c = sel[d]
    BY <1>2, DeleteEmpties
  <2>2. /\ versions'[c] = {} /\ \A b \in Chains \ {c} : versions'[b] = versions[b]
        /\ raced' = raced
    BY <1>2, <2>1, DeleteEmpties DEF Shared
  <2> QED
    BY <1>0, <2>2 DEF OneActiveVersion, Active
<1>3. ASSUME NEW a \in Callers, ActivateCommits(a) PROVE OneActiveVersion'
  <2>1. PICK b \in Chains : b = act[a].chain
    BY <1>0, <1>3 DEF Activating, ActivateCommits
  <2>2. /\ \A c \in Chains \ {b} : versions'[c] = versions[c]
        /\ \A v, w \in versions'[b] : v.n = w.n => v = w
        /\ ~act[a].overtaken => \A v \in versions'[b] : v.active => v.n = act[a].n
    BY <1>3, <2>1, ActivationMoves
  <2>3. raced' = IF act[a].overtaken THEN raced \cup {b} ELSE raced \ {b}
    BY <1>3, <2>1 DEF ActivateCommits
  <2> QED
    BY <1>0, <2>2, <2>3 DEF OneActiveVersion, Active
<1>4. CASE UNCHANGED <<versions, raced>>
  BY <1>0, <1>4 DEF OneActiveVersion, Active
<1> QED
  BY <1>1, <1>2, <1>3, <1>4, VersionsMove

LEMMA SavingKept == Inv /\ [Next]_vars => Saving'
<1> SUFFICES ASSUME Inv, [Next]_vars PROVE Saving'
  OBVIOUS
<1>0. Saving /\ Numbered /\ Born /\ TypeOK /\ save \in [Consoles -> Save]
  BY DEF Inv, Versioned, TypeOK
<1>1. ASSUME NEW d \in Consoles, NEW s, Begins(d, s), UNCHANGED <<exists, versions>> PROVE Saving'
  <2>1. save'[d].st = "listing" /\ save'[d].chain \in Chains
    <3>1. sel[d] \in Chains
      BY <1>0, <1>1 DEF Begins, TypeOK
    <3> QED
      BY <1>0, <1>1, <3>1, BeginsStep
  <2>2. \A e \in Consoles \ {d} : save'[e] = save[e]
    BY <1>0, <1>1, BeginsStep
  <2>3. \A c : Committed(c)' = Committed(c)
    BY <1>1 DEF Committed
  <2> QED
    BY <1>0, <1>1, <2>1, <2>2, <2>3 DEF Saving, Inserted, Follows
<1>2. ASSUME NEW d \in Consoles, SaveSpec(d) PROVE Saving'
  BY <1>1, <1>2 DEF SaveSpec, Tables
<1>3. CASE UNCHANGED <<exists, versions, save>>
  <2>1. \A c : Committed(c)' = Committed(c)
    BY <1>3 DEF Committed
  <2> QED
    BY <1>0, <1>3, <2>1 DEF Saving, Inserted, Follows
<1>4. ASSUME NEW d \in Consoles, RemoveStep(d) PROVE Saving'
  BY <1>1, <1>3, <1>4 DEF RemoveStep, Tables
<1>5. ASSUME NEW d \in Consoles, SaveLists(d) PROVE Saving'
  <2>1. SameSave(d) /\ save'[d].st = "posting" /\ save'[d].n \in Numbers
        /\ save'[d].n \in {NextNumber(save[d].chain), 1}
    BY <1>0, <1>5, ListsStep
  <2>2. save[d].chain \in Chains /\ UNCHANGED <<exists, versions>>
    BY <1>0, <1>5 DEF SaveLists, Saving, Tables
  <2>3. Follows(save[d].chain, save'[d].n)
    <3>1. versions[save[d].chain] \in SUBSET Version
      BY <1>0, <2>2 DEF TypeOK
    <3>2. save'[d].n = 1 => Follows(save[d].chain, save'[d].n)
      BY DEF Follows
    <3> QED
      BY <2>1, <2>2, <3>1, <3>2, NextFollows
  <2>4. \A c, n : (n \in Committed(c)) <=> (n \in {v.n : v \in versions'[c]})
    BY <2>2 DEF Committed
  <2>5. \A e \in Consoles \ {d} : save'[e] = save[e]
    BY <2>1 DEF SameSave
  <2>6. save'[d].chain = save[d].chain
    BY <2>1 DEF SameSave
  <2> QED
    BY <1>0, <2>1, <2>2, <2>3, <2>4, <2>5, <2>6 DEF Saving, Inserted, Follows, Committed
<1>6. ASSUME NEW d \in Consoles, Inserts(d) PROVE Saving'
  <2>1. SameSave(d) /\ save'[d].st = "inserted" /\ save'[d].n = save[d].n
    BY <1>0, <1>6, InsertsStep
  <2>2. /\ save[d].st = "posting" /\ NumberFree(save[d].chain, save[d].n)
        /\ UNCHANGED <<exists, versions>>
    BY <1>6 DEF Inserts, Tables
  <2>3. /\ save[d].chain \in Chains /\ save[d].n \in Numbers /\ save[d].chain \in exists
        /\ Follows(save[d].chain, save[d].n) /\ save[d].n \notin Committed(save[d].chain)
    BY <1>0, <2>2 DEF Saving, NumberFree
  <2>4. ASSUME NEW e \in Consoles \ {d}, Inserted(e), save[e].chain = save[d].chain PROVE FALSE
    <3>1. /\ save[e].n \in Numbers /\ Follows(save[d].chain, save[e].n)
          /\ save[e].n \notin Committed(save[d].chain)
      BY <1>0, <2>3, <2>4 DEF Saving, Inserted
    <3>2. save[e].n = save[d].n
      BY <1>0, <2>3, <3>1, OneGap
    <3> QED
      BY <2>2, <2>4, <3>2 DEF NumberFree, Pending, Inserted
  <2>5. \A c : Committed(c)' = Committed(c)
    BY <2>2 DEF Committed
  <2>6. /\ \A e \in Consoles \ {d} : save'[e] = save[e]
        /\ save'[d].chain = save[d].chain
    BY <2>1 DEF SameSave
  <2> QED
    BY <1>0, <2>1, <2>2, <2>3, <2>4, <2>5, <2>6 DEF Saving, Inserted, Follows
<1>7. ASSUME NEW d \in Consoles, SweepStarts(d) PROVE Saving'
  <2>1. SameSave(d) /\ save'[d].st = "sweeping" /\ save'[d].n = save[d].n
        /\ save'[d].seen = Committed(save[d].chain)
    BY <1>0, <1>7, SweepStep
  <2>2. save[d].st = "inserted" /\ UNCHANGED <<exists, versions>>
    BY <1>7 DEF SweepStarts, Tables
  <2>3. \A c : Committed(c)' = Committed(c)
    BY <2>2 DEF Committed
  <2>4. /\ \A e \in Consoles \ {d} : save'[e] = save[e]
        /\ save'[d].chain = save[d].chain
    BY <2>1 DEF SameSave
  <2> QED
    BY <1>0, <2>1, <2>2, <2>3, <2>4 DEF Saving, Inserted, Follows
<1>8. ASSUME NEW d \in Consoles, SweepCommits(d) PROVE Saving'
  <2>1. PICK c \in Chains : c = save[d].chain
    BY <1>8, CommitAdds
  <2>2. /\ Inserted(d) /\ Committed(c)' = Committed(c) \cup {save[d].n}
        /\ \A e \in Consoles \ {d} : Inserted(e) => save[e].chain # c
        /\ \A b \in Chains \ {c} : versions'[b] = versions[b]
    BY <1>8, <2>1, CommitAdds
  <2>3. \A b \in Chains \ {c} : Committed(b)' = Committed(b)
    BY <2>2 DEF Committed
  <2>4. save'[d].st = "none" /\ \A e \in Consoles \ {d} : save'[e] = save[e]
    BY <1>0, <1>8, SaveEnds
  <2>5. exists' = exists
    BY <1>8 DEF SweepCommits
  <2> QED
    BY <1>0, <2>2, <2>3, <2>4, <2>5 DEF Saving, Inserted, Follows
<1>9. ASSUME NEW d \in Consoles, SaveFails(d) PROVE Saving'
  <2>1. save'[d].st = "none" /\ \A e \in Consoles \ {d} : save'[e] = save[e]
    BY <1>0, <1>9, SaveEnds
  <2>2. UNCHANGED <<exists, versions>>
    BY <1>9 DEF SaveFails, Tables
  <2>3. \A c : Committed(c)' = Committed(c)
    BY <2>2 DEF Committed
  <2> QED
    BY <1>0, <2>1, <2>2, <2>3 DEF Saving, Inserted, Follows
<1>10. ASSUME NEW d \in Consoles, Delete(d) PROVE Saving'
  <2>1. PICK c \in Chains : c = sel[d]
    BY <1>10, DeleteEmpties
  <2>2. /\ exists' = exists \ {c} /\ save' = save /\ Committed(c)' = {}
        /\ \A b \in Chains \ {c} : Committed(b)' = Committed(b)
        /\ \A e \in Consoles : Inserted(e) => save[e].chain # c
    BY <1>10, <2>1, DeleteEmpties DEF Shared
  <2> QED
    BY <1>0, <2>2 DEF Saving, Inserted, Follows
<1>11. ASSUME NEW d \in Consoles, NEW c \in Chains, Create(d, c) PROVE Saving'
  <2>1. exists' = exists \cup {c} /\ c \in unborn /\ UNCHANGED <<versions, save>>
    BY <1>11 DEF Create, Shared
  <2>2. \A b : Committed(b)' = Committed(b)
    BY <2>1 DEF Committed
  <2>3. \A e \in Consoles : save[e].chain # c
    BY <1>0, <2>1 DEF Born
  <2> QED
    BY <1>0, <2>1, <2>2, <2>3 DEF Saving, Inserted, Follows
<1>12. ASSUME NEW a \in Callers, ActivateCommits(a) PROVE Saving'
  <2>1. \A c \in Chains : Committed(c)' = Committed(c)
    <3>1. PICK b : b = act[a].chain
      OBVIOUS
    <3> QED
      BY <1>12, <3>1, ActivationMoves DEF Committed
  <2>2. UNCHANGED <<exists, save>>
    BY <1>12 DEF ActivateCommits
  <2> QED
    BY <1>0, <2>1, <2>2 DEF Saving, Inserted, Follows
<1>13. ASSUME NEW d \in Consoles, NEW c \in Chains, Select(d, c)
       PROVE  UNCHANGED <<exists, versions, save>>
  BY <1>13 DEF Select, Tables, Shared
<1>14. ASSUME NEW d \in Consoles, NEW i \in 1 .. Len(loads[d]), LoadAnswers(d, i) \/ LoadFails(d, i)
       PROVE  UNCHANGED <<exists, versions, save>>
  BY <1>14 DEF LoadAnswers, LoadFails, Tables, Shared
<1>15. ASSUME NEW d \in Consoles, Refilter(d) \/ Refresh(d) \/ Edit(d) \/ DeleteAnswers(d)
       PROVE  UNCHANGED <<exists, versions, save>>
  BY <1>15 DEF Refilter, Refresh, Edit, DeleteAnswers, Tables, Shared
<1>16. ASSUME NEW a \in Callers, Activates(a), ~ActivateCommits(a)
       PROVE  UNCHANGED <<exists, versions, save>>
  BY <1>16 DEF Activates, ActivateStarts, ActivateClears, ActivateFails, Tables
<1>17. UNCHANGED vars => UNCHANGED <<exists, versions, save>>
  BY DEF vars
<1> QED
  BY <1>2, <1>3, <1>4, <1>5, <1>6, <1>7, <1>8, <1>9, <1>10, <1>11, <1>12, <1>13, <1>14, <1>15,
     <1>16, <1>17 DEF Next, Browses, Saves

LEMMA ActivatingKept == Inv /\ [Next]_vars => Activating'
<1> SUFFICES ASSUME Inv, [Next]_vars PROVE Activating'
  OBVIOUS
<1>0. Activating /\ TypeOK /\ act \in [Callers -> Activation]
  BY DEF Inv, Versioned, TypeOK
<1>1. ASSUME NEW a \in Callers, NEW c \in Chains, NEW n \in Numbers, ActivateStarts(a, c, n)
      PROVE  Activating'
  <2>1. UNCHANGED versions /\ act'[a].chain = c /\ act'[a].seen = Committed(c)
        /\ \A b \in Callers \ {a} : act'[b] = act[b]
    BY <1>0, <1>1 DEF ActivateStarts, Tables
  <2>2. \A b : Committed(b)' = Committed(b)
    BY <2>1 DEF Committed
  <2> QED
    BY <1>0, <2>1, <2>2 DEF Activating
<1>2. ASSUME NEW a \in Callers, ActivateClears(a) PROVE Activating'
  <2>1. /\ UNCHANGED versions /\ act[a].st = "clearing"
        /\ act' = [act EXCEPT ![a].st = "cleared",
                              ![a].seen = act[a].seen \cap Committed(act[a].chain)]
    BY <1>2 DEF ActivateClears, Tables
  <2>2. act'[a].chain = act[a].chain /\ act'[a].overtaken = act[a].overtaken
        /\ act'[a].seen = act[a].seen \cap Committed(act[a].chain)
        /\ \A b \in Callers \ {a} : act'[b] = act[b]
    BY <1>0, <2>1 DEF Activation
  <2>3. \A b : Committed(b)' = Committed(b)
    BY <2>1 DEF Committed
  <2> QED
    BY <1>0, <2>1, <2>2, <2>3 DEF Activating
<1>3. ASSUME NEW a \in Callers, ActivateCommits(a) \/ ActivateFails(a) PROVE Activating'
  <2>1. act'[a].st = "none" /\ \A b \in Callers \ {a} : act'[b] = act[b]
    BY <1>0, <1>3, NoActivationType DEF ActivateCommits, ActivateFails
  <2>2. \A c \in Chains : Committed(c)' = Committed(c)
    <3>1. CASE UNCHANGED versions
      BY <3>1 DEF Committed
    <3>2. CASE ActivateCommits(a)
      <4>1. PICK b : b = act[a].chain
        OBVIOUS
      <4> QED
        BY <3>2, <4>1, ActivationMoves DEF Committed
    <3> QED
      BY <1>3, <3>1, <3>2 DEF ActivateFails, Tables
  <2> QED
    BY <1>0, <2>1, <2>2 DEF Activating
<1>4. ASSUME NEW d \in Consoles, SweepCommits(d) PROVE Activating'
  <2>1. PICK c \in Chains : c = save[d].chain
    BY <1>4, CommitAdds
  <2>2. \A b \in Chains \ {c} : versions'[b] = versions[b]
    BY <1>4, <2>1, CommitAdds
  <2>3. \A b \in Chains \ {c} : Committed(b)' = Committed(b)
    BY <2>2 DEF Committed
  <2>4. act' = [a \in Callers |-> [act[a] EXCEPT !.overtaken = @ \/ act[a].chain = c]]
    BY <1>4, <2>1 DEF SweepCommits
  <2>5. ASSUME NEW a \in Callers
        PROVE  /\ act'[a].st = act[a].st /\ act'[a].chain = act[a].chain /\ act'[a].seen = act[a].seen
               /\ act'[a].overtaken = (act[a].overtaken \/ act[a].chain = c)
    BY <1>0, <2>4 DEF Activation
  <2>6. ASSUME NEW a \in Callers, act'[a].st # "none"
        PROVE  /\ act'[a].chain \in Chains
               /\ ~act'[a].overtaken => Committed(act[a].chain)' \subseteq act'[a].seen
    <3>1. PICK b : b = act[a].chain
      OBVIOUS
    <3>2. act[a].st # "none" /\ act'[a].chain = b /\ act'[a].seen = act[a].seen
          /\ act'[a].overtaken = (act[a].overtaken \/ b = c)
      BY <2>5, <2>6, <3>1
    <3>3. b \in Chains /\ (~act[a].overtaken => Committed(b) \subseteq act[a].seen)
      BY <1>0, <3>1, <3>2 DEF Activating
    <3>4. b # c => Committed(b)' = Committed(b)
      BY <2>3, <3>3
    <3>5. Committed(act[a].chain)' = Committed(b)'
      BY <3>2 DEF Committed
    <3> QED BY <3>2, <3>3, <3>4, <3>5
  <2> QED BY <2>6 DEF Activating
<1>5. ASSUME NEW d \in Consoles, Delete(d) PROVE Activating'
  <2>1. PICK c \in Chains : c = sel[d]
    BY <1>5, DeleteEmpties
  <2>2. /\ Committed(c)' = {} /\ \A b \in Chains \ {c} : Committed(b)' = Committed(b)
        /\ act' = act
    BY <1>5, <2>1, DeleteEmpties DEF Shared
  <2> QED
    BY <1>0, <2>2 DEF Activating
<1>6. CASE UNCHANGED <<versions, act>>
  <2>1. \A c : Committed(c)' = Committed(c)
    BY <1>6 DEF Committed
  <2> QED
    BY <1>0, <1>6, <2>1 DEF Activating
<1>7. ASSUME NEW d \in Consoles, Browses(d) PROVE UNCHANGED <<versions, act>>
  BY <1>7 DEF Browses, Select, Create, LoadAnswers, LoadFails, Refilter, Refresh, Edit, RemoveStep,
              DeleteAnswers, Tables, Shared
<1>8. ASSUME NEW d \in Consoles, Saves(d), ~SweepCommits(d) PROVE UNCHANGED <<versions, act>>
  BY <1>8 DEF Saves, SaveSpec, SaveLists, SaveFails, Inserts, SweepStarts, Tables
<1> QED
  BY <1>1, <1>2, <1>3, <1>4, <1>5, <1>6, <1>7, <1>8 DEF Next, Activates, vars

-----------------------------------------------------------------------------
LEMMA InitInv == Init => Inv
<1> SUFFICES ASSUME Init PROVE Inv
  OBVIOUS
<1>1. PICK kept \in SUBSET exists :
        versions = [c \in Chains |-> IF c \in kept THEN {[n |-> 1, active |-> TRUE]} ELSE {}]
  BY DEF Init
<1>2. 1 \in Numbers /\ [n |-> 1, active |-> TRUE] \in Version
  BY LibraryAssumption DEF Numbers, Version
<1>3. \A c \in Chains : versions[c] \in {{[n |-> 1, active |-> TRUE]}, {}}
  BY <1>1
<1>4. versions \in [Chains -> SUBSET Version]
  BY <1>1, <1>2
<1>5. exists \in SUBSET Chains /\ sel \in [Consoles -> Chains \cup {NoChain}] /\ last = sel
  BY DEF Init
<1>6. TypeOK
  <2>1. steps \in [Consoles -> Origins]
    BY <1>5 DEF Init, Origins
  <2>2. loads \in [Consoles -> Seq(Chains)]
    BY DEF Init
  <2> QED
    BY <1>4, <1>5, <2>1, <2>2, NoSaveType, NoActivationType DEF Init, TypeOK
<1>7. Born
  BY <1>5, NoSaveType, LibraryAssumption DEF Init, Born
<1>8. Steady /\ SavesGoHome
  BY <1>5, NoSaveType DEF Init, Steady, SavesGoHome
<1>9. \A c \in Chains : Committed(c) \in {{1}, {}}
  BY <1>3 DEF Committed
<1>10. Numbered
  <2>1. \A c \in Chains : \A v, w \in versions[c] : v.n = w.n => v = w
    BY <1>3
  <2>2. \A k \in 1 .. 1 : k = 1
    OBVIOUS
  <2>3. \A c \in Chains : \A n \in Committed(c) : n = 1
    BY <1>9
  <2> QED
    BY <2>1, <2>2, <2>3 DEF Numbered
<1>11. Saving /\ Activating
  BY NoSaveType, NoActivationType DEF Init, Saving, Inserted, Activating
<1>12. OneActiveVersion
  BY <1>3 DEF OneActiveVersion, Active
<1> QED
  BY <1>6, <1>7, <1>8, <1>10, <1>11, <1>12 DEF Inv, Versioned

LEMMA StepInv == Inv /\ [Next]_vars => Inv'
BY TypesKept, BornKept, SteadyKept, HomeKept, NumberedKept, SavingKept, ActivatingKept,
   OneActiveKept DEF Inv, Versioned

LEMMA SpecInv == Spec => []Inv
BY InitInv, StepInv, PTL DEF Spec

(* Every variable keeps its shape, with any number of designers, clients   *)
(* and loads.                                                              *)
THEOREM LibraryTypes == Spec => []TypeOK
<1>1. Inv => TypeOK
  BY DEF Inv
<1> QED
  BY SpecInv, <1>1, PTL

(* A save posts to a chain only its own steps, unless the designer was     *)
(* astray when the user clicked (persistChainSpec of SettingsView.tsx).    *)
THEOREM LibrarySavesGoHome == Spec => []SavesGoHome
<1>1. Inv => SavesGoHome
  BY DEF Inv
<1> QED
  BY SpecInv, <1>1, PTL

(* Saves and activations leave a chain one active version, unless a save   *)
(* was committed during an activation (the two UPDATEs of the activation   *)
(* route of agents.ts do not see its row).                                 *)
THEOREM LibraryOneActive == Spec => []OneActiveVersion
<1>1. Inv => OneActiveVersion
  BY DEF Inv, Versioned
<1> QED
  BY SpecInv, <1>1, PTL

LEMMA RunnableStep ==
  ASSUME Inv, [Next]_vars, NEW c \in exists', Active(c) # {}
  PROVE  Active(c)' # {}
<1>0. exists' \subseteq Chains
  BY TableTypesKept DEF TableTypes
<1>1. ASSUME NEW d \in Consoles, SweepCommits(d) PROVE Active(c)' # {}
  <2>1. PICK b \in Chains : b = save[d].chain
    BY <1>1, CommitAdds
  <2>2. /\ \A e \in Chains \ {b} : versions'[e] = versions[e]
        /\ \E v \in versions'[b] : v.active
    BY <1>1, <2>1, CommitAdds
  <2> QED
    BY <1>0, <2>2 DEF Active
<1>2. ASSUME NEW d \in Consoles, Delete(d) PROVE Active(c)' # {}
  <2>1. PICK b \in Chains : b = sel[d]
    BY <1>2, DeleteEmpties
  <2>2. exists' = exists \ {b} /\ \A e \in Chains \ {b} : versions'[e] = versions[e]
    BY <1>2, <2>1, DeleteEmpties
  <2> QED
    BY <1>0, <2>2 DEF Active
<1>3. ASSUME NEW a \in Callers, ActivateCommits(a) PROVE Active(c)' # {}
  <2>1. PICK b : b = act[a].chain
    OBVIOUS
  <2>2. /\ \A e \in Chains \ {b} : versions'[e] = versions[e]
        /\ \E v \in versions'[b] : v.active
    BY <1>3, <2>1, ActivationMoves
  <2> QED
    BY <1>0, <2>2 DEF Active
<1>4. CASE UNCHANGED versions
  BY <1>4 DEF Active
<1> QED
  BY <1>1, <1>2, <1>3, <1>4, VersionsMove

(* A chain with an active version keeps one until it is deleted, whatever  *)
(* fails and whatever overlaps (the transactions of agents.ts).            *)
THEOREM LibraryStaysRunnable == Spec => StaysRunnable
<1>1. Inv /\ [Next]_vars => [\A c \in exists' : Active(c) # {} => Active(c)' # {}]_vars
  BY RunnableStep
<1> QED
  BY SpecInv, <1>1, PTL DEF Spec, StaysRunnable

-----------------------------------------------------------------------------
(* THE CHAIN ENGINE *)

(* The shape of the stacks *)

TopSteps == Steps(chain.main)
            \cup UNION {Kids(y) : y \in {z \in StepIds : chain.kind[z] = "agent_chain"}}

Callable(f) == IF f.s = Root THEN TopSteps ELSE Kids(f.s)

StandsOn(f, g) ==
  /\ f.s = Root => g.s # Root /\ chain.kind[g.s] = "agent_chain"
  /\ f.s # Root => f.s \in Callable(g) /\ f.r = g.r

StackOK(st) ==
  /\ \A i \in 1 .. Len(st) : Steps(st[i].todo) \subseteq Callable(st[i])
  /\ \A i \in 1 .. Len(st) - 1 : StandsOn(st[i], st[i + 1])
  /\ \A i, j \in 1 .. Len(st) : i < j /\ st[i].r = st[j].r =>
       /\ st[i].s # Root
       /\ st[j].s # Root => chain.level[st[i].s] > chain.level[st[j].s]

PcFits(st, pc) ==
  /\ pc \in {"enter", "leaf", "ask", "sleep", "join"} => st # <<>> /\ Head(st).s # Root
  /\ pc = "enter" => Head(st).todo = <<>>
  /\ pc \in {"leaf", "ask"} => chain.kind[Head(st).s] \in Leaves
  /\ pc = "sleep" => chain.kind[Head(st).s] = "retry"
  /\ pc = "join" => chain.kind[Head(st).s] = "parallel"

PcOK(t) == PcFits(thr[t].stack, thr[t].pc)

ShapeInv == \A t \in Live : StackOK(thr[t].stack) /\ PcOK(t)

Bounded(st) == \A i \in 1 .. Len(st) : st[i].s # Root => st[i].n < chain.count[st[i].s]

Fit(st, pc) == StackOK(st) /\ Bounded(st) /\ PcFits(st, pc)

ThreadsFit ==
  /\ Live \subseteq 1 .. MaxThreads /\ thr \in [Live -> Threads]
  /\ \A t \in Live : Fit(thr[t].stack, thr[t].pc)

Pcs == Awaiting \cup {"enter", "body", "raise"}

-----------------------------------------------------------------------------
(* Sequences *)

\* The top of a stack and what is below it.
LEMMA StackTop ==
  ASSUME NEW S, NEW st \in Seq(S), st # <<>>
  PROVE  /\ Len(st) \in Nat /\ Len(st) >= 1 /\ Head(st) = st[1] /\ Head(st) \in S
         /\ Tail(st) \in Seq(S) /\ Len(Tail(st)) = Len(st) - 1
         /\ \A i \in 1 .. Len(st) - 1 : Tail(st)[i] = st[i + 1]
OBVIOUS

\* A frame put on a stack.
LEMMA StackPush ==
  ASSUME NEW S, NEW st \in Seq(S), NEW a \in S
  PROVE  /\ <<a>> \o st \in Seq(S) /\ Len(<<a>> \o st) = Len(st) + 1
         /\ (<<a>> \o st)[1] = a
         /\ \A i \in 2 .. Len(st) + 1 : (<<a>> \o st)[i] = st[i - 1]
<1>1. <<a>> \in Seq(S) /\ Len(<<a>>) = 1
  OBVIOUS
<1> QED BY <1>1

\* Two frames at once are one after the other.
LEMMA StackPushTwo ==
  ASSUME NEW S, NEW st \in Seq(S), NEW a \in S, NEW b \in S
  PROVE  <<a, b>> \o st = <<a>> \o (<<b>> \o st)
<1>1. <<a, b>> \in Seq(S) /\ Len(<<a, b>>) = 2 /\ <<a>> \in Seq(S) /\ Len(<<a>>) = 1
      /\ <<b>> \in Seq(S) /\ Len(<<b>>) = 1
  OBVIOUS
<1>2. \A x, y \in Seq(S) : Len(x) = Len(y) /\ (\A i \in 1 .. Len(x) : x[i] = y[i]) => x = y
  OBVIOUS
<1>3. <<a, b>> \o st \in Seq(S) /\ Len(<<a, b>> \o st) = Len(st) + 2
      /\ \A i \in 1 .. Len(st) + 2 : (<<a, b>> \o st)[i] = IF i = 1 THEN a ELSE IF i = 2 THEN b ELSE st[i - 2]
  BY <1>1
<1>4. <<a>> \o (<<b>> \o st) \in Seq(S) /\ Len(<<a>> \o (<<b>> \o st)) = Len(st) + 2
      /\ \A i \in 1 .. Len(st) + 2 : (<<a>> \o (<<b>> \o st))[i] = IF i = 1 THEN a ELSE IF i = 2 THEN b ELSE st[i - 2]
  <2>1. <<b>> \o st \in Seq(S)
    BY <1>1
  <2> QED BY <2>1, StackPush
<1> DEFINE x == <<a, b>> \o st
           y == <<a>> \o (<<b>> \o st)
<1>5. /\ x \in Seq(S) /\ y \in Seq(S) /\ Len(x) = Len(y)
      /\ \A i \in 1 .. Len(x) : x[i] = y[i]
  BY <1>3, <1>4
<1> HIDE DEF x, y
<1>6. x = y
  BY <1>2, <1>5
<1> QED BY <1>6 DEF x, y

-----------------------------------------------------------------------------
(* The chain *)

\* What well-formedness says of the chain of a run: kinds, bodies, counts,
\* and a level that grows from a step to those under it.
LEMMA ChainFacts ==
  ASSUME EngineTypeOK
  PROVE  /\ WellFormed(chain) /\ Root \notin StepIds /\ MaxThreads \in Nat
         /\ \A s \in StepIds : chain.bodies[s] \in Seq(Seq(StepIds))
         /\ \A s \in StepIds : Kids(s) \subseteq StepIds
         /\ \A s \in StepIds : \A i \in DOMAIN chain.bodies[s] :
              chain.bodies[s][i] \in Seq(StepIds) /\ Steps(chain.bodies[s][i]) \subseteq Kids(s)
         /\ \A s \in StepIds : chain.kind[s] \in Blocks \ {"branch"} => 1 \in DOMAIN chain.bodies[s]
         /\ \A s \in StepIds : chain.count[s] \in Nat \ {0} /\ chain.level[s] \in Nat
         /\ \A s \in StepIds : chain.kind[s] \in Sync \cup Blocks \cup Leaves
         /\ \A s \in StepIds : \A x \in Kids(s) : chain.level[x] > chain.level[s]
<1>1. WellFormed(chain) /\ MaxThreads \in Nat
  BY ChainAssumption DEF EngineTypeOK
<1>2. \A s \in StepIds : chain.bodies[s] \in Seq(Seq(StepIds))
  BY <1>1 DEF WellFormed, StepIds
<1>3. \A s \in StepIds : \A i \in DOMAIN chain.bodies[s] : chain.bodies[s][i] \in Seq(StepIds)
  BY <1>2
<1>4. \A s \in StepIds : \A i \in DOMAIN chain.bodies[s] :
        Steps(chain.bodies[s][i]) \subseteq Kids(s) /\ Steps(chain.bodies[s][i]) \subseteq StepIds
  BY <1>3 DEF Kids, Under, Steps
<1>5. \A s \in StepIds : Kids(s) \subseteq StepIds
  BY <1>3 DEF Kids, Under, Steps
<1>6. \A s \in StepIds : chain.kind[s] \in Blocks \ {"branch"} => 1 \in DOMAIN chain.bodies[s]
  BY <1>1, <1>2 DEF WellFormed, StepIds
<1>7. \A s \in StepIds : chain.count[s] \in Nat \ {0} /\ chain.level[s] \in Nat
  BY <1>1 DEF WellFormed, StepIds
<1>8. \A s \in StepIds : \A x \in Kids(s) : chain.level[x] > chain.level[s]
  BY <1>1 DEF WellFormed, Tree, StepIds, Kids
<1>9. \A s \in StepIds : chain.kind[s] \in Sync \cup Blocks \cup Leaves
  BY <1>1 DEF WellFormed, StepIds
<1> QED BY <1>1, <1>2, <1>3, <1>4, <1>5, <1>6, <1>7, <1>8, <1>9 DEF WellFormed, StepIds

-----------------------------------------------------------------------------
(* Threads *)

\* A thread that goes on leaves the others alone.
LEMMA AtFacts ==
  ASSUME EngineTypeOK, NEW t \in Live, NEW st, NEW pc
  PROVE  /\ DOMAIN At(t, st, pc) = Live
         /\ At(t, st, pc)[t] = [stack |-> st, pc |-> pc, up |-> thr[t].up]
         /\ \A u \in Live \ {t} : At(t, st, pc)[u] = thr[u]
<1>1. thr \in [Live -> Threads]
  BY DEF EngineTypeOK
<1>2. thr[t] \in Threads
  BY <1>1
<1>3. thr[t] = [stack |-> thr[t].stack, pc |-> thr[t].pc, up |-> thr[t].up]
  BY <1>2 DEF Threads
<1> QED BY <1>1, <1>3 DEF At

\* The fields of a thread.
LEMMA ThreadFacts ==
  ASSUME EngineTypeOK, NEW t \in Live
  PROVE  thr[t].stack \in Seq(Frames) /\ thr[t].pc \in Pcs /\ thr[t].up \in 0 .. MaxThreads
BY DEF EngineTypeOK, Threads, Pcs

\* A new frame, with no round done.
LEMMA FrameIsFrame ==
  ASSUME NEW s \in StepIds \cup {Root}, NEW todo \in Seq(StepIds), NEW r \in Runners
  PROVE  /\ Frame(s, todo, r) \in Frames
         /\ Frame(s, todo, r).s = s /\ Frame(s, todo, r).todo = todo /\ Frame(s, todo, r).r = r
         /\ Frame(s, todo, r).n = 0
BY DEF Frame, Frames
-----------------------------------------------------------------------------
(* What a step does to a stack *)

\* A stack stays well-formed when the frame on top gets another body.
LEMMA RetopOK ==
  ASSUME NEW F, NEW st \in Seq(F), st # <<>>, StackOK(st), Bounded(st), NEW g \in F,
         g.s = Head(st).s, g.r = Head(st).r, Steps(g.todo) \subseteq Callable(g),
         g.s # Root => g.n < chain.count[g.s]
  PROVE  LET new == <<g>> \o Tail(st) IN
         /\ new \in Seq(F) /\ Len(new) = Len(st) /\ Len(st) \in Nat /\ Len(st) >= 1
         /\ new[1] = g /\ \A i \in 2 .. Len(st) : new[i] = st[i]
         /\ StackOK(new) /\ Bounded(new)
<1> DEFINE new == <<g>> \o Tail(st)
<1>1. /\ Len(st) \in Nat /\ Len(st) >= 1 /\ Head(st) = st[1]
      /\ Tail(st) \in Seq(F) /\ Len(Tail(st)) = Len(st) - 1
      /\ \A i \in 1 .. Len(st) - 1 : Tail(st)[i] = st[i + 1]
  BY StackTop
<1>2. /\ new \in Seq(F) /\ Len(new) = Len(Tail(st)) + 1 /\ new[1] = g
      /\ \A i \in 2 .. Len(Tail(st)) + 1 : new[i] = Tail(st)[i - 1]
  BY <1>1, StackPush
<1> HIDE DEF new
<1>3. Len(new) = Len(st) /\ \A i \in 2 .. Len(st) : new[i] = st[i]
  BY <1>1, <1>2
<1>4. \A i \in 1 .. Len(st) : new[i].s = st[i].s /\ new[i].r = st[i].r
  BY <1>1, <1>2, <1>3
<1>5. \A i \in 1 .. Len(st) : Steps(new[i].todo) \subseteq Callable(new[i])
  BY <1>1, <1>2, <1>3 DEF StackOK
<1>6. \A i \in 1 .. Len(st) - 1 : StandsOn(new[i], new[i + 1])
  BY <1>1, <1>4 DEF StackOK, StandsOn, Callable
<1>7. StackOK(new)
  BY <1>1, <1>3, <1>4, <1>5, <1>6 DEF StackOK
<1>8. Bounded(new)
  BY <1>1, <1>2, <1>3 DEF Bounded
<1> QED BY <1>1, <1>2, <1>3, <1>7, <1>8 DEF new

\* A stack stays well-formed when the frame on top is taken away.
LEMMA PopOK ==
  ASSUME NEW F, NEW st \in Seq(F), st # <<>>, StackOK(st), Bounded(st)
  PROVE  LET new == Tail(st) IN
         /\ new \in Seq(F) /\ Len(new) = Len(st) - 1 /\ Len(st) \in Nat /\ Len(st) >= 1
         /\ \A i \in 1 .. Len(st) - 1 : new[i] = st[i + 1]
         /\ StackOK(new) /\ Bounded(new)
<1> DEFINE new == Tail(st)
<1>1. /\ Len(st) \in Nat /\ Len(st) >= 1 /\ new \in Seq(F) /\ Len(new) = Len(st) - 1
      /\ \A i \in 1 .. Len(st) - 1 : new[i] = st[i + 1]
  BY StackTop
<1> HIDE DEF new
<1>2. ASSUME NEW i \in 1 .. Len(new) - 1 PROVE StandsOn(new[i], new[i + 1])
  <2>1. i + 1 \in 1 .. Len(st) - 1 /\ new[i] = st[i + 1] /\ new[i + 1] = st[i + 1 + 1]
    BY <1>1
  <2> QED BY <2>1 DEF StackOK
<1>3. ASSUME NEW i \in 1 .. Len(new) PROVE Steps(new[i].todo) \subseteq Callable(new[i])
  <2>1. i + 1 \in 1 .. Len(st) /\ new[i] = st[i + 1]
    BY <1>1
  <2> QED BY <2>1 DEF StackOK
<1>4. \A i, j \in 1 .. Len(new) : i < j /\ new[i].r = new[j].r =>
         /\ new[i].s # Root
         /\ new[j].s # Root => chain.level[new[i].s] > chain.level[new[j].s]
  <2> SUFFICES ASSUME NEW i \in 1 .. Len(new), NEW j \in 1 .. Len(new), i < j, new[i].r = new[j].r
               PROVE  /\ new[i].s # Root
                      /\ new[j].s # Root => chain.level[new[i].s] > chain.level[new[j].s]
    OBVIOUS
  <2>1. i + 1 \in 1 .. Len(st) /\ j + 1 \in 1 .. Len(st) /\ i + 1 < j + 1
        /\ new[i] = st[i + 1] /\ new[j] = st[j + 1]
    BY <1>1
  <2> QED BY <2>1 DEF StackOK
<1>5. Bounded(new)
  BY <1>1 DEF Bounded
<1> QED BY <1>1, <1>2, <1>3, <1>4, <1>5 DEF new, StackOK

\* A frame that may be put on a stack.
Above(f, st) == \A j \in 1 .. Len(st) : f.r = st[j].r =>
  f.s # Root /\ (st[j].s # Root => chain.level[f.s] > chain.level[st[j].s])

\* A stack stays well-formed under a frame that may stand on it.
LEMMA PushOK ==
  ASSUME NEW F, NEW st \in Seq(F), st # <<>>, StackOK(st), Bounded(st), NEW f \in F,
         StandsOn(f, st[1]), Above(f, st), Steps(f.todo) \subseteq Callable(f),
         f.s # Root => f.n < chain.count[f.s]
  PROVE  LET new == <<f>> \o st IN
         /\ new \in Seq(F) /\ Len(new) = Len(st) + 1 /\ Len(st) \in Nat /\ Len(st) >= 1
         /\ new[1] = f /\ \A i \in 2 .. Len(st) + 1 : new[i] = st[i - 1]
         /\ StackOK(new) /\ Bounded(new)
<1> DEFINE new == <<f>> \o st
<1>1. /\ new \in Seq(F) /\ Len(new) = Len(st) + 1 /\ new[1] = f /\ Len(st) \in Nat /\ Len(st) >= 1
      /\ \A i \in 2 .. Len(st) + 1 : new[i] = st[i - 1]
  BY StackPush, StackTop
<1> HIDE DEF new
<1>2. \A i \in 1 .. Len(new) - 1 : StandsOn(new[i], new[i + 1])
  <2> SUFFICES ASSUME NEW i \in 1 .. Len(new) - 1 PROVE StandsOn(new[i], new[i + 1])
    OBVIOUS
  <2>1. CASE i = 1
    BY <1>1, <2>1
  <2>2. CASE i # 1
    <3>1. ASSUME NEW n \in Nat, n >= 1, NEW j \in 1 .. (n + 1) - 1, j # 1
          PROVE  /\ j - 1 \in 1 .. n - 1 /\ j \in 2 .. n + 1 /\ j + 1 \in 2 .. n + 1
                 /\ j + 1 - 1 = j - 1 + 1
      BY <3>1
    <3>2. i - 1 \in 1 .. Len(st) - 1 /\ i \in 2 .. Len(st) + 1 /\ i + 1 \in 2 .. Len(st) + 1
          /\ i + 1 - 1 = i - 1 + 1
      BY <1>1, <2>2, <3>1
    <3>3. new[i] = st[i - 1] /\ new[i + 1] = st[i - 1 + 1]
      BY <1>1, <3>2
    <3>4. StandsOn(st[i - 1], st[i - 1 + 1])
      BY <3>2 DEF StackOK
    <3> QED BY <3>3, <3>4
  <2> QED BY <2>1, <2>2
<1>3. \A i \in 1 .. Len(new) : Steps(new[i].todo) \subseteq Callable(new[i])
  <2> SUFFICES ASSUME NEW i \in 1 .. Len(new) PROVE Steps(new[i].todo) \subseteq Callable(new[i])
    OBVIOUS
  <2>1. CASE i = 1
    BY <1>1, <2>1
  <2>2. CASE i # 1
    <3>1. i - 1 \in 1 .. Len(st) /\ new[i] = st[i - 1]
      BY <1>1, <2>2
    <3> QED BY <3>1 DEF StackOK
  <2> QED BY <2>1, <2>2
<1>4. \A i, j \in 1 .. Len(new) : i < j /\ new[i].r = new[j].r =>
         /\ new[i].s # Root
         /\ new[j].s # Root => chain.level[new[i].s] > chain.level[new[j].s]
  <2> SUFFICES ASSUME NEW i \in 1 .. Len(new), NEW j \in 1 .. Len(new), i < j, new[i].r = new[j].r
               PROVE  /\ new[i].s # Root
                      /\ new[j].s # Root => chain.level[new[i].s] > chain.level[new[j].s]
    OBVIOUS
  <2>1. j - 1 \in 1 .. Len(st) /\ new[j] = st[j - 1]
    BY <1>1
  <2>2. CASE i = 1
    BY <1>1, <2>1, <2>2 DEF Above
  <2>3. CASE i # 1
    <3>1. i - 1 \in 1 .. Len(st) /\ i \in 2 .. Len(st) + 1 /\ i - 1 < j - 1
      <4>1. i \in 1 .. Len(st) + 1 /\ j \in 1 .. Len(st) + 1 /\ Len(st) \in Nat
        BY <1>1
      <4> QED BY <2>3, <4>1
    <3>2. new[i] = st[i - 1]
      BY <1>1, <3>1
    <3> QED BY <2>1, <3>1, <3>2 DEF StackOK
  <2> QED BY <2>2, <2>3
<1>5. Bounded(new)
  <2> SUFFICES ASSUME NEW i \in 1 .. Len(new), new[i].s # Root PROVE new[i].n < chain.count[new[i].s]
    BY DEF Bounded
  <2>1. CASE i = 1
    BY <1>1, <2>1
  <2>2. CASE i # 1
    <3>1. i - 1 \in 1 .. Len(st) /\ new[i] = st[i - 1]
      BY <1>1, <2>2
    <3> QED BY <3>1 DEF Bounded
  <2> QED BY <2>1, <2>2
<1> QED BY <1>1, <1>2, <1>3, <1>4, <1>5 DEF new, StackOK

-----------------------------------------------------------------------------
(* What a step does to the threads *)

KeepsStack(t) ==
  /\ thr[t].stack # <<>> /\ Top(t).s # Root
  /\ \E pc \in {"leaf", "ask", "body", "raise"} :
       /\ thr' = At(t, thr[t].stack, pc)
       /\ pc \in {"leaf", "ask"} => Kind(t) \in Leaves
       /\ pc = "leaf" => ~aborted

Refills(t) ==
  /\ thr[t].stack # <<>> /\ Top(t).s # Root
  /\ \E g \in Frames : \E pc \in {"body", "sleep", "raise"} :
       /\ thr' = At(t, WithTop(t, g), pc)
       /\ g.s = Top(t).s /\ g.r = Top(t).r
       /\ Steps(g.todo) \subseteq Kids(g.s) /\ g.n < chain.count[g.s]
       /\ pc = "sleep" => Kind(t) = "retry"

Opens(t) ==
  /\ thr[t].stack # <<>> /\ Kind(t) = "agent_chain"
  /\ SubChainStarts(t, Top(t).s)

Returns(t) ==
  /\ thr[t].stack # <<>>
  /\ Top(t).s = Root => Len(thr[t].stack) > 1
  /\ \E pc \in {"body", "raise"} : thr' = At(t, Pop(t), pc)

Spawns(t) ==
  /\ thr[t].stack # <<>> /\ Kind(t) = "parallel"
  /\ ~aborted /\ ParallelStarts(t, Top(t).s)

Within(t) == \/ KeepsStack(t) \/ Refills(t) \/ Returns(t) \/ Spawns(t)

\* The step of one thread.
ThreadStep(t) ==
  /\ UNCHANGED <<chain, aborted>>
  /\ \/ Within(t) /\ DOMAIN flag' = DOMAIN flag /\ UNCHANGED over
     \/ Opens(t) /\ UNCHANGED over
     \/ Calls(t) \/ BranchSettles(t) \/ RunSettles(t)

\* The frame on top of a thread.
LEMMA TopFacts ==
  ASSUME EngineTypeOK, NEW t \in Live, thr[t].stack # <<>>
  PROVE  /\ Top(t) \in Frames /\ Top(t) = thr[t].stack[1]
         /\ Top(t).s \in StepIds \cup {Root} /\ Top(t).r \in Runners
         /\ Top(t).todo \in Seq(StepIds) /\ Top(t).n \in Nat /\ Top(t).was \in BOOLEAN
         /\ Top(t).s # Root => Top(t).s \in StepIds /\ Top(t).n < chain.count[Top(t).s]
         /\ Len(thr[t].stack) \in Nat /\ Len(thr[t].stack) >= 1
<1>1. thr[t].stack \in Seq(Frames)
  BY ThreadFacts
<1>2. /\ Top(t) \in Frames /\ Top(t) = thr[t].stack[1]
      /\ Len(thr[t].stack) \in Nat /\ Len(thr[t].stack) >= 1
  BY <1>1, StackTop DEF Top
<1>3. 1 \in DOMAIN thr[t].stack
  BY <1>1, <1>2
<1> QED BY <1>2, <1>3 DEF EngineTypeOK, Frames

\* A frame with another body.
LEMMA Filled ==
  ASSUME NEW f \in Frames, NEW todo \in Seq(StepIds)
  PROVE  LET g == [f EXCEPT !.todo = todo] IN
         g \in Frames /\ g.s = f.s /\ g.r = f.r /\ g.todo = todo /\ g.n = f.n /\ g.was = f.was
BY DEF Frames

\* Each runner has one flag.
LEMMA FlagFacts ==
  ASSUME EngineTypeOK
  PROVE  Runners = 1 .. Len(flag) /\ Len(flag) \in Nat /\ \A r \in Runners : flag[r] \in BOOLEAN
<1>1. ASSUME NEW S, NEW q \in Seq(S)
      PROVE  DOMAIN q = 1 .. Len(q) /\ Len(q) \in Nat /\ \A i \in DOMAIN q : q[i] \in S
  OBVIOUS
<1>2. flag \in Seq(BOOLEAN)
  BY DEF EngineTypeOK
<1> QED BY <1>1, <1>2, Zenon DEF Runners

\* The first body of a block.
LEMMA BodyFacts ==
  ASSUME EngineTypeOK, NEW s \in StepIds, chain.kind[s] \in Blocks \ {"branch"}
  PROVE  chain.bodies[s][1] \in Seq(StepIds) /\ Steps(chain.bodies[s][1]) \subseteq Kids(s)
BY ChainFacts

\* A further round only fills the body of the block on top again.
LEMMA RoundKind ==
  ASSUME EngineTypeOK, NEW t \in Live, thr[t].stack # <<>>, Top(t).s # Root, Kind(t) \in {"loop", "retry"},
         MoreRounds(t), NEW pc \in {"body", "sleep", "raise"}, pc = "sleep" => Kind(t) = "retry",
         NextRound(t, pc)
  PROVE  Refills(t)
<1> DEFINE s == Top(t).s
           f == Top(t)
           b == chain.bodies[s][1]
           m == f.n + 1
           g == [f EXCEPT !.todo = b, !.n = m]
<1>1. s \in StepIds /\ f \in Frames /\ f.n \in Nat /\ chain.kind[s] \in Blocks \ {"branch"}
  BY TopFacts DEF Kind, Blocks
<1>2. b \in Seq(StepIds) /\ Steps(b) \subseteq Kids(s) /\ m \in Nat
  BY <1>1, BodyFacts
<1>3. g \in Frames /\ g.s = f.s /\ g.r = f.r /\ g.todo = b /\ g.n = m
  <2> HIDE DEF f, b, m
  <2> QED BY <1>1, <1>2 DEF Frames
<1>4. g.n < chain.count[g.s]
  BY <1>3 DEF MoreRounds
<1>5. thr' = At(t, WithTop(t, g), pc)
  BY DEF NextRound
<1> HIDE DEF g
<1> QED BY <1>2, <1>3, <1>4, <1>5 DEF Refills

\* A step that fails leaves the stack.
LEMMA FailKind ==
  ASSUME EngineTypeOK, NEW t \in Live, thr[t].stack # <<>>, Top(t).s # Root, NEW fl, StepFails(t, Top(t).s, fl)
  PROVE  Returns(t)
BY DEF StepFails, Returns

\* A step that returns leaves the stack.
LEMMA ReturnKind ==
  ASSUME EngineTypeOK, NEW t \in Live, thr[t].stack # <<>>, Top(t).s # Root, NEW status,
         StepReturns(t, Top(t).s, status)
  PROVE  Returns(t)
BY DEF StepReturns, Returns

\* A failed attempt begins the body again or ends the retry.
LEMMA AttemptKind ==
  ASSUME EngineTypeOK, NEW t \in Live, thr[t].stack # <<>>, Kind(t) = "retry", Top(t).s # Root, AttemptFails(t)
  PROVE  (Returns(t) \/ Refills(t)) /\ DOMAIN flag' = DOMAIN flag
<1>1. CASE ~aborted /\ MoreRounds(t)
  BY <1>1, RoundKind DEF AttemptFails
<1>2. CASE ~(~aborted /\ MoreRounds(t))
  <2>1. StepFails(t, Top(t).s, IF aborted THEN flag ELSE FlagRestored(t))
    BY <1>2 DEF AttemptFails
  <2> QED BY <2>1, FailKind DEF StepFails, FlagRestored, EngineTypeOK
<1> QED BY <1>1, <1>2

\* Calling a handler is one of the steps of a thread.
LEMMA EnterKind ==
  ASSUME EngineTypeOK, NEW t \in Live, PcOK(t), Enter(t)
  PROVE  ThreadStep(t)
<1>1. thr[t].stack # <<>> /\ Top(t).s # Root /\ Kind(t) = chain.kind[Top(t).s] /\ Top(t).s \in StepIds
  BY TopFacts DEF Enter, PcOK, PcFits, Top, Kind
<1>2. UNCHANGED <<chain, aborted, over>>
  BY DEF Enter, Still
<1>3. CASE Refused
  <2>1. thr' = At(t, Pop(t), "raise") /\ flag' = flag
    BY <1>3 DEF Enter
  <2> QED BY <1>1, <1>2, <2>1 DEF ThreadStep, Within, Returns
<1>4. CASE ~Refused /\ thr' = At(t, Pop(t), "body") /\ flag' = flag
  BY <1>1, <1>2, <1>4 DEF ThreadStep, Within, Returns
<1>5. CASE ~Refused /\ chain.kind[Top(t).s] \in Leaves
           /\ thr' = At(t, thr[t].stack, IF chain.kind[Top(t).s] = "asking_tool" THEN "ask" ELSE "leaf")
           /\ flag' = flag
  BY <1>1, <1>2, <1>5 DEF ThreadStep, Within, KeepsStack, Refused
<1>6. CASE ~Refused /\ chain.kind[Top(t).s] \in Blocks /\ StartBlock(t, Top(t).s)
  <2> DEFINE s == Top(t).s
             f == Top(t)
  <2>0. chain.kind[s] \in {"parallel", "branch", "agent_chain", "loop", "retry"}
    BY <1>6 DEF Blocks
  <2>1. CASE chain.kind[s] = "parallel"
    <3>1. ParallelStarts(t, s)
      BY <1>6, <2>1 DEF StartBlock
    <3> QED BY <1>1, <1>2, <1>6, <2>1, <3>1 DEF ThreadStep, Within, Spawns, ParallelStarts, Refused
  <2>2. CASE chain.kind[s] = "branch"
    <3>1. BranchStarts(t, s)
      BY <1>6, <2>2 DEF StartBlock
    <3>2. CASE thr' = At(t, thr[t].stack, "body")
      BY <1>1, <1>2, <3>1, <3>2 DEF ThreadStep, Within, KeepsStack, BranchStarts
    <3>3. ASSUME NEW i \in DOMAIN chain.bodies[s],
                 thr' = At(t, WithTop(t, [f EXCEPT !.todo = chain.bodies[s][i]]), "body")
          PROVE  Refills(t)
      <4>1. chain.bodies[s][i] \in Seq(StepIds) /\ Steps(chain.bodies[s][i]) \subseteq Kids(s)
        BY <1>1, ChainFacts
      <4>2. f \in Frames /\ f.n < chain.count[s]
        BY <1>1, TopFacts
      <4> DEFINE g == [f EXCEPT !.todo = chain.bodies[s][i]]
      <4>3. g \in Frames /\ g.s = s /\ g.r = f.r /\ g.todo = chain.bodies[s][i] /\ g.n = f.n
        BY <4>1, <4>2, Filled
      <4>4. thr' = At(t, WithTop(t, g), "body")
        BY <3>3
      <4> HIDE DEF g
      <4> QED BY <1>1, <4>1, <4>2, <4>3, <4>4 DEF Refills
    <3> QED BY <1>2, <3>1, <3>2, <3>3 DEF ThreadStep, Within, BranchStarts
  <2>3. CASE chain.kind[s] = "agent_chain"
    <3>1. SubChainStarts(t, s)
      BY <1>6, <2>3 DEF StartBlock
    <3> QED BY <1>1, <1>2, <2>3, <3>1 DEF ThreadStep, Opens
  <2>4. CASE chain.kind[s] \in {"loop", "retry"}
    <3>1. RoundsStart(t, s)
      BY <1>6, <2>4 DEF StartBlock
    <3>2. chain.bodies[s][1] \in Seq(StepIds) /\ Steps(chain.bodies[s][1]) \subseteq Kids(s)
      BY <1>1, <2>4, BodyFacts DEF Blocks
    <3>3. f \in Frames /\ f.n < chain.count[s] /\ f.r \in Runners
      BY <1>1, TopFacts
    <3>4. flag[f.r] \in BOOLEAN
      BY <3>3, FlagFacts
    <3> DEFINE b == chain.bodies[s][1]
               w == flag[f.r]
               g == [f EXCEPT !.todo = b, !.was = w]
    <3>5. g \in Frames /\ g.s = f.s /\ g.r = f.r /\ g.todo = b /\ g.n = f.n
      <4>1. b \in Seq(StepIds) /\ w \in BOOLEAN /\ f \in Frames
        BY <3>2, <3>3, <3>4
      <4> HIDE DEF f, b, w
      <4> QED BY <4>1 DEF Frames
    <3>6. thr' = At(t, WithTop(t, g), "body") /\ DOMAIN flag' = DOMAIN flag
      BY <3>1 DEF RoundsStart, Runner, EngineTypeOK
    <3> HIDE DEF g
    <3>7. Refills(t)
      BY <1>1, <3>2, <3>3, <3>5, <3>6 DEF Refills
    <3> QED BY <1>2, <3>6, <3>7 DEF ThreadStep, Within
  <2> QED BY <2>0, <2>1, <2>2, <2>3, <2>4
<1> QED BY <1>3, <1>4, <1>5, <1>6 DEF Enter

\* A failure is one of the steps of a thread.
LEMMA FailStep ==
  ASSUME EngineTypeOK, NEW t \in Live, thr[t].stack # <<>>, Top(t).s # Root,
         StepFails(t, Top(t).s, flag), UNCHANGED Still
  PROVE  ThreadStep(t)
<1>1. Returns(t) /\ flag' = flag
  BY FailKind DEF StepFails
<1> QED BY <1>1 DEF ThreadStep, Within, Still

\* A return is one of the steps of a thread.
LEMMA ReturnStep ==
  ASSUME EngineTypeOK, NEW t \in Live, thr[t].stack # <<>>, Top(t).s # Root, NEW status,
         StepReturns(t, Top(t).s, status), DOMAIN flag' = DOMAIN flag, UNCHANGED Still
  PROVE  ThreadStep(t)
BY ReturnKind DEF ThreadStep, Within, Still

\* A failed attempt is one of the steps of a thread.
LEMMA AttemptStep ==
  ASSUME EngineTypeOK, NEW t \in Live, thr[t].stack # <<>>, Kind(t) = "retry", Top(t).s # Root,
         AttemptFails(t), UNCHANGED Still
  PROVE  ThreadStep(t)
BY AttemptKind DEF ThreadStep, Within, Still

\* A kind of step is not that of the chain itself.
LEMMA NotRoot ==
  ASSUME NEW t, Kind(t) # Root
  PROVE  Top(t).s # Root /\ Kind(t) = chain.kind[Top(t).s]
BY DEF Kind

\* What a thread does on its own is one of its steps.
LEMMA RunsKind ==
  ASSUME EngineTypeOK, NEW t \in Live, PcOK(t), Runs(t)
  PROVE  ThreadStep(t)
<1>0. \A k \in Sync \cup Blocks \cup Leaves : k # Root
  BY DEF Sync, Blocks, Leaves, Root
<1>1. CASE Enter(t)
  BY <1>1, EnterKind
<1>2. CASE Calls(t)
  BY <1>2 DEF Calls, ThreadStep, Still
<1>3. CASE LoopGoesOn(t)
  <2>1. thr[t].stack # <<>> /\ Top(t).s # Root /\ Kind(t) = "loop" /\ MoreRounds(t)
    BY <1>0, <1>3, NotRoot DEF LoopGoesOn, BodyDone, Blocks
  <2>2. RoundBegins \in {"body", "raise"} /\ NextRound(t, RoundBegins)
    BY <1>3 DEF RoundBegins, LoopGoesOn
  <2>3. Refills(t)
    <3> HIDE DEF RoundBegins
    <3> QED BY <2>1, <2>2, RoundKind
  <2> QED BY <1>3, <2>3 DEF LoopGoesOn, ThreadStep, Within, Still
<1>4. CASE BlockDone(t)
  <2>1. thr[t].stack # <<>> /\ Top(t).s # Root
    BY <1>0, <1>4, NotRoot DEF BlockDone, BodyDone, Blocks
  <2> QED BY <1>4, <2>1, ReturnStep DEF BlockDone, BlockReturns
<1>5. CASE RetryDone(t)
  <2>1. thr[t].stack # <<>> /\ Top(t).s # Root
    BY <1>0, <1>5, NotRoot DEF RetryDone, BodyDone, Blocks
  <2>2. DOMAIN flag' = DOMAIN flag
    BY <1>5 DEF RetryDone, FlagRestored
  <2> QED BY <1>5, <2>1, <2>2, ReturnStep DEF RetryDone
<1>6. CASE RetryJudged(t)
  <2>1. thr[t].stack # <<>> /\ Top(t).s # Root /\ Kind(t) = "retry"
    BY <1>0, <1>6, NotRoot DEF RetryJudged, BodyDone, Blocks
  <2> QED BY <1>6, <2>1, AttemptStep DEF RetryJudged
<1>7. CASE Raised(t)
  BY <1>7, AttemptStep, FailStep, NotRoot DEF Raised
<1>8. CASE SubChainEnds(t)
  <2>1. Returns(t) /\ flag' = flag
    BY <1>8 DEF SubChainEnds, Returns, BodyDone
  <2> QED BY <1>8, <2>1 DEF SubChainEnds, ThreadStep, Within, Still
<1>9. CASE BranchSettles(t)
  BY <1>9 DEF BranchSettles, ThreadStep, Still
<1>10. CASE RunSettles(t)
  BY <1>10 DEF RunSettles, ThreadStep
<1> QED BY <1>1, <1>2, <1>3, <1>4, <1>5, <1>6, <1>7, <1>8, <1>9, <1>10 DEF Runs

\* So is what it does on an answer, a timer or the user's decision.
LEMMA AnswersKind ==
  ASSUME EngineTypeOK, NEW t \in Live, PcOK(t), Answers(t) \/ User(t)
  PROVE  ThreadStep(t)
<1>1. thr[t].pc \in {"leaf", "ask", "sleep"} => thr[t].stack # <<>> /\ Top(t).s # Root
  BY DEF PcOK, PcFits, Top
<1>2. thr[t].pc \in {"leaf", "ask"} => Kind(t) \in Leaves
  BY <1>1 DEF PcOK, PcFits, Top, Kind
<1>3. CASE LeafAnswers(t)
  BY <1>1, <1>3, ReturnStep DEF LeafAnswers, Answerable
<1>4. CASE AgentErrs(t)
  BY <1>1, <1>4, ReturnStep DEF AgentErrs, Answerable
<1>5. CASE LeafThrows(t)
  BY <1>1, <1>5, FailStep DEF LeafThrows, Answerable
<1>6. CASE StatementFails(t)
  BY <1>1, <1>6, ReturnStep DEF StatementFails, Answerable
<1>7. CASE Wakes(t)
  <2>1. RoundBegins \in {"body", "raise"} /\ thr' = At(t, thr[t].stack, RoundBegins)
    BY <1>7 DEF RoundBegins, Wakes
  <2>2. KeepsStack(t)
    <3> HIDE DEF RoundBegins
    <3> QED BY <1>1, <1>7, <2>1 DEF Wakes, KeepsStack
  <2> QED BY <1>7, <2>2 DEF Wakes, ThreadStep, Within, Still
<1>8. CASE Approved(t)
  <2>1. KeepsStack(t)
    BY <1>1, <1>2, <1>8 DEF Approved, KeepsStack
  <2> QED BY <1>8, <2>1 DEF Approved, ThreadStep, Within, Still
<1>9. CASE Denied(t)
  BY <1>1, <1>9, FailStep DEF Denied
<1> QED BY <1>3, <1>4, <1>5, <1>6, <1>7, <1>8, <1>9 DEF Answers, User

-----------------------------------------------------------------------------
(* Every step leaves the threads well-formed. *)

\* The types and the shape make the threads well-formed,
LEMMA FitNow == ASSUME EngineTypeOK, ShapeInv PROVE ThreadsFit
<1>1. ASSUME NEW t \in Live PROVE Bounded(thr[t].stack)
  <2>1. thr[t].stack \in Seq(Frames)
    BY ThreadFacts
  <2>2. DOMAIN thr[t].stack = 1 .. Len(thr[t].stack)
    BY <2>1
  <2> QED BY <2>2 DEF EngineTypeOK, Bounded
<1>2. \A t \in Live : StackOK(thr[t].stack) /\ PcFits(thr[t].stack, thr[t].pc)
  BY DEF ShapeInv, PcOK
<1>3. Live \subseteq 1 .. MaxThreads /\ thr \in [Live -> Threads]
  BY DEF EngineTypeOK
<1>4. \A t \in Live : Fit(thr[t].stack, thr[t].pc)
  BY <1>1, <1>2 DEF Fit
<1> QED BY <1>3, <1>4 DEF ThreadsFit

\* and the other way round.
LEMMA ShapeNow == ASSUME ThreadsFit PROVE ShapeInv
BY DEF ShapeInv, ThreadsFit, Fit, PcOK

\* A well-formed next state, said with the operators of this one.
LEMMA FitPrime ==
  ASSUME chain' = chain, Live' \subseteq 1 .. MaxThreads, thr' \in [Live' -> Threads'],
         \A u \in Live' : Fit(thr'[u].stack, thr'[u].pc)
  PROVE  ThreadsFit'
<1>1. TopSteps' = TopSteps /\ StepIds' = StepIds
  BY DEF TopSteps, StepIds, Kids
<1>2. \A u \in Live' : StackOK(thr[u].stack)'
  <2>1. \A f, g : (StandsOn(f, g)' <=> StandsOn(f, g)) /\ Callable(f)' = Callable(f)
    BY <1>1 DEF StandsOn, Callable, Kids
  <2>2. \A q : StackOK(q)' <=> StackOK(q)
    BY <2>1 DEF StackOK
  <2>3. ASSUME NEW u \in Live' PROVE StackOK(thr[u].stack)'
    <3>1. PICK q : q = thr'[u].stack
      OBVIOUS
    <3>2. StackOK(q)'
      BY <2>2, <3>1 DEF Fit
    <3>3. StackOK(thr[u].stack)' <=> StackOK(q)'
      BY <3>1
    <3> QED BY <3>2, <3>3
  <2> QED BY <2>3
<1>3. \A u \in Live' : Bounded(thr[u].stack)' /\ PcFits(thr[u].stack, thr[u].pc)'
  BY DEF Fit, Bounded, PcFits
<1> QED BY <1>2, <1>3 DEF ThreadsFit, Fit

\* A new runner makes no frame ill-typed.
LEMMA FramesGrow ==
  ASSUME chain' = chain, Runners \subseteq Runners'
  PROVE  /\ Frames \subseteq Frames' /\ Threads \subseteq Threads'
         /\ \A st \in Seq(Frames) : st \in Seq(Frames')
<1>1. Frames \subseteq Frames'
  BY DEF Frames, StepIds
<1>2. \A st \in Seq(Frames) : st \in Seq(Frames')
  <2>1. ASSUME NEW S, NEW T, S \subseteq T PROVE \A st \in Seq(S) : st \in Seq(T)
    BY <2>1
  <2> QED BY <1>1, <2>1
<1> QED BY <1>1, <1>2 DEF Threads, Awaiting

\* One thread goes on.
LEMMA OneGoesOn ==
  ASSUME EngineTypeOK, ShapeInv, NEW t \in Live, chain' = chain, Runners \subseteq Runners',
         NEW st \in Seq(Frames'), NEW pc \in Pcs, thr' = At(t, st, pc), Fit(st, pc)
  PROVE  ThreadsFit' /\ Live' = Live
<1>1. /\ Live' = Live /\ thr'[t] = [stack |-> st, pc |-> pc, up |-> thr[t].up]
      /\ \A u \in Live \ {t} : thr'[u] = thr[u]
  BY AtFacts DEF Live
<1>2. ThreadsFit
  BY FitNow
<1>3. thr[t].up \in 0 .. MaxThreads
  BY ThreadFacts
<1>4. Threads \subseteq Threads'
  BY FramesGrow
<1>5. thr'[t] \in Threads'
  BY <1>1, <1>3 DEF Threads, Pcs, Awaiting
<1>6. \A u \in Live : thr'[u] \in Threads'
  BY <1>1, <1>2, <1>4, <1>5 DEF ThreadsFit
<1>7. thr' = [u \in Live' |-> thr'[u]]
  BY <1>1 DEF At, EngineTypeOK
<1>8. thr' \in [Live' -> Threads']
  BY <1>1, <1>6, <1>7
<1>9. \A u \in Live' : Fit(thr'[u].stack, thr'[u].pc)
  BY <1>1, <1>2 DEF ThreadsFit
<1> QED BY <1>1, <1>2, <1>8, <1>9, FitPrime DEF ThreadsFit

\* What a step of t leaves alone.
Others(t) == Live' = Live /\ thr'[t].up = thr[t].up /\ \A u \in Live \ {t} : thr'[u] = thr[u]

\* The step of one thread leaves the others alone.
LEMMA OthersStay ==
  ASSUME EngineTypeOK, NEW t \in Live, NEW st, NEW pc, thr' = At(t, st, pc)
  PROVE  Others(t) /\ thr'[t].stack = st /\ thr'[t].pc = pc
<1>1. /\ DOMAIN At(t, st, pc) = Live
      /\ At(t, st, pc)[t] = [stack |-> st, pc |-> pc, up |-> thr[t].up]
      /\ \A u \in Live \ {t} : At(t, st, pc)[u] = thr[u]
  BY AtFacts
<1>2. Live' = DOMAIN At(t, st, pc)
  BY DEF Live
<1> QED BY <1>1, <1>2 DEF Others

KeptStack(t) ==
  /\ thr[t].stack # <<>> /\ Top(t).s # Root
  /\ thr'[t].stack = thr[t].stack /\ thr'[t].pc \in {"leaf", "ask", "body", "raise"}
  /\ thr'[t].pc = "leaf" => ~aborted

\* A step that keeps the stack keeps the threads well-formed.
LEMMA KeepsFit ==
  ASSUME EngineTypeOK, ShapeInv, NEW t \in Live, chain' = chain, Runners \subseteq Runners', KeepsStack(t)
  PROVE  ThreadsFit' /\ Others(t) /\ KeptStack(t)
<1>1. PICK pc \in {"leaf", "ask", "body", "raise"} :
        /\ thr' = At(t, thr[t].stack, pc) /\ (pc \in {"leaf", "ask"} => Kind(t) \in Leaves)
        /\ pc = "leaf" => ~aborted
  BY DEF KeepsStack
<1>2. thr[t].stack # <<>> /\ Top(t).s # Root
  BY DEF KeepsStack
<1>3. thr[t].stack \in Seq(Frames') /\ pc \in Pcs
  BY ThreadFacts, FramesGrow DEF Pcs, Awaiting
<1>4. Fit(thr[t].stack, thr[t].pc)
  BY FitNow DEF ThreadsFit
<1>5. Fit(thr[t].stack, pc)
  BY <1>1, <1>2, <1>4 DEF Fit, PcFits, Kind, Top
<1>6. thr' = At(t, thr[t].stack, pc)
  BY <1>1
<1>7. ThreadsFit'
  BY <1>3, <1>5, <1>6, OneGoesOn
<1>8. Others(t) /\ thr'[t].stack = thr[t].stack /\ thr'[t].pc = pc
  BY <1>6, OthersStay
<1> QED BY <1>1, <1>2, <1>7, <1>8 DEF KeptStack

Refilled(t) ==
  /\ thr[t].stack # <<>> /\ Top(t).s # Root
  /\ thr'[t].pc \in {"body", "sleep", "raise"}
  /\ Len(thr'[t].stack) = Len(thr[t].stack)
  /\ \A i \in 2 .. Len(thr[t].stack) : thr'[t].stack[i] = thr[t].stack[i]
  /\ thr'[t].stack[1].s = Top(t).s /\ thr'[t].stack[1].r = Top(t).r
  /\ Steps(thr'[t].stack[1].todo) \subseteq Kids(Top(t).s)

\* So does a new round or the chosen case of a branch,
LEMMA RefillsFit ==
  ASSUME EngineTypeOK, ShapeInv, NEW t \in Live, chain' = chain, Runners \subseteq Runners', Refills(t)
  PROVE  ThreadsFit' /\ Others(t) /\ Refilled(t)
<1>1. PICK g \in Frames, pc \in {"body", "sleep", "raise"} :
        /\ thr' = At(t, WithTop(t, g), pc)
        /\ g.s = Top(t).s /\ g.r = Top(t).r
        /\ Steps(g.todo) \subseteq Kids(g.s) /\ g.n < chain.count[g.s]
        /\ pc = "sleep" => Kind(t) = "retry"
  BY DEF Refills
<1>2. thr[t].stack # <<>> /\ Top(t).s # Root
  BY DEF Refills
<1> DEFINE st == thr[t].stack
           new == <<g>> \o Tail(st)
<1>3. st \in Seq(Frames') /\ g \in Frames'
  BY ThreadFacts, FramesGrow
<1>4. StackOK(st) /\ Bounded(st)
  BY FitNow DEF ThreadsFit, Fit
<1>5. /\ new \in Seq(Frames') /\ Len(new) = Len(st) /\ Len(st) \in Nat /\ Len(st) >= 1
      /\ new[1] = g /\ \A i \in 2 .. Len(st) : new[i] = st[i]
      /\ StackOK(new) /\ Bounded(new)
  BY <1>1, <1>2, <1>3, <1>4, RetopOK DEF Top, Callable
<1>6. thr' = At(t, new, pc)
  BY <1>1 DEF WithTop, Pop
<1>7. new # <<>> /\ Head(new) = g
  BY <1>5
<1> HIDE DEF new
<1>8. Fit(new, pc)
  BY <1>1, <1>2, <1>5, <1>7 DEF Fit, PcFits, Kind
<1>9. pc \in Pcs
  BY DEF Pcs, Awaiting
<1>10. ThreadsFit' /\ Others(t) /\ thr'[t].stack = new /\ thr'[t].pc = pc
  BY <1>5, <1>6, <1>8, <1>9, OneGoesOn, OthersStay
<1> QED BY <1>1, <1>2, <1>5, <1>10 DEF Refilled

Returned(t) ==
  /\ thr[t].stack # <<>> /\ (Top(t).s = Root => Len(thr[t].stack) > 1)
  /\ thr'[t].pc \in {"body", "raise"}
  /\ Len(thr'[t].stack) = Len(thr[t].stack) - 1
  /\ \A i \in 1 .. Len(thr[t].stack) - 1 : thr'[t].stack[i] = thr[t].stack[i + 1]

\* the end of a step,
LEMMA ReturnsFit ==
  ASSUME EngineTypeOK, ShapeInv, NEW t \in Live, chain' = chain, Runners \subseteq Runners', Returns(t)
  PROVE  ThreadsFit' /\ Others(t) /\ Returned(t)
<1>1. PICK pc \in {"body", "raise"} : thr' = At(t, Pop(t), pc)
  BY DEF Returns
<1>2. thr[t].stack # <<>> /\ (Top(t).s = Root => Len(thr[t].stack) > 1)
  BY DEF Returns
<1> DEFINE st == thr[t].stack
           new == Tail(st)
<1>3. st \in Seq(Frames')
  BY ThreadFacts, FramesGrow
<1>4. StackOK(st) /\ Bounded(st)
  BY FitNow DEF ThreadsFit, Fit
<1>5. /\ new \in Seq(Frames') /\ Len(new) = Len(st) - 1
      /\ \A i \in 1 .. Len(st) - 1 : new[i] = st[i + 1]
      /\ StackOK(new) /\ Bounded(new)
  BY <1>2, <1>3, <1>4, PopOK
<1>6. thr' = At(t, new, pc) /\ pc \in Pcs
  BY <1>1 DEF Pop, Pcs
<1> HIDE DEF new
<1>7. Fit(new, pc)
  BY <1>1, <1>5 DEF Fit, PcFits
<1>8. ThreadsFit' /\ Others(t) /\ thr'[t].stack = new /\ thr'[t].pc = pc
  BY <1>5, <1>6, <1>7, OneGoesOn, OthersStay
<1> QED BY <1>1, <1>2, <1>5, <1>8 DEF Returned

\* A call stands above all frames of its runner.
LEMMA CallableSteps ==
  ASSUME EngineTypeOK, NEW f \in Frames
  PROVE  Callable(f) \subseteq StepIds
<1>1. Steps(chain.main) \subseteq StepIds
  BY ChainFacts DEF WellFormed, Steps, StepIds
<1>2. TopSteps \subseteq StepIds
  BY <1>1, ChainFacts DEF TopSteps
<1> QED BY <1>2, ChainFacts DEF Callable, Frames

\* A step that is called lies deeper than all frames of its runner.
LEMMA CallAbove ==
  ASSUME EngineTypeOK, NEW st \in Seq(Frames), st # <<>>, StackOK(st), NEW f,
         f.s # Root, f.r = st[1].r, f.s \in Callable(st[1])
  PROVE  Above(f, st)
<1>1. /\ Len(st) \in Nat /\ Len(st) >= 1 /\ st[1] \in Frames /\ f.s \in StepIds
  BY StackTop, CallableSteps
<1> SUFFICES ASSUME NEW j \in 1 .. Len(st), f.r = st[j].r, st[j].s # Root
             PROVE  chain.level[f.s] > chain.level[st[j].s]
  BY DEF Above
<1>2. st[j] \in Frames /\ st[j].s \in StepIds
  <2>1. st[j] \in Frames
    OBVIOUS
  <2> QED BY <2>1 DEF Frames
<1>3. CASE j = 1
  <2>1. f.s \in Kids(st[1].s) /\ st[1].s \in StepIds
    BY <1>1, <1>2, <1>3 DEF Callable
  <2> QED BY <1>3, <2>1, ChainFacts
<1>4. CASE j # 1
  <2>1. 1 \in 1 .. Len(st) /\ 1 < j /\ st[1].r = st[j].r
    BY <1>1, <1>4
  <2>2. st[1].s # Root /\ chain.level[st[1].s] > chain.level[st[j].s]
    BY <1>1, <2>1 DEF StackOK
  <2>3. st[1].s \in StepIds /\ f.s \in Kids(st[1].s)
    BY <1>1, <2>2 DEF Callable, Frames
  <2>4. chain.level[f.s] > chain.level[st[1].s]
    BY <2>3, ChainFacts
  <2>5. chain.level[f.s] \in Nat /\ chain.level[st[1].s] \in Nat /\ chain.level[st[j].s] \in Nat
    BY <1>1, <1>2, <2>3, ChainFacts
  <2> QED BY <2>2, <2>4, <2>5
<1> QED BY <1>3, <1>4

Called(t) ==
  /\ thr[t].stack # <<>> /\ thr[t].pc = "body" /\ Top(t).todo # <<>>
  /\ thr'[t].pc = "enter"
  /\ Len(thr'[t].stack) = Len(thr[t].stack) + 1
  /\ \A i \in 3 .. Len(thr[t].stack) + 1 : thr'[t].stack[i] = thr[t].stack[i - 1]
  /\ thr'[t].stack[2].s = Top(t).s /\ thr'[t].stack[2].r = Top(t).r
  /\ thr'[t].stack[2].was = Top(t).was
  /\ Steps(thr'[t].stack[2].todo) \cup {thr'[t].stack[1].s} = Steps(Top(t).todo)
  /\ thr'[t].stack[1].s \in StepIds /\ thr'[t].stack[1].r = Top(t).r
  /\ thr'[t].stack[1].todo = <<>>

\* A call keeps the threads well-formed: the step called lies deeper than
\* the frames of its runner.
LEMMA CallsFit ==
  ASSUME EngineTypeOK, ShapeInv, NEW t \in Live, chain' = chain, UNCHANGED flag, Calls(t)
  PROVE  ThreadsFit' /\ Others(t) /\ Called(t)
<1> DEFINE f == Top(t)
           x == Head(f.todo)
           new == Frame(x, <<>>, f.r)
           rest == [f EXCEPT !.todo = Tail(f.todo)]
           st == thr[t].stack
           mid == <<rest>> \o Tail(st)
           all == <<new>> \o mid
<1>1. thr[t].pc = "body" /\ st # <<>> /\ f.todo # <<>>
      /\ thr' = At(t, <<new, rest>> \o Tail(st), "enter")
  BY DEF Calls, Pop
<1>2. /\ f \in Frames /\ f = st[1] /\ f.s \in StepIds \cup {Root} /\ f.r \in Runners
      /\ f.todo \in Seq(StepIds) /\ f.n \in Nat /\ (f.s # Root => f.n < chain.count[f.s])
      /\ st \in Seq(Frames) /\ Head(st) = f
  BY <1>1, TopFacts, ThreadFacts DEF Top
<1>3. StackOK(st) /\ Bounded(st) /\ Runners \subseteq Runners' /\ Frames' = Frames
  BY FitNow DEF ThreadsFit, Fit, Runners, Frames, StepIds
<1>4. /\ Tail(f.todo) \in Seq(StepIds) /\ x \in StepIds
      /\ Steps(Tail(f.todo)) \cup {x} = Steps(f.todo)
  <2>1. /\ Len(f.todo) \in Nat /\ Len(f.todo) >= 1 /\ x = f.todo[1] /\ x \in StepIds
        /\ Tail(f.todo) \in Seq(StepIds) /\ Len(Tail(f.todo)) = Len(f.todo) - 1
        /\ \A i \in 1 .. Len(f.todo) - 1 : Tail(f.todo)[i] = f.todo[i + 1]
    BY <1>1, <1>2, StackTop
  <2>2. DOMAIN f.todo = 1 .. Len(f.todo) /\ DOMAIN Tail(f.todo) = 1 .. Len(f.todo) - 1
    BY <1>2, <2>1
  <2>3. Steps(Tail(f.todo)) \cup {x} \subseteq Steps(f.todo)
    BY <2>1, <2>2 DEF Steps
  <2>4. ASSUME NEW i \in 1 .. Len(f.todo) PROVE f.todo[i] \in Steps(Tail(f.todo)) \cup {x}
    <3>1. CASE i = 1
      BY <2>1, <3>1
    <3>2. CASE i # 1
      <4>1. i - 1 \in 1 .. Len(f.todo) - 1 /\ Tail(f.todo)[i - 1] = f.todo[i]
        BY <2>1, <3>2
      <4> QED BY <2>2, <4>1 DEF Steps
    <3> QED BY <3>1, <3>2
  <2>5. Steps(f.todo) \subseteq Steps(Tail(f.todo)) \cup {x}
    BY <2>2, <2>4 DEF Steps
  <2> QED BY <2>1, <2>3, <2>5
<1>5. /\ rest \in Frames /\ rest.s = f.s /\ rest.r = f.r /\ rest.todo = Tail(f.todo) /\ rest.n = f.n
      /\ rest.was = f.was
  BY <1>2, <1>4, Filled
<1>6. /\ new \in Frames /\ new.s = x /\ new.todo = <<>> /\ new.r = f.r /\ new.n = 0
  <2>1. <<>> \in Seq(StepIds) /\ x \in StepIds \cup {Root} /\ f.r \in Runners
    BY <1>2, <1>4
  <2> HIDE DEF f, x, rest
  <2> QED BY <2>1 DEF Frame, Frames
<1>7. Steps(f.todo) \subseteq Callable(f) /\ Callable(rest) = Callable(f)
  <2>0. ASSUME NEW n \in Nat, n >= 1 PROVE 1 \in 1 .. n
    BY <2>0
  <2>1. 1 \in 1 .. Len(st)
    <3>1. Len(st) \in Nat /\ Len(st) >= 1
      BY <1>1, <1>2, StackTop
    <3> QED BY <2>0, <3>1
  <2>2. Steps(st[1].todo) \subseteq Callable(st[1])
    BY <1>3, <2>1 DEF StackOK
  <2>3. rest.s = f.s /\ f = st[1]
    BY <1>2, <1>5
  <2> HIDE DEF rest, f
  <2>4. Callable(rest) = Callable(f)
    BY <2>3 DEF Callable
  <2> QED BY <2>2, <2>3, <2>4
<1> HIDE DEF rest, new, f, x
<1>8. /\ mid \in Seq(Frames) /\ Len(mid) = Len(st) /\ Len(st) \in Nat /\ Len(st) >= 1
      /\ mid[1] = rest /\ \A i \in 2 .. Len(st) : mid[i] = st[i]
      /\ StackOK(mid) /\ Bounded(mid)
  <2>1. Steps(rest.todo) \subseteq Callable(rest)
    BY <1>4, <1>5, <1>7
  <2>2. rest.s = Head(st).s /\ rest.r = Head(st).r /\ (rest.s # Root => rest.n < chain.count[rest.s])
    BY <1>2, <1>5
  <2> HIDE DEF st
  <2> QED BY <1>1, <1>2, <1>3, <1>5, <2>1, <2>2, RetopOK
<1> HIDE DEF mid
<1>9. mid # <<>> /\ x # Root /\ x \in Callable(mid[1]) /\ Head(mid) = rest
  BY <1>4, <1>7, <1>8, ChainFacts
<1>10. StandsOn(new, mid[1]) /\ Above(new, mid)
  BY <1>5, <1>6, <1>8, <1>9, CallAbove DEF StandsOn
<1>11. Steps(new.todo) \subseteq Callable(new) /\ new.n < chain.count[new.s]
  BY <1>4, <1>6, ChainFacts DEF Steps
<1>12. /\ all \in Seq(Frames) /\ Len(all) = Len(st) + 1
       /\ all[1] = new /\ (\A i \in 2 .. Len(st) + 1 : all[i] = mid[i - 1])
       /\ StackOK(all) /\ Bounded(all)
  BY <1>6, <1>8, <1>9, <1>10, <1>11, PushOK
<1>13. thr' = At(t, all, "enter")
  <2>1. Tail(st) \in Seq(Frames)
    BY <1>1, <1>2, StackTop
  <2>2. <<new, rest>> \o Tail(st) = all
    BY <1>5, <1>6, <2>1, StackPushTwo DEF mid
  <2> HIDE DEF all
  <2> QED BY <1>1, <2>2
<1> HIDE DEF all
<1>14. Fit(all, "enter")
  <2>1. all # <<>> /\ Head(all) = new
    BY <1>8, <1>12
  <2> QED BY <1>6, <1>9, <1>12, <2>1 DEF Fit, PcFits
<1>15. all \in Seq(Frames') /\ "enter" \in Pcs
  BY <1>3, <1>12 DEF Pcs
<1>16. ThreadsFit'
  BY <1>3, <1>13, <1>14, <1>15, OneGoesOn
<1>17. Others(t) /\ thr'[t].stack = all /\ thr'[t].pc = "enter"
  BY <1>13, OthersStay
<1>18. \A i \in 3 .. Len(st) + 1 : all[i] = st[i - 1]
  BY <1>8, <1>12
<1>19. all[2] = rest
  BY <1>8, <1>12
<1>20. /\ all[2].s = f.s /\ all[2].r = f.r /\ all[2].was = f.was
       /\ Steps(all[2].todo) \cup {all[1].s} = Steps(f.todo)
       /\ all[1].s \in StepIds /\ all[1].r = f.r /\ all[1].todo = <<>>
  BY <1>4, <1>5, <1>6, <1>12, <1>19
<1> QED BY <1>1, <1>12, <1>16, <1>17, <1>18, <1>20 DEF Called, f

Opened(t) ==
  /\ thr[t].stack # <<>> /\ Kind(t) = "agent_chain"
  /\ thr'[t].pc = "body"
  /\ Len(thr'[t].stack) = Len(thr[t].stack) + 1
  /\ \A i \in 2 .. Len(thr[t].stack) + 1 : thr'[t].stack[i] = thr[t].stack[i - 1]
  /\ thr'[t].stack[1].s = Root /\ thr'[t].stack[1].r = Len(flag) + 1
  /\ Steps(thr'[t].stack[1].todo) \subseteq Kids(Top(t).s)

\* A sub-chain keeps them well-formed: its runner is a new one.
LEMMA OpensFit ==
  ASSUME EngineTypeOK, ShapeInv, NEW t \in Live, chain' = chain, Opens(t)
  PROVE  ThreadsFit' /\ Others(t) /\ Opened(t) /\ Runners' = Runners \cup {Len(flag) + 1}
<1> DEFINE s == Top(t).s
           body == chain.bodies[s][1]
           r == Len(flag) + 1
           new == Frame(Root, body, r)
           st == thr[t].stack
           all == <<new>> \o st
<1>1. st # <<>> /\ Kind(t) = "agent_chain" /\ thr' = At(t, all, "body") /\ flag' = Append(flag, FALSE)
  BY DEF Opens, SubChainStarts
<1>2. s \in StepIds /\ s # Root /\ chain.kind[s] = "agent_chain" /\ Top(t) = st[1]
  BY <1>1, TopFacts DEF Kind, Root
<1>3. body \in Seq(StepIds) /\ Steps(body) \subseteq Kids(s)
  BY <1>2, BodyFacts DEF Blocks
<1>4. Len(flag) \in Nat /\ Runners = 1 .. Len(flag) /\ r \notin Runners
  BY FlagFacts
<1>5. Runners' = Runners \cup {r}
  <2>1. ASSUME NEW S, NEW q \in Seq(S), NEW e \in S
        PROVE  DOMAIN Append(q, e) = DOMAIN q \cup {Len(q) + 1}
    OBVIOUS
  <2>2. flag \in Seq(BOOLEAN)
    BY DEF EngineTypeOK
  <2>3. DOMAIN Append(flag, FALSE) = DOMAIN flag \cup {r}
    BY <2>1, <2>2
  <2> QED BY <1>1, <2>3 DEF Runners
<1>6. new \in Frames' /\ new.s = Root /\ new.todo = body /\ new.r = r
  <2>1. StepIds' = StepIds /\ r \in Runners'
    BY <1>5 DEF StepIds
  <2> HIDE DEF r, body
  <2> QED BY <1>3, <2>1 DEF Frame, Frames
<1>7. st \in Seq(Frames) /\ st \in Seq(Frames')
  BY <1>5, ThreadFacts, FramesGrow
<1>8. StackOK(st) /\ Bounded(st)
  BY FitNow DEF ThreadsFit, Fit
<1>9. \A j \in 1 .. Len(st) : st[j].r # new.r
  <2>1. \A j \in 1 .. Len(st) : st[j] \in Frames
    BY <1>7
  <2>2. \A f \in Frames : f.r \in Runners
    BY DEF Frames
  <2> HIDE DEF st, new, r
  <2> QED BY <1>4, <1>6, <2>1, <2>2
<1> HIDE DEF new
<1>10. StandsOn(new, st[1]) /\ Above(new, st)
  BY <1>2, <1>6, <1>9 DEF StandsOn, Above
<1>11. Steps(new.todo) \subseteq Callable(new)
  BY <1>2, <1>3, <1>6 DEF Callable, TopSteps
<1>12. /\ all \in Seq(Frames') /\ Len(all) = Len(st) + 1 /\ Len(st) \in Nat
       /\ all[1] = new /\ (\A i \in 2 .. Len(st) + 1 : all[i] = st[i - 1])
       /\ StackOK(all) /\ Bounded(all)
  <2> HIDE DEF st
  <2> QED BY <1>1, <1>6, <1>7, <1>8, <1>10, <1>11, PushOK
<1> HIDE DEF all
<1>13. Fit(all, "body") /\ "body" \in Pcs
  BY <1>12 DEF Fit, PcFits, Pcs
<1>14. ThreadsFit'
  BY <1>1, <1>5, <1>12, <1>13, OneGoesOn
<1>15. Others(t) /\ thr'[t].stack = all /\ thr'[t].pc = "body"
  BY <1>1, OthersStay
<1> QED BY <1>1, <1>3, <1>5, <1>6, <1>12, <1>14, <1>15 DEF Opened

\* A branch of a parallel step that has just been called.
Newborn(u, t) ==
  /\ thr'[u].pc = "enter" /\ thr'[u].up = t /\ Len(thr'[u].stack) = 1
  /\ thr'[u].stack[1].s \in Kids(Top(t).s) /\ thr'[u].stack[1].r = Top(t).r
  /\ thr'[u].stack[1].todo = <<>>

Spawned(t) ==
  /\ thr[t].stack # <<>> /\ Kind(t) = "parallel"
  /\ Live \subseteq Live'
  /\ \A u \in Live \ {t} : thr'[u] = thr[u]
  /\ thr'[t].stack = thr[t].stack /\ thr'[t].up = thr[t].up
  /\ thr'[t].pc = IF Live' = Live THEN "body" ELSE "join"
  /\ \A u \in Live' \ Live : Newborn(u, t)

\* A parallel step keeps them well-formed: one thread per child, called by
\* nobody else.
LEMMA SpawnsFit ==
  ASSUME EngineTypeOK, ShapeInv, NEW t \in Live, chain' = chain, Runners' = Runners, Spawns(t)
  PROVE  ThreadsFit' /\ Spawned(t)
<1> DEFINE s == Top(t).s
           kids == chain.bodies[s][1]
           n == Len(kids)
           st == thr[t].stack
           pc == IF n = 0 THEN "body" ELSE "join"
<1>1. st # <<>> /\ Kind(t) = "parallel" /\ ParallelStarts(t, s)
  BY DEF Spawns
<1>2. s \in StepIds /\ s # Root /\ chain.kind[s] = "parallel" /\ Top(t) = st[1] /\ Top(t).r \in Runners
  BY <1>1, TopFacts DEF Kind, Root
<1>3. kids \in Seq(StepIds) /\ Steps(kids) \subseteq Kids(s)
  BY <1>2, BodyFacts DEF Blocks
<1>4. PICK id \in [1 .. n -> 1 .. MaxThreads \ Live] :
        /\ FirstFree(n, id)
        /\ thr' = [u \in Live \cup {id[i] : i \in 1 .. n} |->
             IF u \in Live THEN At(t, st, pc)[u]
             ELSE Thread(<<Frame(kids[CHOOSE i \in 1 .. n : id[i] = u], <<>>, Runner(t))>>, "enter", t)]
  BY <1>1 DEF ParallelStarts
<1> DEFINE pick(u) == CHOOSE i \in 1 .. n : id[i] = u
           new(u) == Frame(kids[pick(u)], <<>>, Runner(t))
<1>5. n \in Nat
  BY <1>3
<1>6. Live' = Live \cup {id[i] : i \in 1 .. n}
  BY <1>4 DEF Live
<1>7. \A u \in Live : thr'[u] = At(t, st, pc)[u]
  BY <1>4
<1>8. thr'[t] = [stack |-> st, pc |-> pc, up |-> thr[t].up] /\ \A u \in Live \ {t} : thr'[u] = thr[u]
  BY <1>7, AtFacts
<1>9. \A u \in Live' \ Live : thr'[u] = Thread(<<new(u)>>, "enter", t) /\ pick(u) \in 1 .. n
  BY <1>4, <1>6
<1>10. Frames' = Frames
  BY DEF Frames, StepIds
<1>11. ASSUME NEW u \in Live' \ Live
       PROVE  /\ thr'[u] \in Threads' /\ Fit(thr'[u].stack, thr'[u].pc) /\ Newborn(u, t)
  <2>0. PICK k \in 1 .. n : thr'[u] = Thread(<<Frame(kids[k], <<>>, Runner(t))>>, "enter", t)
    BY <1>9
  <2> DEFINE x == kids[k]
             g == Frame(x, <<>>, Runner(t))
             one == <<g>>
  <2>1. x \in Steps(kids) /\ x \in StepIds
    <3> HIDE DEF kids
    <3>1. k \in DOMAIN kids /\ x = kids[k]
      BY <1>3
    <3>2. x \in Steps(kids)
      BY <3>1 DEF Steps
    <3> QED BY <1>3, <3>2
  <2>2. <<>> \in Seq(StepIds) /\ Runner(t) \in Runners
    <3>1. ASSUME NEW S PROVE <<>> \in Seq(S)
      OBVIOUS
    <3>2. Top(t).r \in Runners
      BY <1>2
    <3> QED BY <3>1, <3>2 DEF Runner
  <2>3. g \in Frames /\ g.s = x /\ g.todo = <<>> /\ g.r = Runner(t) /\ g.n = 0
    <3> HIDE DEF x
    <3> QED BY <2>1, <2>2 DEF Frame, Frames
  <2>4. thr'[u] = [stack |-> one, pc |-> "enter", up |-> t]
    BY <2>0 DEF Thread
  <2> HIDE DEF g, x
  <2>5. one \in Seq(Frames') /\ Len(one) = 1 /\ one[1] = g /\ one # <<>> /\ Head(one) = g
    BY <1>10, <2>3
  <2> HIDE DEF one
  <2>6. t \in 0 .. MaxThreads
    <3>1. MaxThreads \in Nat
      BY ChainFacts
    <3>2. t \in 1 .. MaxThreads
      BY DEF EngineTypeOK
    <3> QED BY <3>1, <3>2
  <2>7. thr'[u] \in Threads'
    BY <2>4, <2>5, <2>6 DEF Threads, Awaiting
  <2>8. x # Root /\ 0 < chain.count[x] /\ x \in Kids(s)
    BY <1>3, <2>1, ChainFacts
  <2>9. StackOK(one) /\ Bounded(one)
    BY <2>3, <2>5, <2>8 DEF StackOK, Bounded, Steps
  <2>10. PcFits(one, "enter")
    BY <2>3, <2>5, <2>8 DEF PcFits
  <2>11. Newborn(u, t)
    BY <2>3, <2>4, <2>5, <2>8 DEF Newborn, Runner
  <2> QED BY <2>4, <2>7, <2>9, <2>10, <2>11 DEF Fit
<1>12. ThreadsFit
  BY FitNow
<1>13. Threads' = Threads
  BY <1>10 DEF Threads, Awaiting
<1>14. thr'[t] \in Threads' /\ Fit(thr'[t].stack, thr'[t].pc)
  <2>1. thr[t] \in Threads /\ Fit(st, thr[t].pc)
    BY <1>12 DEF ThreadsFit
  <2>2. thr'[t] \in Threads
    BY <1>8, <2>1 DEF Threads, Awaiting
  <2>3. PcFits(st, pc)
    BY <1>1, <1>2, <2>1 DEF PcFits, Fit, Kind, Top
  <2> QED BY <1>8, <1>13, <2>1, <2>2, <2>3 DEF Fit
<1>15. \A u \in Live' : thr'[u] \in Threads' /\ Fit(thr'[u].stack, thr'[u].pc)
  BY <1>8, <1>11, <1>12, <1>13, <1>14 DEF ThreadsFit
<1>16. thr' = [u \in Live' |-> thr'[u]]
  <2> DEFINE value(u) == IF u \in Live THEN At(t, st, pc)[u] ELSE Thread(<<new(u)>>, "enter", t)
             D == Live \cup {id[i] : i \in 1 .. n}
  <2>1. thr' = [u \in D |-> value(u)]
    BY <1>4
  <2> HIDE DEF value, D
  <2>2. thr' = [u \in D |-> thr'[u]]
    BY <2>1
  <2> QED BY <1>6, <2>2 DEF D
<1>17. thr' \in [Live' -> Threads']
  BY <1>15, <1>16
<1>18. Live' \subseteq 1 .. MaxThreads
  BY <1>4, <1>6 DEF EngineTypeOK
<1>19. ThreadsFit'
  BY <1>15, <1>17, <1>18, FitPrime
<1>20. Live' = Live <=> n = 0
  <2>1. CASE n = 0
    BY <1>6, <2>1
  <2>2. CASE n # 0
    <3>1. 1 \in 1 .. n
      BY <1>5, <2>2
    <3> QED BY <1>4, <1>6, <2>2, <3>1
  <2> QED BY <2>1, <2>2
<1>21. Live \subseteq Live'
  BY <1>6
<1> QED BY <1>1, <1>8, <1>11, <1>19, <1>20, <1>21 DEF Spawned

\* A thread ends, and Promise.all takes note of it.
Settled(t) ==
  LET p    == thr[t].up
      alone == \A u \in Live \ {t} : thr[u].up # p
      wake == p # 0 /\ (thr[t].pc = "raise" \/ alone)
  IN /\ thr[t].stack = <<>> /\ thr[t].pc \in {"body", "raise"}
     /\ Live' = Live \ {t}
     /\ \A u \in Live' :
          /\ thr'[u].stack = thr[u].stack
          /\ thr'[u].pc = IF wake /\ u = p THEN thr[t].pc ELSE thr[u].pc
          /\ thr'[u].up = IF thr[t].pc = "raise" /\ p # 0 /\ thr[u].up = p THEN 0 ELSE thr[u].up

\* A thread that is taken away.
LEMMA DropFacts ==
  ASSUME NEW t
  PROVE  /\ DOMAIN Drop(thr, t) = Live \ {t} /\ \A u \in Live \ {t} : Drop(thr, t)[u] = thr[u]
         /\ Drop(thr, t) = [u \in Live \ {t} |-> Drop(thr, t)[u]]
BY DEF Drop, Live

\* Promise.all that no longer waits changes no set of threads,
LEMMA ForsakenFacts ==
  ASSUME NEW f, NEW p
  PROVE  /\ DOMAIN Forsaken(f, p) = DOMAIN f
         /\ Forsaken(f, p) = [u \in DOMAIN f |-> Forsaken(f, p)[u]]
BY DEF Forsaken

\* and of a thread only whom it tells.
LEMMA ForsakenThread ==
  ASSUME NEW f, NEW p, NEW u \in DOMAIN f, f[u] \in Threads, MaxThreads \in Nat
  PROVE  /\ Forsaken(f, p)[u] \in Threads
         /\ Forsaken(f, p)[u].stack = f[u].stack /\ Forsaken(f, p)[u].pc = f[u].pc
         /\ Forsaken(f, p)[u].up = IF f[u].up = p THEN 0 ELSE f[u].up
<1>1. ASSUME f[u].up = p
      PROVE  /\ Forsaken(f, p)[u] = [f[u] EXCEPT !.up = 0]
  BY <1>1 DEF Forsaken
<1>2. ASSUME f[u].up # p PROVE Forsaken(f, p)[u] = f[u]
  BY <1>2 DEF Forsaken
<1>3. ASSUME NEW th \in Threads
      PROVE  LET g == [th EXCEPT !.up = 0] IN
             g \in Threads /\ g.stack = th.stack /\ g.pc = th.pc /\ g.up = 0
  <2>1. 0 \in 0 .. MaxThreads
    OBVIOUS
  <2> DEFINE T == 0 .. MaxThreads
             P == Awaiting \cup {"enter", "body", "raise"}
             Q == Seq(Frames)
  <2>2. Threads = [stack : Q, pc : P, up : T]
    BY DEF Threads
  <2> HIDE DEF T, P, Q
  <2> QED BY <2>1, <2>2 DEF T
<1>4. CASE f[u].up = p
  <2> DEFINE g == [f[u] EXCEPT !.up = 0]
  <2>1. Forsaken(f, p)[u] = g
    BY <1>1, <1>4
  <2>2. g \in Threads /\ g.stack = f[u].stack /\ g.pc = f[u].pc /\ g.up = 0
    BY <1>3
  <2> HIDE DEF g
  <2> QED BY <1>4, <2>1, <2>2
<1>5. CASE f[u].up # p
  <2>1. Forsaken(f, p)[u] = f[u]
    BY <1>2, <1>5
  <2> QED BY <1>5, <2>1
<1> QED BY <1>4, <1>5

\* A thread somewhere else.
LEMMA ThreadAt ==
  ASSUME NEW th \in Threads, NEW pc \in Pcs
  PROVE  LET g == [th EXCEPT !.pc = pc] IN
         g \in Threads /\ g.stack = th.stack /\ g.pc = pc /\ g.up = th.up
BY DEF Threads, Pcs

\* A promise that settles keeps the threads well-formed.
LEMMA SettlesFit ==
  ASSUME EngineTypeOK, ShapeInv, NEW t \in Live, chain' = chain, Runners' = Runners, BranchSettles(t)
  PROVE  ThreadsFit' /\ Settled(t)
<1> DEFINE p    == thr[t].up
           rest == Drop(thr, t)
           alone == \A u \in Live \ {t} : thr[u].up # p
           D    == Live \ {t}
           grown == Forsaken(rest, p)
<1>1. thr[t].stack = <<>> /\ thr[t].pc \in {"body", "raise"}
  BY DEF BranchSettles
<1>2. /\ DOMAIN rest = D /\ \A u \in D : rest[u] = thr[u]
      /\ rest = [u \in D |-> rest[u]]
  BY DropFacts
<1>3. /\ p = 0 => thr' = rest
      /\ p # 0 /\ thr[t].pc = "raise" => thr' = [grown EXCEPT ![p].pc = "raise"]
      /\ p # 0 /\ thr[t].pc = "body" => thr' = IF alone THEN [rest EXCEPT ![p].pc = "body"] ELSE rest
  BY <1>1, <1>2 DEF BranchSettles
<1>4. MaxThreads \in Nat /\ \A u \in Live : thr[u] \in Threads
  BY ChainFacts DEF EngineTypeOK
<1>5. /\ DOMAIN grown = D /\ grown = [u \in D |-> grown[u]]
      /\ \A u \in D : /\ grown[u] \in Threads
                      /\ grown[u].stack = thr[u].stack /\ grown[u].pc = thr[u].pc
                      /\ grown[u].up = IF thr[u].up = p THEN 0 ELSE thr[u].up
  <2> HIDE DEF rest
  <2>1. DOMAIN grown = D /\ grown = [u \in D |-> grown[u]]
    BY <1>2, ForsakenFacts
  <2>2. \A u \in D : u \in DOMAIN rest /\ rest[u] \in Threads /\ rest[u] = thr[u]
    BY <1>2, <1>4
  <2> HIDE DEF D
  <2>3. ASSUME NEW u \in D
        PROVE  /\ grown[u] \in Threads
               /\ grown[u].stack = thr[u].stack /\ grown[u].pc = thr[u].pc
               /\ grown[u].up = IF thr[u].up = p THEN 0 ELSE thr[u].up
    <3>1. u \in DOMAIN rest /\ rest[u] \in Threads /\ rest[u] = thr[u]
      BY <2>2
    <3>2. /\ grown[u] \in Threads
          /\ grown[u].stack = rest[u].stack /\ grown[u].pc = rest[u].pc
          /\ grown[u].up = IF rest[u].up = p THEN 0 ELSE rest[u].up
      BY <1>4, <3>1, ForsakenThread
    <3> QED BY <3>1, <3>2
  <2> QED BY <2>1, <2>3
<1> DEFINE Result(pc, wake, gone) ==
             /\ DOMAIN thr' = D /\ thr' = [u \in D |-> thr'[u]]
             /\ \A u \in D : /\ thr'[u] \in Threads
                             /\ thr'[u].stack = thr[u].stack
                             /\ thr'[u].pc = IF wake /\ u = p THEN pc ELSE thr[u].pc
                             /\ thr'[u].up = IF gone /\ thr[u].up = p THEN 0 ELSE thr[u].up
<1> HIDE DEF rest, grown
<1>6. ASSUME NEW g \in [D -> Threads], NEW pc \in Pcs, thr' = [g EXCEPT ![p].pc = pc]
      PROVE  /\ DOMAIN thr' = D /\ thr' = [u \in D |-> thr'[u]]
             /\ \A u \in D : /\ thr'[u] \in Threads
                             /\ thr'[u].stack = g[u].stack /\ thr'[u].up = g[u].up
                             /\ thr'[u].pc = IF u = p THEN pc ELSE g[u].pc
  <2> HIDE DEF D, p
  <2>1. DOMAIN g = D
    BY <1>6
  <2>2. thr' = [u \in D |-> IF u = p THEN [g[p] EXCEPT !.pc = pc] ELSE g[u]]
    BY <1>6, <2>1
  <2>3. DOMAIN thr' = D /\ thr' = [u \in D |-> thr'[u]]
    BY <2>2
  <2>4. ASSUME NEW u \in D
        PROVE  /\ thr'[u] \in Threads
               /\ thr'[u].stack = g[u].stack /\ thr'[u].up = g[u].up
               /\ thr'[u].pc = IF u = p THEN pc ELSE g[u].pc
    <3>1. CASE u = p
      <4>1. thr'[u] = [g[u] EXCEPT !.pc = pc] /\ g[u] \in Threads
        BY <1>6, <2>2, <3>1
      <4> QED BY <3>1, <4>1, ThreadAt
    <3>2. CASE u # p
      BY <1>6, <2>2, <3>2
    <3> QED BY <3>1, <3>2
  <2> QED BY <2>3, <2>4
<1>7. "body" \in Pcs /\ "raise" \in Pcs
  BY DEF Pcs
<1>8. ASSUME thr' = rest PROVE Result(thr[t].pc, FALSE, FALSE)
  BY <1>2, <1>4, <1>8
<1>9. ASSUME thr' = [rest EXCEPT ![p].pc = "body"] PROVE Result("body", TRUE, FALSE)
  <2>1. rest \in [D -> Threads] /\ \A u \in D : rest[u] = thr[u]
    BY <1>2, <1>4
  <2> HIDE DEF D, p
  <2>2. /\ DOMAIN thr' = D /\ thr' = [u \in D |-> thr'[u]]
        /\ \A u \in D : /\ thr'[u] \in Threads
                        /\ thr'[u].stack = rest[u].stack /\ thr'[u].up = rest[u].up
                        /\ thr'[u].pc = IF u = p THEN "body" ELSE rest[u].pc
    BY <1>6, <1>7, <1>9, <2>1
  <2> QED BY <2>1, <2>2
<1>10. ASSUME thr' = [grown EXCEPT ![p].pc = "raise"] PROVE Result("raise", TRUE, TRUE)
  <2>1. grown \in [D -> Threads]
    BY <1>5
  <2> HIDE DEF D, p
  <2>2. /\ DOMAIN thr' = D /\ thr' = [u \in D |-> thr'[u]]
        /\ \A u \in D : /\ thr'[u] \in Threads
                        /\ thr'[u].stack = grown[u].stack /\ thr'[u].up = grown[u].up
                        /\ thr'[u].pc = IF u = p THEN "raise" ELSE grown[u].pc
    BY <1>6, <1>7, <1>10, <2>1
  <2> QED BY <1>5, <2>2
<1> HIDE DEF alone
<1>11. Result(thr[t].pc, p # 0 /\ (thr[t].pc = "raise" \/ alone), p # 0 /\ thr[t].pc = "raise")
  <2>1. CASE p = 0
    BY <1>3, <1>8, <2>1
  <2>2. CASE p # 0 /\ thr[t].pc = "raise"
    BY <1>3, <1>10, <2>2
  <2>3. CASE p # 0 /\ thr[t].pc = "body"
    BY <1>3, <1>8, <1>9, <2>3
  <2> QED BY <1>1, <2>1, <2>2, <2>3
<1>12. Live' = D
  BY <1>11 DEF Live
<1>13. Settled(t)
  BY <1>1, <1>11, <1>12 DEF Settled, alone
<1>14. Threads' = Threads
  BY DEF Threads, Awaiting, Frames, StepIds
<1>15. ThreadsFit
  BY FitNow
<1>16. ASSUME NEW u \in D PROVE thr'[u] \in Threads' /\ Fit(thr'[u].stack, thr'[u].pc)
  <2>1. Fit(thr[u].stack, thr[u].pc)
    BY <1>15 DEF ThreadsFit
  <2>2. thr'[u].pc \in {"body", "raise", thr[u].pc}
    BY <1>1, <1>11
  <2>3. PcFits(thr'[u].stack, thr'[u].pc)
    BY <1>11, <2>1, <2>2 DEF Fit, PcFits
  <2> QED BY <1>11, <1>14, <2>1, <2>3 DEF Fit
<1>17. thr' \in [Live' -> Threads']
  BY <1>11, <1>12, <1>16
<1>18. Live' \subseteq 1 .. MaxThreads
  BY <1>12 DEF EngineTypeOK
<1> QED BY <1>12, <1>13, <1>16, <1>17, <1>18, FitPrime

\* So does the end of the run.
LEMMA RunEndsFit ==
  ASSUME EngineTypeOK, ShapeInv, NEW t \in Live, chain' = chain, Runners' = Runners, thr' = Drop(thr, t)
  PROVE  ThreadsFit' /\ Live' = Live \ {t} /\ \A u \in Live' : thr'[u] = thr[u]
<1>1. /\ DOMAIN thr' = Live \ {t} /\ \A u \in Live \ {t} : thr'[u] = thr[u]
      /\ thr' = [u \in Live \ {t} |-> thr'[u]]
  BY DropFacts
<1>2. Live' = Live \ {t}
  BY <1>1 DEF Live
<1>3. ThreadsFit
  BY FitNow
<1>4. Threads' = Threads
  BY DEF Threads, Awaiting, Frames, StepIds
<1>5. \A u \in Live' : thr'[u] \in Threads' /\ Fit(thr'[u].stack, thr'[u].pc)
  BY <1>1, <1>2, <1>3, <1>4 DEF ThreadsFit
<1>6. thr' \in [Live' -> Threads']
  BY <1>1, <1>2, <1>5
<1> QED BY <1>1, <1>2, <1>3, <1>5, <1>6, FitPrime DEF ThreadsFit

-----------------------------------------------------------------------------
(* Type correctness *)

\* How a step of t changes the threads.
Moved(t) ==
  \/ Others(t) /\ (KeptStack(t) \/ Refilled(t) \/ Returned(t) \/ Called(t) \/ Opened(t))
  \/ Spawned(t)
  \/ Settled(t)
  \/ RunSettles(t) /\ Live' = Live \ {t} /\ \A u \in Live' : thr'[u] = thr[u]

\* Every step of a thread is a move, and keeps the threads well-formed.
LEMMA StepFit ==
  ASSUME EngineTypeOK, ShapeInv, NEW t \in Live, ThreadStep(t)
  PROVE  ThreadsFit' /\ Moved(t)
<1>1. chain' = chain
  BY DEF ThreadStep
<1>2. CASE Within(t) /\ DOMAIN flag' = DOMAIN flag
  <2>1. Runners' = Runners
    BY <1>2 DEF Runners
  <2> QED BY <1>1, <1>2, <2>1, KeepsFit, RefillsFit, ReturnsFit, SpawnsFit DEF Within, Moved
<1>3. CASE Opens(t)
  BY <1>1, <1>3, OpensFit DEF Moved
<1>4. CASE Calls(t)
  BY <1>1, <1>4, CallsFit DEF Moved, Calls
<1>5. CASE BranchSettles(t)
  <2>1. Runners' = Runners
    BY <1>5 DEF BranchSettles, Runners
  <2> QED BY <1>1, <1>5, <2>1, SettlesFit DEF Moved
<1>6. CASE RunSettles(t)
  <2>1. Runners' = Runners /\ thr' = Drop(thr, t)
    BY <1>6 DEF RunSettles, Runners
  <2> QED BY <1>1, <1>6, <2>1, RunEndsFit DEF Moved
<1> QED BY <1>2, <1>3, <1>4, <1>5, <1>6 DEF ThreadStep

FlagOK == flag \in Seq(BOOLEAN) /\ 1 \in Runners
CtxOK  == ctx \in [Runners -> [StepIds -> Results]]
SourOK == sour \subseteq Runners \X StepIds
DbOK   == /\ tx \in {"open", "poisoned", "committed", "rolled back"}
          /\ stored \subseteq pending /\ pending \subseteq reported /\ reported \subseteq StepIds

NotesOK == FlagOK /\ CtxOK /\ SourOK

\* The parts of the type invariant that are not about the threads.
LEMMA NotesNow == ASSUME EngineTypeOK PROVE NotesOK /\ DbOK
BY DEF EngineTypeOK, NotesOK, FlagOK, CtxOK, SourOK, DbOK

\* What the runners have noted stays typed when it is left alone,
LEMMA NotesStay ==
  ASSUME EngineTypeOK, chain' = chain, UNCHANGED <<ctx, flag>>, sour' \subseteq sour
  PROVE  NotesOK'
<1>1. Runners' = Runners /\ StepIds' = StepIds /\ Results' = Results
  BY DEF Runners, StepIds, Results
<1> QED BY <1>1 DEF EngineTypeOK, NotesOK, FlagOK, CtxOK, SourOK

\* and so does what the database has.
LEMMA DbStays ==
  ASSUME EngineTypeOK, chain' = chain, UNCHANGED Db
  PROVE  DbOK'
BY DEF EngineTypeOK, DbOK, Db, StepIds

\* The history gets a step that failed.
LEMMA SourGrows ==
  ASSUME EngineTypeOK, Runners' = Runners, StepIds' = StepIds, NEW r \in Runners, NEW s \in StepIds,
         sour' \subseteq sour \cup {<<r, s>>}
  PROVE  SourOK'
<1>1. sour \subseteq Runners \X StepIds
  BY DEF EngineTypeOK
<1>2. <<r, s>> \in Runners \X StepIds
  OBVIOUS
<1> QED BY <1>1, <1>2 DEF SourOK

\* One runner's flag is set.
LEMMA FlagSet ==
  ASSUME EngineTypeOK, NEW r, NEW b \in BOOLEAN
  PROVE  [flag EXCEPT ![r] = b] \in Seq(BOOLEAN) /\ DOMAIN [flag EXCEPT ![r] = b] = Runners
<1>1. ASSUME NEW S, NEW q \in Seq(S), NEW x \in S
      PROVE  [q EXCEPT ![r] = x] \in Seq(S) /\ DOMAIN [q EXCEPT ![r] = x] = DOMAIN q
  <2> DEFINE g == [q EXCEPT ![r] = x]
  <2>1. q \in [1 .. Len(q) -> S] /\ Len(q) \in Nat /\ DOMAIN q = 1 .. Len(q)
    OBVIOUS
  <2>2. g \in [1 .. Len(q) -> S] /\ DOMAIN g = 1 .. Len(q)
    BY <2>1
  <2>3. \A n \in Nat : \A h \in [1 .. n -> S] : h \in Seq(S)
    OBVIOUS
  <2> HIDE DEF g
  <2> QED BY <2>1, <2>2, <2>3 DEF g
<1>2. flag \in Seq(BOOLEAN)
  BY DEF EngineTypeOK
<1> QED BY <1>1, <1>2 DEF Runners

\* A retry puts back the flag that it found.
LEMMA RestoredFlag ==
  ASSUME EngineTypeOK, NEW t \in Live, thr[t].stack # <<>>
  PROVE  FlagRestored(t) \in Seq(BOOLEAN) /\ DOMAIN FlagRestored(t) = Runners
<1>1. Top(t).was \in BOOLEAN
  BY TopFacts
<1> QED BY <1>1, FlagSet DEF FlagRestored

\* One step's result is set.
LEMMA CtxSet ==
  ASSUME EngineTypeOK, NEW r \in Runners, NEW s \in StepIds, NEW e,
         e \in Results
  PROVE  [ctx EXCEPT ![r][s] = e] \in [Runners -> [StepIds -> Results]]
BY DEF EngineTypeOK

\* A result, and its two fields.
LEMMA CtxEntry ==
  ASSUME EngineTypeOK, NEW r \in Runners, NEW s \in StepIds
  PROVE  ctx[r][s] \in Results /\ ctx[r][s].out \in BOOLEAN
         /\ ctx[r][s].st \in {"none", "success", "error", "failed"}
         /\ \A e \in Results : [e EXCEPT !.st = "failed"] \in Results
         /\ \A x \in Results : \A b \in BOOLEAN : [x EXCEPT !.out = b] \in Results
BY DEF EngineTypeOK, Results

\* The note of a failure is typed.
LEMMA FailNotes ==
  ASSUME EngineTypeOK, NEW t \in Live, thr[t].stack # <<>>, Top(t).s # Root, chain' = chain,
         NEW fl \in Seq(BOOLEAN), DOMAIN fl = Runners, StepFails(t, Top(t).s, fl)
  PROVE  NotesOK'
<1> DEFINE s == Top(t).s
           r == Top(t).r
           e == [ctx[r][s] EXCEPT !.st = "failed"]
<1>1. s \in StepIds /\ r \in Runners
  BY TopFacts
<1>2. /\ ctx' = [ctx EXCEPT ![r][s].st = "failed"] /\ flag' = fl /\ sour' = sour \cup {<<r, s>>}
  BY DEF StepFails, Runner
<1>3. e \in Results
  BY <1>1, CtxEntry
<1>4. ctx' = [ctx EXCEPT ![r][s] = e]
  BY <1>2
<1> HIDE DEF e
<1>5. ctx' \in [Runners -> [StepIds -> Results]]
  BY <1>1, <1>3, <1>4, CtxSet
<1>6. Runners' = Runners /\ StepIds' = StepIds /\ Results' = Results
  BY <1>2 DEF Runners, StepIds, Results
<1>7. FlagOK'
  BY <1>2, <1>6 DEF FlagOK, EngineTypeOK
<1>8. CtxOK'
  BY <1>5, <1>6 DEF CtxOK
<1>9. SourOK'
  BY <1>1, <1>2, <1>6, SourGrows
<1> QED BY <1>7, <1>8, <1>9 DEF NotesOK

\* The note of a return is typed.
LEMMA ReturnNotes ==
  ASSUME EngineTypeOK, NEW t \in Live, thr[t].stack # <<>>, Top(t).s # Root, chain' = chain,
         flag' \in Seq(BOOLEAN), DOMAIN flag' = Runners,
         NEW status \in {"keep", "success", "error"}, StepReturns(t, Top(t).s, status)
  PROVE  NotesOK'
<1> DEFINE s == Top(t).s
           r == Top(t).r
           e == [out |-> TRUE, st |-> IF status = "keep" THEN ctx[r][s].st ELSE status]
<1>1. s \in StepIds /\ r \in Runners
  BY TopFacts
<1>2. ctx' = [ctx EXCEPT ![r][s] = e] /\ sour' \subseteq sour \cup {<<r, s>>}
  BY DEF StepReturns, Runner
<1>3. e \in Results
  BY <1>1, CtxEntry DEF Results
<1> HIDE DEF e
<1>4. ctx' \in [Runners -> [StepIds -> Results]]
  BY <1>1, <1>2, <1>3, CtxSet
<1>5. Runners' = Runners /\ StepIds' = StepIds /\ Results' = Results
  BY DEF Runners, StepIds, Results
<1>6. FlagOK'
  BY <1>5 DEF FlagOK, EngineTypeOK
<1>7. CtxOK'
  BY <1>4, <1>5 DEF CtxOK
<1>8. SourOK'
  BY <1>1, <1>2, <1>5, SourGrows
<1> QED BY <1>6, <1>7, <1>8 DEF NotesOK

\* What a call notes is typed: a transform's result, a new runner, the flag
\* of a retry.
LEMMA EnterNotes ==
  ASSUME EngineTypeOK, NEW t \in Live, thr[t].stack # <<>>, Top(t).s # Root, chain' = chain, Enter(t)
  PROVE  NotesOK'
<1> DEFINE s == Top(t).s
           r == Top(t).r
<1>1. s \in StepIds /\ r \in Runners
  BY TopFacts
<1>2. sour' \subseteq sour
  BY DEF Enter
<1>3. CASE UNCHANGED <<ctx, flag>>
  BY <1>2, <1>3, NotesStay
<1>4. CASE /\ flag' = flag
           /\ ctx' = [ctx EXCEPT ![Runner(t)][s].out = @ \/ chain.kind[s] = "transform"]
  <2> DEFINE b == ctx[r][s].out \/ chain.kind[s] = "transform"
             e == [ctx[r][s] EXCEPT !.out = b]
  <2>1. b \in BOOLEAN
    BY <1>1, CtxEntry
  <2>2. ctx' = [ctx EXCEPT ![r][s] = e]
    BY <1>4 DEF Runner
  <2> HIDE DEF b
  <2>3. e \in Results
    BY <1>1, <2>1, CtxEntry
  <2> HIDE DEF e
  <2>4. ctx' \in [Runners -> [StepIds -> Results]]
    BY <1>1, <2>2, <2>3, CtxSet
  <2>5. Runners' = Runners /\ StepIds' = StepIds /\ Results' = Results
    BY <1>4 DEF Runners, StepIds, Results
  <2>6. FlagOK' /\ CtxOK'
    BY <1>4, <2>4, <2>5 DEF FlagOK, CtxOK, EngineTypeOK
  <2>7. SourOK'
    BY <1>1, <1>2, <2>5, SourGrows
  <2> QED BY <2>6, <2>7 DEF NotesOK
<1>5. CASE SubChainStarts(t, s)
  <2>1. flag' = Append(flag, FALSE) /\ ctx' = Append(ctx, Blank)
    BY <1>5 DEF SubChainStarts
  <2>2. flag \in Seq(BOOLEAN) /\ Runners = 1 .. Len(flag) /\ Len(flag) \in Nat /\ 1 \in Runners
    BY FlagFacts DEF EngineTypeOK
  <2>3. ASSUME NEW S, NEW q \in Seq(S), NEW e \in S
        PROVE  /\ Append(q, e) \in Seq(S) /\ DOMAIN Append(q, e) = 1 .. Len(q) + 1 /\ Len(q) \in Nat
               /\ Append(q, e) \in [1 .. Len(q) + 1 -> S]
    <3>1. Append(q, e) \in Seq(S) /\ Len(Append(q, e)) = Len(q) + 1 /\ Len(q) \in Nat
      OBVIOUS
    <3>2. ASSUME NEW T, NEW z \in Seq(T)
          PROVE  z \in [1 .. Len(z) -> T] /\ DOMAIN z = 1 .. Len(z)
      OBVIOUS
    <3>3. Append(q, e) \in [1 .. Len(Append(q, e)) -> S] /\ DOMAIN Append(q, e) = 1 .. Len(Append(q, e))
      BY <3>1, <3>2
    <3> QED BY <3>1, <3>3
  <2>4. flag' \in Seq(BOOLEAN) /\ Runners' = 1 .. Len(flag) + 1
    BY <2>1, <2>2, <2>3 DEF Runners
  <2>5. ctx \in [1 .. Len(flag) -> [StepIds -> Results]]
    BY <2>2 DEF EngineTypeOK
  <2>6. ctx \in Seq([StepIds -> Results]) /\ Len(ctx) = Len(flag)
    BY <2>2, <2>5
  <2>7. Blank \in [StepIds -> Results]
    BY DEF Blank, Results
  <2>8. ctx' \in [1 .. Len(flag) + 1 -> [StepIds -> Results]]
    BY <2>1, <2>3, <2>6, <2>7
  <2>9. StepIds' = StepIds /\ Results' = Results
    BY DEF StepIds, Results
  <2>10. FlagOK' /\ CtxOK'
    BY <2>2, <2>4, <2>8, <2>9 DEF FlagOK, CtxOK
  <2>11. SourOK'
    <3>1. Runners \subseteq Runners'
      BY <2>2, <2>4
    <3>2. sour \subseteq Runners \X StepIds
      BY DEF EngineTypeOK
    <3> QED BY <1>2, <2>9, <3>1, <3>2 DEF SourOK
  <2> QED BY <2>10, <2>11 DEF NotesOK
<1>6. CASE RoundsStart(t, s)
  <2> DEFINE b == flag[r] \/ chain.kind[s] = "retry"
  <2>1. flag' = [flag EXCEPT ![r] = b] /\ ctx' = ctx
    BY <1>6 DEF RoundsStart, Runner
  <2>2. b \in BOOLEAN
    BY <1>1, FlagFacts
  <2> HIDE DEF b
  <2>3. flag' \in Seq(BOOLEAN) /\ DOMAIN flag' = Runners
    BY <2>1, <2>2, FlagSet
  <2>4. Runners' = Runners /\ StepIds' = StepIds /\ Results' = Results
    BY <2>3 DEF Runners, StepIds, Results
  <2>5. FlagOK' /\ CtxOK'
    BY <2>1, <2>3, <2>4 DEF FlagOK, CtxOK, EngineTypeOK
  <2>6. SourOK'
    BY <1>1, <1>2, <2>4, SourGrows
  <2> QED BY <2>5, <2>6 DEF NotesOK
<1>7. \/ UNCHANGED <<ctx, flag>>
      \/ /\ flag' = flag
         /\ ctx' = [ctx EXCEPT ![Runner(t)][s].out = @ \/ chain.kind[s] = "transform"]
      \/ StartBlock(t, s)
  BY DEF Enter
<1>8. ASSUME StartBlock(t, s) PROVE UNCHANGED <<ctx, flag>> \/ SubChainStarts(t, s) \/ RoundsStart(t, s)
  BY <1>8 DEF StartBlock, ParallelStarts, BranchStarts
<1> QED BY <1>3, <1>4, <1>5, <1>6, <1>7, <1>8

\* What a failed attempt notes is typed.
LEMMA AttemptNotes ==
  ASSUME EngineTypeOK, NEW t \in Live, thr[t].stack # <<>>, Top(t).s # Root, chain' = chain, AttemptFails(t)
  PROVE  NotesOK'
<1>1. CASE UNCHANGED <<ctx, flag, sour>>
  BY <1>1, NotesStay
<1>2. CASE StepFails(t, Top(t).s, IF aborted THEN flag ELSE FlagRestored(t))
  <2>1. flag \in Seq(BOOLEAN) /\ DOMAIN flag = Runners
    BY DEF EngineTypeOK, Runners
  <2> QED BY <1>2, <2>1, RestoredFlag, FailNotes
<1> QED BY <1>1, <1>2 DEF AttemptFails

\* The note of a failure outside a retry is typed.
LEMMA FailStepNotes ==
  ASSUME EngineTypeOK, NEW t \in Live, thr[t].stack # <<>>, Top(t).s # Root, chain' = chain,
         StepFails(t, Top(t).s, flag)
  PROVE  NotesOK'
<1>1. flag \in Seq(BOOLEAN) /\ DOMAIN flag = Runners
  BY DEF EngineTypeOK, Runners
<1> QED BY <1>1, FailNotes

\* The note of a return that leaves the flag alone is typed.
LEMMA ReturnStepNotes ==
  ASSUME EngineTypeOK, NEW t \in Live, thr[t].stack # <<>>, Top(t).s # Root, chain' = chain, flag' = flag,
         NEW status \in {"keep", "success", "error"}, StepReturns(t, Top(t).s, status)
  PROVE  NotesOK'
<1>1. flag' \in Seq(BOOLEAN) /\ DOMAIN flag' = Runners
  BY DEF EngineTypeOK, Runners
<1> QED BY <1>1, ReturnNotes

\* What a thread does on its own leaves notes and rows typed.
LEMMA RunsNotes ==
  ASSUME EngineTypeOK, NEW t \in Live, PcOK(t), Runs(t)
  PROVE  NotesOK' /\ DbOK' /\ aborted' = aborted /\ over' \in {"no", "returned", "thrown"}
<1>0. (\A k \in Sync \cup Blocks \cup Leaves : k # Root) /\ over \in {"no", "returned", "thrown"}
  BY DEF Sync, Blocks, Leaves, Root, EngineTypeOK
<1>1. CASE Enter(t)
  <2>1. thr[t].stack # <<>> /\ Top(t).s # Root
    BY <1>1 DEF Enter, PcOK, PcFits, Top
  <2> QED BY <1>0, <1>1, <2>1, EnterNotes, DbStays DEF Enter, Still
<1>2. CASE Calls(t) \/ LoopGoesOn(t) \/ SubChainEnds(t) \/ BranchSettles(t)
  <2>1. UNCHANGED <<Still, Db, ctx, flag, sour>>
    BY <1>2 DEF Calls, LoopGoesOn, SubChainEnds, BranchSettles
  <2> QED BY <1>0, <2>1, NotesStay, DbStays DEF Still
<1>3. CASE BlockDone(t)
  <2>1. thr[t].stack # <<>> /\ Top(t).s # Root
    BY <1>0, <1>3, NotRoot DEF BlockDone, BodyDone, Blocks
  <2>2. UNCHANGED <<Still, Db, flag>>
    BY <1>3 DEF BlockDone
  <2>3. \E status \in {"keep", "success", "error"} : StepReturns(t, Top(t).s, status)
    BY <1>3 DEF BlockDone, BlockReturns
  <2> QED BY <1>0, <2>1, <2>2, <2>3, ReturnStepNotes, DbStays DEF Still
<1>4. CASE RetryDone(t)
  <2>1. thr[t].stack # <<>> /\ Top(t).s # Root
    BY <1>0, <1>4, NotRoot DEF RetryDone, BodyDone, Blocks
  <2>2. UNCHANGED <<Still, Db>> /\ flag' \in Seq(BOOLEAN) /\ DOMAIN flag' = Runners
    BY <1>4, <2>1, RestoredFlag DEF RetryDone
  <2>3. StepReturns(t, Top(t).s, "keep")
    BY <1>4 DEF RetryDone
  <2> QED BY <1>0, <2>1, <2>2, <2>3, ReturnNotes, DbStays DEF Still
<1>5. CASE RetryJudged(t)
  <2>1. thr[t].stack # <<>> /\ Top(t).s # Root
    BY <1>0, <1>5, NotRoot DEF RetryJudged, BodyDone, Blocks
  <2> QED BY <1>0, <1>5, <2>1, AttemptNotes, DbStays DEF RetryJudged, Still
<1>6. CASE Raised(t)
  <2>1. thr[t].stack # <<>> /\ Top(t).s # Root /\ UNCHANGED <<Still, Db>>
    BY <1>6, NotRoot DEF Raised
  <2> QED BY <1>0, <1>6, <2>1, AttemptNotes, FailStepNotes, DbStays DEF Raised, Still
<1>7. CASE RunSettles(t)
  <2>1. UNCHANGED <<chain, aborted, ctx, flag, sour, pending, reported>>
    BY <1>7 DEF RunSettles
  <2>2. NotesOK'
    BY <2>1, NotesStay
  <2>3. DbOK'
    BY <1>7, <2>1 DEF RunSettles, EngineTypeOK, DbOK, StepIds
  <2> QED BY <1>7, <2>1, <2>2, <2>3 DEF RunSettles
<1> QED BY <1>1, <1>2, <1>3, <1>4, <1>5, <1>6, <1>7 DEF Runs

\* So does what it does on an answer or a decision.
LEMMA AnswersNotes ==
  ASSUME EngineTypeOK, NEW t \in Live, PcOK(t), Answers(t) \/ User(t)
  PROVE  NotesOK' /\ DbOK' /\ aborted' = aborted /\ over' \in {"no", "returned", "thrown"}
<1>0. over \in {"no", "returned", "thrown"}
  BY DEF EngineTypeOK
<1>1. thr[t].pc \in {"leaf", "ask"} => thr[t].stack # <<>> /\ Top(t).s # Root
  BY DEF PcOK, PcFits, Top
<1>2. CASE LeafAnswers(t)
  <2>1. thr[t].stack # <<>> /\ Top(t).s # Root
    BY <1>1, <1>2 DEF LeafAnswers, Answerable
  <2>2. UNCHANGED <<Still, flag, tx, stored>>
    BY <1>2 DEF LeafAnswers
  <2>3. NotesOK'
    <3>1. \E status \in {"keep", "success", "error"} : StepReturns(t, Top(t).s, status)
      BY <1>2 DEF LeafAnswers
    <3> QED BY <2>1, <2>2, <3>1, ReturnStepNotes DEF Still
  <2>4. \/ UNCHANGED <<reported, pending>>
        \/ reported' = reported \cup {Top(t).s} /\ pending' \in {pending, pending \cup {Top(t).s}}
    BY <1>2 DEF LeafAnswers
  <2>5. Top(t).s \in StepIds /\ StepIds' = StepIds
    BY <2>1, <2>2, TopFacts DEF StepIds, Still
  <2>6. DbOK'
    BY <2>2, <2>4, <2>5, NotesNow DEF DbOK
  <2> QED BY <1>0, <2>2, <2>3, <2>6 DEF Still
<1>3. CASE AgentErrs(t)
  <2>1. thr[t].stack # <<>> /\ Top(t).s # Root
    BY <1>1, <1>3 DEF AgentErrs, Answerable
  <2> QED BY <1>0, <1>3, <2>1, ReturnStepNotes, DbStays DEF AgentErrs, Still
<1>4. CASE LeafThrows(t)
  <2>1. thr[t].stack # <<>> /\ Top(t).s # Root
    BY <1>1, <1>4 DEF LeafThrows, Answerable
  <2>2. UNCHANGED <<Still, pending, stored, reported>> /\ tx' \in {tx, "poisoned"}
    BY <1>4 DEF LeafThrows
  <2>3. NotesOK'
    BY <1>4, <2>1, <2>2, FailStepNotes DEF LeafThrows, Still
  <2>4. DbOK'
    BY <2>2, NotesNow DEF DbOK, Still, StepIds
  <2> QED BY <1>0, <2>2, <2>3, <2>4 DEF Still
<1>5. CASE StatementFails(t)
  <2>1. thr[t].stack # <<>> /\ Top(t).s # Root
    BY <1>1, <1>5 DEF StatementFails, Answerable
  <2>2. UNCHANGED <<Still, flag, stored>> /\ tx' = "poisoned"
    BY <1>5 DEF StatementFails
  <2>3. NotesOK'
    <3>1. \E status \in {"keep", "success", "error"} : StepReturns(t, Top(t).s, status)
      BY <1>5 DEF StatementFails
    <3> QED BY <2>1, <2>2, <3>1, ReturnStepNotes DEF Still
  <2>4. \/ UNCHANGED <<reported, pending>>
        \/ reported' = reported \cup {Top(t).s} /\ pending' = pending \cup {Top(t).s}
    BY <1>5 DEF StatementFails
  <2>5. Top(t).s \in StepIds /\ StepIds' = StepIds
    BY <2>1, <2>2, TopFacts DEF StepIds, Still
  <2>6. DbOK'
    BY <2>2, <2>4, <2>5, NotesNow DEF DbOK
  <2> QED BY <1>0, <2>2, <2>3, <2>6 DEF Still
<1>6. CASE Wakes(t) \/ Approved(t)
  <2>1. UNCHANGED <<Still, Db, ctx, flag, sour>>
    BY <1>6 DEF Wakes, Approved
  <2> QED BY <1>0, <2>1, NotesStay, DbStays DEF Still
<1>7. CASE Denied(t)
  <2>1. thr[t].stack # <<>> /\ Top(t).s # Root
    BY <1>1, <1>7 DEF Denied
  <2> QED BY <1>0, <1>7, <2>1, FailStepNotes, DbStays DEF Denied, Still
<1> QED BY <1>2, <1>3, <1>4, <1>5, <1>6, <1>7 DEF Answers, User

\* The parts make the type invariant and the shape.
LEMMA TypesFromParts ==
  ASSUME chain \in ChainSpecs, ThreadsFit, NotesOK, DbOK,
         aborted \in BOOLEAN, over \in {"no", "returned", "thrown"}
  PROVE  EngineTypeOK /\ ShapeInv
<1>1. ASSUME NEW t \in Live, NEW i \in DOMAIN thr[t].stack, thr[t].stack[i].s # Root
      PROVE  thr[t].stack[i].n < chain.count[thr[t].stack[i].s]
  <2>1. thr[t].stack \in Seq(Frames) /\ Bounded(thr[t].stack)
    BY DEF ThreadsFit, Threads, Fit
  <2>2. i \in 1 .. Len(thr[t].stack)
    BY <2>1
  <2> QED BY <1>1, <2>1, <2>2 DEF Bounded
<1>2. EngineTypeOK
  BY <1>1 DEF EngineTypeOK, ThreadsFit, NotesOK, FlagOK, CtxOK, SourOK, DbOK
<1> QED BY <1>2, ShapeNow

TypesInv == EngineTypeOK /\ ShapeInv

Parts == /\ chain \in ChainSpecs /\ ThreadsFit /\ NotesOK /\ DbOK
         /\ aborted \in BOOLEAN /\ over \in {"no", "returned", "thrown"}

\* The same for the next state.
LEMMA TypesAreParts == Parts => TypesInv
BY TypesFromParts DEF Parts, TypesInv

\* A run begins with one thread, typed and well-formed.
LEMMA TypesInit == EngineInit => TypesInv
<1> SUFFICES ASSUME EngineInit PROVE Parts
  BY TypesAreParts
<1> DEFINE f == Frame(Root, chain.main, 1)
           st == <<f>>
<1>1. /\ chain \in ChainSpecs /\ ctx = <<Blank>> /\ flag = <<FALSE>> /\ aborted = FALSE /\ over = "no"
      /\ tx = "open" /\ pending = {} /\ stored = {} /\ reported = {} /\ sour = {}
      /\ thr = [t \in {1} |-> Thread(st, "body", 0)]
  BY DEF EngineInit
<1>2. WellFormed(chain) /\ MaxThreads \in Nat
  BY <1>1, ChainAssumption
<1>3. Runners = {1} /\ flag \in Seq(BOOLEAN)
  BY <1>1 DEF Runners
<1>4. ctx \in [Runners -> [StepIds -> Results]]
  <2>1. Blank \in [StepIds -> Results]
    BY DEF Blank, Results
  <2> QED BY <1>1, <1>3, <2>1
<1>5. chain.main \in Seq(StepIds)
  BY <1>2 DEF WellFormed, StepIds
<1>6. f \in Frames /\ f.s = Root /\ f.todo = chain.main
  BY <1>3, <1>5 DEF Frame, Frames
<1> HIDE DEF f
<1>7. st \in Seq(Frames) /\ Len(st) = 1 /\ st[1] = f
  BY <1>6
<1> HIDE DEF st
<1>8. thr[1] = [stack |-> st, pc |-> "body", up |-> 0] /\ Live = {1}
  BY <1>1 DEF Thread, Live
<1>9. Fit(st, "body")
  BY <1>6, <1>7 DEF Fit, StackOK, Bounded, PcFits, Callable, TopSteps
<1>10. 1 \in 1 .. MaxThreads /\ 0 \in 0 .. MaxThreads
  BY ChainAssumption
<1>11. thr[1] \in Threads
  BY <1>7, <1>8, <1>10 DEF Threads, Awaiting
<1>12. thr = [t \in Live |-> thr[t]]
  BY <1>1, <1>8
<1>13. ThreadsFit
  BY <1>8, <1>9, <1>10, <1>11, <1>12 DEF ThreadsFit
<1>14. NotesOK /\ DbOK
  BY <1>1, <1>3, <1>4 DEF NotesOK, FlagOK, CtxOK, SourOK, DbOK
<1> QED BY <1>1, <1>13, <1>14 DEF Parts

\* A stop, and a step that does nothing, keep types and shape.
LEMMA TypesKeep ==
  ASSUME TypesInv, UNCHANGED <<chain, over, tx, pending, stored, reported, ctx, flag, thr, sour>>,
         aborted' \in BOOLEAN
  PROVE  TypesInv'
<1>0. EngineTypeOK /\ ShapeInv
  BY DEF TypesInv
<1>1. NotesOK' /\ DbOK'
  BY <1>0, NotesStay, DbStays DEF Db
<1>2. ThreadsFit
  BY <1>0, FitNow
<1>3. Live' = Live /\ Threads' = Threads
  BY DEF Live, Threads, Awaiting, Frames, StepIds, Runners
<1>4. ThreadsFit'
  BY <1>2, <1>3, FitPrime DEF ThreadsFit
<1>5. chain' \in ChainSpecs /\ over' \in {"no", "returned", "thrown"}
  BY <1>0 DEF EngineTypeOK
<1>6. Parts'
  BY <1>1, <1>4, <1>5 DEF Parts
<1> QED BY <1>6, TypesAreParts, PTL

Acts(t) == Runs(t) \/ Answers(t) \/ User(t)

\* Every step keeps them, and moves one thread or stops the run.
LEMMA TypesStep ==
  ASSUME TypesInv, [EngineNext]_engineVars
  PROVE  /\ TypesInv'
         /\ \/ UNCHANGED engineVars
            \/ Stop
            \/ \E t \in Live : Acts(t) /\ ThreadStep(t) /\ Moved(t)
<1>0. EngineTypeOK /\ ShapeInv
  BY DEF TypesInv
<1>1. CASE UNCHANGED engineVars
  <2>1. aborted' \in BOOLEAN
    BY <1>0, <1>1 DEF EngineTypeOK, engineVars
  <2> QED BY <1>1, <2>1, TypesKeep DEF engineVars
<1>2. CASE Stop
  BY <1>2, TypesKeep DEF Stop, Db
<1>3. ASSUME NEW t \in Live, Runs(t) \/ Answers(t) \/ User(t)
      PROVE  TypesInv' /\ ThreadStep(t) /\ Moved(t)
  <2>1. PcOK(t)
    BY <1>0 DEF ShapeInv
  <2>2. ThreadStep(t)
    BY <1>0, <1>3, <2>1, RunsKind, AnswersKind
  <2>3. ThreadsFit' /\ Moved(t)
    BY <1>0, <2>2, StepFit
  <2>4. NotesOK' /\ DbOK' /\ aborted' = aborted /\ over' \in {"no", "returned", "thrown"}
    BY <1>0, <1>3, <2>1, RunsNotes, AnswersNotes
  <2>5. chain' \in ChainSpecs /\ aborted' \in BOOLEAN
    BY <1>0, <2>2, <2>4 DEF EngineTypeOK, ThreadStep
  <2>6. Parts'
    BY <2>3, <2>4, <2>5 DEF Parts
  <2>7. TypesInv'
    BY <2>6, TypesAreParts, PTL
  <2> QED BY <2>2, <2>3, <2>7
<1> QED BY <1>1, <1>2, <1>3 DEF EngineNext, Acts

\* The variables of the engine keep their types for any chains and any bound
\* on threads, and no block begins a round beyond its count: the loop's
\* iterations and the retry's attempts (chain-runner.ts:948-1000) are exact
\* whatever runs beside them.
THEOREM EngineTypes == EngineSpec => []EngineTypeOK
<1>1. TypesInv => EngineTypeOK
  BY DEF TypesInv
<1> QED BY <1>1, TypesInit, TypesStep, PTL DEF EngineSpec

\* Once the stop is in, no step is dispatched any more to a provider, a
\* tool, a server or the memory: checkAbort stands before every handler, and
\* a question that is approved in the same turn as the stop is denied.
THEOREM EngineStops == EngineSpec => NothingDispatchedAfterStop
<1> DEFINE NoLeaf == aborted => \A t \in DOMAIN thr' : thr'[t].pc = "leaf" => t \in Live /\ thr[t].pc = "leaf"
<1>1. ASSUME TypesInv, [EngineNext]_engineVars PROVE [NoLeaf]_engineVars
  <2> SUFFICES ASSUME ~UNCHANGED engineVars, aborted,
                      NEW u \in DOMAIN thr', thr'[u].pc = "leaf"
               PROVE  u \in Live /\ thr[u].pc = "leaf"
    OBVIOUS
  <2>1. CASE Stop
    BY <2>1 DEF Stop, Live
  <2>2. ASSUME NEW t \in Live, ThreadStep(t), Moved(t) PROVE u \in Live /\ thr[u].pc = "leaf"
    <3>1. u \in Live'
      BY DEF Live
    <3> QED BY <2>2, <3>1 DEF Moved, Others, KeptStack, Refilled, Returned, Called, Opened, Spawned, Newborn, Settled
  <2> QED BY <1>1, <2>1, <2>2, TypesStep
<1> QED BY <1>1, TypesInit, TypesStep, PTL DEF EngineSpec, NothingDispatchedAfterStop

-----------------------------------------------------------------------------
(* A run is taken down by nothing but a stop, and a retry repeats what    *)
(* failed.  First the flags a stack has set.                              *)

\* A frame of a retry.
IsRetry(f) == f.s # Root /\ chain.kind[f.s] = "retry"

\* A retry of runner r is under way in stack st; there is one below the i-th frame.
Retrying(st, r) == \E i \in 1 .. Len(st) : IsRetry(st[i]) /\ st[i].r = r
RetryBelow(st, i) == \E j \in i + 1 .. Len(st) : IsRetry(st[j]) /\ st[j].r = st[i].r

\* The flag of a runner is set while a retry of it is under way, and a retry that
\* ends puts back what it must find then.
Marked(st, fl) ==
  /\ \A r \in DOMAIN fl : Retrying(st, r) => fl[r]
  /\ \A i \in 1 .. Len(st) : IsRetry(st[i]) /\ RetryBelow(st, i) => st[i].was

\* Nothing else sets it.
FromBelow(st) == \A i \in 1 .. Len(st) : IsRetry(st[i]) /\ st[i].was => RetryBelow(st, i)

Honest(st, fl) ==
  /\ \A r \in DOMAIN fl : fl[r] => Retrying(st, r)
  /\ FromBelow(st)

\* A frame on a stack: what is under way now.
LEMMA RetryingPush ==
  ASSUME NEW S, NEW st \in Seq(S), NEW f \in S, NEW r
  PROVE  Retrying(<<f>> \o st, r) <=> (IsRetry(f) /\ f.r = r) \/ Retrying(st, r)
<1> DEFINE new == <<f>> \o st
<1>1. /\ Len(new) = Len(st) + 1 /\ new[1] = f /\ Len(st) \in Nat
      /\ \A i \in 2 .. Len(st) + 1 : new[i] = st[i - 1]
  BY StackPush
<1> HIDE DEF new
<1>2. ASSUME Retrying(new, r) PROVE (IsRetry(f) /\ f.r = r) \/ Retrying(st, r)
  <2>1. PICK i \in 1 .. Len(st) + 1 : IsRetry(new[i]) /\ new[i].r = r
    BY <1>1, <1>2 DEF Retrying
  <2>2. CASE i = 1
    BY <1>1, <2>1, <2>2
  <2>3. CASE i # 1
    <3>1. i - 1 \in 1 .. Len(st) /\ new[i] = st[i - 1]
      BY <1>1, <2>3
    <3> QED BY <2>1, <3>1 DEF Retrying
  <2> QED BY <2>2, <2>3
<1>3. ASSUME IsRetry(f), f.r = r PROVE Retrying(new, r)
  BY <1>1, <1>3 DEF Retrying
<1>4. ASSUME Retrying(st, r) PROVE Retrying(new, r)
  <2>1. PICK i \in 1 .. Len(st) : IsRetry(st[i]) /\ st[i].r = r
    BY <1>4 DEF Retrying
  <2>2. i + 1 \in 1 .. Len(new) /\ new[i + 1] = st[i]
    BY <1>1
  <2> QED BY <2>1, <2>2 DEF Retrying
<1> QED BY <1>2, <1>3, <1>4 DEF new

\* The same for what is below a frame.
LEMMA BelowPush ==
  ASSUME NEW S, NEW st \in Seq(S), NEW f \in S
  PROVE  LET new == <<f>> \o st IN
         /\ RetryBelow(new, 1) <=> Retrying(st, f.r)
         /\ \A i \in 1 .. Len(st) : RetryBelow(new, i + 1) <=> RetryBelow(st, i)
<1> DEFINE new == <<f>> \o st
<1>1. /\ Len(new) = Len(st) + 1 /\ new[1] = f /\ Len(st) \in Nat
      /\ \A i \in 2 .. Len(st) + 1 : new[i] = st[i - 1]
  BY StackPush
<1> HIDE DEF new
<1>2. \A j \in 1 .. Len(st) : new[j + 1] = st[j] /\ j + 1 \in 2 .. Len(new)
  BY <1>1
<1>3. \A k \in 2 .. Len(new) : k - 1 \in 1 .. Len(st) /\ new[k] = st[k - 1]
  BY <1>1
<1>4. RetryBelow(new, 1) <=> Retrying(st, f.r)
  <2>1. ASSUME RetryBelow(new, 1) PROVE Retrying(st, f.r)
    <3>1. PICK k \in 1 + 1 .. Len(new) : IsRetry(new[k]) /\ new[k].r = new[1].r
      BY <2>1 DEF RetryBelow
    <3>2. k - 1 \in 1 .. Len(st) /\ new[k] = st[k - 1]
      BY <1>3, <3>1
    <3> QED BY <1>1, <3>1, <3>2 DEF Retrying
  <2>2. ASSUME Retrying(st, f.r) PROVE RetryBelow(new, 1)
    <3>1. PICK j \in 1 .. Len(st) : IsRetry(st[j]) /\ st[j].r = f.r
      BY <2>2 DEF Retrying
    <3>2. j + 1 \in 1 + 1 .. Len(new) /\ new[j + 1] = st[j]
      BY <1>1, <1>2, <3>1
    <3> QED BY <1>1, <3>1, <3>2 DEF RetryBelow
  <2> QED BY <2>1, <2>2
<1>5. ASSUME NEW i \in 1 .. Len(st) PROVE RetryBelow(new, i + 1) <=> RetryBelow(st, i)
  <2>0. new[i + 1] = st[i]
    BY <1>2
  <2>1. ASSUME RetryBelow(new, i + 1) PROVE RetryBelow(st, i)
    <3>1. PICK k \in i + 1 + 1 .. Len(new) : IsRetry(new[k]) /\ new[k].r = new[i + 1].r
      BY <2>1 DEF RetryBelow
    <3>2. k \in 2 .. Len(new) /\ k - 1 \in i + 1 .. Len(st)
      BY <1>1, <3>1
    <3>3. new[k] = st[k - 1]
      BY <1>3, <3>2
    <3> QED BY <2>0, <3>1, <3>2, <3>3 DEF RetryBelow
  <2>2. ASSUME RetryBelow(st, i) PROVE RetryBelow(new, i + 1)
    <3>1. PICK j \in i + 1 .. Len(st) : IsRetry(st[j]) /\ st[j].r = st[i].r
      BY <2>2 DEF RetryBelow
    <3>2. j + 1 \in i + 1 + 1 .. Len(new) /\ j \in 1 .. Len(st)
      BY <1>1, <3>1
    <3>3. new[j + 1] = st[j]
      BY <1>2, <3>2
    <3> QED BY <2>0, <3>1, <3>2, <3>3 DEF RetryBelow
  <2> QED BY <2>1, <2>2
<1> QED BY <1>4, <1>5 DEF new

\* What the flags say of a stack, from its top frame and the rest.
LEMMA MarkedPush ==
  ASSUME NEW S, NEW st \in Seq(S), NEW f \in S, NEW fl
  PROVE  /\ Marked(<<f>> \o st, fl) <=>
              /\ Marked(st, fl)
              /\ IsRetry(f) => (f.r \in DOMAIN fl => fl[f.r]) /\ (Retrying(st, f.r) => f.was)
         /\ Honest(<<f>> \o st, fl) <=>
              /\ \A r \in DOMAIN fl : fl[r] => (IsRetry(f) /\ f.r = r) \/ Retrying(st, r)
              /\ FromBelow(st)
              /\ IsRetry(f) /\ f.was => Retrying(st, f.r)
<1> DEFINE new == <<f>> \o st
<1>1. /\ Len(new) = Len(st) + 1 /\ new[1] = f /\ Len(st) \in Nat
      /\ \A i \in 2 .. Len(st) + 1 : new[i] = st[i - 1]
  BY StackPush
<1>2. \A r : Retrying(new, r) <=> (IsRetry(f) /\ f.r = r) \/ Retrying(st, r)
  BY RetryingPush
<1>3. /\ RetryBelow(new, 1) <=> Retrying(st, f.r)
      /\ \A i \in 1 .. Len(st) : RetryBelow(new, i + 1) <=> RetryBelow(st, i)
  BY BelowPush
<1> HIDE DEF new
<1>4. \A i \in 1 .. Len(st) : i + 1 \in 1 .. Len(new) /\ new[i + 1] = st[i]
  BY <1>1
<1>5. \A k \in 1 .. Len(new) : k = 1 \/ \E i \in 1 .. Len(st) : k = i + 1
  <2> SUFFICES ASSUME NEW k \in 1 .. Len(new), k # 1 PROVE \E i \in 1 .. Len(st) : k = i + 1
    OBVIOUS
  <2>1. k - 1 \in 1 .. Len(st) /\ k = (k - 1) + 1
    BY <1>1
  <2> QED BY <2>1
<1>6. 1 \in 1 .. Len(new)
  BY <1>1
<1>8. (\A k \in 1 .. Len(new) : IsRetry(new[k]) /\ RetryBelow(new, k) => new[k].was) <=>
        /\ IsRetry(f) /\ Retrying(st, f.r) => f.was
        /\ \A i \in 1 .. Len(st) : IsRetry(st[i]) /\ RetryBelow(st, i) => st[i].was
  BY <1>1, <1>3, <1>4, <1>5, <1>6
<1>9. (\A k \in 1 .. Len(new) : IsRetry(new[k]) /\ new[k].was => RetryBelow(new, k)) <=>
        /\ IsRetry(f) /\ f.was => Retrying(st, f.r)
        /\ \A i \in 1 .. Len(st) : IsRetry(st[i]) /\ st[i].was => RetryBelow(st, i)
  BY <1>1, <1>3, <1>4, <1>5, <1>6
<1>10. Marked(new, fl) <=>
         /\ Marked(st, fl)
         /\ IsRetry(f) => (f.r \in DOMAIN fl => fl[f.r]) /\ (Retrying(st, f.r) => f.was)
  BY <1>2, <1>8 DEF Marked
<1>11. Honest(new, fl) <=>
         /\ \A r \in DOMAIN fl : fl[r] => (IsRetry(f) /\ f.r = r) \/ Retrying(st, r)
         /\ FromBelow(st)
         /\ IsRetry(f) /\ f.was => Retrying(st, f.r)
  BY <1>2, <1>9 DEF Honest, FromBelow
<1> QED BY <1>10, <1>11 DEF new

-----------------------------------------------------------------------------
(* What a step of one thread does to its own stack: the moves *)

\* Where thread t is after the step.
To(t, st, pc) == thr'[t].stack = st /\ thr'[t].pc = pc

\* The failed steps that the step of t leaves: its own one, if it was an agent's.
Clears(t) == sour' \subseteq sour /\ <<Runner(t), Top(t).s>> \notin sour'

\* The moves of a thread.  Its handler is refused after a stop, or its step is skipped.
GuardSkips(t) ==
  /\ thr[t].pc = "enter" /\ flag' = flag
  /\ \/ To(t, Pop(t), "raise") /\ aborted /\ sour' = sour
     \/ To(t, Pop(t), "body") /\ Clears(t)

\* A handler begins: of a retry, which sets the flag, of a sub-chain, which gets a
\* runner, or of another step.
BlockStarts(t) ==
  /\ thr[t].pc = "enter" /\ Kind(t) # "retry" /\ flag' = flag /\ Clears(t)
  /\ \E g \in Frames : \E pc \in {"leaf", "ask", "body", "join"} :
       g.s = Top(t).s /\ g.r = Top(t).r /\ To(t, WithTop(t, g), pc)

RetryStarts(t) ==
  /\ thr[t].pc = "enter" /\ Kind(t) = "retry" /\ Clears(t)
  /\ flag' = [flag EXCEPT ![Runner(t)] = TRUE]
  /\ \E g \in Frames :
       /\ g.s = Top(t).s /\ g.r = Top(t).r /\ g.was = flag[Runner(t)]
       /\ Kids(g.s) \subseteq Steps(g.todo)
       /\ To(t, WithTop(t, g), "body")

ChainStarts(t) ==
  /\ thr[t].pc = "enter" /\ Kind(t) = "agent_chain" /\ Clears(t)
  /\ flag' = Append(flag, FALSE)
  /\ \E g \in Frames' : g.s = Root /\ To(t, <<g>> \o thr[t].stack, "body")

\* A body calls its next step, or is begun again.
CallsNext(t) ==
  /\ thr[t].pc = "body" /\ flag' = flag /\ sour' = sour
  /\ \E g, h \in Frames :
       /\ h.s = Top(t).s /\ h.r = Top(t).r /\ h.was = Top(t).was
       /\ g.s # Root /\ g.r = Top(t).r
       /\ Steps(h.todo) \cup {g.s} = Steps(Top(t).todo)
       /\ To(t, <<g>> \o (<<h>> \o Pop(t)), "enter")

RoundStarts(t) ==
  /\ thr[t].pc \in {"body", "raise"} /\ flag' = flag /\ sour' = sour
  /\ \E g \in Frames : \E pc \in {"body", "sleep", "raise"} :
       /\ g.s = Top(t).s /\ g.r = Top(t).r /\ g.was = Top(t).was
       /\ Kids(g.s) \subseteq Steps(g.todo)
       /\ pc = "raise" => aborted
       /\ To(t, WithTop(t, g), pc)

\* A pause or a question is over.
Resumes(t) ==
  /\ thr[t].pc \in {"sleep", "ask"} /\ flag' = flag /\ sour' = sour
  /\ thr[t].pc = "ask" => Kind(t) # "retry"
  /\ \E pc \in {"leaf", "body", "raise"} : (pc = "raise" => aborted) /\ To(t, thr[t].stack, pc)

\* A step returns, with or without an exception; a retry puts the flag back.
StepSucceeds(t) ==
  /\ thr[t].pc # "enter" /\ Top(t).s # Root
  /\ flag' = IF Kind(t) = "retry" THEN FlagRestored(t) ELSE flag
  /\ sour' \subseteq sour \cup {<<Runner(t), Top(t).s>>}
  /\ <<Runner(t), Top(t).s>> \in sour' => Kind(t) = "agent"
  /\ To(t, Pop(t), "body")

StepBreaks(t) ==
  /\ thr[t].pc # "enter" /\ Top(t).s # Root
  /\ flag' = IF Kind(t) = "retry" /\ ~aborted THEN FlagRestored(t) ELSE flag
  /\ sour' = sour \cup {<<Runner(t), Top(t).s>>}
  /\ To(t, Pop(t), IF Rethrown(flag', Runner(t)) THEN "raise" ELSE "body")

\* A sub-chain passes its end up to the step that called it.
ChainEnds(t) ==
  /\ Top(t).s = Root /\ thr[t].pc \in {"body", "raise"} /\ Len(thr[t].stack) > 1
  /\ flag' = flag /\ sour' = sour
  /\ To(t, Pop(t), thr[t].pc)

Move(t) == \/ GuardSkips(t) \/ BlockStarts(t) \/ RetryStarts(t) \/ ChainStarts(t) \/ CallsNext(t)
           \/ RoundStarts(t) \/ Resumes(t) \/ StepSucceeds(t) \/ StepBreaks(t) \/ ChainEnds(t)

\* A stack is its top frame on the rest.
LEMMA StackIsTop ==
  ASSUME NEW S, NEW st \in Seq(S), st # <<>>
  PROVE  st = <<Head(st)>> \o Tail(st)
<1>1. \A x, y \in Seq(S) : Len(x) = Len(y) /\ (\A i \in 1 .. Len(x) : x[i] = y[i]) => x = y
  OBVIOUS
<1>2. /\ Len(st) \in Nat /\ Len(st) >= 1 /\ Head(st) = st[1] /\ Head(st) \in S
      /\ Tail(st) \in Seq(S) /\ Len(Tail(st)) = Len(st) - 1
      /\ \A i \in 1 .. Len(st) - 1 : Tail(st)[i] = st[i + 1]
  BY StackTop
<1> DEFINE a == Head(st)
           u == Tail(st)
           new == <<a>> \o u
<1> HIDE DEF a, u
<1>3. /\ new \in Seq(S) /\ Len(new) = Len(u) + 1 /\ new[1] = a
      /\ \A i \in 2 .. Len(u) + 1 : new[i] = u[i - 1]
  BY <1>2, StackPush DEF a, u
<1> HIDE DEF new
<1>4. Len(new) = Len(st) /\ \A i \in 1 .. Len(st) : new[i] = st[i]
  BY <1>2, <1>3 DEF a, u
<1>5. new = st
  BY <1>1, <1>3, <1>4
<1> QED BY <1>5 DEF new, a, u

\* What a block with one body calls in a round.
LEMMA BodyIsKids ==
  ASSUME EngineTypeOK, NEW s \in StepIds, chain.kind[s] \in Blocks \ {"branch"}
  PROVE  Kids(s) = Steps(chain.bodies[s][1])
<1>1. WellFormed(chain)
  BY ChainFacts
<1>2. chain.bodies[s] \in Seq(Seq(StepIds)) /\ Len(chain.bodies[s]) = 1
  BY <1>1 DEF WellFormed, StepIds
<1>3. DOMAIN chain.bodies[s] = {1}
  BY <1>2
<1> QED BY <1>3 DEF Kids, Under

\* A thread that goes on is where it was sent.
LEMMA AtIsTo ==
  ASSUME EngineTypeOK, NEW t \in Live, NEW st, NEW pc, thr' = At(t, st, pc)
  PROVE  To(t, st, pc)
BY OthersStay DEF To

\* The stack as its top on the rest.
LEMMA SameTop ==
  ASSUME EngineTypeOK, NEW t \in Live, thr[t].stack # <<>>
  PROVE  thr[t].stack = WithTop(t, Top(t)) /\ Top(t) \in Frames
BY ThreadFacts, StackIsTop, TopFacts DEF WithTop, Pop, Top

\* Calling a handler.
LEMMA EnterMove ==
  ASSUME EngineTypeOK, NEW t \in Live, PcOK(t), Enter(t)
  PROVE  Move(t)
<1>1. thr[t].stack # <<>> /\ Top(t).s # Root /\ Kind(t) = chain.kind[Top(t).s] /\ Top(t).s \in StepIds
      /\ thr[t].pc = "enter"
  BY TopFacts DEF Enter, PcOK, PcFits, Top, Kind
<1>3. CASE Refused
  <2>1. thr' = At(t, Pop(t), "raise") /\ flag' = flag /\ sour' = sour /\ aborted
    BY <1>3 DEF Enter, Refused
  <2> QED BY <1>1, <2>1, AtIsTo DEF Move, GuardSkips
<1>2. ~Refused => Clears(t)
  BY DEF Enter, Clears
<1>4. CASE ~Refused /\ thr' = At(t, Pop(t), "body") /\ flag' = flag
  BY <1>1, <1>2, <1>4, AtIsTo DEF Move, GuardSkips
<1>5. CASE ~Refused /\ chain.kind[Top(t).s] \in Leaves
           /\ thr' = At(t, thr[t].stack, IF chain.kind[Top(t).s] = "asking_tool" THEN "ask" ELSE "leaf")
           /\ flag' = flag
  <2>1. Kind(t) # "retry"
    BY <1>1, <1>5 DEF Leaves
  <2>2. PICK pc \in {"leaf", "ask"} : thr' = At(t, thr[t].stack, pc)
    BY <1>5
  <2> QED BY <1>1, <1>2, <1>5, <2>1, <2>2, AtIsTo, SameTop DEF Move, BlockStarts
<1>6. CASE ~Refused /\ chain.kind[Top(t).s] \in Blocks /\ StartBlock(t, Top(t).s)
  <2> DEFINE s == Top(t).s
             f == Top(t)
  <2>0. chain.kind[s] \in {"parallel", "branch", "agent_chain", "loop", "retry"}
    BY <1>6 DEF Blocks
  <2>1. CASE chain.kind[s] = "parallel"
    <3>1. ParallelStarts(t, s) /\ flag' = flag
      BY <1>6, <2>1 DEF StartBlock, ParallelStarts
    <3>2. \E pc \in {"body", "join"} : To(t, thr[t].stack, pc)
      <4> DEFINE kids == chain.bodies[s][1]
                 n == Len(kids)
                 pc == IF n = 0 THEN "body" ELSE "join"
                 st == thr[t].stack
      <4>1. PICK id \in [1 .. n -> 1 .. MaxThreads \ Live] :
              /\ FirstFree(n, id)
              /\ thr' = [u \in Live \cup {id[i] : i \in 1 .. n} |->
                   IF u \in Live THEN At(t, st, pc)[u]
                   ELSE Thread(<<Frame(kids[CHOOSE i \in 1 .. n : id[i] = u], <<>>, Runner(t))>>, "enter", t)]
        BY <3>1 DEF ParallelStarts
      <4>2. thr'[t] = At(t, st, pc)[t]
        BY <4>1
      <4>3. At(t, st, pc)[t] = [stack |-> st, pc |-> pc, up |-> thr[t].up]
        BY AtFacts
      <4>4. pc \in {"body", "join"}
        OBVIOUS
      <4> HIDE DEF pc
      <4> QED BY <4>2, <4>3, <4>4 DEF To
    <3> QED BY <1>1, <1>2, <1>6, <2>1, <3>1, <3>2, SameTop DEF Move, BlockStarts
  <2>2. CASE chain.kind[s] = "branch"
    <3>1. BranchStarts(t, s) /\ flag' = flag
      BY <1>6, <2>2 DEF StartBlock, BranchStarts
    <3>2. CASE thr' = At(t, thr[t].stack, "body")
      BY <1>1, <1>2, <1>6, <2>2, <3>1, <3>2, AtIsTo, SameTop DEF Move, BlockStarts
    <3>3. ASSUME NEW i \in DOMAIN chain.bodies[s],
                 thr' = At(t, WithTop(t, [f EXCEPT !.todo = chain.bodies[s][i]]), "body")
          PROVE  BlockStarts(t)
      <4>1. chain.bodies[s][i] \in Seq(StepIds)
        BY <1>1, ChainFacts
      <4>2. f \in Frames
        BY <1>1, TopFacts
      <4> DEFINE g == [f EXCEPT !.todo = chain.bodies[s][i]]
      <4>3. g \in Frames /\ g.s = s /\ g.r = f.r
        BY <4>1, <4>2, Filled
      <4>4. thr' = At(t, WithTop(t, g), "body")
        BY <3>3
      <4> HIDE DEF g
      <4> QED BY <1>1, <1>2, <1>6, <2>2, <3>1, <4>3, <4>4, AtIsTo DEF BlockStarts
    <3> QED BY <3>1, <3>2, <3>3 DEF Move, BranchStarts
  <2>3. CASE chain.kind[s] = "agent_chain"
    <3>1. SubChainStarts(t, s)
      BY <1>6, <2>3 DEF StartBlock
    <3>2. Opens(t)
      BY <1>1, <2>3, <3>1 DEF Opens
    <3> DEFINE g == Frame(Root, chain.bodies[s][1], Len(flag) + 1)
    <3>3. thr' = At(t, <<g>> \o thr[t].stack, "body") /\ flag' = Append(flag, FALSE)
      BY <3>1 DEF SubChainStarts
    <3>4. Runners' = Runners \cup {Len(flag) + 1}
      <4>1. ASSUME NEW S, NEW q \in Seq(S), NEW e \in S
            PROVE  DOMAIN Append(q, e) = DOMAIN q \cup {Len(q) + 1}
        OBVIOUS
      <4>2. flag \in Seq(BOOLEAN)
        BY DEF EngineTypeOK
      <4> QED BY <3>3, <4>1, <4>2 DEF Runners
    <3>5. chain.bodies[s][1] \in Seq(StepIds) /\ StepIds' = StepIds
      BY <1>1, <2>3, BodyFacts DEF Blocks, Enter, Still, StepIds
    <3>6. g \in Frames' /\ g.s = Root
      <4> DEFINE b == chain.bodies[s][1]
                 r == Len(flag) + 1
      <4>1. b \in Seq(StepIds) /\ r \in Runners' /\ StepIds' = StepIds
        BY <3>4, <3>5
      <4> HIDE DEF b, r
      <4>2. Frame(Root, b, r) \in Frames' /\ Frame(Root, b, r).s = Root
        BY <4>1 DEF Frame, Frames
      <4> QED BY <4>2 DEF b, r
    <3> HIDE DEF g
    <3> QED BY <1>1, <1>2, <1>6, <2>3, <3>3, <3>6, AtIsTo DEF Move, ChainStarts
  <2>4. CASE chain.kind[s] \in {"loop", "retry"}
    <3>1. RoundsStart(t, s)
      BY <1>6, <2>4 DEF StartBlock
    <3>2. chain.bodies[s][1] \in Seq(StepIds) /\ Kids(s) = Steps(chain.bodies[s][1])
      BY <1>1, <2>4, BodyFacts, BodyIsKids DEF Blocks
    <3>3. f \in Frames /\ f.r \in Runners
      BY <1>1, TopFacts
    <3>4. flag[f.r] \in BOOLEAN
      BY <3>3, FlagFacts
    <3> DEFINE b == chain.bodies[s][1]
               w == flag[f.r]
               g == [f EXCEPT !.todo = b, !.was = w]
    <3>5. g \in Frames /\ g.s = f.s /\ g.r = f.r /\ g.todo = b /\ g.was = w
      <4>1. b \in Seq(StepIds) /\ w \in BOOLEAN /\ f \in Frames
        BY <3>2, <3>3, <3>4
      <4> HIDE DEF f, b, w
      <4> QED BY <4>1 DEF Frames
    <3>6. thr' = At(t, WithTop(t, g), "body")
      BY <3>1 DEF RoundsStart, Runner
    <3>7. flag' = [flag EXCEPT ![f.r] = w \/ chain.kind[s] = "retry"]
      BY <3>1 DEF RoundsStart, Runner
    <3>8. To(t, WithTop(t, g), "body")
      BY <3>6, AtIsTo
    <3> HIDE DEF g
    <3>9. CASE chain.kind[s] = "retry"
      <4>1. flag' = [flag EXCEPT ![f.r] = TRUE]
        BY <3>7, <3>9
      <4> QED BY <1>1, <1>2, <1>6, <3>2, <3>5, <3>8, <3>9, <4>1 DEF Move, RetryStarts, Runner
    <3>10. CASE chain.kind[s] = "loop"
      <4>1. flag' = [flag EXCEPT ![f.r] = flag[f.r]]
        BY <3>4, <3>7, <3>10
      <4>2. flag' = flag
        <5>1. ASSUME NEW S, NEW q \in Seq(S), NEW r PROVE [q EXCEPT ![r] = q[r]] = q
          <6>1. q \in [1 .. Len(q) -> S]
            OBVIOUS
          <6> QED BY <6>1
        <5>2. flag \in Seq(BOOLEAN)
          BY DEF EngineTypeOK
        <5> QED BY <4>1, <5>1, <5>2
      <4> QED BY <1>1, <1>2, <1>6, <3>5, <3>8, <3>10, <4>2 DEF Move, BlockStarts
    <3> QED BY <2>4, <3>9, <3>10
  <2> QED BY <2>0, <2>1, <2>2, <2>3, <2>4
<1> QED BY <1>3, <1>4, <1>5, <1>6 DEF Enter

\* A further round.
LEMMA RoundMove ==
  ASSUME EngineTypeOK, NEW t \in Live, thr[t].stack # <<>>, Top(t).s # Root, Kind(t) \in {"loop", "retry"},
         thr[t].pc \in {"body", "raise"}, UNCHANGED <<flag, sour>>,
         NEW pc \in {"body", "sleep", "raise"}, pc = "raise" => aborted, NextRound(t, pc)
  PROVE  RoundStarts(t)
<1> DEFINE s == Top(t).s
           f == Top(t)
           b == chain.bodies[s][1]
           m == f.n + 1
           g == [f EXCEPT !.todo = b, !.n = m]
<1>1. s \in StepIds /\ f \in Frames /\ f.n \in Nat /\ chain.kind[s] \in Blocks \ {"branch"}
  BY TopFacts DEF Kind, Blocks
<1>2. b \in Seq(StepIds) /\ Kids(s) = Steps(b) /\ m \in Nat
  BY <1>1, BodyFacts, BodyIsKids
<1>3. g \in Frames /\ g.s = f.s /\ g.r = f.r /\ g.todo = b /\ g.was = f.was
  <2> HIDE DEF f, b, m
  <2> QED BY <1>1, <1>2 DEF Frames
<1>4. thr' = At(t, WithTop(t, g), pc)
  BY DEF NextRound
<1> HIDE DEF g
<1>5. To(t, WithTop(t, g), pc)
  BY <1>4, AtIsTo
<1> QED BY <1>2, <1>3, <1>5 DEF RoundStarts

\* A step that fails,
LEMMA FailMove ==
  ASSUME EngineTypeOK, NEW t \in Live, thr[t].stack # <<>>, Top(t).s # Root, thr[t].pc # "enter",
         StepFails(t, Top(t).s, IF Kind(t) = "retry" /\ ~aborted THEN FlagRestored(t) ELSE flag)
  PROVE  StepBreaks(t)
<1> DEFINE fl == IF Kind(t) = "retry" /\ ~aborted THEN FlagRestored(t) ELSE flag
           pc == IF Rethrown(fl, Runner(t)) THEN "raise" ELSE "body"
<1>1. flag' = fl /\ sour' = sour \cup {<<Runner(t), Top(t).s>>} /\ thr' = At(t, Pop(t), pc)
  BY DEF StepFails
<1>2. To(t, Pop(t), pc)
  BY <1>1, AtIsTo
<1>3. pc = IF Rethrown(flag', Runner(t)) THEN "raise" ELSE "body"
  BY <1>1
<1> HIDE DEF fl
<1> QED BY <1>1, <1>2, <1>3 DEF StepBreaks, fl

\* and one that returns.
LEMMA ReturnMove ==
  ASSUME EngineTypeOK, NEW t \in Live, thr[t].stack # <<>>, Top(t).s # Root, thr[t].pc # "enter",
         NEW status, StepReturns(t, Top(t).s, status), status = "error" => Kind(t) = "agent",
         flag' = IF Kind(t) = "retry" THEN FlagRestored(t) ELSE flag
  PROVE  StepSucceeds(t)
<1>1. thr' = At(t, Pop(t), "body")
  BY DEF StepReturns
<1>2. To(t, Pop(t), "body")
  BY <1>1, AtIsTo
<1>3. /\ sour' \subseteq sour \cup {<<Runner(t), Top(t).s>>}
      /\ <<Runner(t), Top(t).s>> \in sour' => Kind(t) = "agent"
  BY DEF StepReturns
<1> QED BY <1>2, <1>3 DEF StepSucceeds

\* An attempt of a retry fails.
LEMMA AttemptMove ==
  ASSUME EngineTypeOK, NEW t \in Live, thr[t].stack # <<>>, Kind(t) = "retry", Top(t).s # Root,
         thr[t].pc \in {"body", "raise"}, AttemptFails(t)
  PROVE  RoundStarts(t) \/ StepBreaks(t)
<1>1. CASE ~aborted /\ MoreRounds(t)
  <2>1. NextRound(t, "sleep") /\ UNCHANGED <<flag, sour>>
    BY <1>1 DEF AttemptFails
  <2> QED BY <2>1, RoundMove
<1>2. CASE ~(~aborted /\ MoreRounds(t))
  <2>1. StepFails(t, Top(t).s, IF aborted THEN flag ELSE FlagRestored(t))
    BY <1>2 DEF AttemptFails
  <2>2. StepFails(t, Top(t).s, IF Kind(t) = "retry" /\ ~aborted THEN FlagRestored(t) ELSE flag)
    <3>1. CASE aborted
      BY <2>1, <3>1
    <3>2. CASE ~aborted
      BY <2>1, <3>2
    <3> QED BY <3>1, <3>2
  <2> QED BY <2>2, FailMove
<1> QED BY <1>1, <1>2

\* A thread that waits for its branches does nothing.
LEMMA JoinWaits ==
  ASSUME NEW t, Acts(t)
  PROVE  thr[t].pc # "join"
BY DEF Acts, Runs, Answers, User, Enter, Calls, LoopGoesOn, BlockDone, RetryDone, RetryJudged, Raised,
       SubChainEnds, BranchSettles, RunSettles, LeafAnswers, AgentErrs, LeafThrows, StatementFails, Wakes,
       Approved, Denied, BodyDone, Answerable

\* Every step of a thread that neither its promise nor the run settles is a move.
LEMMA ActMove ==
  ASSUME EngineTypeOK, NEW t \in Live, PcOK(t), Acts(t), ~BranchSettles(t), ~RunSettles(t)
  PROVE  Move(t) /\ thr[t].stack # <<>>
<1>0. \A k \in Sync \cup Blocks \cup Leaves : k # Root
  BY DEF Sync, Blocks, Leaves, Root
<1>00. \A k \in Leaves \cup OnClient \cup {"llm"} : k # "retry" /\ k # Root
  BY DEF Leaves, OnClient, Root
<1>1. thr[t].pc \in {"leaf", "ask", "sleep"} => thr[t].stack # <<>> /\ Top(t).s # Root
  BY DEF PcOK, PcFits, Top
<1>2. thr[t].pc \in {"leaf", "ask"} => Kind(t) \in Leaves
  BY <1>1 DEF PcOK, PcFits, Top, Kind
<1>3. CASE Enter(t)
  BY <1>3, EnterMove DEF Enter, PcOK, PcFits
<1>4. CASE Calls(t)
  <2> DEFINE f == Top(t)
             x == Head(f.todo)
             u == Tail(f.todo)
             g == Frame(x, <<>>, f.r)
             h == [f EXCEPT !.todo = u]
  <2>1. thr[t].pc = "body" /\ thr[t].stack # <<>> /\ f.todo # <<>> /\ flag' = flag /\ sour' = sour
        /\ thr' = At(t, <<g, h>> \o Pop(t), "enter")
    BY <1>4 DEF Calls
  <2>2. f \in Frames /\ f.todo \in Seq(StepIds) /\ f.r \in Runners
    BY <2>1, TopFacts
  <2>3. x \in StepIds /\ u \in Seq(StepIds) /\ Steps(u) \cup {x} = Steps(f.todo)
    <3>1. /\ Len(f.todo) \in Nat /\ Len(f.todo) >= 1 /\ x = f.todo[1] /\ x \in StepIds
          /\ u \in Seq(StepIds) /\ Len(u) = Len(f.todo) - 1
          /\ \A i \in 1 .. Len(f.todo) - 1 : u[i] = f.todo[i + 1]
      BY <2>1, <2>2, StackTop
    <3> DEFINE d == f.todo
    <3>2. DOMAIN d = 1 .. Len(d) /\ DOMAIN u = 1 .. Len(d) - 1
      BY <2>2, <3>1
    <3>3. Len(d) \in Nat /\ Len(d) >= 1 /\ x = d[1] /\ \A i \in 1 .. Len(d) - 1 : u[i] = d[i + 1]
      BY <3>1
    <3> HIDE DEF d, u, x
    <3>4. ASSUME NEW y \in Steps(d) PROVE y \in Steps(u) \cup {x}
      <4>1. PICK i \in 1 .. Len(d) : y = d[i]
        BY <3>2 DEF Steps
      <4>2. CASE i # 1
        <5>1. i - 1 \in 1 .. Len(d) - 1 /\ i = (i - 1) + 1
          BY <3>3, <4>2
        <5>2. u[i - 1] = y
          BY <3>3, <4>1, <5>1
        <5> QED BY <3>2, <5>1, <5>2 DEF Steps
      <4> QED BY <3>3, <4>1, <4>2
    <3>5. ASSUME NEW y \in Steps(u) \cup {x} PROVE y \in Steps(d)
      <4>1. CASE y = x
        BY <3>2, <3>3, <4>1 DEF Steps
      <4>2. CASE y \in Steps(u)
        <5>1. PICK i \in 1 .. Len(d) - 1 : y = u[i]
          BY <3>2, <4>2 DEF Steps
        <5>2. i + 1 \in 1 .. Len(d) /\ d[i + 1] = y
          BY <3>3, <5>1
        <5> QED BY <3>2, <5>2 DEF Steps
      <4> QED BY <4>1, <4>2
    <3>6. x \in StepIds /\ u \in Seq(StepIds)
      BY <3>1 DEF x, u
    <3>7. Steps(u) \cup {x} = Steps(d)
      BY <3>4, <3>5
    <3> QED BY <3>6, <3>7 DEF d
  <2>4. h \in Frames /\ h.s = f.s /\ h.r = f.r /\ h.was = f.was /\ h.todo = u
    <3> HIDE DEF f, u
    <3> QED BY <2>2, <2>3, Filled
  <2>5. g \in Frames /\ g.s = x /\ g.r = f.r
    <3>1. <<>> \in Seq(StepIds)
      OBVIOUS
    <3> HIDE DEF f, x
    <3> QED BY <2>2, <2>3, <3>1 DEF Frame, Frames
  <2>6. x # Root
    BY <2>3, ChainFacts
  <2>7. <<g, h>> \o Pop(t) = <<g>> \o (<<h>> \o Pop(t))
    <3>1. Pop(t) \in Seq(Frames)
      BY <2>1, ThreadFacts, StackTop DEF Pop
    <3> HIDE DEF g, h
    <3> QED BY <2>4, <2>5, <3>1, StackPushTwo
  <2>8. To(t, <<g>> \o (<<h>> \o Pop(t)), "enter")
    BY <2>1, <2>7, AtIsTo
  <2> HIDE DEF g, h, x, u
  <2>9. CallsNext(t)
    BY <2>1, <2>3, <2>4, <2>5, <2>6, <2>8 DEF CallsNext
  <2> QED BY <2>1, <2>9 DEF Move
<1>5. CASE LoopGoesOn(t)
  <2>1. thr[t].stack # <<>> /\ Top(t).s # Root /\ Kind(t) = "loop" /\ thr[t].pc = "body" /\ UNCHANGED <<flag, sour>>
    BY <1>0, <1>5, NotRoot DEF LoopGoesOn, BodyDone, Blocks
  <2>2. RoundBegins \in {"body", "raise"} /\ NextRound(t, RoundBegins) /\ (RoundBegins = "raise" => aborted)
    BY <1>5 DEF RoundBegins, LoopGoesOn, Refused
  <2>3. RoundStarts(t)
    <3> HIDE DEF RoundBegins
    <3> QED BY <2>1, <2>2, RoundMove
  <2> QED BY <2>1, <2>3 DEF Move
<1>6. CASE BlockDone(t)
  <2>1. thr[t].stack # <<>> /\ Top(t).s # Root /\ Kind(t) # "retry" /\ thr[t].pc # "enter" /\ flag' = flag
    BY <1>0, <1>6, NotRoot DEF BlockDone, BodyDone, Blocks
  <2>2. StepReturns(t, Top(t).s, IF chain.kind[Top(t).s] = "agent_chain" THEN "success" ELSE "keep")
    BY <1>6 DEF BlockDone, BlockReturns
  <2> QED BY <2>1, <2>2, ReturnMove DEF Move
<1>7. CASE RetryDone(t)
  <2>1. thr[t].stack # <<>> /\ Top(t).s # Root /\ Kind(t) = "retry" /\ thr[t].pc # "enter"
    BY <1>0, <1>7, NotRoot DEF RetryDone, BodyDone, Blocks
  <2>2. StepReturns(t, Top(t).s, "keep") /\ flag' = FlagRestored(t)
    BY <1>7 DEF RetryDone
  <2> QED BY <2>1, <2>2, ReturnMove DEF Move
<1>8. CASE RetryJudged(t)
  <2>1. thr[t].stack # <<>> /\ Top(t).s # Root /\ Kind(t) = "retry" /\ thr[t].pc = "body" /\ AttemptFails(t)
    BY <1>0, <1>8, NotRoot DEF RetryJudged, BodyDone, Blocks
  <2> QED BY <2>1, AttemptMove DEF Move
<1>9. CASE Raised(t)
  <2>1. thr[t].stack # <<>> /\ Top(t).s # Root /\ thr[t].pc = "raise"
    BY <1>9, NotRoot DEF Raised
  <2>2. CASE Kind(t) = "retry"
    BY <1>9, <2>1, <2>2, AttemptMove DEF Move, Raised
  <2>3. CASE Kind(t) # "retry"
    BY <1>9, <2>1, <2>3, FailMove DEF Move, Raised
  <2> QED BY <2>2, <2>3
<1>10. CASE SubChainEnds(t)
  <2>1. thr[t].stack # <<>> /\ Top(t).s = Root /\ Len(thr[t].stack) > 1 /\ thr[t].pc \in {"body", "raise"}
        /\ flag' = flag /\ sour' = sour /\ thr' = At(t, Pop(t), thr[t].pc)
    <3>1. Kind(t) = Root
      BY <1>10 DEF SubChainEnds
    <3>2. thr[t].stack # <<>>
      BY <1>10 DEF SubChainEnds
    <3>3. Top(t).s = Root
      <4>0. Top(t).s # Root => chain.kind[Top(t).s] \in Sync \cup Blocks \cup Leaves
        BY <3>2, TopFacts, ChainFacts
      <4>1. Top(t).s # Root => chain.kind[Top(t).s] # Root
        BY <1>0, <4>0
      <4> QED BY <3>1, <4>1 DEF Kind
    <3> QED BY <1>10, <3>3 DEF SubChainEnds, BodyDone
  <2> QED BY <2>1, AtIsTo DEF Move, ChainEnds
<1>11. CASE LeafAnswers(t)
  <2>1. thr[t].pc = "leaf" /\ flag' = flag
        /\ StepReturns(t, Top(t).s, IF Kind(t) = "agent" THEN "success" ELSE "keep")
    BY <1>11 DEF LeafAnswers, Answerable
  <2> QED BY <1>00, <1>1, <1>2, <2>1, ReturnMove DEF Move
<1>12. CASE AgentErrs(t)
  <2>1. thr[t].pc = "leaf" /\ flag' = flag /\ Kind(t) = "agent" /\ StepReturns(t, Top(t).s, "error")
    BY <1>12 DEF AgentErrs, Answerable
  <2> QED BY <1>00, <1>1, <1>2, <2>1, ReturnMove DEF Move
<1>13. CASE LeafThrows(t)
  <2>1. thr[t].pc = "leaf" /\ StepFails(t, Top(t).s, flag)
    BY <1>13 DEF LeafThrows, Answerable
  <2> QED BY <1>00, <1>1, <1>2, <2>1, FailMove DEF Move
<1>14. CASE StatementFails(t)
  <2>1. thr[t].pc = "leaf" /\ flag' = flag
        /\ StepReturns(t, Top(t).s, IF Kind(t) = "agent" THEN "success" ELSE "keep")
    BY <1>14 DEF StatementFails, Answerable
  <2> QED BY <1>00, <1>1, <1>2, <2>1, ReturnMove DEF Move
<1>15. CASE Wakes(t)
  <2>1. RoundBegins \in {"body", "raise"} /\ thr' = At(t, thr[t].stack, RoundBegins)
        /\ (RoundBegins = "raise" => aborted) /\ thr[t].pc = "sleep" /\ flag' = flag /\ sour' = sour
    BY <1>15 DEF RoundBegins, Wakes, Refused
  <2>2. To(t, thr[t].stack, RoundBegins)
    BY <2>1, AtIsTo
  <2>3. Resumes(t)
    <3> HIDE DEF RoundBegins
    <3> QED BY <2>1, <2>2 DEF Resumes
  <2> QED BY <1>1, <2>1, <2>3 DEF Move
<1>16. CASE Approved(t)
  <2>1. thr' = At(t, thr[t].stack, "leaf") /\ thr[t].pc = "ask" /\ flag' = flag /\ sour' = sour
    BY <1>16 DEF Approved
  <2>2. To(t, thr[t].stack, "leaf")
    BY <2>1, AtIsTo
  <2>3. Resumes(t)
    BY <1>00, <1>2, <2>1, <2>2 DEF Resumes
  <2> QED BY <1>1, <2>1, <2>3 DEF Move
<1>17. CASE Denied(t)
  <2>1. thr[t].pc = "ask" /\ StepFails(t, Top(t).s, flag)
    BY <1>17 DEF Denied
  <2> QED BY <1>00, <1>1, <1>2, <2>1, FailMove DEF Move
<1> QED BY <1>3, <1>4, <1>5, <1>6, <1>7, <1>8, <1>9, <1>10, <1>11, <1>12, <1>13, <1>14, <1>15, <1>16, <1>17
       DEF Acts, Runs, Answers, User

-----------------------------------------------------------------------------
(* The tree of threads: the run's own one, and those of branches *)

\* The thread of the run itself.
IsMain(t) == t = 1 /\ over = "no"

\* It stands on the chain that was started.
MainInv == over = "no" =>
  /\ 1 \in Live /\ thr[1].stack # <<>> /\ thr[1].up = 0
  /\ thr[1].stack[Len(thr[1].stack)].s = Root

\* A stack whose frames stand below a parallel step.
Under1(st) == \A i \in 1 .. Len(st) :
  /\ st[i].s # Root => st[i].s \in Beneath
  /\ Steps(st[i].todo) \subseteq Beneath
  /\ i = Len(st) => st[i].s # Root

\* The others are threads of branches,
BranchInv == \A t \in Live : ~IsMain(t) => Under1(thr[t].stack)

\* and the one that called them waits for them.
JoinInv == \A u \in Live : thr[u].up # 0 => thr[u].up \in Live /\ thr[thr[u].up].pc = "join"

TreeInv == MainInv /\ BranchInv /\ JoinInv

\* What stands below a parallel step has its children there.
LEMMA BeneathGrows ==
  ASSUME EngineTypeOK, NEW s \in StepIds, s \in Beneath \/ chain.kind[s] = "parallel"
  PROVE  Kids(s) \subseteq Beneath
<1> SUFFICES ASSUME NEW x \in Kids(s) PROVE x \in Beneath
  OBVIOUS
<1>1. x \in StepIds
  BY ChainFacts
<1>2. ASSUME NEW D \in SUBSET StepIds,
             \A y \in StepIds : y \in D \/ chain.kind[y] = "parallel" => Kids(y) \subseteq D
      PROVE  x \in D
  <2>1. s \in D \/ chain.kind[s] = "parallel"
    BY <1>2 DEF Beneath
  <2> QED BY <1>2, <2>1
<1> QED BY <1>1, <1>2 DEF Beneath

\* And only that: its parent is there or is a parallel step.
LEMMA BeneathParents ==
  ASSUME EngineTypeOK, NEW s \in StepIds, NEW x \in Kids(s), x \in Beneath
  PROVE  s \in Beneath \/ chain.kind[s] = "parallel"
<1> SUFFICES ASSUME s \notin Beneath, chain.kind[s] # "parallel" PROVE FALSE
  OBVIOUS
<1> DEFINE D == Beneath \ Kids(s)
<1>1. \A y, z \in StepIds : y # z => Kids(y) \cap Kids(z) = {}
  BY ChainFacts DEF WellFormed, Tree, StepIds, Kids
<1>2. ASSUME NEW y \in StepIds, y \in D \/ chain.kind[y] = "parallel"
      PROVE  Kids(y) \subseteq D
  <2>1. Kids(y) \subseteq Beneath
    BY <1>2, BeneathGrows
  <2>2. y # s
    BY <1>2
  <2> QED BY <1>1, <2>1, <2>2
<1>3. D \in SUBSET StepIds
  BY DEF Beneath
<1>4. x \in D
  BY <1>2, <1>3 DEF Beneath
<1> QED BY <1>4

\* The chain stays, and so does what stands below its parallel steps.
LEMMA BeneathStays ==
  ASSUME chain' = chain
  PROVE  Beneath' = Beneath /\ (RetryInParallel' <=> RetryInParallel)
<1>1. Beneath' = Beneath
  BY DEF Beneath, Kids, StepIds
<1> QED BY <1>1 DEF RetryInParallel

\* A run begins with its main thread.
LEMMA TreeInit == EngineInit => TreeInv
<1> SUFFICES ASSUME EngineInit PROVE TreeInv
  OBVIOUS
<1> DEFINE st == <<Frame(Root, chain.main, 1)>>
<1>1. thr = [t \in {1} |-> Thread(st, "body", 0)] /\ over = "no"
  BY DEF EngineInit
<1>2. Live = {1} /\ thr[1].stack = st /\ thr[1].up = 0
  BY <1>1 DEF Live, Thread
<1>3. st # <<>> /\ st[Len(st)].s = Root
  BY DEF Frame
<1> QED BY <1>1, <1>2, <1>3 DEF TreeInv, MainInv, BranchInv, JoinInv, IsMain

\* A run ends by its main thread.
LEMMA MainSettles ==
  ASSUME EngineTypeOK, TreeInv, NEW t \in Live, RunSettles(t)
  PROVE  IsMain(t) /\ over' # "no"
<1>1. thr[t].stack # <<>> /\ Len(thr[t].stack) = 1 /\ Kind(t) = Root
  BY DEF RunSettles
<1>2. Top(t).s = Root
  <2>1. Top(t).s # Root => chain.kind[Top(t).s] \in Sync \cup Blocks \cup Leaves
    BY <1>1, TopFacts, ChainFacts
  <2>2. \A k \in Sync \cup Blocks \cup Leaves : k # Root
    BY DEF Sync, Blocks, Leaves, Root
  <2> QED BY <1>1, <2>1, <2>2 DEF Kind
<1>3. thr[t].stack[1].s = Root
  BY <1>1, <1>2, TopFacts
<1>4. ~Under1(thr[t].stack)
  BY <1>1, <1>3 DEF Under1
<1>5. over' # "no"
  BY DEF RunSettles
<1> QED BY <1>4, <1>5 DEF TreeInv, BranchInv

\* What the step of a thread leaves of its stack: the frame at the bottom,
LEMMA BottomStays ==
  ASSUME EngineTypeOK, NEW t \in Live, Others(t),
         KeptStack(t) \/ Refilled(t) \/ Returned(t) \/ Called(t) \/ Opened(t)
  PROVE  LET st == thr[t].stack
             new == thr'[t].stack IN
         /\ Len(st) \in Nat /\ Len(st) >= 1 /\ st \in Seq(Frames)
         /\ Len(new) >= 1 => new[Len(new)].s = st[Len(st)].s
         /\ Len(new) = 0 => Len(st) = 1 /\ Top(t).s # Root
         /\ Len(new) \in Nat
<1> DEFINE st == thr[t].stack
           new == thr'[t].stack
<1>1. st # <<>>
  BY DEF KeptStack, Refilled, Returned, Called, Opened
<1>2. Len(st) \in Nat /\ Len(st) >= 1 /\ Top(t) = st[1] /\ st \in Seq(Frames)
  BY <1>1, TopFacts, ThreadFacts
<1>3. CASE KeptStack(t)
  BY <1>2, <1>3 DEF KeptStack
<1>4. CASE Refilled(t)
  <2>1. Len(new) = Len(st) /\ (\A i \in 2 .. Len(st) : new[i] = st[i]) /\ new[1].s = st[1].s
    BY <1>2, <1>4 DEF Refilled
  <2> QED BY <1>2, <2>1
<1>5. CASE Returned(t)
  <2>1. Len(new) = Len(st) - 1 /\ (\A i \in 1 .. Len(st) - 1 : new[i] = st[i + 1])
        /\ (Top(t).s = Root => Len(st) > 1)
    BY <1>5 DEF Returned
  <2> HIDE DEF st, new
  <2>2. Len(new) \in Nat /\ (Len(new) = 0 => Len(st) = 1)
    BY <1>2, <2>1
  <2>3. Len(new) >= 1 => new[Len(new)] = st[Len(new) + 1] /\ Len(new) + 1 = Len(st)
    BY <1>2, <2>1
  <2>4. Len(new) = 0 => Top(t).s # Root
    <3>1. Top(t).s = Root => Len(st) > 1
      BY <2>1
    <3>2. ~(1 > 1)
      OBVIOUS
    <3> QED BY <2>2, <3>1, <3>2, Zenon
  <2> QED BY <1>2, <2>2, <2>3, <2>4 DEF st, new
<1>6. CASE Called(t)
  <2>1. Len(new) = Len(st) + 1 /\ (\A i \in 3 .. Len(st) + 1 : new[i] = st[i - 1]) /\ new[2].s = st[1].s
    BY <1>2, <1>6 DEF Called
  <2> HIDE DEF st, new
  <2>2. Len(new) \in Nat /\ Len(new) >= 2
    BY <1>2, <2>1
  <2>3. new[Len(new)].s = st[Len(st)].s
    <3>1. CASE Len(st) = 1
      BY <2>1, <3>1
    <3>2. CASE Len(st) # 1
      <4>1. Len(new) \in 3 .. Len(st) + 1 /\ Len(new) - 1 = Len(st)
        <5>1. ASSUME NEW a \in Nat, NEW b, a >= 1, a # 1, b = a + 1 PROVE b \in 3 .. a + 1 /\ b - 1 = a
          BY <5>1
        <5>2. Len(st) \in Nat /\ Len(st) >= 1
          BY <1>2
        <5>3. Len(new) = Len(st) + 1
          BY <2>1
        <5> QED BY <3>2, <5>1, <5>2, <5>3, Zenon
      <4> QED BY <2>1, <4>1
    <3> QED BY <3>1, <3>2
  <2> QED BY <1>2, <2>2, <2>3 DEF st, new
<1>7. CASE Opened(t)
  <2>1. Len(new) = Len(st) + 1 /\ (\A i \in 2 .. Len(st) + 1 : new[i] = st[i - 1])
    BY <1>7 DEF Opened
  <2>2. ASSUME NEW n \in Nat, n >= 1
        PROVE  n + 1 \in 2 .. n + 1 /\ n + 1 - 1 = n /\ n + 1 \in Nat /\ n + 1 >= 1 /\ n + 1 # 0
    BY <2>2
  <2> DEFINE n == Len(st)
  <2>3. n \in Nat /\ n >= 1
    BY <1>2
  <2>4. new[n + 1] = st[n]
    BY <2>1, <2>2, <2>3
  <2> QED BY <1>2, <2>1, <2>2, <2>3, <2>4, Zenon DEF st, new, n
<1> QED BY <1>3, <1>4, <1>5, <1>6, <1>7

\* A stack all of whose steps, called or still to be called, are in D.
Lies(D, st) ==
  \A i \in 1 .. Len(st) : (st[i].s # Root => st[i].s \in D) /\ Steps(st[i].todo) \subseteq D

\* A step of a thread leaves its stack in a set that has the children of its steps.
LEMMA LiesStays ==
  ASSUME EngineTypeOK, NEW t \in Live, NEW D, Lies(D, thr[t].stack),
         Top(t).s # Root => Kids(Top(t).s) \subseteq D,
         KeptStack(t) \/ Refilled(t) \/ Returned(t) \/ Called(t) \/ Opened(t)
  PROVE  Lies(D, thr'[t].stack)
<1> DEFINE st == thr[t].stack
           new == thr'[t].stack
<1>1. st # <<>>
  BY DEF KeptStack, Refilled, Returned, Called, Opened
<1>2. Len(st) \in Nat /\ Len(st) >= 1 /\ Top(t) = st[1] /\ 1 \in 1 .. Len(st)
  BY <1>1, TopFacts
<1>3. \A i \in 1 .. Len(st) : (st[i].s # Root => st[i].s \in D) /\ Steps(st[i].todo) \subseteq D
  BY DEF Lies
<1> SUFFICES ASSUME NEW i \in 1 .. Len(new)
             PROVE  (new[i].s # Root => new[i].s \in D) /\ Steps(new[i].todo) \subseteq D
  BY DEF Lies
<1>4. CASE KeptStack(t)
  BY <1>3, <1>4 DEF KeptStack
<1>5. CASE Refilled(t)
  <2>1. /\ Len(new) = Len(st) /\ (\A j \in 2 .. Len(st) : new[j] = st[j]) /\ new[1].s = Top(t).s
        /\ Steps(new[1].todo) \subseteq Kids(Top(t).s) /\ Top(t).s # Root
    BY <1>5 DEF Refilled
  <2>2. CASE i = 1
    BY <1>2, <1>3, <2>1, <2>2
  <2>3. CASE i # 1
    <3>1. i \in 2 .. Len(st) /\ i \in 1 .. Len(st)
      BY <1>2, <2>1, <2>3
    <3> QED BY <1>3, <2>1, <3>1
  <2> QED BY <2>2, <2>3
<1>6. CASE Returned(t)
  <2>1. Len(new) = Len(st) - 1 /\ (\A j \in 1 .. Len(st) - 1 : new[j] = st[j + 1])
    BY <1>6 DEF Returned
  <2>2. ASSUME NEW n \in Nat, NEW m, m = n - 1, NEW k \in 1 .. m PROVE k \in 1 .. n - 1 /\ k + 1 \in 1 .. n
    BY <2>2
  <2>3. i \in 1 .. Len(st) - 1 /\ i + 1 \in 1 .. Len(st)
    BY <1>2, <2>1, <2>2
  <2>4. new[i] = st[i + 1]
    BY <2>1, <2>3
  <2> QED BY <1>3, <2>3, <2>4
<1>7. CASE Called(t)
  <2>1. /\ Len(new) = Len(st) + 1 /\ (\A j \in 3 .. Len(st) + 1 : new[j] = st[j - 1])
        /\ new[2].s = st[1].s /\ Steps(new[2].todo) \cup {new[1].s} = Steps(st[1].todo)
        /\ new[1].todo = <<>>
    BY <1>2, <1>7 DEF Called
  <2>2. CASE i = 1
    <3>1. Steps(new[1].todo) = {}
      BY <2>1 DEF Steps
    <3> QED BY <1>2, <1>3, <2>1, <2>2, <3>1
  <2>3. CASE i = 2
    BY <1>2, <1>3, <2>1, <2>3
  <2>4. CASE i # 1 /\ i # 2
    <3>1. i \in 3 .. Len(st) + 1 /\ i - 1 \in 1 .. Len(st)
      BY <1>2, <2>1, <2>4
    <3> QED BY <1>3, <2>1, <3>1
  <2> QED BY <2>2, <2>3, <2>4
<1>8. CASE Opened(t)
  <2>1. /\ Len(new) = Len(st) + 1 /\ (\A j \in 2 .. Len(st) + 1 : new[j] = st[j - 1])
        /\ new[1].s = Root /\ Steps(new[1].todo) \subseteq Kids(Top(t).s) /\ Top(t).s # Root
    BY <1>8 DEF Opened, Kind, Root
  <2>2. CASE i = 1
    BY <2>1, <2>2
  <2>3. CASE i # 1
    <3>1. i \in 2 .. Len(st) + 1 /\ i - 1 \in 1 .. Len(st)
      BY <1>2, <2>1, <2>3
    <3> QED BY <1>3, <2>1, <3>1
  <2> QED BY <2>2, <2>3
<1> QED BY <1>4, <1>5, <1>6, <1>7, <1>8

\* and a stack below a parallel step stays there.
LEMMA UnderStays ==
  ASSUME EngineTypeOK, NEW t \in Live, Others(t), Under1(thr[t].stack),
         KeptStack(t) \/ Refilled(t) \/ Returned(t) \/ Called(t) \/ Opened(t)
  PROVE  Under1(thr'[t].stack)
<1> DEFINE st == thr[t].stack
           new == thr'[t].stack
<1>1. /\ Len(st) \in Nat /\ Len(st) >= 1 /\ Len(new) \in Nat
      /\ Len(new) >= 1 => new[Len(new)].s = st[Len(st)].s
  BY BottomStays
<1>2. st[Len(st)].s # Root
  BY <1>1 DEF Under1
<1>3. Lies(Beneath, st)
  BY DEF Under1, Lies
<1>4. Top(t).s # Root => Kids(Top(t).s) \subseteq Beneath
  <2>1. Top(t) = st[1] /\ (Top(t).s # Root => Top(t).s \in StepIds)
    <3>1. st # <<>>
      BY DEF KeptStack, Refilled, Returned, Called, Opened
    <3> QED BY <3>1, TopFacts
  <2>2. Top(t).s # Root => Top(t).s \in Beneath
    BY <1>1, <1>3, <2>1 DEF Lies
  <2> QED BY <2>1, <2>2, BeneathGrows
<1>5. Lies(Beneath, new)
  <2> DEFINE D == Beneath
  <2> HIDE DEF D
  <2>1. Lies(D, st) /\ (Top(t).s # Root => Kids(Top(t).s) \subseteq D)
    BY <1>3, <1>4 DEF D
  <2>2. Lies(D, new)
    BY <2>1, LiesStays
  <2> QED BY <2>2 DEF D
<1> SUFFICES ASSUME NEW i \in 1 .. Len(new)
             PROVE  /\ (new[i].s # Root => new[i].s \in Beneath) /\ Steps(new[i].todo) \subseteq Beneath
                    /\ i = Len(new) => new[i].s # Root
  BY DEF Under1
<1>6. i = Len(new) => new[i].s # Root
  BY <1>1, <1>2
<1> QED BY <1>5, <1>6 DEF Lies

\* Nobody waits for a thread that moves.
LEMMA NoneWaits ==
  ASSUME JoinInv, NEW t, thr[t].pc # "join", NEW u \in Live
  PROVE  thr[u].up # t \/ thr[u].up = 0
BY DEF JoinInv

\* How a step moves the threads, when it does not end the run.
LEMMA TreeMoves ==
  ASSUME TypesInv, TreeInv, NEW t \in Live, Acts(t), chain' = chain, over' = over, thr[t].pc # "join",
         \/ Others(t) /\ (KeptStack(t) \/ Refilled(t) \/ Returned(t) \/ Called(t) \/ Opened(t))
         \/ Spawned(t) \/ Settled(t)
  PROVE  TreeInv'
<1>0. EngineTypeOK
  BY DEF TypesInv
<1>1. Beneath' = Beneath /\ \A u : IsMain(u)' <=> IsMain(u)
  BY BeneathStays DEF IsMain
<1>2. \A u \in Live : thr[u].up # 0 => thr[u].up \in Live /\ thr[u].up # t /\ thr[thr[u].up].pc = "join"
  BY DEF TreeInv, JoinInv
<1>3. \A u \in Live : ~IsMain(u) => Under1(thr[u].stack)
  BY DEF TreeInv, BranchInv
<1>4. over = "no" => /\ 1 \in Live /\ thr[1].stack # <<>> /\ thr[1].up = 0
                     /\ thr[1].stack[Len(thr[1].stack)].s = Root
  BY DEF TreeInv, MainInv
<1>5. \A u : Under1(thr'[u].stack) => Under1(thr[u].stack)'
  BY <1>1 DEF Under1
<1>6. SUFFICES /\ over = "no" => /\ 1 \in Live' /\ thr'[1].stack # <<>> /\ thr'[1].up = 0
                                 /\ thr'[1].stack[Len(thr'[1].stack)].s = Root
               /\ \A u \in Live' : ~IsMain(u) => Under1(thr'[u].stack)
               /\ \A u \in Live' : thr'[u].up # 0 =>
                    thr'[u].up \in Live' /\ thr'[thr'[u].up].pc = "join"
  BY <1>1, <1>5 DEF TreeInv, MainInv, BranchInv, JoinInv
<1>7. CASE Others(t) /\ (KeptStack(t) \/ Refilled(t) \/ Returned(t) \/ Called(t) \/ Opened(t))
  <2>1. Live' = Live /\ (\A u \in Live \ {t} : thr'[u] = thr[u]) /\ \A u \in Live : thr'[u].up = thr[u].up
    BY <1>7 DEF Others
  <2>2. ASSUME over = "no"
        PROVE  /\ 1 \in Live' /\ thr'[1].stack # <<>> /\ thr'[1].up = 0
               /\ thr'[1].stack[Len(thr'[1].stack)].s = Root
    <3>1. CASE t # 1
      BY <1>4, <2>1, <2>2, <3>1
    <3>2. CASE t = 1
      <4> DEFINE st == thr[1].stack
                 new == thr'[1].stack
      <4>1. /\ Len(st) \in Nat /\ Len(st) >= 1 /\ Len(new) \in Nat
            /\ Len(new) >= 1 => new[Len(new)].s = st[Len(st)].s
            /\ Len(new) = 0 => Len(st) = 1 /\ Top(1).s # Root
        BY <1>0, <1>7, <3>2, BottomStays
      <4>2. Top(1) = st[1] /\ st[Len(st)].s = Root
        BY <1>0, <1>4, <2>2, <3>2, TopFacts
      <4>3. Len(new) # 0
        BY <4>1, <4>2
      <4>4. Len(new) >= 1
        BY <4>1, <4>3
      <4>5. new # <<>>
        BY <4>4
      <4> QED BY <1>4, <2>1, <2>2, <4>1, <4>2, <4>4, <4>5
    <3> QED BY <3>1, <3>2
  <2>3. ASSUME NEW u \in Live', ~IsMain(u) PROVE Under1(thr'[u].stack)
    <3>1. CASE u = t
      BY <1>0, <1>3, <1>7, <2>3, <3>1, UnderStays
    <3>2. CASE u # t
      BY <1>3, <2>1, <2>3, <3>2
    <3> QED BY <3>1, <3>2
  <2>4. ASSUME NEW u \in Live', thr'[u].up # 0 PROVE thr'[u].up \in Live' /\ thr'[thr'[u].up].pc = "join"
    BY <1>2, <2>1, <2>4
  <2> QED BY <2>2, <2>3, <2>4
<1>8. CASE Spawned(t)
  <2>1. /\ Live \subseteq Live' /\ (\A u \in Live \ {t} : thr'[u] = thr[u])
        /\ thr'[t].stack = thr[t].stack /\ thr'[t].up = thr[t].up /\ thr[t].stack # <<>> /\ Kind(t) = "parallel"
        /\ thr'[t].pc = IF Live' = Live THEN "body" ELSE "join"
        /\ \A u \in Live' \ Live : Newborn(u, t)
    BY <1>8 DEF Spawned
  <2>2. Top(t).s \in StepIds /\ chain.kind[Top(t).s] = "parallel"
    BY <1>0, <2>1, TopFacts DEF Kind, Root
  <2>3. Kids(Top(t).s) \subseteq Beneath /\ Root \notin Beneath
    BY <1>0, <2>2, BeneathGrows, ChainFacts DEF Beneath
  <2>4. ASSUME NEW u \in Live', ~IsMain(u) PROVE Under1(thr'[u].stack)
    <3>1. CASE u \in Live
      BY <1>3, <2>1, <2>4, <3>1
    <3>2. CASE u \notin Live
      <4>1. /\ Len(thr'[u].stack) = 1 /\ thr'[u].stack[1].s \in Kids(Top(t).s)
            /\ thr'[u].stack[1].todo = <<>>
        BY <2>1, <3>2 DEF Newborn
      <4>2. Steps(thr'[u].stack[1].todo) = {}
        BY <4>1 DEF Steps
      <4> QED BY <2>3, <4>1, <4>2 DEF Under1
    <3> QED BY <3>1, <3>2
  <2>5. ASSUME NEW u \in Live', thr'[u].up # 0 PROVE thr'[u].up \in Live' /\ thr'[thr'[u].up].pc = "join"
    <3>1. CASE u \in Live
      BY <1>2, <2>1, <2>5, <3>1
    <3>2. CASE u \notin Live
      BY <2>1, <3>2 DEF Newborn
    <3> QED BY <3>1, <3>2
  <2>6. over = "no" => /\ 1 \in Live' /\ thr'[1].stack # <<>> /\ thr'[1].up = 0
                       /\ thr'[1].stack[Len(thr'[1].stack)].s = Root
    BY <1>4, <2>1
  <2> QED BY <2>4, <2>5, <2>6
<1>9. CASE Settled(t)
  <2> DEFINE p    == thr[t].up
             wake == p # 0 /\ (thr[t].pc = "raise" \/ \A u \in Live \ {t} : thr[u].up # p)
  <2>1. /\ thr[t].stack = <<>> /\ Live' = Live \ {t}
        /\ \A u \in Live' :
             /\ thr'[u].stack = thr[u].stack
             /\ thr'[u].pc = IF wake /\ u = p THEN thr[t].pc ELSE thr[u].pc
             /\ thr'[u].up = IF thr[t].pc = "raise" /\ p # 0 /\ thr[u].up = p THEN 0 ELSE thr[u].up
    BY <1>9 DEF Settled
  <2>2. over = "no" => t # 1
    BY <1>4, <2>1
  <2>3. over = "no" => /\ 1 \in Live' /\ thr'[1].stack # <<>> /\ thr'[1].up = 0
                       /\ thr'[1].stack[Len(thr'[1].stack)].s = Root
    BY <1>4, <2>1, <2>2
  <2>4. \A u \in Live' : ~IsMain(u) => Under1(thr'[u].stack)
    BY <1>3, <2>1
  <2>5. ASSUME NEW u \in Live', thr'[u].up # 0 PROVE thr'[u].up \in Live' /\ thr'[thr'[u].up].pc = "join"
    <3> DEFINE w == thr[u].up
    <3>1. thr'[u].up = w /\ w # 0 /\ u \in Live /\ u # t
      BY <2>1, <2>5
    <3>2. w \in Live /\ w # t /\ thr[w].pc = "join" /\ w \in Live'
      BY <1>2, <2>1, <3>1
    <3>3. ~(wake /\ w = p)
      <4> SUFFICES ASSUME wake, w = p PROVE FALSE
        OBVIOUS
      <4>1. thr[t].pc = "raise"
        BY <3>1
      <4> QED BY <2>1, <3>1, <4>1
    <3>4. thr'[w].pc = "join"
      BY <2>1, <3>2, <3>3
    <3> QED BY <3>1, <3>2, <3>4
  <2> QED BY <2>3, <2>4, <2>5
<1> QED BY <1>7, <1>8, <1>9

\* The run's own thread begins at the chain, the others below parallel steps;
\* who has branches waits for them.
LEMMA TreeStep ==
  ASSUME TypesInv, TreeInv, [EngineNext]_engineVars
  PROVE  TreeInv'
<1>0. EngineTypeOK
  BY DEF TypesInv
<1>1. CASE UNCHANGED engineVars
  BY <1>1 DEF engineVars, TreeInv, MainInv, BranchInv, JoinInv, IsMain, Under1, Beneath, Kids, StepIds, Live
<1>2. CASE Stop
  BY <1>2 DEF Stop, TreeInv, MainInv, BranchInv, JoinInv, IsMain, Under1, Beneath, Kids, StepIds, Live
<1>3. ASSUME NEW t \in Live, Acts(t), ThreadStep(t), Moved(t) PROVE TreeInv'
  <2>1. thr[t].pc # "join" /\ chain' = chain
    BY <1>3, JoinWaits DEF ThreadStep
  <2>2. CASE RunSettles(t)
    <3>1. IsMain(t) /\ over' # "no"
      BY <1>0, <1>3, <2>2, MainSettles
    <3>2. Live' = Live \ {t} /\ \A u \in Live' : thr'[u] = thr[u]
      <4>1. thr' = Drop(thr, t)
        BY <2>2 DEF RunSettles
      <4> QED BY <4>1, DropFacts DEF Live
    <3>3. Beneath' = Beneath
      BY <2>1, BeneathStays
    <3>4. \A u \in Live' : Under1(thr[u].stack)
      BY <3>1, <3>2 DEF TreeInv, BranchInv, IsMain
    <3>5. BranchInv'
      BY <3>2, <3>3, <3>4 DEF BranchInv, Under1
    <3>6. JoinInv'
      BY <2>1, <3>2 DEF TreeInv, JoinInv
    <3>7. MainInv'
      BY <3>1 DEF MainInv
    <3> QED BY <3>5, <3>6, <3>7 DEF TreeInv
  <2>3. CASE ~RunSettles(t)
    <3>1. over' = over
      BY <1>3, <2>3 DEF ThreadStep, Calls, BranchSettles, Still
    <3> QED BY <1>3, <2>1, <2>3, <3>1, TreeMoves DEF Moved
  <2> QED BY <2>2, <2>3
<1> QED BY <1>1, <1>2, <1>3, TypesStep

-----------------------------------------------------------------------------
(* The notes of failed steps, and what the flags must say *)

\* The steps of an attempt that have been called and are not those of out: none of
\* them is noted in S, but agents.
Tried(S, f, out) ==
  IsRetry(f) => \A x \in Kids(f.s) :
    x \notin Steps(f.todo) /\ x \notin out /\ <<f.r, x>> \in S => chain.kind[x] = "agent"

\* So for every retry on a stack under the frame of the step it has called.
Below(S, st) == \A i \in 2 .. Len(st) : Tried(S, st[i], {st[i - 1].s})

\* What has begun: all but a handler that is being called.
Begun(st, pc) == IF pc = "enter" THEN Tail(st) ELSE st

\* A retry, of any runner, is under way.
InRetry(st) == \E i \in 1 .. Len(st) : IsRetry(st[i])

\* A retry hears of the steps that fail in it,
Sound(st, pc, S, fl) ==
  /\ Marked(Begun(st, pc), fl)
  /\ Below(S, st)
  /\ pc \in {"body", "sleep"} => Tried(S, Head(st), {})

\* and only a retry does: nothing raises outside of one.
Clean(st, pc, fl) ==
  /\ Honest(Begun(st, pc), fl)
  /\ pc = "raise" => InRetry(Begun(st, pc))

\* A frame on a stack.
LEMMA TriedPush ==
  ASSUME NEW F, NEW st \in Seq(F), NEW f \in F, NEW S
  PROVE  /\ Below(S, <<f>> \o st) <=> Below(S, st) /\ (st # <<>> => Tried(S, st[1], {f.s}))
         /\ InRetry(<<f>> \o st) <=> IsRetry(f) \/ InRetry(st)
<1> DEFINE new == <<f>> \o st
<1>1. /\ Len(new) = Len(st) + 1 /\ new[1] = f /\ Len(st) \in Nat
      /\ \A i \in 2 .. Len(st) + 1 : new[i] = st[i - 1]
  BY StackPush
<1>2. \A r : Retrying(new, r) <=> (IsRetry(f) /\ f.r = r) \/ Retrying(st, r)
  BY RetryingPush
<1> HIDE DEF new
<1>3. ASSUME Below(S, new) PROVE Below(S, st) /\ (st # <<>> => Tried(S, st[1], {f.s}))
  <2>1. ASSUME NEW i \in 2 .. Len(st) PROVE Tried(S, st[i], {st[i - 1].s})
    <3>1. i + 1 \in 2 .. Len(new) /\ new[i + 1] = st[i] /\ new[(i + 1) - 1] = st[i - 1]
      <4>1. i + 1 \in 2 .. Len(st) + 1 /\ i \in 2 .. Len(st) + 1 /\ (i + 1) - 1 = i
        BY <1>1
      <4> QED BY <1>1, <4>1
    <3> QED BY <1>3, <3>1 DEF Below
  <2>2. ASSUME st # <<>> PROVE Tried(S, st[1], {f.s})
    <3>1. Len(st) >= 1
      BY <2>2, StackTop
    <3>2. 2 \in 2 .. Len(new) /\ new[2] = st[1] /\ new[2 - 1] = f
      BY <1>1, <3>1
    <3> QED BY <1>3, <3>2 DEF Below
  <2> QED BY <2>1, <2>2 DEF Below
<1>4. ASSUME Below(S, st), st # <<>> => Tried(S, st[1], {f.s}) PROVE Below(S, new)
  <2> SUFFICES ASSUME NEW i \in 2 .. Len(new) PROVE Tried(S, new[i], {new[i - 1].s})
    BY DEF Below
  <2>1. CASE i = 2
    <3>1. Len(st) >= 1 /\ new[2] = st[1] /\ new[2 - 1] = f
      BY <1>1, <2>1
    <3>2. st # <<>>
      BY <3>1
    <3> QED BY <1>4, <2>1, <3>1, <3>2
  <2>2. CASE i # 2
    <3>1. i - 1 \in 2 .. Len(st) /\ i \in 2 .. Len(st) + 1 /\ i - 1 \in 2 .. Len(st) + 1
      BY <1>1, <2>2
    <3>2. new[i] = st[i - 1] /\ new[i - 1] = st[i - 1 - 1]
      BY <1>1, <3>1
    <3> QED BY <1>4, <3>1, <3>2 DEF Below
  <2> QED BY <2>1, <2>2
<1>5. \A s \in {new, st} : InRetry(s) <=> \E r : Retrying(s, r)
  BY DEF InRetry, Retrying
<1>6. InRetry(new) <=> IsRetry(f) \/ InRetry(st)
  BY <1>2, <1>5
<1> QED BY <1>3, <1>4, <1>6 DEF new

\* The state of a thread whose top frame is at work,
LEMMA SoundRuns ==
  ASSUME NEW F, NEW rest \in Seq(F), NEW g \in F, NEW pc, pc # "enter", NEW S, NEW fl
  PROVE  LET st == <<g>> \o rest IN
         /\ Sound(st, pc, S, fl) <=>
              /\ Marked(rest, fl)
              /\ IsRetry(g) => (g.r \in DOMAIN fl => fl[g.r]) /\ (Retrying(rest, g.r) => g.was)
              /\ Below(S, rest) /\ (rest # <<>> => Tried(S, rest[1], {g.s}))
              /\ pc \in {"body", "sleep"} => Tried(S, g, {})
         /\ Clean(st, pc, fl) <=>
              /\ \A r \in DOMAIN fl : fl[r] => (IsRetry(g) /\ g.r = r) \/ Retrying(rest, r)
              /\ FromBelow(rest)
              /\ IsRetry(g) /\ g.was => Retrying(rest, g.r)
              /\ pc = "raise" => IsRetry(g) \/ InRetry(rest)
<1> DEFINE st == <<g>> \o rest
<1>1. Head(st) = g
  <2>1. <<g>> \o rest \in Seq(F) /\ (<<g>> \o rest)[1] = g /\ Len(<<g>> \o rest) = Len(rest) + 1
    BY StackPush
  <2>2. st \in Seq(F) /\ st[1] = g /\ Len(st) = Len(rest) + 1 /\ Len(rest) \in Nat
    BY <2>1
  <2> HIDE DEF st
  <2>3. st # <<>>
    BY <2>2
  <2> QED BY <2>2, <2>3, StackTop
<1>2. Begun(st, pc) = st
  BY DEF Begun
<1>3. /\ Below(S, st) <=> Below(S, rest) /\ (rest # <<>> => Tried(S, rest[1], {g.s}))
      /\ InRetry(st) <=> IsRetry(g) \/ InRetry(rest)
  BY TriedPush
<1>4. /\ Marked(st, fl) <=>
           /\ Marked(rest, fl)
           /\ IsRetry(g) => (g.r \in DOMAIN fl => fl[g.r]) /\ (Retrying(rest, g.r) => g.was)
      /\ Honest(st, fl) <=>
           /\ \A r \in DOMAIN fl : fl[r] => (IsRetry(g) /\ g.r = r) \/ Retrying(rest, r)
           /\ FromBelow(rest)
           /\ IsRetry(g) /\ g.was => Retrying(rest, g.r)
  BY MarkedPush
<1> HIDE DEF st
<1>5. Sound(st, pc, S, fl) <=>
              /\ Marked(rest, fl)
              /\ IsRetry(g) => (g.r \in DOMAIN fl => fl[g.r]) /\ (Retrying(rest, g.r) => g.was)
              /\ Below(S, rest) /\ (rest # <<>> => Tried(S, rest[1], {g.s}))
              /\ pc \in {"body", "sleep"} => Tried(S, g, {})
  BY <1>1, <1>2, <1>3, <1>4 DEF Sound
<1>6. Clean(st, pc, fl) <=>
              /\ \A r \in DOMAIN fl : fl[r] => (IsRetry(g) /\ g.r = r) \/ Retrying(rest, r)
              /\ FromBelow(rest)
              /\ IsRetry(g) /\ g.was => Retrying(rest, g.r)
              /\ pc = "raise" => IsRetry(g) \/ InRetry(rest)
  BY <1>2, <1>3, <1>4 DEF Clean
<1> QED BY <1>5, <1>6 DEF st

\* and of one that calls a handler.
LEMMA SoundEnters ==
  ASSUME NEW F, NEW rest \in Seq(F), NEW g \in F, NEW S, NEW fl
  PROVE  LET st == <<g>> \o rest IN
         /\ Sound(st, "enter", S, fl) <=>
              /\ Marked(rest, fl)
              /\ Below(S, rest) /\ (rest # <<>> => Tried(S, rest[1], {g.s}))
         /\ Clean(st, "enter", fl) <=> Honest(rest, fl)
<1> DEFINE st == <<g>> \o rest
<1>1. Tail(st) = rest
  OBVIOUS
<1>2. Begun(st, "enter") = rest
  BY <1>1 DEF Begun
<1>3. Below(S, st) <=> Below(S, rest) /\ (rest # <<>> => Tried(S, rest[1], {g.s}))
  BY TriedPush
<1> HIDE DEF st
<1> QED BY <1>2, <1>3 DEF Sound, Clean, st

\* A retry's runner is one of the run.
LEMMA RetryingRunner ==
  ASSUME NEW st \in Seq(Frames), NEW r, Retrying(st, r)
  PROVE  r \in Runners
<1>1. PICK i \in 1 .. Len(st) : st[i].r = r
  BY DEF Retrying
<1>2. st[i] \in Frames
  OBVIOUS
<1> QED BY <1>1, <1>2 DEF Frames

\* Fewer notes break nothing,
LEMMA FewerNotes ==
  ASSUME NEW S, NEW R, R \subseteq S
  PROVE  /\ \A f, out : Tried(S, f, out) => Tried(R, f, out)
         /\ \A st : Below(S, st) => Below(R, st)
<1>1. \A f, out : Tried(S, f, out) => Tried(R, f, out)
  BY DEF Tried
<1> QED BY <1>1 DEF Below

\* and the step on top is no other retry's on its stack.
LEMMA OwnNotes ==
  ASSUME EngineTypeOK, NEW rest \in Seq(Frames), NEW f \in Frames, f.s # Root, StackOK(<<f>> \o rest),
         NEW S, NEW R, R \subseteq S \cup {<<f.r, f.s>>}, Below(S, rest),
         rest # <<>> => Tried(S, rest[1], {f.s})
  PROVE  Below(R, rest) /\ (rest # <<>> => Tried(R, rest[1], {f.s}))
<1> DEFINE st == <<f>> \o rest
<1>1. /\ Len(st) = Len(rest) + 1 /\ st[1] = f /\ Len(rest) \in Nat
      /\ \A i \in 2 .. Len(rest) + 1 : st[i] = rest[i - 1]
  BY StackPush
<1>0. StackOK(st)
  OBVIOUS
<1> HIDE DEF st
<1>2. ASSUME rest # <<>> PROVE Tried(R, rest[1], {f.s})
  BY <1>2 DEF Tried
<1>3. ASSUME NEW i \in 2 .. Len(rest) PROVE Tried(R, rest[i], {rest[i - 1].s})
  <2>1. Tried(S, rest[i], {rest[i - 1].s})
    BY <1>3 DEF Below
  <2>2. SUFFICES ASSUME IsRetry(rest[i]), rest[i].r = f.r, f.s \in Kids(rest[i].s) PROVE FALSE
    <3>1. ASSUME IsRetry(rest[i]), NEW x \in Kids(rest[i].s), <<rest[i].r, x>> \in R, <<rest[i].r, x>> \notin S
          PROVE  FALSE
      <4>1. <<rest[i].r, x>> = <<f.r, f.s>>
        BY <3>1
      <4>2. rest[i].r = f.r /\ x = f.s
        BY <4>1
      <4> QED BY <2>2, <3>1, <4>2
    <3> QED BY <2>1, <3>1 DEF Tried
  <2>3. /\ i \in 1 .. Len(rest) /\ 1 \in 1 .. Len(rest) /\ st[2] = rest[1] /\ st[i + 1] = rest[i]
        /\ 1 \in 1 .. Len(st) - 1 /\ 2 \in 1 .. Len(st) /\ i + 1 \in 1 .. Len(st) /\ 2 < i + 1 /\ 1 < 2
    BY <1>1
  <2>4. rest[i] \in Frames /\ rest[1] \in Frames
    BY <2>3
  <2>5. StandsOn(f, rest[1])
    <3>1. StandsOn(st[1], st[1 + 1])
      BY <1>0, <2>3 DEF StackOK
    <3> QED BY <1>1, <2>3, <3>1
  <2>6. f.s \in Callable(rest[1]) /\ f.r = rest[1].r
    BY <2>5 DEF StandsOn
  <2>7. /\ rest[1].s # Root
        /\ chain.level[rest[1].s] > chain.level[rest[i].s]
    BY <1>0, <2>2, <2>3, <2>6 DEF StackOK, IsRetry
  <2>8. f.s \in Kids(rest[1].s) /\ rest[1].s \in StepIds /\ rest[i].s \in StepIds
    BY <2>2, <2>4, <2>6, <2>7 DEF Callable, Frames, IsRetry
  <2>9. \A y, z \in StepIds : y # z => Kids(y) \cap Kids(z) = {}
    BY ChainFacts DEF WellFormed, Tree, StepIds, Kids
  <2>10. rest[1].s = rest[i].s
    BY <2>2, <2>8, <2>9
  <2>11. chain.level[rest[i].s] \in Nat
    BY <2>8, ChainFacts
  <2> QED BY <2>7, <2>10, <2>11
<1> QED BY <1>2, <1>3 DEF Below

-----------------------------------------------------------------------------
(* The run's own thread keeps both *)

\* The state of the run's own thread, and what may raise in it.
Main  == thr[1]
Next1 == thr'[1]

SoundNow  == Sound(Main.stack, Main.pc, sour, flag)
SoundThen == Sound(Next1.stack, Next1.pc, sour', flag')
CleanNow  == Clean(Main.stack, Main.pc, flag)
CleanThen == ~aborted /\ CleanNow => Clean(Next1.stack, Next1.pc, flag')

\* The flag of one runner.
LEMMA OneFlag ==
  ASSUME EngineTypeOK, NEW r \in Runners, NEW b \in BOOLEAN
  PROVE  LET fl == [flag EXCEPT ![r] = b] IN
         /\ DOMAIN fl = Runners /\ fl[r] = b /\ \A q \in Runners \ {r} : fl[q] = flag[q]
BY DEF Runners

\* What the step that leaves the main stack does to the flags under it.
LEMMA PopFlags ==
  ASSUME EngineTypeOK, NEW rest \in Seq(Frames), NEW f \in Frames, Marked(rest, flag),
         IsRetry(f) => flag[f.r] /\ (Retrying(rest, f.r) => f.was),
         NEW fl, fl = IF IsRetry(f) THEN [flag EXCEPT ![f.r] = f.was] ELSE flag
  PROVE  /\ Marked(rest, fl)
         /\ (/\ \A r \in Runners : flag[r] => (IsRetry(f) /\ f.r = r) \/ Retrying(rest, r)
             /\ FromBelow(rest)
             /\ IsRetry(f) /\ f.was => Retrying(rest, f.r)) => Honest(rest, fl)
<1>1. CASE ~IsRetry(f)
  BY <1>1 DEF Honest, Runners
<1>2. CASE IsRetry(f)
  <2>1. f.r \in Runners /\ f.was \in BOOLEAN
    BY DEF Frames
  <2>2. DOMAIN fl = Runners /\ fl[f.r] = f.was /\ \A q \in Runners \ {f.r} : fl[q] = flag[q]
    BY <1>2, <2>1, OneFlag
  <2>3. ASSUME NEW r \in Runners, Retrying(rest, r) PROVE fl[r]
    <3>1. flag[r]
      BY <2>3 DEF Marked, Runners
    <3>2. CASE r = f.r
      BY <1>2, <2>2, <2>3, <3>2
    <3>3. CASE r # f.r
      BY <2>2, <3>1, <3>3
    <3> QED BY <3>2, <3>3
  <2>4. Marked(rest, fl)
    BY <2>2, <2>3 DEF Marked
  <2>5. ASSUME \A r \in Runners : flag[r] => (IsRetry(f) /\ f.r = r) \/ Retrying(rest, r),
               FromBelow(rest), IsRetry(f) /\ f.was => Retrying(rest, f.r)
        PROVE  Honest(rest, fl)
    <3>1. ASSUME NEW r \in Runners, fl[r] PROVE Retrying(rest, r)
      <4>1. CASE r = f.r
        BY <1>2, <2>2, <2>5, <3>1, <4>1
      <4>2. CASE r # f.r
        BY <2>2, <2>5, <3>1, <4>2
      <4> QED BY <4>1, <4>2
    <3> QED BY <2>2, <2>5, <3>1 DEF Honest
  <2> QED BY <2>4, <2>5
<1> QED BY <1>1, <1>2

\* Every move of the main thread keeps its state.
LEMMA MainMoves ==
  ASSUME EngineTypeOK, 1 \in Live, StackOK(Main.stack), PcOK(1), Main.stack # <<>>, Move(1),
         Next1.stack # <<>>, SoundNow, Runners \subseteq Runners', chain' = chain
  PROVE  SoundThen /\ CleanThen
<1> DEFINE f == Top(1)
           rest == Pop(1)
           st == Main.stack
<1>1. f \in Frames /\ st = <<f>> \o rest /\ rest \in Seq(Frames) /\ StackOK(<<f>> \o rest)
  <2>1. st = WithTop(1, f) /\ f \in Frames
    BY SameTop DEF Main
  <2>2. rest \in Seq(Frames)
    BY ThreadFacts, StackTop DEF Pop, Main
  <2> QED BY <2>1, <2>2 DEF WithTop
<1>2. f.r \in Runners /\ f.was \in BOOLEAN /\ Runner(1) = f.r /\ DOMAIN flag = Runners
      /\ \A r \in Runners : flag[r] \in BOOLEAN
  BY <1>1, FlagFacts DEF Frames, Runner, Runners
<1>3. Main.pc = "enter" =>
        /\ Marked(rest, flag)
        /\ Below(sour, rest) /\ (rest # <<>> => Tried(sour, rest[1], {f.s}))
        /\ CleanNow <=> Honest(rest, flag)
  BY <1>1, SoundEnters DEF SoundNow, CleanNow
<1>4. Main.pc # "enter" =>
        /\ Marked(rest, flag)
        /\ IsRetry(f) => flag[f.r] /\ (Retrying(rest, f.r) => f.was)
        /\ Below(sour, rest) /\ (rest # <<>> => Tried(sour, rest[1], {f.s}))
        /\ Main.pc \in {"body", "sleep"} => Tried(sour, f, {})
        /\ CleanNow <=>
              /\ \A r \in Runners : flag[r] => (IsRetry(f) /\ f.r = r) \/ Retrying(rest, r)
              /\ FromBelow(rest)
              /\ IsRetry(f) /\ f.was => Retrying(rest, f.r)
              /\ Main.pc = "raise" => IsRetry(f) \/ InRetry(rest)
  <2> SUFFICES ASSUME Main.pc # "enter"
               PROVE  /\ Marked(rest, flag)
                      /\ IsRetry(f) => flag[f.r] /\ (Retrying(rest, f.r) => f.was)
                      /\ Below(sour, rest) /\ (rest # <<>> => Tried(sour, rest[1], {f.s}))
                      /\ Main.pc \in {"body", "sleep"} => Tried(sour, f, {})
                      /\ CleanNow <=>
                            /\ \A r \in Runners : flag[r] => (IsRetry(f) /\ f.r = r) \/ Retrying(rest, r)
                            /\ FromBelow(rest)
                            /\ IsRetry(f) /\ f.was => Retrying(rest, f.r)
                            /\ Main.pc = "raise" => IsRetry(f) \/ InRetry(rest)
    OBVIOUS
  <2> DEFINE pc == Main.pc
  <2>1. Sound(<<f>> \o rest, pc, sour, flag) /\ (CleanNow <=> Clean(<<f>> \o rest, pc, flag))
    BY <1>1 DEF SoundNow, CleanNow
  <2> HIDE DEF f, rest, pc
  <2>2. /\ Sound(<<f>> \o rest, pc, sour, flag) <=>
              /\ Marked(rest, flag)
              /\ IsRetry(f) => (f.r \in DOMAIN flag => flag[f.r]) /\ (Retrying(rest, f.r) => f.was)
              /\ Below(sour, rest) /\ (rest # <<>> => Tried(sour, rest[1], {f.s}))
              /\ pc \in {"body", "sleep"} => Tried(sour, f, {})
        /\ Clean(<<f>> \o rest, pc, flag) <=>
              /\ \A r \in DOMAIN flag : flag[r] => (IsRetry(f) /\ f.r = r) \/ Retrying(rest, r)
              /\ FromBelow(rest)
              /\ IsRetry(f) /\ f.was => Retrying(rest, f.r)
              /\ pc = "raise" => IsRetry(f) \/ InRetry(rest)
    BY <1>1, SoundRuns DEF pc
  <2> QED BY <1>2, <2>1, <2>2 DEF pc
<1>5. rest # <<>> => /\ Len(rest) >= 1 /\ rest[1] \in Frames /\ Head(rest) = rest[1]
                     /\ f.s # Root => rest[1].r = f.r
                     /\ f.s = Root => ~IsRetry(rest[1])
  <2> SUFFICES ASSUME rest # <<>>
               PROVE  /\ Len(rest) >= 1 /\ rest[1] \in Frames /\ Head(rest) = rest[1]
                      /\ f.s # Root => rest[1].r = f.r
                      /\ f.s = Root => ~IsRetry(rest[1])
    OBVIOUS
  <2>1. Len(rest) >= 1 /\ rest[1] \in Frames /\ Head(rest) = rest[1]
    BY <1>1, StackTop
  <2> DEFINE s0 == <<f>> \o rest
  <2>2. Len(s0) = Len(rest) + 1 /\ s0[1] = f /\ Len(rest) \in Nat
        /\ \A i \in 2 .. Len(rest) + 1 : s0[i] = rest[i - 1]
    BY <1>1, StackPush
  <2>3. StackOK(s0)
    BY <1>1
  <2> HIDE DEF s0
  <2>4. 1 \in 1 .. Len(s0) - 1 /\ s0[2] = rest[1]
    BY <2>1, <2>2
  <2>5. StandsOn(s0[1], s0[1 + 1])
    BY <2>3, <2>4 DEF StackOK
  <2>6. StandsOn(f, rest[1])
    BY <2>2, <2>4, <2>5
  <2>7. "agent_chain" # "retry"
    OBVIOUS
  <2> QED BY <2>1, <2>6, <2>7 DEF StandsOn, IsRetry
<1>6. Kind(1) = "retry" <=> IsRetry(f)
  BY DEF Kind, IsRetry, Root
<1> HIDE DEF f, rest, st
<1>7. ASSUME NEW pc, pc # "enter", To(1, rest, pc), rest # <<>>
      PROVE  /\ SoundThen <=> /\ Marked(rest, flag') /\ Below(sour', rest)
                              /\ pc \in {"body", "sleep"} => Tried(sour', rest[1], {})
             /\ Clean(Next1.stack, Next1.pc, flag') <=> Honest(rest, flag') /\ (pc = "raise" => InRetry(rest))
  <2>1. Begun(rest, pc) = rest
    BY <1>7 DEF Begun
  <2> QED BY <1>5, <1>7, <2>1 DEF SoundThen, Sound, Clean, To, Next1
<1>8. ASSUME NEW g \in Frames, NEW pc, pc # "enter", To(1, <<g>> \o rest, pc)
      PROVE  /\ SoundThen <=>
                  /\ Marked(rest, flag')
                  /\ IsRetry(g) => (g.r \in DOMAIN flag' => flag'[g.r]) /\ (Retrying(rest, g.r) => g.was)
                  /\ Below(sour', rest) /\ (rest # <<>> => Tried(sour', rest[1], {g.s}))
                  /\ pc \in {"body", "sleep"} => Tried(sour', g, {})
             /\ Clean(Next1.stack, Next1.pc, flag') <=>
                  /\ \A r \in DOMAIN flag' : flag'[r] => (IsRetry(g) /\ g.r = r) \/ Retrying(rest, r)
                  /\ FromBelow(rest)
                  /\ IsRetry(g) /\ g.was => Retrying(rest, g.r)
                  /\ pc = "raise" => IsRetry(g) \/ InRetry(rest)
  <2>1. Next1.stack = <<g>> \o rest /\ Next1.pc = pc
    BY <1>8 DEF To, Next1
  <2>2. /\ Sound(<<g>> \o rest, pc, sour', flag') <=>
              /\ Marked(rest, flag')
              /\ IsRetry(g) => (g.r \in DOMAIN flag' => flag'[g.r]) /\ (Retrying(rest, g.r) => g.was)
              /\ Below(sour', rest) /\ (rest # <<>> => Tried(sour', rest[1], {g.s}))
              /\ pc \in {"body", "sleep"} => Tried(sour', g, {})
        /\ Clean(<<g>> \o rest, pc, flag') <=>
              /\ \A r \in DOMAIN flag' : flag'[r] => (IsRetry(g) /\ g.r = r) \/ Retrying(rest, r)
              /\ FromBelow(rest)
              /\ IsRetry(g) /\ g.was => Retrying(rest, g.r)
              /\ pc = "raise" => IsRetry(g) \/ InRetry(rest)
    BY <1>1, <1>8, SoundRuns
  <2> QED BY <2>1, <2>2 DEF SoundThen
<1>9. \A r : Retrying(rest, r) => r \in Runners
  BY <1>1, RetryingRunner
<1>11. CASE GuardSkips(1)
  <2>1. Main.pc = "enter" /\ flag' = flag /\ sour' \subseteq sour
    BY <1>11 DEF GuardSkips, Clears, Main
  <2>2. PICK pc \in {"raise", "body"} :
          /\ To(1, rest, pc) /\ (pc = "raise" => aborted)
          /\ pc = "body" => <<f.r, f.s>> \notin sour'
    BY <1>2, <1>11 DEF GuardSkips, Clears, rest, f
  <2>3. rest # <<>>
    BY <2>2 DEF To, Next1
  <2>4. Marked(rest, flag') /\ Below(sour', rest) /\ Tried(sour', rest[1], {f.s})
    BY <1>3, <2>1, <2>3, FewerNotes
  <2>5. f.s # Root
    BY <2>1 DEF PcOK, PcFits, Main, Top, f
  <2>6. pc = "body" => Tried(sour', rest[1], {})
    BY <1>5, <2>2, <2>3, <2>4, <2>5 DEF Tried
  <2>7. SoundThen
    BY <1>7, <2>2, <2>3, <2>4, <2>6
  <2>8. CleanThen
    BY <1>3, <1>7, <2>1, <2>2, <2>3 DEF CleanThen
  <2> QED BY <2>7, <2>8
<1>12. CASE BlockStarts(1)
  <2>1. Main.pc = "enter" /\ flag' = flag /\ sour' \subseteq sour /\ ~IsRetry(f)
    BY <1>6, <1>12 DEF BlockStarts, Clears, Main
  <2>2. PICK g \in Frames, pc \in {"leaf", "ask", "body", "join"} :
          g.s = f.s /\ g.r = f.r /\ To(1, <<g>> \o rest, pc)
    BY <1>12 DEF BlockStarts, WithTop, rest, f
  <2>3. ~IsRetry(g)
    BY <2>1, <2>2 DEF IsRetry
  <2>4. Tried(sour', g, {})
    BY <2>3 DEF Tried
  <2>5. Marked(rest, flag') /\ Below(sour', rest) /\ (rest # <<>> => Tried(sour', rest[1], {g.s}))
    BY <1>3, <2>1, <2>2, FewerNotes
  <2>6. SoundThen
    BY <1>8, <2>2, <2>3, <2>4, <2>5
  <2>7. CleanNow => Clean(Next1.stack, Next1.pc, flag')
    BY <1>3, <1>8, <2>1, <2>2, <2>3 DEF Honest
  <2> QED BY <2>6, <2>7 DEF CleanThen
<1>13. CASE RetryStarts(1)
  <2>1. Main.pc = "enter" /\ sour' \subseteq sour /\ IsRetry(f) /\ flag' = [flag EXCEPT ![f.r] = TRUE]
    BY <1>2, <1>6, <1>13 DEF RetryStarts, Clears, Main
  <2>2. PICK g \in Frames :
          /\ g.s = f.s /\ g.r = f.r /\ g.was = flag[f.r]
          /\ Kids(g.s) \subseteq Steps(g.todo) /\ To(1, <<g>> \o rest, "body")
    BY <1>2, <1>13 DEF RetryStarts, WithTop, rest, f
  <2>3. IsRetry(g) /\ Tried(sour', g, {})
    BY <2>1, <2>2 DEF IsRetry, Tried
  <2>4. DOMAIN flag' = Runners /\ flag'[f.r] = TRUE /\ \A q \in Runners \ {f.r} : flag'[q] = flag[q]
    BY <1>2, <2>1, OneFlag
  <2>5. Marked(rest, flag) /\ Below(sour', rest) /\ (rest # <<>> => Tried(sour', rest[1], {g.s}))
    BY <1>3, <2>1, <2>2, FewerNotes
  <2>6. Marked(rest, flag')
    BY <1>2, <2>4, <2>5 DEF Marked
  <2>7. Retrying(rest, g.r) => g.was
    BY <1>2, <2>2, <2>5 DEF Marked
  <2>8. SoundThen
    BY <1>8, <2>2, <2>3, <2>4, <2>5, <2>6, <2>7
  <2>9. ASSUME Honest(rest, flag) PROVE Clean(Next1.stack, Next1.pc, flag')
    <3>1. \A r \in DOMAIN flag' : flag'[r] => (IsRetry(g) /\ g.r = r) \/ Retrying(rest, r)
      BY <1>2, <2>2, <2>3, <2>4, <2>9 DEF Honest
    <3>2. g.was => Retrying(rest, g.r)
      BY <1>2, <2>2, <2>9 DEF Honest
    <3> DEFINE pc == "body"
    <3>3. pc # "enter" /\ pc # "raise" /\ To(1, <<g>> \o rest, pc)
      BY <2>2
    <3> HIDE DEF pc
    <3>4. FromBelow(rest)
      BY <2>9 DEF Honest
    <3> QED BY <1>8, <3>1, <3>2, <3>3, <3>4
  <2> QED BY <1>3, <2>1, <2>8, <2>9 DEF CleanThen
<1>14. CASE ChainStarts(1)
  <2>1. Main.pc = "enter" /\ sour' \subseteq sour /\ ~IsRetry(f) /\ flag' = Append(flag, FALSE)
    BY <1>6, <1>14 DEF ChainStarts, Clears, Main
  <2>2. PICK g \in Frames' : g.s = Root /\ To(1, <<g>> \o st, "body")
    BY <1>14 DEF ChainStarts, st, Main
  <2>3. ~IsRetry(g) /\ Tried(sour', g, {})
    BY <2>2 DEF IsRetry, Tried
  <2>4. /\ DOMAIN flag' = Runners \cup {Len(flag) + 1}
        /\ flag'[Len(flag) + 1] = FALSE /\ \A r \in Runners : flag'[r] = flag[r]
    <3>1. ASSUME NEW S, NEW q \in Seq(S), NEW e \in S
          PROVE  /\ DOMAIN Append(q, e) = DOMAIN q \cup {Len(q) + 1}
                 /\ Append(q, e)[Len(q) + 1] = e /\ \A i \in DOMAIN q : Append(q, e)[i] = q[i]
      OBVIOUS
    <3> DEFINE e == FALSE
               B == BOOLEAN
    <3>2. flag \in Seq(B) /\ e \in B
      BY DEF EngineTypeOK
    <3>3. flag' = Append(flag, e)
      BY <2>1
    <3> HIDE DEF e, B
    <3>4. /\ DOMAIN flag' = DOMAIN flag \cup {Len(flag) + 1}
          /\ flag'[Len(flag) + 1] = e
          /\ \A i \in DOMAIN flag : flag'[i] = flag[i]
      BY <3>1, <3>2, <3>3
    <3> QED BY <3>4 DEF Runners, e
  <2>5. Marked(rest, flag) /\ Below(sour', rest) /\ (rest # <<>> => Tried(sour', rest[1], {f.s}))
    BY <1>3, <2>1, FewerNotes
  <2>6. \A r : Retrying(st, r) <=> Retrying(rest, r)
    BY <1>1, <2>1, RetryingPush
  <2>7. Marked(st, flag') /\ (Honest(rest, flag) => Honest(st, flag'))
    <3>1. Marked(rest, flag')
      BY <1>2, <1>9, <2>4, <2>5 DEF Marked
    <3>2. Honest(rest, flag) => Honest(rest, flag')
      BY <1>2, <2>4 DEF Honest
    <3>3. /\ Marked(<<f>> \o rest, flag') <=>
               /\ Marked(rest, flag')
               /\ IsRetry(f) => (f.r \in DOMAIN flag' => flag'[f.r]) /\ (Retrying(rest, f.r) => f.was)
          /\ Honest(<<f>> \o rest, flag') <=>
               /\ \A r \in DOMAIN flag' : flag'[r] => (IsRetry(f) /\ f.r = r) \/ Retrying(rest, r)
               /\ FromBelow(rest)
               /\ IsRetry(f) /\ f.was => Retrying(rest, f.r)
      BY <1>1, MarkedPush
    <3>4. Marked(<<f>> \o rest, flag') /\ (Honest(rest, flag) => Honest(<<f>> \o rest, flag'))
      BY <2>1, <3>1, <3>2, <3>3 DEF Honest
    <3> QED BY <1>1, <3>4
  <2>8. Below(sour', st) /\ (st # <<>> => Tried(sour', st[1], {g.s}))
    <3>1. Below(sour', st)
      BY <1>1, <2>5, TriedPush
    <3>2. st[1] = f
      BY <1>1, StackPush
    <3> QED BY <2>1, <3>1, <3>2 DEF Tried
  <2>9. st \in Seq(Frames')
    <3>1. <<f>> \o rest \in Seq(Frames)
      BY <1>1, StackPush
    <3> QED BY <1>1, <3>1, FramesGrow
  <2> DEFINE pc == "body"
  <2>14. pc = "body" /\ pc # "enter" /\ pc # "raise"
    OBVIOUS
  <2> HIDE DEF pc
  <2>10. /\ Sound(<<g>> \o st, pc, sour', flag') <=>
              /\ Marked(st, flag')
              /\ IsRetry(g) => (g.r \in DOMAIN flag' => flag'[g.r]) /\ (Retrying(st, g.r) => g.was)
              /\ Below(sour', st) /\ (st # <<>> => Tried(sour', st[1], {g.s}))
              /\ pc \in {"body", "sleep"} => Tried(sour', g, {})
         /\ Clean(<<g>> \o st, pc, flag') <=>
              /\ \A r \in DOMAIN flag' : flag'[r] => (IsRetry(g) /\ g.r = r) \/ Retrying(st, r)
              /\ FromBelow(st)
              /\ IsRetry(g) /\ g.was => Retrying(st, g.r)
              /\ pc = "raise" => IsRetry(g) \/ InRetry(st)
    BY <2>9, <2>14, SoundRuns
  <2>11. Next1.stack = <<g>> \o st /\ Next1.pc = pc
    BY <2>2, <2>14 DEF To, Next1
  <2>12. SoundThen
    BY <2>3, <2>7, <2>8, <2>10, <2>11 DEF SoundThen
  <2>13. Honest(rest, flag) => Clean(Next1.stack, Next1.pc, flag')
    BY <2>3, <2>7, <2>10, <2>11, <2>14 DEF Honest
  <2> QED BY <1>3, <2>1, <2>12, <2>13 DEF CleanThen
<1>15. CASE CallsNext(1)
  <2>1. Main.pc = "body" /\ flag' = flag /\ sour' = sour
    BY <1>15 DEF CallsNext, Main
  <2>2. PICK g \in Frames, h \in Frames :
          /\ h.s = f.s /\ h.r = f.r /\ h.was = f.was
          /\ g.s # Root /\ g.r = f.r
          /\ Steps(h.todo) \cup {g.s} = Steps(f.todo)
          /\ To(1, <<g>> \o (<<h>> \o rest), "enter")
    BY <1>15 DEF CallsNext, f, rest
  <2> DEFINE u == <<h>> \o rest
  <2>3. u \in Seq(Frames) /\ u[1] = h /\ Len(u) = Len(rest) + 1
    BY <1>1, StackPush
  <2>4. IsRetry(h) <=> IsRetry(f)
    BY <2>2 DEF IsRetry
  <2>5. /\ Marked(u, flag) <=>
             /\ Marked(rest, flag)
             /\ IsRetry(h) => (h.r \in DOMAIN flag => flag[h.r]) /\ (Retrying(rest, h.r) => h.was)
        /\ Honest(u, flag) <=>
             /\ \A r \in DOMAIN flag : flag[r] => (IsRetry(h) /\ h.r = r) \/ Retrying(rest, r)
             /\ FromBelow(rest)
             /\ IsRetry(h) /\ h.was => Retrying(rest, h.r)
    BY <1>1, MarkedPush
  <2>6. Below(sour, u) <=> Below(sour, rest) /\ (rest # <<>> => Tried(sour, rest[1], {h.s}))
    BY <1>1, TriedPush
  <2> HIDE DEF u
  <2>7. Marked(u, flag)
    BY <1>4, <2>1, <2>2, <2>4, <2>5
  <2>8. Below(sour, u)
    BY <1>4, <2>1, <2>2, <2>6
  <2>9. Tried(sour, u[1], {g.s})
    <3>1. Tried(sour, f, {})
      BY <1>4, <2>1
    <3> QED BY <2>2, <2>3, <2>4, <3>1 DEF Tried
  <2>10. /\ Sound(<<g>> \o u, "enter", sour, flag) <=>
              /\ Marked(u, flag)
              /\ Below(sour, u) /\ (u # <<>> => Tried(sour, u[1], {g.s}))
         /\ Clean(<<g>> \o u, "enter", flag) <=> Honest(u, flag)
    BY <2>3, SoundEnters
  <2>11. Next1.stack = <<g>> \o u /\ Next1.pc = "enter"
    BY <2>2 DEF To, Next1, u
  <2>12. SoundThen
    BY <2>1, <2>7, <2>8, <2>9, <2>10, <2>11 DEF SoundThen
  <2>13. CleanNow => Clean(Next1.stack, Next1.pc, flag')
    BY <1>2, <1>4, <2>1, <2>2, <2>4, <2>5, <2>10, <2>11
  <2> QED BY <2>12, <2>13 DEF CleanThen
<1>16. CASE RoundStarts(1)
  <2>1. Main.pc \in {"body", "raise"} /\ flag' = flag /\ sour' = sour
    BY <1>16 DEF RoundStarts, Main
  <2>2. PICK g \in Frames, pc \in {"body", "sleep", "raise"} :
          /\ g.s = f.s /\ g.r = f.r /\ g.was = f.was
          /\ Kids(g.s) \subseteq Steps(g.todo)
          /\ pc = "raise" => aborted
          /\ To(1, <<g>> \o rest, pc)
    BY <1>16 DEF RoundStarts, WithTop, f, rest
  <2>3. (IsRetry(g) <=> IsRetry(f)) /\ Tried(sour', g, {})
    BY <2>2 DEF IsRetry, Tried
  <2>4. SoundThen
    BY <1>4, <1>8, <2>1, <2>2, <2>3
  <2>5. ~aborted /\ CleanNow => Clean(Next1.stack, Next1.pc, flag')
    BY <1>2, <1>4, <1>8, <2>1, <2>2, <2>3
  <2> QED BY <2>4, <2>5 DEF CleanThen
<1>17. CASE Resumes(1)
  <2>1. Main.pc \in {"sleep", "ask"} /\ flag' = flag /\ sour' = sour
        /\ (Main.pc = "ask" => ~IsRetry(f))
    BY <1>6, <1>17 DEF Resumes, Main
  <2>2. PICK pc \in {"leaf", "body", "raise"} : (pc = "raise" => aborted) /\ To(1, <<f>> \o rest, pc)
    <3>1. \E pc \in {"leaf", "body", "raise"} : (pc = "raise" => aborted) /\ To(1, st, pc)
      BY <1>17 DEF Resumes, st, Main
    <3> QED BY <1>1, <3>1
  <2>3. Tried(sour', f, {})
    BY <1>4, <2>1 DEF Tried
  <2>4. SoundThen
    BY <1>1, <1>4, <1>8, <2>1, <2>2, <2>3
  <2>5. ~aborted /\ CleanNow => Clean(Next1.stack, Next1.pc, flag')
    BY <1>1, <1>2, <1>4, <1>8, <2>1, <2>2
  <2> QED BY <2>4, <2>5 DEF CleanThen
<1>18. CASE StepSucceeds(1)
  <2>1. /\ Main.pc # "enter" /\ f.s # Root
        /\ flag' = IF IsRetry(f) THEN [flag EXCEPT ![f.r] = f.was] ELSE flag
        /\ sour' \subseteq sour \cup {<<f.r, f.s>>}
        /\ <<f.r, f.s>> \in sour' => chain.kind[f.s] = "agent"
        /\ To(1, rest, "body")
    BY <1>2, <1>6, <1>18 DEF StepSucceeds, FlagRestored, Kind, Main, f, rest
  <2>2. rest # <<>>
    BY <2>1 DEF To, Next1
  <2>3. Marked(rest, flag') /\ (CleanNow => Honest(rest, flag'))
    BY <1>1, <1>4, <2>1, PopFlags
  <2>4. Below(sour', rest) /\ Tried(sour', rest[1], {f.s})
    BY <1>1, <1>4, <2>1, <2>2, OwnNotes
  <2>5. Tried(sour', rest[1], {})
    BY <1>5, <2>1, <2>2, <2>4 DEF Tried
  <2>6. SoundThen
    BY <1>7, <2>1, <2>2, <2>3, <2>4, <2>5
  <2>7. CleanNow => Clean(Next1.stack, Next1.pc, flag')
    <3> DEFINE pc == "body"
    <3>1. pc # "enter" /\ pc # "raise" /\ To(1, rest, pc)
      BY <2>1
    <3> HIDE DEF pc
    <3> QED BY <1>7, <2>2, <2>3, <3>1
  <2> QED BY <2>6, <2>7 DEF CleanThen
<1>19. CASE StepBreaks(1)
  <2> DEFINE pc == IF flag'[f.r] \/ aborted THEN "raise" ELSE "body"
  <2>1. /\ Main.pc # "enter" /\ f.s # Root
        /\ flag' = IF IsRetry(f) /\ ~aborted THEN [flag EXCEPT ![f.r] = f.was] ELSE flag
        /\ sour' = sour \cup {<<f.r, f.s>>}
        /\ To(1, rest, pc)
    BY <1>2, <1>6, <1>19 DEF StepBreaks, FlagRestored, Rethrown, Main, f, rest
  <2>2. rest # <<>>
    BY <2>1 DEF To, Next1
  <2>3. Marked(rest, flag') /\ (~aborted /\ CleanNow => Honest(rest, flag'))
    <3>1. CASE aborted
      BY <1>4, <2>1, <3>1
    <3>2. CASE ~aborted
      <4>1. flag' = IF IsRetry(f) THEN [flag EXCEPT ![f.r] = f.was] ELSE flag
        BY <2>1, <3>2
      <4> QED BY <1>1, <1>4, <2>1, <4>1, PopFlags
    <3> QED BY <3>1, <3>2
  <2>4. Below(sour', rest) /\ Tried(sour', rest[1], {f.s})
    BY <1>1, <1>4, <2>1, <2>2, OwnNotes
  <2>5. f.r \in DOMAIN flag'
    BY <1>2, <2>1
  <2>6. pc = "body" => ~IsRetry(rest[1])
    <3>1. SUFFICES ASSUME IsRetry(rest[1]) PROVE flag'[f.r]
      OBVIOUS
    <3>2. 1 \in 1 .. Len(rest) /\ rest[1].r = f.r
      BY <1>1, <1>5, <2>1, <2>2
    <3>3. Retrying(rest, f.r)
      BY <3>1, <3>2 DEF Retrying
    <3> QED BY <2>3, <2>5, <3>3 DEF Marked
  <2>7. pc \in {"body", "raise"}
    OBVIOUS
  <2>8. pc \in {"body", "sleep"} => Tried(sour', rest[1], {})
    BY <2>6, <2>7 DEF Tried
  <2>9. ~aborted /\ CleanNow /\ pc = "raise" => InRetry(rest)
    <3>1. SUFFICES ASSUME Honest(rest, flag'), flag'[f.r] PROVE InRetry(rest)
      BY <2>3
    <3> QED BY <2>5, <3>1 DEF Honest, Retrying, InRetry
  <2> HIDE DEF pc
  <2>10. SoundThen
    BY <1>7, <2>1, <2>2, <2>3, <2>4, <2>7, <2>8
  <2>11. ~aborted /\ CleanNow => Clean(Next1.stack, Next1.pc, flag')
    BY <1>7, <2>1, <2>2, <2>3, <2>7, <2>9
  <2> QED BY <2>10, <2>11 DEF CleanThen
<1>20. CASE ChainEnds(1)
  <2> DEFINE pc == Main.pc
  <2>1. f.s = Root /\ pc \in {"body", "raise"} /\ flag' = flag /\ sour' = sour /\ To(1, rest, pc)
    BY <1>20 DEF ChainEnds, Main, f, rest
  <2>2. rest # <<>> /\ ~IsRetry(f)
    BY <2>1 DEF To, Next1, IsRetry
  <2>3. Tried(sour', rest[1], {})
    BY <1>5, <2>1, <2>2 DEF Tried
  <2> HIDE DEF pc
  <2>4. SoundThen
    BY <1>4, <1>7, <2>1, <2>2, <2>3 DEF pc
  <2>5. CleanNow => Clean(Next1.stack, Next1.pc, flag')
    BY <1>2, <1>4, <1>7, <2>1, <2>2 DEF Honest, pc
  <2> QED BY <2>4, <2>5 DEF CleanThen
<1> QED BY <1>11, <1>12, <1>13, <1>14, <1>15, <1>16, <1>17, <1>18, <1>19, <1>20 DEF Move

-----------------------------------------------------------------------------
(* The threads of branches keep both *)

\* K holds whom the main thread waits for; if one of them raises, the main thread is
\* in a retry.
Guards(K) ==
  /\ \A t \in Live \ {1} : thr[t].up \in K \cup {1} => t \in K
  /\ K # {} => Main.pc = "join"
  /\ \A t \in K : thr[t].pc = "raise" => InRetry(Main.stack)

\* Both hold of the run's own thread; the second one until a stop.
FlagInv == over = "no" /\ ~RetryInParallel =>
  /\ SoundNow
  /\ ~aborted => CleanNow /\ \E K \in SUBSET (Live \ {1}) : Guards(K)

\* The state of the main thread in the next state, said with the operators of this one.
LEMMA SoundPrime ==
  ASSUME chain' = chain
  PROVE  (SoundNow' <=> SoundThen) /\ (CleanNow' <=> Clean(Next1.stack, Next1.pc, flag'))
         /\ (InRetry(Main.stack)' <=> InRetry(Next1.stack))
<1>1. \A f : IsRetry(f)' <=> IsRetry(f)
  BY DEF IsRetry
<1>2. \A s : Kids(s)' = Kids(s)
  BY DEF Kids
<1>3. \A st, fl : Marked(st, fl)' <=> Marked(st, fl)
  BY <1>1 DEF Marked, Retrying, RetryBelow
<1>4. \A st, fl : Honest(st, fl)' <=> Honest(st, fl)
  BY <1>1 DEF Honest, FromBelow, Retrying, RetryBelow
<1>5. \A S, f, out : Tried(S, f, out)' <=> Tried(S, f, out)
  BY <1>1, <1>2 DEF Tried
<1>6. \A S, st : Below(S, st)' <=> Below(S, st)
  BY <1>5 DEF Below
<1>7. \A st : InRetry(st)' <=> InRetry(st)
  BY <1>1 DEF InRetry
<1> QED BY <1>3, <1>4, <1>5, <1>6, <1>7 DEF SoundNow, SoundThen, CleanNow, Sound, Clean, Main, Next1, Begun

\* What the move of a thread below a parallel step does to the flags and the notes.
LEMMA OtherMoves ==
  ASSUME EngineTypeOK, ~RetryInParallel, NEW t \in Live, thr[t].stack # <<>>, Under1(thr[t].stack), Move(t)
  PROVE  /\ flag' = flag \/ flag' = Append(flag, FALSE)
         /\ \A r, x : <<r, x>> \in sour' => <<r, x>> \in sour \/ x \in Beneath
         /\ thr'[t].pc = "raise" => thr[t].pc = "raise" \/ aborted \/ \E r \in Runners : flag[r]
<1>1. /\ Top(t) \in Frames /\ Top(t).r \in Runners
      /\ Top(t).s # Root => Top(t).s \in Beneath
  <2>1. Top(t) = thr[t].stack[1] /\ 1 \in 1 .. Len(thr[t].stack)
    BY TopFacts
  <2> QED BY <2>1, TopFacts DEF Under1
<1>2. Kind(t) # "retry"
  BY <1>1 DEF Kind, RetryInParallel, Root
<1>3. ASSUME sour' \subseteq sour \cup {<<Runner(t), Top(t).s>>}, Top(t).s # Root
      PROVE  \A r, x : <<r, x>> \in sour' => <<r, x>> \in sour \/ x \in Beneath
  BY <1>1, <1>3
<1>4. sour' \subseteq sour => \A r, x : <<r, x>> \in sour' => <<r, x>> \in sour \/ x \in Beneath
  OBVIOUS
<1>5. CASE GuardSkips(t)
  BY <1>4, <1>5 DEF GuardSkips, Clears, To
<1>6. CASE BlockStarts(t)
  BY <1>4, <1>6 DEF BlockStarts, Clears, To
<1>7. CASE RetryStarts(t)
  BY <1>2, <1>7 DEF RetryStarts
<1>8. CASE ChainStarts(t)
  BY <1>4, <1>8 DEF ChainStarts, Clears, To
<1>9. CASE CallsNext(t)
  BY <1>4, <1>9 DEF CallsNext, To
<1>10. CASE RoundStarts(t)
  BY <1>4, <1>10 DEF RoundStarts, To
<1>11. CASE Resumes(t)
  BY <1>4, <1>11 DEF Resumes, To
<1>12. CASE StepSucceeds(t)
  BY <1>2, <1>3, <1>12 DEF StepSucceeds, To
<1>13. CASE StepBreaks(t)
  <2>1. flag' = flag /\ sour' = sour \cup {<<Runner(t), Top(t).s>>} /\ Top(t).s # Root
    BY <1>2, <1>13 DEF StepBreaks
  <2>2. thr'[t].pc = "raise" => flag[Runner(t)] \/ aborted
    BY <1>13, <2>1 DEF StepBreaks, To, Rethrown
  <2> QED BY <1>1, <1>3, <2>1, <2>2 DEF Runner
<1>14. CASE ChainEnds(t)
  BY <1>4, <1>14 DEF ChainEnds, To
<1> QED BY <1>5, <1>6, <1>7, <1>8, <1>9, <1>10, <1>11, <1>12, <1>13, <1>14 DEF Move

\* Another thread leaves the state of the main thread as it is: no step below a
\* parallel step is called by a retry.
LEMMA OtherSound ==
  ASSUME EngineTypeOK, ~RetryInParallel, 1 \in Live, PcOK(1), Main.stack # <<>>, SoundNow,
         flag' = flag \/ flag' = Append(flag, FALSE),
         \A r, x : <<r, x>> \in sour' => <<r, x>> \in sour \/ x \in Beneath,
         Next1.stack = Main.stack,
         Next1.pc = Main.pc \/ (Main.pc = "join" /\ Next1.pc \in {"body", "raise"})
  PROVE  /\ SoundThen
         /\ CleanNow /\ (Next1.pc = "raise" => Main.pc = "raise" \/ InRetry(Main.stack))
              => Clean(Next1.stack, Next1.pc, flag')
<1> DEFINE st == Main.stack
           done == Begun(Main.stack, Main.pc)
<1>1. st \in Seq(Frames) /\ Top(1) = st[1] /\ Top(1) = Head(st) /\ Top(1) \in Frames /\ st # <<>>
  BY ThreadFacts, TopFacts DEF Main, Top
<1>2. done \in Seq(Frames)
  BY <1>1, StackTop DEF Begun
<1>3. Begun(Next1.stack, Next1.pc) = done
  BY DEF Begun
<1>4. \A r : Retrying(done, r) => r \in Runners
  BY <1>2, RetryingRunner
<1>5. /\ \/ DOMAIN flag' = Runners
         \/ DOMAIN flag' = Runners \cup {Len(flag) + 1} /\ ~flag'[Len(flag) + 1]
      /\ \A r \in Runners : flag'[r] = flag[r]
      /\ Len(flag) + 1 \notin Runners
  <2>0. Len(flag) + 1 \notin Runners
    BY FlagFacts
  <2>1. CASE flag' = flag
    BY <2>0, <2>1 DEF Runners
  <2>2. CASE flag' = Append(flag, FALSE)
    <3>1. ASSUME NEW S, NEW q \in Seq(S), NEW e \in S
          PROVE  /\ DOMAIN Append(q, e) = DOMAIN q \cup {Len(q) + 1}
                 /\ Append(q, e)[Len(q) + 1] = e /\ \A i \in DOMAIN q : Append(q, e)[i] = q[i]
      OBVIOUS
    <3> DEFINE e == FALSE
               B == BOOLEAN
    <3>2. flag \in Seq(B) /\ e \in B
      BY DEF EngineTypeOK
    <3>3. flag' = Append(flag, e)
      BY <2>2
    <3> HIDE DEF e, B
    <3>4. /\ DOMAIN flag' = DOMAIN flag \cup {Len(flag) + 1}
          /\ flag'[Len(flag) + 1] = e
          /\ \A i \in DOMAIN flag : flag'[i] = flag[i]
      BY <3>1, <3>2, <3>3
    <3> QED BY <2>0, <3>4 DEF Runners, e
  <2> QED BY <2>1, <2>2
<1>6. Marked(done, flag) /\ Below(sour, st) /\ (Main.pc \in {"body", "sleep"} => Tried(sour, Top(1), {}))
  BY <1>1 DEF SoundNow, Sound
<1>7. Marked(done, flag')
  BY <1>4, <1>5, <1>6 DEF Marked, Runners
<1>8. ASSUME NEW f \in Frames, NEW out, Tried(sour, f, out) PROVE Tried(sour', f, out)
  <2>1. ASSUME IsRetry(f), NEW x \in Kids(f.s), <<f.r, x>> \in sour', <<f.r, x>> \notin sour PROVE FALSE
    <3>1. x \in Beneath
      BY <2>1
    <3>2. f.s \in StepIds /\ chain.kind[f.s] = "retry"
      BY <2>1 DEF IsRetry, Frames
    <3>3. f.s \in Beneath
      BY <2>1, <3>1, <3>2, BeneathParents
    <3> QED BY <3>2, <3>3 DEF RetryInParallel
  <2> QED BY <1>8, <2>1 DEF Tried
<1>9. Below(sour', st)
  <2>1. \A i \in 2 .. Len(st) : st[i] \in Frames
    BY <1>1
  <2> QED BY <1>6, <1>8, <2>1 DEF Below
<1>10. Next1.pc \in {"body", "sleep"} => Tried(sour', Head(st), {})
  <2>1. CASE Next1.pc = Main.pc
    BY <1>1, <1>6, <1>8, <2>1
  <2>2. CASE Main.pc = "join"
    <3>1. chain.kind[Head(st).s] = "parallel"
      BY <2>2 DEF PcOK, PcFits, Main
    <3> QED BY <3>1 DEF Tried, IsRetry
  <2> QED BY <2>1, <2>2
<1>11. SoundThen
  BY <1>3, <1>7, <1>9, <1>10 DEF SoundThen, Sound
<1>12. Honest(done, flag) => Honest(done, flag')
  BY <1>5 DEF Honest, Runners
<1>13. ASSUME CleanNow, Next1.pc = "raise" => Main.pc = "raise" \/ InRetry(Main.stack)
       PROVE  Clean(Next1.stack, Next1.pc, flag')
  <2>1. Honest(done, flag) /\ (Main.pc = "raise" => InRetry(done))
    BY <1>13 DEF CleanNow, Clean
  <2>2. Next1.pc = "raise" => InRetry(done)
    <3>1. Next1.pc = "raise" => Main.pc # "enter"
      OBVIOUS
    <3>2. Main.pc # "enter" => done = Main.stack
      BY DEF Begun
    <3> QED BY <1>13, <2>1, <3>1, <3>2
  <2> QED BY <1>3, <1>12, <2>1, <2>2 DEF Clean
<1> QED BY <1>11, <1>13

\* The same in the next state.
GuardsThen(D) ==
  /\ \A u \in Live' \ {1} : thr'[u].up \in D \cup {1} => u \in D
  /\ D # {} => Next1.pc = "join"
  /\ \A u \in D : thr'[u].pc = "raise" => InRetry(Next1.stack)

\* Whom the main thread waits for after its own step: the branches it has called.
LEMMA OwnGuards ==
  ASSUME TypesInv, TypesInv', TreeInv, over = "no", Acts(1), ~RunSettles(1), Moved(1),
         NEW K \in SUBSET (Live \ {1}), Guards(K)
  PROVE  \E D \in SUBSET (Live' \ {1}) : GuardsThen(D)
<1> DEFINE D == Live' \ Live
<1>1. Main.pc # "join" /\ 1 \in Live /\ Main.stack # <<>> /\ K = {}
  BY JoinWaits DEF Main, TreeInv, MainInv, Guards
<1>2. 0 \notin Live'
  <2>1. (Live \subseteq 1 .. MaxThreads)'
    BY DEF TypesInv, EngineTypeOK
  <2> QED BY <2>1
<1>3. \A u \in Live \ {1} : (thr[u].up \in Live \/ thr[u].up = 0) /\ thr[u].up # 1
  BY <1>1 DEF TreeInv, JoinInv, Guards
<1>4. CASE Others(1)
  <2>1. D = {} /\ \A u \in Live' \ {1} : u \in Live \ {1} /\ thr'[u] = thr[u]
    BY <1>4 DEF Others
  <2>2. GuardsThen({})
    BY <1>3, <2>1 DEF GuardsThen
  <2> QED BY <2>2
<1>5. CASE Spawned(1)
  <2>1. /\ Live \subseteq Live' /\ (\A u \in Live \ {1} : thr'[u] = thr[u])
        /\ thr'[1].pc = IF Live' = Live THEN "body" ELSE "join"
        /\ \A u \in D : thr'[u].pc = "enter" /\ thr'[u].up = 1
    BY <1>5 DEF Spawned, Newborn
  <2>2. D # {} => Next1.pc = "join"
    BY <2>1 DEF Next1
  <2>3. D \in SUBSET (Live' \ {1})
    BY <1>1
  <2>4. ASSUME NEW u \in Live' \ {1}, thr'[u].up \in D \cup {1} PROVE u \in D
    <3>1. ASSUME u \in Live PROVE FALSE
      BY <1>2, <1>3, <2>1, <2>4, <3>1
    <3> QED BY <3>1
  <2>5. GuardsThen(D)
    BY <2>1, <2>2, <2>4 DEF GuardsThen
  <2> QED BY <2>3, <2>5
<1>6. CASE Settled(1)
  BY <1>1, <1>6 DEF Settled, Main
<1> QED BY <1>4, <1>5, <1>6 DEF Moved

\* And after the step of another thread.
LEMMA OtherGuards ==
  ASSUME TypesInv, TypesInv', TreeInv, over = "no", NEW t \in Live, t # 1, ~RunSettles(t), Moved(t), thr[t].pc # "join",
         NEW K \in SUBSET (Live \ {1}), Guards(K), CleanNow, ~aborted,
         Settled(t) \/ (thr'[t].pc = "raise" => thr[t].pc = "raise" \/ \E r \in Runners : flag[r])
  PROVE  /\ \E D \in SUBSET (Live' \ {1}) : GuardsThen(D)
         /\ Next1.stack = Main.stack
         /\ Next1.pc = Main.pc \/ (Main.pc = "join" /\ Next1.pc \in {"body", "raise"})
         /\ Next1.pc = "raise" => Main.pc = "raise" \/ InRetry(Main.stack)
<1>1. 1 \in Live /\ thr[1].up = 0
  BY DEF TreeInv, MainInv
<1>2. 0 \notin Live' /\ 0 \notin Live
  <2>1. (Live \subseteq 1 .. MaxThreads)' /\ Live \subseteq 1 .. MaxThreads
    BY DEF TypesInv, EngineTypeOK
  <2> QED BY <2>1
<1>3. \A u \in Live : thr[u].up # 0 => thr[u].up \in Live /\ thr[u].up # t /\ thr[thr[u].up].pc = "join"
  BY DEF TreeInv, JoinInv
<1>4. /\ \A u \in Live \ {1} : thr[u].up \in K \cup {1} => u \in K
      /\ K # {} => Main.pc = "join"
      /\ \A u \in K : thr[u].pc = "raise" => InRetry(Main.stack)
  BY DEF Guards
<1>5. ASSUME t \in K, NEW r \in Runners, flag[r] PROVE InRetry(Main.stack)
  <2>1. Begun(Main.stack, Main.pc) = Main.stack
    BY <1>4, <1>5 DEF Begun
  <2>2. Retrying(Main.stack, r)
    BY <1>5, <2>1 DEF CleanNow, Clean, Honest, Runners
  <2> QED BY <2>2 DEF Retrying, InRetry
<1>6. CASE Others(t)
  <2>1. Live' = Live /\ (\A u \in Live \ {t} : thr'[u] = thr[u]) /\ \A u \in Live : thr'[u].up = thr[u].up
    BY <1>6 DEF Others
  <2>2. Next1 = Main
    BY <1>1, <2>1 DEF Next1, Main
  <2>3. ASSUME ~Settled(t) PROVE GuardsThen(K)
    <3>1. ASSUME NEW u \in K, thr'[u].pc = "raise" PROVE InRetry(Main.stack)
      <4>1. CASE u = t
        BY <1>4, <1>5, <2>3, <3>1, <4>1
      <4>2. CASE u # t
        BY <1>4, <2>1, <3>1, <4>2
      <4> QED BY <4>1, <4>2
    <3> QED BY <1>4, <2>1, <2>2, <3>1 DEF GuardsThen
  <2>4. ~Settled(t)
    BY <2>1 DEF Settled
  <2> QED BY <2>1, <2>2, <2>3, <2>4
<1>7. CASE Spawned(t)
  <2> DEFINE D == IF t \in K THEN K \cup (Live' \ Live) ELSE K
  <2>1. /\ Live \subseteq Live' /\ (\A u \in Live \ {t} : thr'[u] = thr[u])
        /\ thr'[t].up = thr[t].up /\ thr'[t].pc \in {"body", "join"}
        /\ \A u \in Live' \ Live : thr'[u].pc = "enter" /\ thr'[u].up = t
    BY <1>7 DEF Spawned, Newborn
  <2>2. Next1 = Main
    BY <1>1, <2>1 DEF Next1, Main
  <2>3. D \in SUBSET (Live' \ {1})
    BY <1>1, <2>1
  <2>4. ASSUME NEW u \in Live' \ {1}, thr'[u].up \in D \cup {1} PROVE u \in D
    <3>1. CASE u \in Live
      <4>1. thr'[u].up = thr[u].up
        BY <2>1, <3>1
      <4>2. thr[u].up \in K \cup {1}
        BY <1>2, <1>3, <2>4, <3>1, <4>1
      <4> QED BY <1>4, <3>1, <4>2
    <3>2. CASE u \notin Live
      BY <2>1, <2>4, <3>2
    <3> QED BY <3>1, <3>2
  <2>5. ASSUME NEW u \in D, thr'[u].pc = "raise" PROVE InRetry(Main.stack)
    <3>1. u \in K /\ u # t
      BY <2>1, <2>5
    <3> QED BY <1>4, <2>1, <2>5, <3>1
  <2>6. D # {} => Main.pc = "join"
    BY <1>4
  <2>7. GuardsThen(D)
    BY <2>2, <2>4, <2>5, <2>6 DEF GuardsThen
  <2> QED BY <2>2, <2>3, <2>7
<1>8. CASE Settled(t)
  <2> DEFINE p    == thr[t].up
             wake == p # 0 /\ (thr[t].pc = "raise" \/ \A u \in Live \ {t} : thr[u].up # p)
             D    == IF p = 1 /\ wake THEN {} ELSE K \ {t}
  <2>1. /\ thr[t].pc \in {"body", "raise"} /\ Live' = Live \ {t}
        /\ \A u \in Live' :
             /\ thr'[u].stack = thr[u].stack
             /\ thr'[u].pc = IF wake /\ u = p THEN thr[t].pc ELSE thr[u].pc
             /\ thr'[u].up = IF thr[t].pc = "raise" /\ p # 0 /\ thr[u].up = p THEN 0 ELSE thr[u].up
    BY <1>8 DEF Settled
  <2>2. 1 \in Live' /\ Next1.stack = Main.stack
        /\ Next1.pc = IF wake /\ 1 = p THEN thr[t].pc ELSE Main.pc
    BY <1>1, <2>1 DEF Next1, Main
  <2>3. p \in K \cup {1} /\ thr[t].pc = "raise" => InRetry(Main.stack)
    BY <1>4
  <2>4. p = 1 => Main.pc = "join"
    BY <1>3 DEF Main
  <2>5. Next1.pc = Main.pc \/ (Main.pc = "join" /\ Next1.pc \in {"body", "raise"})
    BY <2>1, <2>2, <2>4
  <2>6. Next1.pc = "raise" => Main.pc = "raise" \/ InRetry(Main.stack)
    BY <2>2, <2>3
  <2>7. D \in SUBSET (Live' \ {1})
    BY <2>1
  <2>8. ASSUME NEW u \in Live' \ {1}, thr'[u].up \in D \cup {1} PROVE u \in D
    <3>1. 0 \notin D \cup {1}
      BY <1>2
    <3>2. thr'[u].up = thr[u].up /\ u # t /\ u \in Live
      BY <2>1, <2>8, <3>1
    <3>3. CASE p = 1 /\ wake
      <4>1. thr[u].up = p
        BY <2>8, <3>2, <3>3
      <4>2. thr[t].pc = "raise"
        BY <3>2, <3>3, <4>1
      <4> QED BY <1>2, <2>1, <3>1, <2>8, <3>2, <3>3, <4>1, <4>2
    <3>4. CASE ~(p = 1 /\ wake)
      BY <1>4, <2>8, <3>2, <3>4
    <3> QED BY <3>3, <3>4
  <2>9. D # {} => Next1.pc = "join"
    BY <1>4, <2>2
  <2>10. ASSUME NEW u \in D, thr'[u].pc = "raise" PROVE InRetry(Next1.stack)
    <3>1. u \in K /\ u \in Live'
      BY <2>1
    <3>2. CASE wake /\ u = p
      BY <2>1, <2>2, <2>3, <2>10, <3>1, <3>2
    <3>3. CASE ~(wake /\ u = p)
      BY <1>4, <2>1, <2>2, <2>10, <3>1, <3>3
    <3> QED BY <3>2, <3>3
  <2>11. GuardsThen(D)
    BY <2>8, <2>9, <2>10 DEF GuardsThen
  <2> QED BY <2>2, <2>5, <2>6, <2>7, <2>11
<1> QED BY <1>6, <1>7, <1>8 DEF Moved

-----------------------------------------------------------------------------
(* Every step of the engine *)

\* The flags and the notes of a run begin empty.
LEMMA FlagInit == EngineInit => FlagInv
<1> SUFFICES ASSUME EngineInit PROVE FlagInv
  OBVIOUS
<1> DEFINE f == Frame(Root, chain.main, 1)
           st == <<f>>
<1>1. /\ flag = <<FALSE>> /\ sour = {} /\ thr = [t \in {1} |-> Thread(st, "body", 0)]
  BY DEF EngineInit
<1>2. Main.stack = st /\ Main.pc = "body" /\ Live = {1}
  BY <1>1 DEF Main, Thread, Live
<1>3. Len(st) = 1 /\ st[1].s = Root
  BY DEF Frame
<1>4. \A i \in 1 .. Len(st) : ~IsRetry(st[i])
  BY <1>3 DEF IsRetry
<1>5. DOMAIN flag = {1} /\ ~flag[1]
  BY <1>1
<1> HIDE DEF st
<1>6. Marked(st, flag) /\ Honest(st, flag)
  BY <1>4, <1>5 DEF Marked, Honest, FromBelow, Retrying, RetryBelow
<1>7. Below(sour, st) /\ Tried(sour, Head(st), {})
  BY <1>1 DEF Below, Tried
<1>8. Begun(Main.stack, Main.pc) = st
  BY <1>2 DEF Begun
<1>9. SoundNow /\ CleanNow
  BY <1>2, <1>6, <1>7, <1>8 DEF SoundNow, CleanNow, Sound, Clean
<1>10. Guards({})
  BY <1>2 DEF Guards
<1> QED BY <1>9, <1>10 DEF FlagInv

\* The invariant in the next state, said with the operators of this one.
LEMMA FlagThen ==
  ASSUME chain' = chain,
         over' = "no" /\ ~RetryInParallel =>
           /\ SoundThen
           /\ ~aborted' => /\ Clean(Next1.stack, Next1.pc, flag')
                           /\ \E D \in SUBSET (Live' \ {1}) : GuardsThen(D)
  PROVE  FlagInv'
<1>1. /\ SoundNow' <=> SoundThen
      /\ CleanNow' <=> Clean(Next1.stack, Next1.pc, flag')
      /\ InRetry(Main.stack)' <=> InRetry(Next1.stack)
      /\ RetryInParallel' <=> RetryInParallel
  BY SoundPrime, BeneathStays
<1>2. \A D : GuardsThen(D) => Guards(D)'
  BY <1>1 DEF Guards, GuardsThen, Main, Next1
<1> QED BY <1>1, <1>2 DEF FlagInv

\* A step of a thread adds at most a runner.
LEMMA RunnersGrow ==
  ASSUME EngineTypeOK, NEW t, ThreadStep(t)
  PROVE  Runners \subseteq Runners'
<1>1. CASE Opens(t)
  <2>1. flag' = Append(flag, FALSE)
    BY <1>1 DEF Opens, SubChainStarts
  <2>2. ASSUME NEW S, NEW q \in Seq(S), NEW e \in S
        PROVE  DOMAIN Append(q, e) = DOMAIN q \cup {Len(q) + 1}
    OBVIOUS
  <2>3. flag \in Seq(BOOLEAN)
    BY DEF EngineTypeOK
  <2>4. DOMAIN Append(flag, FALSE) = DOMAIN flag \cup {Len(flag) + 1}
    BY <2>2, <2>3
  <2> QED BY <2>1, <2>4 DEF Runners
<1>2. CASE Within(t) /\ DOMAIN flag' = DOMAIN flag
  BY <1>2 DEF Runners
<1>3. CASE Calls(t) \/ BranchSettles(t) \/ RunSettles(t)
  BY <1>3 DEF Calls, BranchSettles, RunSettles, Runners
<1> QED BY <1>1, <1>2, <1>3 DEF ThreadStep

\* Another thread leaves the main thread where it is, or wakes it.
LEMMA MainKept ==
  ASSUME TreeInv, over = "no", NEW t \in Live, t # 1, ~RunSettles(t), Moved(t)
  PROVE  /\ Next1.stack = Main.stack
         /\ Next1.pc = Main.pc \/ (Main.pc = "join" /\ Next1.pc \in {"body", "raise"})
<1>1. 1 \in Live \ {t} /\ (thr[t].up = 1 => Main.pc = "join")
  BY DEF TreeInv, MainInv, JoinInv, Main
<1>2. CASE Settled(t)
  BY <1>1, <1>2 DEF Settled, Main, Next1
<1>3. CASE ~Settled(t)
  BY <1>1, <1>3 DEF Moved, Others, Spawned, Main, Next1
<1> QED BY <1>2, <1>3

\* Every step keeps the flags and the notes.
LEMMA FlagStep ==
  ASSUME TypesInv, TypesInv', TreeInv, TreeInv', FlagInv, [EngineNext]_engineVars
  PROVE  FlagInv'
<1>0. EngineTypeOK /\ ShapeInv
  BY DEF TypesInv
<1>1. CASE UNCHANGED engineVars
  <2>1. aborted' = aborted /\ UNCHANGED <<chain, over, flag, thr, sour>>
    BY <1>1 DEF engineVars
  <2>2. Next1 = Main /\ Live' = Live
    BY <2>1 DEF Main, Next1, Live
  <2>3. SoundNow => SoundThen
    BY <2>1, <2>2 DEF SoundNow, SoundThen
  <2>4. CleanNow => Clean(Next1.stack, Next1.pc, flag')
    BY <2>1, <2>2 DEF CleanNow
  <2>5. \A K : Guards(K) => GuardsThen(K)
    BY <2>1, <2>2 DEF Guards, GuardsThen
  <2> QED BY <2>1, <2>2, <2>3, <2>4, <2>5, FlagThen DEF FlagInv
<1>2. CASE Stop
  <2>1. aborted' /\ UNCHANGED <<chain, over, flag, thr, sour>>
    BY <1>2 DEF Stop
  <2>2. SoundNow => SoundThen
    BY <2>1 DEF SoundNow, SoundThen, Main, Next1
  <2> QED BY <2>1, <2>2, FlagThen DEF FlagInv
<1>3. ASSUME NEW t \in Live, Acts(t), ThreadStep(t), Moved(t) PROVE FlagInv'
  <2>1. thr[t].pc # "join" /\ chain' = chain /\ aborted' = aborted /\ Runners \subseteq Runners'
    BY <1>0, <1>3, JoinWaits, RunnersGrow DEF ThreadStep
  <2>2. SUFFICES ASSUME over' = "no", ~RetryInParallel
                 PROVE  /\ SoundThen
                        /\ ~aborted => /\ Clean(Next1.stack, Next1.pc, flag')
                                       /\ \E D \in SUBSET (Live' \ {1}) : GuardsThen(D)
    BY <2>1, FlagThen
  <2>3. ~RunSettles(t)
    BY <1>0, <1>3, <2>2, MainSettles
  <2>4. over = "no"
    BY <1>3, <2>2, <2>3 DEF ThreadStep, Calls, BranchSettles, Still
  <2>5. SoundNow /\ (~aborted => CleanNow /\ \E K \in SUBSET (Live \ {1}) : Guards(K))
    BY <2>2, <2>4 DEF FlagInv
  <2>6. 1 \in Live /\ Main.stack # <<>>
    BY <2>4 DEF TreeInv, MainInv, Main
  <2>7. Next1.stack # <<>>
    BY <2>2 DEF TreeInv, MainInv, Next1
  <2>8. StackOK(Main.stack) /\ PcOK(1) /\ PcOK(t)
    BY <1>0, <2>6 DEF ShapeInv, Main
  <2>9. CASE t = 1
    <3>1. Move(1)
      <4>1. ~BranchSettles(1)
        BY <2>6 DEF BranchSettles, Main
      <4> QED BY <1>0, <1>3, <2>3, <2>6, <2>8, <2>9, <4>1, ActMove
    <3>2. SoundThen /\ CleanThen
      BY <1>0, <2>1, <2>5, <2>6, <2>7, <2>8, <3>1, MainMoves
    <3>3. ASSUME NEW K \in SUBSET (Live \ {1}), Guards(K)
          PROVE  \E D \in SUBSET (Live' \ {1}) : GuardsThen(D)
      BY <1>3, <2>3, <2>4, <2>9, <3>3, OwnGuards
    <3> QED BY <2>5, <3>2, <3>3 DEF CleanThen
  <2>10. CASE t # 1
    <3>1. Under1(thr[t].stack)
      BY <2>10 DEF TreeInv, BranchInv, IsMain
    <3>2. /\ flag' = flag \/ flag' = Append(flag, FALSE)
          /\ \A r, x : <<r, x>> \in sour' => <<r, x>> \in sour \/ x \in Beneath
          /\ Settled(t) \/ (thr'[t].pc = "raise" => thr[t].pc = "raise" \/ aborted \/ \E r \in Runners : flag[r])
      <4>1. CASE BranchSettles(t)
        <5>1. flag' = flag /\ sour' = sour /\ thr[t].stack = <<>>
          BY <4>1 DEF BranchSettles
        <5>2. Settled(t)
          BY <1>3, <2>3, <5>1 DEF Moved, KeptStack, Refilled, Returned, Called, Opened, Spawned
        <5> QED BY <5>1, <5>2
      <4>2. CASE ~BranchSettles(t)
        <5>1. Move(t) /\ thr[t].stack # <<>>
          BY <1>0, <1>3, <2>3, <2>8, <4>2, ActMove
        <5> QED BY <1>0, <2>2, <3>1, <5>1, OtherMoves
      <4> QED BY <4>1, <4>2
    <3>3. Next1.stack = Main.stack /\ (Next1.pc = Main.pc \/ (Main.pc = "join" /\ Next1.pc \in {"body", "raise"}))
      BY <1>3, <2>1, <2>3, <2>4, <2>10, MainKept
    <3>4. SoundThen /\ (CleanNow /\ (Next1.pc = "raise" => Main.pc = "raise" \/ InRetry(Main.stack))
                          => Clean(Next1.stack, Next1.pc, flag'))
      BY <1>0, <2>2, <2>5, <2>6, <2>8, <3>2, <3>3, OtherSound
    <3>5. ASSUME ~aborted, CleanNow, NEW K \in SUBSET (Live \ {1}), Guards(K)
          PROVE  /\ \E D \in SUBSET (Live' \ {1}) : GuardsThen(D)
                 /\ Next1.pc = "raise" => Main.pc = "raise" \/ InRetry(Main.stack)
      BY <1>3, <2>1, <2>3, <2>4, <2>10, <3>2, <3>5, OtherGuards
    <3> QED BY <2>5, <3>4, <3>5
  <2> QED BY <2>9, <2>10
<1> QED BY <1>1, <1>2, <1>3, TypesStep

\* A run ends by an exception only after a stop.
LEMMA EndStep ==
  ASSUME TypesInv, TreeInv, FlagInv, OnlyAStopThrows, [EngineNext]_engineVars
  PROVE  OnlyAStopThrows'
<1>0. EngineTypeOK
  BY DEF TypesInv
<1>1. CASE UNCHANGED engineVars
  BY <1>1, BeneathStays DEF engineVars, OnlyAStopThrows
<1>2. CASE Stop
  BY <1>2, BeneathStays DEF Stop, OnlyAStopThrows
<1>3. ASSUME NEW t \in Live, Acts(t), ThreadStep(t), Moved(t) PROVE OnlyAStopThrows'
  <2>1. chain' = chain /\ aborted' = aborted /\ (RetryInParallel' <=> RetryInParallel)
    BY <1>3, BeneathStays DEF ThreadStep
  <2>2. CASE ~RunSettles(t)
    <3>1. over' = over
      BY <1>3, <2>2 DEF ThreadStep, Calls, BranchSettles, Still
    <3> QED BY <2>1, <3>1 DEF OnlyAStopThrows
  <2>3. CASE RunSettles(t)
    <3>1. t = 1 /\ over = "no"
      BY <1>0, <1>3, <2>3, MainSettles DEF IsMain
    <3>2. SUFFICES ASSUME thr[t].pc = "raise", ~aborted, ~RetryInParallel PROVE FALSE
      <4>1. over' = "thrown" => thr[t].pc = "raise"
        BY <2>3 DEF RunSettles
      <4>2. OnlyAStopThrows' <=> (over' = "thrown" => aborted' \/ RetryInParallel')
        BY DEF OnlyAStopThrows
      <4> QED BY <2>1, <4>1, <4>2
    <3>3. InRetry(Main.stack)
      <4>1. Clean(Main.stack, Main.pc, flag) /\ Main.pc = "raise"
        BY <3>1, <3>2 DEF FlagInv, CleanNow, Main
      <4> QED BY <4>1 DEF Clean, Begun
    <3>4. Len(Main.stack) = 1 /\ Main.stack[Len(Main.stack)].s = Root
      BY <2>3, <3>1 DEF RunSettles, Main, TreeInv, MainInv
    <3> QED BY <3>3, <3>4 DEF InRetry, IsRetry
  <2> QED BY <2>2, <2>3
<1> QED BY <1>1, <1>2, <1>3, TypesStep

\* The inductive invariant of the engine.
EngineInv == TypesInv /\ TreeInv /\ FlagInv /\ OnlyAStopThrows

\* Every run keeps it.
LEMMA EngineHolds == EngineSpec => []EngineInv
<1>1. EngineInit => EngineInv
  <2>1. EngineInit => OnlyAStopThrows
    BY DEF EngineInit, OnlyAStopThrows
  <2> QED BY <2>1, TypesInit, TreeInit, FlagInit DEF EngineInv
<1>2. ASSUME EngineInv, [EngineNext]_engineVars PROVE EngineInv'
  <2>1. TypesInv'
    BY <1>2, TypesStep DEF EngineInv
  <2>2. TreeInv'
    BY <1>2, TreeStep DEF EngineInv
  <2>3. FlagInv'
    BY <1>2, <2>1, <2>2, FlagStep DEF EngineInv
  <2>4. OnlyAStopThrows'
    BY <1>2, EndStep DEF EngineInv
  <2> QED BY <2>1, <2>2, <2>3, <2>4 DEF EngineInv
<1> QED BY <1>1, <1>2, PTL DEF EngineSpec

(* A chain without a retry below a parallel step is taken down by nothing *)
(* but a stop, for any chains and any bound on threads: runStep catches   *)
(* every exception of a handler and passes it up only while the flag      *)
(* isInsideRetry of its runner is set, which it is only while a retry of  *)
(* that runner is under way, and the retry then catches it.               *)
THEOREM EngineOnlyAStopThrows == EngineSpec => []OnlyAStopThrows
<1>1. EngineInv => OnlyAStopThrows
  BY DEF EngineInv
<1> QED BY <1>1, EngineHolds, PTL

(* In such a chain a retry is complete only when no step failed in its    *)
(* last attempt, agents apart: whatever stands between them, the flag is  *)
(* set for its runner when the step fails, handleRetryStep of an inner    *)
(* retry has put it back, and the exception reaches the attempt.          *)
THEOREM EngineRetryRepeats == EngineSpec => []RetryRepeatsOnErrors
<1>1. ASSUME EngineInv PROVE RetryRepeatsOnErrors
  <2> SUFFICES ASSUME ~RetryInParallel, NEW t \in Live, BodyDone(t), Kind(t) = "retry",
                      NEW x \in Kids(Top(t).s), <<Runner(t), x>> \in sour
               PROVE  chain.kind[x] = "agent"
    BY DEF RetryRepeatsOnErrors
  <2>1. EngineTypeOK /\ TreeInv /\ FlagInv
    BY <1>1 DEF EngineInv, TypesInv
  <2>2. thr[t].stack # <<>> /\ thr[t].pc = "body" /\ Top(t).todo = <<>>
    BY DEF BodyDone
  <2>3. Top(t) = thr[t].stack[1] /\ 1 \in 1 .. Len(thr[t].stack) /\ Top(t).s # Root
        /\ Top(t).s \in StepIds /\ chain.kind[Top(t).s] = "retry"
    BY <2>1, <2>2, TopFacts, NotRoot DEF Root
  <2>4. IsMain(t)
    <3>1. SUFFICES ASSUME ~IsMain(t) PROVE FALSE
      OBVIOUS
    <3>2. Top(t).s \in Beneath
      BY <2>1, <2>3, <3>1 DEF TreeInv, BranchInv, Under1
    <3> QED BY <2>3, <3>2 DEF RetryInParallel
  <2>5. Tried(sour, Top(t), {})
    BY <2>1, <2>2, <2>4 DEF FlagInv, SoundNow, Sound, Main, IsMain, Top
  <2>6. Steps(Top(t).todo) = {}
    BY <2>2 DEF Steps
  <2> QED BY <2>3, <2>5, <2>6 DEF Tried, IsRetry, Runner
<1> QED BY <1>1, EngineHolds, PTL

-----------------------------------------------------------------------------
(* Who waits for branches: in the end for one that does not wait *)

\* The steps that stand deeper in the document than s.
Deeper(s) == {x \in StepIds : chain.level[x] > chain.level[s]}

\* Who waits is waited for by a branch that has to tell it how it ended, and
\* branches stand deeper than the step that waits for them.
WaitInv ==
  /\ \A t \in Live : thr[t].pc = "join" => \E u \in Live : thr[u].up = t
  /\ \A t, u \in Live : thr[u].up = t => Lies(Deeper(Top(t).s), thr[u].stack)

\* The children of a step stand deeper than it.
LEMMA KidsDeeper ==
  ASSUME EngineTypeOK, NEW s \in StepIds
  PROVE  /\ Kids(s) \subseteq Deeper(s)
         /\ \A x \in Deeper(s) : Kids(x) \subseteq Deeper(s)
<1>1. /\ \A x \in StepIds : Kids(x) \subseteq StepIds /\ chain.level[x] \in Nat
      /\ \A x \in StepIds : \A y \in Kids(x) : chain.level[y] > chain.level[x]
  BY ChainFacts DEF WellFormed, Tree, StepIds, Kids
<1>2. Kids(s) \subseteq Deeper(s)
  BY <1>1 DEF Deeper
<1>3. ASSUME NEW x \in Deeper(s), NEW y \in Kids(x) PROVE y \in Deeper(s)
  <2>1. x \in StepIds /\ y \in StepIds /\ chain.level[y] > chain.level[x] /\ chain.level[x] > chain.level[s]
    BY <1>1, <1>3 DEF Deeper
  <2>2. chain.level[y] \in Nat /\ chain.level[x] \in Nat /\ chain.level[s] \in Nat
    BY <1>1, <2>1
  <2>3. \A a, b, c \in Nat : a > b /\ b > c => a > c
    OBVIOUS
  <2>4. chain.level[y] > chain.level[s]
    BY <2>1, <2>2, <2>3
  <2> QED BY <2>1, <2>4 DEF Deeper
<1> QED BY <1>2, <1>3

\* Threads are numbered from one.
LEMMA LiveBound ==
  ASSUME EngineTypeOK
  PROVE  Live \subseteq 1 .. MaxThreads /\ 0 \notin Live
<1>1. Live \subseteq 1 .. MaxThreads
  BY Zenon DEF EngineTypeOK
<1> QED BY <1>1

\* A run begins with a thread that waits for nobody.
LEMMA WaitInit == EngineInit => WaitInv
<1> SUFFICES ASSUME EngineInit PROVE WaitInv
  OBVIOUS
<1> DEFINE st == <<Frame(Root, chain.main, 1)>>
<1>1. thr = [t \in {1} |-> Thread(st, "body", 0)]
  BY DEF EngineInit
<1>2. Live = {1} /\ thr[1].pc = "body" /\ thr[1].up = 0
  BY <1>1 DEF Live, Thread
<1> QED BY <1>2 DEF WaitInv

\* How a step moves the threads: nobody is left waiting, and branches stay deep.
LEMMA WaitMoves ==
  ASSUME TypesInv, TreeInv, WaitInv, NEW t \in Live, chain' = chain, thr[t].pc # "join", Live' \subseteq 1 .. MaxThreads,
         \/ Others(t) /\ (KeptStack(t) \/ Refilled(t) \/ Returned(t) \/ Called(t) \/ Opened(t))
         \/ Spawned(t) \/ Settled(t)
         \/ thr[t].up = 0 /\ Live' = Live \ {t} /\ \A u \in Live' : thr'[u] = thr[u]
  PROVE  WaitInv'
<1>0. EngineTypeOK /\ ShapeInv
  BY DEF TypesInv
<1>1. \A u \in Live : thr[u].up # 0 => thr[u].up \in Live /\ thr[u].up # t /\ thr[thr[u].up].pc = "join"
  BY DEF TreeInv, JoinInv
<1>2. 0 \notin Live /\ 0 \notin Live'
  <2>1. 0 \notin 1 .. MaxThreads
    OBVIOUS
  <2> QED BY <1>0, <2>1, LiveBound
<1>3. \A v \in Live : thr[v].pc = "join" => Top(v).s \in StepIds
  <2> SUFFICES ASSUME NEW v \in Live, thr[v].pc = "join" PROVE Top(v).s \in StepIds
    OBVIOUS
  <2>1. thr[v].stack # <<>> /\ Top(v).s # Root
    BY <1>0 DEF ShapeInv, PcOK, PcFits, Top
  <2> QED BY <1>0, <2>1, TopFacts
<1>4. \A v \in Live : thr[v].pc = "join" => \E u \in Live : thr[u].up = v
  BY DEF WaitInv
<1>5. \A v, u \in Live : thr[u].up = v => Lies(Deeper(Top(v).s), thr[u].stack)
  BY DEF WaitInv
<1>6. SUFFICES /\ \A v \in Live' : thr'[v].pc = "join" => \E u \in Live' : thr'[u].up = v
               /\ \A v, u \in Live' : thr'[u].up = v => Lies(Deeper(Head(thr'[v].stack).s), thr'[u].stack)
  <2>3. ASSUME NEW v \in Live', NEW u \in Live', thr'[u].up = v PROVE Lies(Deeper(Top(v).s), thr[u].stack)'
    <3>1. Lies(Deeper(Head(thr'[v].stack).s), thr'[u].stack)
      BY <1>6, <2>3
    <3>2. Deeper(Head(thr'[v].stack).s) = Deeper(Top(v).s)'
      BY DEF Deeper, StepIds, Top
    <3> QED BY <3>1, <3>2 DEF Lies
  <2> QED BY <1>6, <2>3 DEF WaitInv
<1>7. CASE Others(t) /\ (KeptStack(t) \/ Refilled(t) \/ Returned(t) \/ Called(t) \/ Opened(t))
  <2>1. Live' = Live /\ (\A u \in Live \ {t} : thr'[u] = thr[u]) /\ \A u \in Live : thr'[u].up = thr[u].up
    BY <1>7 DEF Others
  <2>2. thr'[t].pc # "join"
    BY <1>7 DEF KeptStack, Refilled, Returned, Called, Opened
  <2>3. ASSUME NEW v \in Live', NEW u \in Live', thr'[u].up = v
        PROVE  Lies(Deeper(Head(thr'[v].stack).s), thr'[u].stack)
    <3>1. v \in Live \ {t} /\ u \in Live /\ thr[u].up = v /\ thr[v].pc = "join" /\ thr'[v] = thr[v]
      BY <1>1, <1>2, <2>1, <2>3
    <3>2. Lies(Deeper(Top(v).s), thr[u].stack) /\ Head(thr'[v].stack).s = Top(v).s
      BY <1>5, <3>1 DEF Top
    <3>3. CASE u # t
      BY <2>1, <3>1, <3>2, <3>3
    <3>4. CASE u = t
      <4>1. Top(v).s \in StepIds
        BY <1>3, <3>1
      <4>2. Top(t).s # Root => Kids(Top(t).s) \subseteq Deeper(Top(v).s)
        <5>1. thr[t].stack # <<>>
          BY <1>7 DEF KeptStack, Refilled, Returned, Called, Opened
        <5>2. Top(t) = thr[t].stack[1] /\ 1 \in 1 .. Len(thr[t].stack)
          BY <1>0, <5>1, TopFacts
        <5>3. Top(t).s # Root => Top(t).s \in Deeper(Top(v).s)
          BY <3>2, <3>4, <5>2 DEF Lies
        <5> QED BY <1>0, <4>1, <5>3, KidsDeeper
      <4>3. Lies(Deeper(Top(v).s), thr'[t].stack)
        <5> DEFINE D == Deeper(Top(v).s)
        <5>1. Lies(D, thr[t].stack) /\ (Top(t).s # Root => Kids(Top(t).s) \subseteq D)
          BY <3>2, <3>4, <4>2
        <5> HIDE DEF D
        <5>2. Lies(D, thr'[t].stack)
          BY <1>0, <1>7, <5>1, LiesStays
        <5> QED BY <5>2 DEF D
      <4> QED BY <3>2, <3>4, <4>3
    <3> QED BY <3>3, <3>4
  <2>4. ASSUME NEW v \in Live', thr'[v].pc = "join" PROVE \E u \in Live' : thr'[u].up = v
    <3>1. v \in Live /\ thr[v].pc = "join"
      BY <2>1, <2>2, <2>4
    <3> QED BY <1>4, <2>1, <3>1
  <2> QED BY <2>3, <2>4
<1>8. CASE Spawned(t)
  <2>1. /\ Live \subseteq Live' /\ (\A u \in Live \ {t} : thr'[u] = thr[u])
        /\ thr'[t].stack = thr[t].stack /\ thr'[t].up = thr[t].up /\ thr[t].stack # <<>> /\ Kind(t) = "parallel"
        /\ thr'[t].pc = IF Live' = Live THEN "body" ELSE "join"
        /\ \A u \in Live' \ Live : Newborn(u, t)
    BY <1>8 DEF Spawned
  <2>2. Kids(Top(t).s) \subseteq Deeper(Top(t).s) /\ Root \notin StepIds
    <3>1. Top(t).s \in StepIds
      BY <1>0, <2>1, TopFacts DEF Kind, Root
    <3> QED BY <1>0, <3>1, KidsDeeper, ChainFacts
  <2>3. ASSUME NEW v \in Live', NEW u \in Live', thr'[u].up = v
        PROVE  Lies(Deeper(Head(thr'[v].stack).s), thr'[u].stack)
    <3>1. CASE u \in Live
      <4>1. thr[u].up = v /\ thr'[u].stack = thr[u].stack
        BY <2>1, <2>3, <3>1
      <4>2. v \in Live \ {t} /\ thr'[v] = thr[v]
        BY <1>1, <1>2, <2>1, <3>1, <4>1
      <4> QED BY <1>5, <3>1, <4>1, <4>2 DEF Top
    <3>2. CASE u \notin Live
      <4>1. /\ v = t /\ Len(thr'[u].stack) = 1 /\ thr'[u].stack[1].s \in Kids(Top(t).s)
            /\ thr'[u].stack[1].todo = <<>>
        BY <2>1, <2>3, <3>2 DEF Newborn
      <4>2. Steps(thr'[u].stack[1].todo) = {}
        BY <4>1 DEF Steps
      <4>3. Lies(Deeper(Top(t).s), thr'[u].stack)
        BY <2>2, <4>1, <4>2 DEF Lies
      <4> QED BY <2>1, <4>1, <4>3 DEF Top
    <3> QED BY <3>1, <3>2
  <2>4. ASSUME NEW v \in Live', thr'[v].pc = "join" PROVE \E u \in Live' : thr'[u].up = v
    <3>1. v \in Live
      BY <2>1, <2>4 DEF Newborn
    <3>2. CASE v = t
      <4>1. Live' # Live
        BY <2>1, <2>4, <3>2
      <4>2. PICK u \in Live' : u \notin Live
        <5>1. Live \subseteq Live'
          BY <2>1
        <5> QED BY <4>1, <5>1, Zenon
      <4> QED BY <2>1, <3>2, <4>2 DEF Newborn
    <3>3. CASE v # t
      <4>1. PICK u \in Live : thr[u].up = v
        BY <1>4, <2>1, <2>4, <3>1, <3>3
      <4> QED BY <2>1, <4>1
    <3> QED BY <3>2, <3>3
  <2> QED BY <2>3, <2>4
<1>9. CASE Settled(t)
  <2> DEFINE p    == thr[t].up
             wake == p # 0 /\ (thr[t].pc = "raise" \/ \A u \in Live \ {t} : thr[u].up # p)
  <2>1. /\ thr[t].stack = <<>> /\ thr[t].pc \in {"body", "raise"} /\ Live' = Live \ {t}
        /\ \A u \in Live' :
             /\ thr'[u].stack = thr[u].stack
             /\ thr'[u].pc = IF wake /\ u = p THEN thr[t].pc ELSE thr[u].pc
             /\ thr'[u].up = IF thr[t].pc = "raise" /\ p # 0 /\ thr[u].up = p THEN 0 ELSE thr[u].up
    BY <1>9 DEF Settled
  <2>2. ASSUME NEW v \in Live', NEW u \in Live', thr'[u].up = v
        PROVE  Lies(Deeper(Head(thr'[v].stack).s), thr'[u].stack)
    <3>1. thr[u].up = v /\ v \in Live /\ u \in Live /\ thr'[v].stack = thr[v].stack /\ thr'[u].stack = thr[u].stack
      BY <1>2, <2>1, <2>2
    <3> QED BY <1>5, <3>1 DEF Top
  <2>3. ASSUME NEW v \in Live', thr'[v].pc = "join" PROVE \E u \in Live' : thr'[u].up = v
    <3>1. ~(wake /\ v = p) /\ thr[v].pc = "join" /\ v \in Live /\ v # 0
      BY <1>2, <2>1, <2>3
    <3>2. CASE v = p
      <4>1. thr[t].pc # "raise" /\ \E u \in Live \ {t} : thr[u].up = p
        BY <3>1, <3>2
      <4> QED BY <2>1, <3>2, <4>1
    <3>3. CASE v # p
      <4>1. PICK u \in Live : thr[u].up = v
        BY <1>4, <3>1
      <4>2. u \in Live' /\ thr[u].up # p
        BY <2>1, <3>3, <4>1
      <4> QED BY <2>1, <4>1, <4>2
    <3> QED BY <3>2, <3>3
  <2> QED BY <2>2, <2>3
<1>10. CASE thr[t].up = 0 /\ Live' = Live \ {t} /\ \A u \in Live' : thr'[u] = thr[u]
  <2>1. ASSUME NEW v \in Live', NEW u \in Live', thr'[u].up = v
        PROVE  Lies(Deeper(Head(thr'[v].stack).s), thr'[u].stack)
    BY <1>5, <1>10, <2>1 DEF Top
  <2>2. ASSUME NEW v \in Live', thr'[v].pc = "join" PROVE \E u \in Live' : thr'[u].up = v
    <3>1. PICK u \in Live : thr[u].up = v
      BY <1>4, <1>10, <2>2
    <3> QED BY <1>2, <1>10, <3>1
  <2> QED BY <2>1, <2>2
<1> QED BY <1>7, <1>8, <1>9, <1>10

LEMMA WaitStep ==
  ASSUME TypesInv, TreeInv, WaitInv, [EngineNext]_engineVars
  PROVE  WaitInv'
<1>0. EngineTypeOK /\ TypesInv'
  BY TypesStep DEF TypesInv
<1>a. ASSUME UNCHANGED <<chain, thr>> PROVE WaitInv'
  <2>1. Live' = Live /\ \A t \in Live : Top(t)' = Top(t) /\ thr'[t] = thr[t]
    BY <1>a DEF Live, Top
  <2>2. \A x : Deeper(x)' = Deeper(x)
    BY <1>a DEF Deeper, StepIds
  <2>3. \A t, u \in Live : thr'[u].up = t => Lies(Deeper(Top(t).s), thr[u].stack)'
    BY <1>a, <2>1, <2>2 DEF WaitInv, Lies
  <2>4. \A t \in Live : thr'[t].pc = "join" => \E u \in Live : thr'[u].up = t
    BY <2>1 DEF WaitInv
  <2> QED BY <2>1, <2>3, <2>4 DEF WaitInv, Lies
<1>1. CASE UNCHANGED engineVars
  BY <1>1, <1>a DEF engineVars
<1>2. CASE Stop
  BY <1>2, <1>a DEF Stop
<1>3. ASSUME NEW t \in Live, Acts(t), ThreadStep(t), Moved(t) PROVE WaitInv'
  <2>1. thr[t].pc # "join" /\ chain' = chain
    BY <1>3, JoinWaits DEF ThreadStep
  <2>2. Live' \subseteq 1 .. MaxThreads
    <3>1. EngineTypeOK'
      BY <1>0 DEF TypesInv
    <3> QED BY <3>1, Zenon DEF EngineTypeOK
  <2>3. RunSettles(t) => thr[t].up = 0
    <3>1. RunSettles(t) => IsMain(t)
      BY <1>0, <1>3, MainSettles
    <3> QED BY <3>1 DEF TreeInv, MainInv, IsMain
  <2> QED BY <1>3, <2>1, <2>2, <2>3, WaitMoves DEF Moved
<1> QED BY <1>1, <1>2, <1>3, TypesStep

\* Whoever waits for branches waits in the end for one that does not wait itself:
\* no set of activations waits only for one another, for any chain, however its
\* parallel steps and sub-chains nest and whatever branches have failed.
THEOREM EngineNobodyWaitsInVain == EngineSpec => []NobodyWaitsInVain
<1>1. ASSUME TypesInv, WaitInv PROVE NobodyWaitsInVain
  <2> SUFFICES ASSUME NEW T \in SUBSET Live, T # {}, \A t \in T, u \in Live : thr[u].up = t => u \in T,
                      \A t \in T : thr[t].pc = "join"
               PROVE  FALSE
    BY DEF NobodyWaitsInVain
  <2>0. EngineTypeOK /\ ShapeInv
    BY <1>1 DEF TypesInv
  <2> DEFINE lv(t) == chain.level[Top(t).s]
             above(t) == {u \in T : lv(u) > lv(t)}
  <2>1. ASSUME NEW t \in T PROVE Top(t).s \in StepIds /\ Top(t).s # Root /\ lv(t) \in Nat
                                 /\ Top(t) = thr[t].stack[1] /\ 1 \in 1 .. Len(thr[t].stack)
    <3>1. thr[t].stack # <<>> /\ Top(t).s # Root
      BY <2>0, <2>1 DEF ShapeInv, PcOK, PcFits, Top
    <3> QED BY <2>0, <3>1, TopFacts, ChainFacts
  <2>2. \A t \in T : \E u \in T : lv(u) > lv(t)
    <3> SUFFICES ASSUME NEW t \in T PROVE \E u \in T : lv(u) > lv(t)
      OBVIOUS
    <3>1. PICK u \in Live : thr[u].up = t
      BY <1>1 DEF WaitInv
    <3>2. u \in T /\ Lies(Deeper(Top(t).s), thr[u].stack)
      BY <1>1, <3>1 DEF WaitInv
    <3>3. Top(u).s \in Deeper(Top(t).s)
      BY <2>1, <3>2 DEF Lies
    <3> QED BY <3>2, <3>3 DEF Deeper
  <2>3. IsFiniteSet(T)
    <3>1. IsFiniteSet(1 .. MaxThreads)
      <4>1. MaxThreads \in Int /\ 1 \in Int
        BY <2>0, ChainFacts
      <4> QED BY <4>1, FS_Interval
    <3>2. T \subseteq 1 .. MaxThreads
      BY <2>0, LiveBound
    <3> QED BY <3>1, <3>2, FS_Subset
  <2> DEFINE Sets == {above(t) : t \in T}
  <2>4. \A t \in T : above(t) \subseteq T
    OBVIOUS
  <2>5. \A t \in T : \E u \in T : above(u) \subseteq above(t) /\ above(u) # above(t)
    <3> SUFFICES ASSUME NEW t \in T PROVE \E u \in T : above(u) \subseteq above(t) /\ above(u) # above(t)
      OBVIOUS
    <3>1. PICK u \in T : lv(u) > lv(t)
      BY <2>2
    <3>2. \A x \in T : lv(x) \in Nat
      BY <2>1
    <3> HIDE DEF lv
    <3>3. above(u) \subseteq above(t)
      BY <3>1, <3>2
    <3>4. u \in above(t) /\ u \notin above(u)
      BY <3>1, <3>2
    <3> QED BY <3>3, <3>4
  <2>6. Sets \subseteq SUBSET T /\ Sets # {}
    BY <2>4
  <2>7. IsWellFoundedOn(StrictSubsetOrdering(T), SUBSET T)
    BY <2>3, FS_StrictSubsetOrderingWellFounded, FS_FiniteSubsetsOfFinite
  <2> HIDE DEF above
  <2>8. PICK S \in Sets : \A R \in Sets : <<R, S>> \notin StrictSubsetOrdering(T)
    <3> HIDE DEF Sets
    <3> QED BY <2>6, <2>7, WFMin
  <2>9. PICK t \in T : S = above(t)
    OBVIOUS
  <2>10. PICK u \in T : above(u) \subseteq above(t) /\ above(u) # above(t)
    BY <2>5
  <2>11. <<above(u), S>> \in StrictSubsetOrdering(T)
    BY <2>4, <2>9, <2>10 DEF StrictSubsetOrdering
  <2> QED BY <2>8, <2>11
<1>2. EngineInit => TypesInv /\ TreeInv /\ WaitInv
  BY TypesInit, TreeInit, WaitInit
<1>3. TypesInv /\ TreeInv /\ WaitInv /\ [EngineNext]_engineVars => (TypesInv /\ TreeInv /\ WaitInv)'
  BY TypesStep, TreeStep, WaitStep
<1> QED BY <1>1, <1>2, <1>3, PTL DEF EngineSpec

-----------------------------------------------------------------------------
(* What the transaction keeps *)

\* The rows of a run are committed together when it settles, and nothing else is
\* ever committed for it: all that memory_write has reported by then if run()
\* returns and no statement of its transaction has failed, and otherwise none.
StoresAllOrNothing ==
  [][/\ stored' # stored => over = "no" /\ over' # "no"
     /\ over = "no" /\ over' # "no" =>
          stored' = IF over' = "returned" /\ tx = "open" THEN reported ELSE {}]_engineVars

\* Until then every step that has reported its row has it in the transaction.
WritesInv == over = "no" => pending = reported /\ stored = {}

\* What a step does to the rows: it settles the run, or it writes one or none.
RowsStep ==
  /\ over' = over /\ stored' = stored
  /\ over = "no" => \/ pending' = pending /\ reported' = reported
                    \/ \E s : pending' = pending \cup {s} /\ reported' = reported \cup {s}

LEMMA RowsMove ==
  ASSUME NEW t \in Live, Acts(t), ~RunSettles(t)
  PROVE  RowsStep
<1>1. CASE LeafAnswers(t)
  <2>1. over' = over /\ stored' = stored
    BY <1>1 DEF LeafAnswers, Still
  <2>2. CASE Kind(t) = "memory_write"
    BY <1>1, <2>1, <2>2 DEF LeafAnswers, RowsStep
  <2>3. CASE Kind(t) # "memory_write"
    BY <1>1, <2>1, <2>3 DEF LeafAnswers, RowsStep
  <2> QED BY <2>2, <2>3
<1>2. CASE StatementFails(t)
  <2>1. over' = over /\ stored' = stored
    BY <1>2 DEF StatementFails, Still
  <2>2. CASE Kind(t) = "memory_write"
    BY <1>2, <2>1, <2>2 DEF StatementFails, RowsStep
  <2>3. CASE Kind(t) # "memory_write"
    BY <1>2, <2>1, <2>3 DEF StatementFails, RowsStep
  <2> QED BY <2>2, <2>3
<1>3. CASE LeafThrows(t)
  BY <1>3 DEF LeafThrows, Still, RowsStep
<1>4. CASE UNCHANGED <<Still, Db>>
  BY <1>4 DEF Still, Db, RowsStep
<1>5. Enter(t) \/ Calls(t) \/ LoopGoesOn(t) \/ BlockDone(t) \/ RetryDone(t) \/ RetryJudged(t)
      \/ Raised(t) \/ SubChainEnds(t) \/ BranchSettles(t) => UNCHANGED <<Still, Db>>
  BY DEF Enter, Calls, LoopGoesOn, BlockDone, RetryDone, RetryJudged, Raised, SubChainEnds, BranchSettles, Still, Db
<1>6. AgentErrs(t) \/ Wakes(t) \/ Approved(t) \/ Denied(t) => UNCHANGED <<Still, Db>>
  BY DEF AgentErrs, Wakes, Approved, Denied, Still, Db
<1> QED BY <1>1, <1>2, <1>3, <1>4, <1>5, <1>6 DEF Acts, Runs, Answers, User

\* How a run settles decides what it has stored.
LEMMA RowsSettle ==
  ASSUME NEW t \in Live, RunSettles(t)
  PROVE  /\ over' \in {"returned", "thrown"} /\ pending' = pending /\ reported' = reported
         /\ stored' = IF over' = "returned" /\ tx = "open" THEN pending ELSE {}
<1>1. thr[t].pc = "raise" \/ thr[t].pc = "body"
  BY DEF RunSettles, BodyDone
<1>2. CASE thr[t].pc = "raise"
  BY <1>2 DEF RunSettles
<1>3. CASE thr[t].pc = "body" /\ tx = "open"
  BY <1>3 DEF RunSettles
<1>4. CASE thr[t].pc = "body" /\ tx # "open"
  BY <1>4 DEF RunSettles
<1> QED BY <1>1, <1>2, <1>3, <1>4

\* The documentation promises that what memory_write reports is stored.  That holds
\* of every chain, and any bound on threads, but for two cases: a statement of the
\* transaction has failed, or the row is one that a branch left behind reports after
\* the run (RunService.executeChain, MemoryAdapter).
THEOREM EngineStoresAllOrNothing == EngineSpec => StoresAllOrNothing
<1> DEFINE Kept == /\ stored' # stored => over = "no" /\ over' # "no"
                   /\ over = "no" /\ over' # "no" =>
                        stored' = IF over' = "returned" /\ tx = "open" THEN reported ELSE {}
<1>1. ASSUME TypesInv, TreeInv, WritesInv, [EngineNext]_engineVars
      PROVE  WritesInv' /\ [Kept]_engineVars
  <2>1. CASE UNCHANGED engineVars
    BY <1>1, <2>1 DEF engineVars, WritesInv
  <2>2. CASE RowsStep
    BY <1>1, <2>2 DEF RowsStep, WritesInv
  <2>3. CASE Stop
    BY <1>1, <2>3 DEF Stop, Db, WritesInv
  <2>4. ASSUME NEW t \in Live, RunSettles(t) PROVE WritesInv' /\ Kept
    <3>1. over = "no"
      <4>1. EngineTypeOK
        BY <1>1 DEF TypesInv
      <4> QED BY <1>1, <2>4, <4>1, MainSettles DEF IsMain
    <3>2. pending = reported /\ stored = {}
      BY <1>1, <3>1 DEF WritesInv
    <3> QED BY <2>4, <3>1, <3>2, RowsSettle DEF WritesInv
  <2>5. ASSUME NEW t \in Live, Acts(t) PROVE RowsStep \/ RunSettles(t)
    BY <2>5, RowsMove
  <2> QED BY <1>1, <2>1, <2>2, <2>3, <2>4, <2>5 DEF EngineNext, Acts
<1>2. EngineInit => TypesInv /\ TreeInv /\ WritesInv
  BY TypesInit, TreeInit DEF EngineInit, WritesInv
<1>3. TypesInv /\ TreeInv /\ WritesInv /\ [EngineNext]_engineVars => (TypesInv /\ TreeInv /\ WritesInv)'
  BY <1>1, TypesStep, TreeStep
<1>4. TypesInv /\ TreeInv /\ WritesInv /\ [EngineNext]_engineVars => [Kept]_engineVars
  BY <1>1
<1> QED BY <1>2, <1>3, <1>4, PTL DEF EngineSpec, StoresAllOrNothing

-----------------------------------------------------------------------------
(* A stop counts down *)

\* What a thread may still do before its next await or its end, once aborted.
Rank(pc) == CASE pc = "raise" -> 0
              [] pc = "enter" -> 1
              [] pc \in {"leaf", "ask", "sleep"} -> 3
              [] pc = "body" -> 7
              [] pc = "join" -> 8

\* And in all: a frame is worth more than a called step that is refused.
Left(th) == 5 * Len(th.stack) + Rank(th.pc)

\* Less is left to do after the step than before, and nobody begins anything.
CountsDown ==
  /\ Live' \subseteq Live
  /\ \A u \in Live' : Left(thr'[u]) <= Left(thr[u])
  /\ \E u \in Live : u \notin Live' \/ Left(thr'[u]) < Left(thr[u])

\* Once the stop is in, every step of the engine ends a thread or leaves it less to
\* do, and starts none.
StopCountsDown == [][aborted => CountsDown]_engineVars

LEMMA RankFacts ==
  ASSUME NEW pc \in Pcs
  PROVE  /\ Rank(pc) \in Nat
         /\ pc = "raise" => Rank(pc) = 0
         /\ pc = "enter" => Rank(pc) = 1
         /\ pc \in {"leaf", "ask", "sleep"} => Rank(pc) = 3
         /\ pc = "body" => Rank(pc) = 7
         /\ pc = "join" => Rank(pc) = 8
BY DEF Rank, Pcs, Awaiting

LEMMA LeftFacts ==
  ASSUME EngineTypeOK, NEW t \in Live
  PROVE  /\ Left(thr[t]) = 5 * Len(thr[t].stack) + Rank(thr[t].pc)
         /\ Left(thr[t]) \in Nat /\ Len(thr[t].stack) \in Nat /\ Rank(thr[t].pc) \in Nat
<1>1. Len(thr[t].stack) \in Nat /\ Rank(thr[t].pc) \in Nat
  BY ThreadFacts, RankFacts
<1> QED BY <1>1 DEF Left

\* A thread goes on with less.
LEMMA GoesLess ==
  ASSUME EngineTypeOK, NEW t \in Live, NEW st, NEW pc, thr' = At(t, st, pc),
         NEW n \in Nat, Len(st) = n, Rank(pc) \in Nat,
         5 * n + Rank(pc) < 5 * Len(thr[t].stack) + Rank(thr[t].pc)
  PROVE  CountsDown
<1>1. Live' = Live /\ (\A u \in Live \ {t} : thr'[u] = thr[u]) /\ thr'[t].stack = st /\ thr'[t].pc = pc
  BY OthersStay DEF Others
<1>2. Left(thr'[t]) = 5 * n + Rank(pc) /\ Left(thr'[t]) \in Nat
  BY <1>1 DEF Left
<1>3. \A u \in Live : Left(thr[u]) \in Nat
  BY LeftFacts
<1>4. Left(thr'[t]) < Left(thr[t])
  BY <1>2, LeftFacts
<1>5. ASSUME NEW u \in Live' PROVE Left(thr'[u]) <= Left(thr[u])
  <2>1. CASE u = t
    BY <1>2, <1>3, <1>4, <2>1
  <2>2. CASE u # t
    <3>1. u \in Live /\ thr'[u] = thr[u]
      BY <1>1, <1>5, <2>2
    <3>2. \A k \in Nat : k <= k
      OBVIOUS
    <3> QED BY <1>3, <3>1, <3>2
  <2> QED BY <2>1, <2>2
<1> QED BY <1>1, <1>4, <1>5 DEF CountsDown

\* As it does when the frame on top is done,
LEMMA PopsLess ==
  ASSUME EngineTypeOK, NEW t \in Live, thr[t].stack # <<>>, NEW pc, thr' = At(t, Pop(t), pc),
         Rank(pc) \in Nat, Rank(pc) < Rank(thr[t].pc) + 5
  PROVE  CountsDown
<1>1. Len(Pop(t)) = Len(thr[t].stack) - 1 /\ Len(thr[t].stack) \in Nat /\ Len(thr[t].stack) >= 1
  BY ThreadFacts, StackTop DEF Pop
<1>2. Rank(thr[t].pc) \in Nat
  BY LeftFacts
<1>3. ASSUME NEW n \in Nat, n >= 1, NEW a \in Nat, NEW b \in Nat, a < b + 5
      PROVE  n - 1 \in Nat /\ 5 * (n - 1) + a < 5 * n + b
  BY <1>3
<1> DEFINE n == Len(thr[t].stack)
           b == Rank(thr[t].pc)
<1>4. n - 1 \in Nat /\ 5 * (n - 1) + Rank(pc) < 5 * n + b
  BY <1>1, <1>2, <1>3
<1> QED BY <1>1, <1>4, GoesLess

\* when a handler or a block returns,
LEMMA ReturnsLess ==
  ASSUME EngineTypeOK, NEW t \in Live, thr[t].stack # <<>>, thr[t].pc \in {"leaf", "ask", "sleep", "body"},
         NEW status, StepReturns(t, Top(t).s, status)
  PROVE  CountsDown
<1> DEFINE pc == "body"
<1>1. pc \in Pcs /\ pc = "body"
  BY DEF Pcs
<1> HIDE DEF pc
<1>2. Rank(pc) = 7
  BY <1>1, RankFacts
<1>3. Rank(thr[t].pc) = 3 \/ Rank(thr[t].pc) = 7
  BY ThreadFacts, RankFacts
<1>4. thr' = At(t, Pop(t), pc)
  BY <1>1 DEF StepReturns
<1> QED BY <1>2, <1>3, <1>4, PopsLess

\* when a step is refused or raises,
LEMMA RaisesLess ==
  ASSUME EngineTypeOK, NEW t \in Live, thr[t].stack # <<>>, NEW pc, pc = "raise", thr' = At(t, Pop(t), pc)
  PROVE  CountsDown
<1>1. Rank(pc) = 0
  BY RankFacts DEF Pcs
<1>2. Rank(thr[t].pc) \in Nat
  BY LeftFacts
<1>3. Rank(pc) \in Nat /\ Rank(pc) < Rank(thr[t].pc) + 5
  BY <1>1, <1>2
<1> QED BY <1>3, PopsLess

LEMMA FailsLess ==
  ASSUME EngineTypeOK, aborted, NEW t \in Live, thr[t].stack # <<>>, NEW fl, StepFails(t, Top(t).s, fl)
  PROVE  CountsDown
<1> DEFINE pc == IF Rethrown(fl, Runner(t)) THEN "raise" ELSE "body"
<1>1. pc = "raise"
  BY DEF Rethrown
<1>2. thr' = At(t, Pop(t), pc)
  BY DEF StepFails
<1> HIDE DEF pc
<1> QED BY <1>1, <1>2, RaisesLess

\* and when the next round is refused.
LEMMA RoundLess ==
  ASSUME EngineTypeOK, NEW t \in Live, thr[t].pc \in {"body", "sleep"}, NEW st, Len(st) = Len(thr[t].stack),
         NEW pc, pc = "raise", thr' = At(t, st, pc)
  PROVE  CountsDown
<1>1. Rank(pc) = 0
  BY RankFacts DEF Pcs
<1>2. Rank(thr[t].pc) = 7 \/ Rank(thr[t].pc) = 3
  BY ThreadFacts, RankFacts
<1>3. Len(thr[t].stack) \in Nat
  BY LeftFacts
<1>4. ASSUME NEW n \in Nat, NEW a, NEW b, a = 0, b = 7 \/ b = 3 PROVE a \in Nat /\ 5 * n + a < 5 * n + b
  BY <1>4
<1> DEFINE n == Len(thr[t].stack)
           b == Rank(thr[t].pc)
<1>5. Rank(pc) \in Nat /\ 5 * n + Rank(pc) < 5 * n + b
  BY <1>1, <1>2, <1>3, <1>4
<1> QED BY <1>3, <1>5, GoesLess

\* The settling of a branch wakes whoever waits, who then has less to do.
LEMMA SettlesLess ==
  ASSUME TypesInv, TreeInv, NEW t \in Live, BranchSettles(t)
  PROVE  CountsDown
<1>0. EngineTypeOK /\ ShapeInv
  BY DEF TypesInv
<1>1. chain' = chain /\ Runners' = Runners
  BY DEF BranchSettles, Still, Runners
<1>2. Settled(t)
  BY <1>0, <1>1, SettlesFit
<1> DEFINE p    == thr[t].up
           wake == p # 0 /\ (thr[t].pc = "raise" \/ \A u \in Live \ {t} : thr[u].up # p)
<1>3. /\ thr[t].pc \in {"body", "raise"} /\ Live' = Live \ {t}
      /\ \A u \in Live' :
           /\ thr'[u].stack = thr[u].stack
           /\ thr'[u].pc = IF wake /\ u = p THEN thr[t].pc ELSE thr[u].pc
  BY <1>2 DEF Settled
<1>4. ASSUME NEW u \in Live' PROVE Left(thr'[u]) <= Left(thr[u])
  <2>1. u \in Live
    BY <1>3, <1>4
  <2>2. Rank(thr'[u].pc) <= Rank(thr[u].pc) /\ Rank(thr'[u].pc) \in Nat
    <3>1. CASE wake /\ u = p
      <4>1. thr[u].pc = "join"
        BY <3>1 DEF TreeInv, JoinInv
      <4>2. Rank(thr[u].pc) = 8
        BY <1>0, <2>1, <4>1, ThreadFacts, RankFacts
      <4>3. Rank(thr[t].pc) = 7 \/ Rank(thr[t].pc) = 0
        BY <1>0, <1>3, ThreadFacts, RankFacts
      <4>4. thr'[u].pc = thr[t].pc
        BY <1>3, <1>4, <3>1
      <4> QED BY <4>2, <4>3, <4>4
    <3>2. CASE ~(wake /\ u = p)
      <4>1. thr'[u].pc = thr[u].pc
        BY <1>3, <1>4, <3>2
      <4>2. Rank(thr[u].pc) \in Nat
        BY <1>0, <2>1, LeftFacts
      <4> QED BY <4>1, <4>2
    <3> QED BY <3>1, <3>2
  <2>3. Len(thr[u].stack) \in Nat /\ Rank(thr[u].pc) \in Nat
    BY <1>0, <2>1, LeftFacts
  <2>4. ASSUME NEW n \in Nat, NEW a \in Nat, NEW b \in Nat, a <= b PROVE 5 * n + a <= 5 * n + b
    BY <2>4
  <2>5. thr'[u].stack = thr[u].stack
    BY <1>3, <1>4
  <2> QED BY <2>2, <2>3, <2>4, <2>5 DEF Left
<1> QED BY <1>3, <1>4 DEF CountsDown

\* The end of the run ends its thread.
LEMMA RunEndsLess ==
  ASSUME EngineTypeOK, NEW t \in Live, RunSettles(t)
  PROVE  CountsDown
<1>1. thr' = Drop(thr, t)
  BY DEF RunSettles
<1>2. Live' = Live \ {t} /\ \A u \in Live' : thr'[u] = thr[u]
  BY <1>1, DropFacts DEF Live
<1>3. \A u \in Live : Left(thr[u]) \in Nat
  BY LeftFacts
<1>4. \A k \in Nat : k <= k
  OBVIOUS
<1>5. \A u \in Live' : Left(thr'[u]) <= Left(thr[u])
  BY <1>2, <1>3, <1>4
<1> QED BY <1>2, <1>5 DEF CountsDown

\* Every step of a thread after the stop.
LEMMA ActsLess ==
  ASSUME TypesInv, TreeInv, aborted, NEW t \in Live, Acts(t)
  PROVE  CountsDown
<1>0. EngineTypeOK /\ PcOK(t)
  BY DEF TypesInv, ShapeInv
<1>1. thr[t].pc \in {"enter", "leaf", "ask", "sleep"} => thr[t].stack # <<>>
  BY <1>0 DEF PcOK, PcFits
<1>2. CASE Enter(t)
  <2> DEFINE pc == "raise"
  <2>1. thr[t].pc = "enter" /\ thr' = At(t, Pop(t), pc)
    BY <1>2 DEF Enter, Refused
  <2>2. pc = "raise"
    OBVIOUS
  <2> HIDE DEF pc
  <2> QED BY <1>0, <1>1, <2>1, <2>2, RaisesLess
<1>3. CASE Calls(t)
  <2> DEFINE f == Top(t)
             a == Frame(Head(f.todo), <<>>, f.r)
             g == [f EXCEPT !.todo = Tail(@)]
             st == <<a, g>> \o Pop(t)
             pc == "enter"
  <2>1. thr[t].pc = "body" /\ thr[t].stack # <<>> /\ thr' = At(t, st, pc)
    BY <1>3 DEF Calls
  <2>2. Pop(t) \in Seq(Frames) /\ Len(Pop(t)) = Len(thr[t].stack) - 1 /\ Len(thr[t].stack) \in Nat
        /\ Len(thr[t].stack) >= 1
    BY <1>0, <2>1, ThreadFacts, StackTop DEF Pop
  <2>3. Len(st) = Len(thr[t].stack) + 1
    <3>1. ASSUME NEW S, NEW q \in Seq(S), NEW x, NEW y, NEW n \in Nat, Len(q) = n - 1
          PROVE  Len(<<x, y>> \o q) = n + 1
      <4>1. <<x, y>> \in Seq({x, y}) /\ Len(<<x, y>>) = 2
        OBVIOUS
      <4>2. <<x, y>> \in Seq({x, y} \cup S) /\ q \in Seq({x, y} \cup S)
        BY <4>1
      <4>3. Len(<<x, y>> \o q) = Len(<<x, y>>) + Len(q)
        BY <4>2
      <4> QED BY <3>1, <4>1, <4>3
    <3> HIDE DEF a, g
    <3> QED BY <2>2, <3>1
  <2>4. pc \in Pcs /\ pc = "enter"
    BY DEF Pcs
  <2> HIDE DEF pc, st
  <2>5. Rank(pc) = 1 /\ Rank(thr[t].pc) = 7
    BY <1>0, <2>1, <2>4, ThreadFacts, RankFacts
  <2>6. ASSUME NEW n \in Nat, NEW x, NEW y, x = 1, y = 7
        PROVE  n + 1 \in Nat /\ x \in Nat /\ 5 * (n + 1) + x < 5 * n + y
    BY <2>6
  <2> DEFINE n == Len(thr[t].stack)
             b == Rank(thr[t].pc)
  <2>7. n + 1 \in Nat /\ Rank(pc) \in Nat /\ 5 * (n + 1) + Rank(pc) < 5 * n + b
    BY <2>2, <2>5, <2>6
  <2> QED BY <1>0, <2>1, <2>3, <2>7, GoesLess
<1>4. CASE LoopGoesOn(t)
  <2> DEFINE b == chain.bodies[Top(t).s][1]
             g == [Top(t) EXCEPT !.todo = b, !.n = @ + 1]
             pc == RoundBegins
  <2>1. thr[t].pc = "body" /\ thr[t].stack # <<>> /\ thr' = At(t, WithTop(t, g), pc)
    BY <1>4 DEF LoopGoesOn, NextRound, BodyDone
  <2>2. pc = "raise"
    BY DEF RoundBegins, Refused
  <2>3. Len(WithTop(t, g)) = Len(thr[t].stack)
    <3>1. Pop(t) \in Seq(Frames) /\ Len(Pop(t)) = Len(thr[t].stack) - 1 /\ Len(thr[t].stack) \in Nat
      BY <1>0, <2>1, ThreadFacts, StackTop DEF Pop
    <3>2. ASSUME NEW S, NEW q \in Seq(S), NEW x, NEW n \in Nat, Len(q) = n - 1
          PROVE  Len(<<x>> \o q) = n
      <4>1. <<x>> \in Seq({x}) /\ Len(<<x>>) = 1
        OBVIOUS
      <4>2. <<x>> \in Seq({x} \cup S) /\ q \in Seq({x} \cup S)
        BY <4>1
      <4>3. Len(<<x>> \o q) = Len(<<x>>) + Len(q)
        BY <4>2
      <4> QED BY <3>2, <4>1, <4>3
    <3> HIDE DEF g
    <3> QED BY <3>1, <3>2 DEF WithTop
  <2> HIDE DEF g, pc
  <2> QED BY <1>0, <2>1, <2>2, <2>3, RoundLess
<1>5. CASE BlockDone(t)
  <2>1. thr[t].pc = "body" /\ thr[t].stack # <<>>
    BY <1>5 DEF BlockDone, BodyDone
  <2>2. PICK status : StepReturns(t, Top(t).s, status)
    BY <1>5 DEF BlockDone, BlockReturns
  <2> QED BY <1>0, <2>1, <2>2, ReturnsLess
<1>6. CASE RetryDone(t)
  <2>1. thr[t].pc = "body" /\ thr[t].stack # <<>>
    BY <1>6 DEF RetryDone, BodyDone
  <2>2. PICK status : StepReturns(t, Top(t).s, status)
    BY <1>6 DEF RetryDone
  <2> QED BY <1>0, <2>1, <2>2, ReturnsLess
<1>7. AttemptFails(t) => \E fl : StepFails(t, Top(t).s, fl)
  <2>1. AttemptFails(t) => StepFails(t, Top(t).s, flag)
    BY DEF AttemptFails
  <2> QED BY <2>1
<1>8. CASE RetryJudged(t)
  <2>1. thr[t].stack # <<>> /\ \E fl : StepFails(t, Top(t).s, fl)
    BY <1>7, <1>8 DEF RetryJudged, BodyDone
  <2> QED BY <1>0, <2>1, FailsLess
<1>9. CASE Raised(t)
  <2>1. thr[t].stack # <<>> /\ \E fl : StepFails(t, Top(t).s, fl)
    BY <1>7, <1>9 DEF Raised
  <2> QED BY <1>0, <2>1, FailsLess
<1>10. CASE SubChainEnds(t)
  <2>1. thr[t].stack # <<>> /\ thr' = At(t, Pop(t), thr[t].pc)
    BY <1>10 DEF SubChainEnds
  <2>2. Rank(thr[t].pc) \in Nat
    BY <1>0, LeftFacts
  <2>3. Rank(thr[t].pc) < Rank(thr[t].pc) + 5
    BY <2>2
  <2> QED BY <1>0, <2>1, <2>2, <2>3, PopsLess
<1>11. CASE LeafAnswers(t) \/ AgentErrs(t) \/ StatementFails(t)
  <2>1. thr[t].pc = "leaf"
    BY <1>11 DEF LeafAnswers, AgentErrs, StatementFails, Answerable
  <2>2. PICK status : StepReturns(t, Top(t).s, status)
    BY <1>11 DEF LeafAnswers, AgentErrs, StatementFails
  <2> QED BY <1>0, <1>1, <2>1, <2>2, ReturnsLess
<1>12. CASE LeafThrows(t) \/ Denied(t)
  <2>1. thr[t].pc \in {"leaf", "ask"} /\ StepFails(t, Top(t).s, flag)
    BY <1>12 DEF LeafThrows, Denied, Answerable
  <2> QED BY <1>0, <1>1, <2>1, FailsLess
<1>13. CASE Wakes(t)
  <2> DEFINE pc == RoundBegins
  <2>1. thr[t].pc = "sleep" /\ thr' = At(t, thr[t].stack, pc)
    BY <1>13 DEF Wakes
  <2>2. pc = "raise"
    BY DEF RoundBegins, Refused
  <2> HIDE DEF pc
  <2> QED BY <1>0, <2>1, <2>2, RoundLess
<1>14. ~Approved(t)
  BY DEF Approved
<1> QED BY <1>0, <1>2, <1>3, <1>4, <1>5, <1>6, <1>8, <1>9, <1>10, <1>11, <1>12, <1>13, <1>14,
           SettlesLess, RunEndsLess DEF Acts, Runs, Answers, User

\* A stop has an end: with five for each of its frames, and what its pc is worth,
\* every thread counts down from the stop on and none begins, so that only so many
\* steps are left of the run and of the branches it has left behind.  (checkAbort,
\* and the catch of runStep, which throws on once aborted)
THEOREM EngineStopCountsDown == EngineSpec => StopCountsDown
<1>1. ASSUME TypesInv, TreeInv, [EngineNext]_engineVars PROVE [aborted => CountsDown]_engineVars
  <2> SUFFICES ASSUME ~UNCHANGED engineVars, aborted PROVE CountsDown
    OBVIOUS
  <2>1. ~Stop
    BY DEF Stop
  <2> QED BY <1>1, <2>1, ActsLess DEF EngineNext, Acts
<1>2. EngineInit => TypesInv /\ TreeInv
  BY TypesInit, TreeInit
<1>3. TypesInv /\ TreeInv /\ [EngineNext]_engineVars => (TypesInv /\ TreeInv)'
  BY TypesStep, TreeStep
<1> QED BY <1>1, <1>2, <1>3, PTL DEF EngineSpec, StopCountsDown

=============================================================================
