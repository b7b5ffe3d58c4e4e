---------------------------- MODULE MemoryStore ----------------------------
(***************************************************************************)
(* The long-term memory: the rows of the vector tables (memory/adapter.ts) *)
(* and the requests that work on them (routes/memory.ts, the memory tools, *)
(* the automatic write at the end of a run).                               *)
(*                                                                         *)
(* A request runs in a transaction of its own at READ COMMITTED, where     *)
(* every statement sees what has been committed before it, and updated     *)
(* rows stay locked to the end.  The statements of a request from its      *)
(* first write to the commit are therefore one action; a SELECT before it, *)
(* whose result the write uses, is an action of its own, with a call to    *)
(* the embedding provider possibly in between.                             *)
(***************************************************************************)
EXTENDS Naturals, FiniteSets

CONSTANTS MaxRows,      \* bound: rows ever inserted
          MaxRequests,  \* bound: requests ever made
          Namespaces, Texts,
          Clients       \* requests and runs in flight at once

ASSUME MemoryAssumption == MaxRows \in Nat /\ MaxRequests \in Nat

VARIABLES rows,   \* the rows, by id
          used,   \* number of ids given out
          served, \* number of requests begun
          job     \* what each client has read and is about to write

vars == <<rows, used, served, job>>

\* Ids are uuids: never used again, and here in the order of the inserts.
Entries == 1 .. MaxRows
Nobody  == 0

Statuses == {"unconfirmed", "confirmed", "superseded"}
MaybeId  == Entries \cup {Nobody}
Row == [ns: Namespaces, text: Texts, status: Statuses, by: MaybeId,
        deleted: BOOLEAN, from: SUBSET Entries]

Present  == DOMAIN rows
Idle     == [op |-> "idle"]
Busy(c, op) == job[c].op = op
Begins   == served < MaxRequests /\ served' = served + 1
Free(c)  == Busy(c, "idle") /\ Begins
Done(c)  == job' = [job EXCEPT ![c] = Idle]

\* What search returns, until it expires.  Every write and edit sets the time
\* to live anew, so that any row may have one and have outlived it.
Visible(r) == ~r.deleted /\ r.by = Nobody

Init ==
  /\ rows = [e \in {} |-> Nobody]
  /\ used = 0
  /\ served = 0
  /\ job = [c \in Clients |-> Idle]

-----------------------------------------------------------------------------
(* writeDocuments *)

Duplicates(ns, text) ==
  {e \in Present : rows[e].ns = ns /\ rows[e].text = text /\ ~rows[e].deleted}

\* The SELECT of a write: a live entry of the same text, if there is one.
Selects(c, ns, text, supersedes, from) ==
  LET found == Duplicates(ns, text) IN
  \E hit \in IF found = {} THEN {Nobody} ELSE found :
    job' = [job EXCEPT ![c] = [op |-> "write", ns |-> ns, text |-> text,
                               hit |-> hit, supersedes |-> supersedes, from |-> from]]

StartWrite(c) ==
  /\ Free(c)
  /\ \E ns \in Namespaces, text \in Texts, old \in 0 .. used :
       Selects(c, ns, text, old, {})
  /\ UNCHANGED <<rows, used>>

\* markSuperseded: any entry that is not deleted, in any namespace.
Marked(rs, old, new) ==
  IF old \in DOMAIN rs \ {new} /\ ~rs[old].deleted
  THEN [rs EXCEPT ![old].by = new, ![old].status = "superseded"]
  ELSE rs

\* Mutant: the refresh brings the row back, as the upsert once did.
RefreshedAlive(e) == [rows EXCEPT ![e].deleted = FALSE]

\* The refresh keeps status, successor, derivation and deletion.
Refreshed(e) == rows

Inserted(e, j) == [x \in Present \cup {e} |->
  IF x # e THEN rows[x]
  ELSE [ns |-> j.ns, text |-> j.text, status |-> "unconfirmed", by |-> Nobody,
        deleted |-> FALSE, from |-> j.from]]

\* The UPDATE or INSERT, and the commit.
FinishWrite(c) ==
  LET j == job[c] IN
  /\ Busy(c, "write")
  /\ \/ /\ j.hit \in Present
        /\ rows' = Marked(Refreshed(j.hit), j.supersedes, j.hit)
        /\ UNCHANGED used
     \/ /\ j.hit = Nobody
        /\ used < MaxRows
        /\ used' = used + 1
        /\ rows' = Marked(Inserted(used', j), j.supersedes, used')
  /\ Done(c)
  /\ UNCHANGED served

-----------------------------------------------------------------------------
(* A run with memory: it searches first and stores its answer last *)

RunSearches(c) ==
  /\ Free(c)
  /\ \E hits \in SUBSET {e \in Present : Visible(rows[e])} :
       hits # {} /\ job' = [job EXCEPT ![c] = [op |-> "run", hits |-> hits]]
  /\ UNCHANGED <<rows, used>>

RunStores(c) ==
  /\ Busy(c, "run")
  /\ \E ns \in Namespaces, text \in Texts : Selects(c, ns, text, Nobody, job[c].hits)
  /\ UNCHANGED <<rows, used, served>>

-----------------------------------------------------------------------------
(* setStatus *)

StartStatus(c) ==
  /\ Free(c)
  /\ \E e \in Present, to \in {"unconfirmed", "confirmed"} :
       /\ Visible(rows[e])
       /\ job' = [job EXCEPT ![c] = [op |-> "status", id |-> e, to |-> to]]
  /\ UNCHANGED <<rows, used>>

\* The condition of the UPDATE, which looks again.
StillCurrent(e) == e \in Present /\ ~rows[e].deleted /\ rows[e].by = Nobody

FinishStatus(c) ==
  /\ Busy(c, "status")
  /\ rows' = IF StillCurrent(job[c].id)
             THEN [rows EXCEPT ![job[c].id].status = job[c].to] ELSE rows
  /\ Done(c)
  /\ UNCHANGED <<used, served>>

-----------------------------------------------------------------------------
(* updateDocument: the console, which may restore, and the memory-update tool *)

\* What is not in the patch is written back as it was read.
StartUpdate(c) ==
  /\ Free(c)
  /\ \E e \in Present, restore \in BOOLEAN :
     \E ns \in Namespaces, text \in Texts :
       job' = [job EXCEPT ![c] = [op |-> "update", id |-> e, restore |-> restore,
                                  ns |-> ns, text |-> text]]
  /\ UNCHANGED <<rows, used>>

\* Compares with the text that is stored now.
Decayed(r, j) == IF r.status = "confirmed" /\ r.text # j.text THEN "unconfirmed" ELSE r.status

Patched(r, j) ==
  LET edited == [r EXCEPT !.ns = j.ns, !.text = j.text] IN
  IF j.restore THEN [edited EXCEPT !.deleted = FALSE, !.by = Nobody, !.status = "unconfirmed"]
               ELSE [edited EXCEPT !.status = Decayed(r, j)]

FinishUpdate(c) ==
  LET j == job[c] IN
  /\ Busy(c, "update")
  /\ rows' = IF j.id \in Present THEN [rows EXCEPT ![j.id] = Patched(@, j)] ELSE rows
  /\ Done(c)
  /\ UNCHANGED <<used, served>>

\* The provider or the database fails, or the row an UPDATE returns is gone.
GivesUp(c) ==
  /\ job[c] # Idle
  /\ Done(c)
  /\ UNCHANGED <<rows, used, served>>

-----------------------------------------------------------------------------
(* Deletions, each in one transaction *)

\* Mutant: the propagation stops after the first round.
OneRound == 1

\* propagateDeletion: in each round the live rows derived from the last ones.
MaxRounds == 10

Quoting(S, gone) ==
  {e \in Present \ gone : ~rows[e].deleted /\ rows[e].from \cap S # {}}
Derived(S) ==
  LET Round(r) == LET next == Quoting(r.last, r.all) IN [last |-> next, all |-> r.all \cup next]
      round[n \in 0 .. MaxRounds] ==
        IF n = 0 THEN [last |-> S, all |-> S] ELSE Round(round[n - 1])
  IN round[MaxRounds].all

\* deleteDocuments and deleteDocumentById, always called with hard = false.
Delete ==
  /\ Begins
  /\ \E e \in Present :
       /\ ~rows[e].deleted
       /\ \E gone \in {Derived({e}), Derived(Duplicates(rows[e].ns, rows[e].text))} :
            rows' = [x \in Present |->
                       IF x \in gone THEN [rows[x] EXCEPT !.deleted = TRUE] ELSE rows[x]]
  /\ UNCHANGED <<used, job>>

Without(S) == [e \in Present \ S |-> rows[e]]

\* Mutant: the edges to what was removed stay.
EdgesKept(rs, S) == rs

\* clearSupersededEdges
Cleared(rs, S) == [e \in DOMAIN rs |->
  IF rs[e].by \in S THEN [rs[e] EXCEPT !.by = Nobody, !.status = "unconfirmed"] ELSE rs[e]]

\* deleteNamespaces: neither the edges nor what was derived.
DeleteNamespace ==
  /\ Begins
  /\ \E ns \in Namespaces : rows' = Without({e \in Present : rows[e].ns = ns})
  /\ UNCHANGED <<used, job>>

\* Directory ingest removes the chunks of a file, then writes the new ones.
IngestReplaces(c) ==
  /\ Free(c)
  /\ \E ns \in Namespaces : \E S \in SUBSET {e \in Present : rows[e].ns = ns} :
       /\ rows' = Without(S)
       /\ job' = [job EXCEPT ![c] = [op |-> "ingest", ns |-> ns]]
  /\ UNCHANGED used

IngestStores(c) ==
  /\ Busy(c, "ingest")
  /\ \E text \in Texts : Selects(c, job[c].ns, text, Nobody, {})
  /\ UNCHANGED <<rows, used, served>>

CleanupExpired ==
  /\ Begins
  /\ \E S \in SUBSET Present : rows' = Cleared(Without(S), S)
  /\ UNCHANGED <<used, job>>

\* Mutant: a confirmed row survives before a live one.
RankConfirmed(r) == (IF r.status = "confirmed" THEN 4 ELSE 0)
                    + (IF r.deleted THEN 0 ELSE 2) + (IF r.by = Nobody THEN 1 ELSE 0)

\* Which of identical rows survives: live, then current, then confirmed; the
\* class and the dates are left open.
Rank(r) == (IF r.deleted THEN 0 ELSE 4) + (IF r.by = Nobody THEN 2 ELSE 0)
           + (IF r.status = "confirmed" THEN 1 ELSE 0)

Twins(e) == {x \in Present : rows[x].ns = rows[e].ns /\ rows[x].text = rows[e].text}

CleanupDuplicates ==
  /\ Begins
  /\ \E S \in SUBSET Present :
       /\ \A e \in Present : Cardinality(Twins(e) \ S) = 1
       /\ \A e \in Present \ S : \A x \in Twins(e) : Rank(rows[x]) <= Rank(rows[e])
       /\ rows' = Cleared(Without(S), S)
  /\ UNCHANGED <<used, job>>

-----------------------------------------------------------------------------
Request(c) ==
  \/ StartWrite(c) \/ FinishWrite(c) \/ RunSearches(c) \/ RunStores(c)
  \/ StartStatus(c) \/ FinishStatus(c) \/ StartUpdate(c) \/ FinishUpdate(c)
  \/ IngestReplaces(c) \/ IngestStores(c) \/ GivesUp(c)

Maintenance == Delete \/ DeleteNamespace \/ CleanupExpired \/ CleanupDuplicates

Next == (\E c \in Clients : Request(c)) \/ Maintenance

Spec == Init /\ [][Next]_vars

-----------------------------------------------------------------------------
(* Properties *)

Given == 1 .. used
Jobs ==
  {Idle}
  \cup [op: {"write"}, ns: Namespaces, text: Texts, hit: Given \cup {Nobody},
        supersedes: Given \cup {Nobody}, from: SUBSET Given]
  \cup [op: {"run"}, hits: SUBSET Given]
  \cup [op: {"status"}, id: Given, to: {"unconfirmed", "confirmed"}]
  \cup [op: {"update"}, id: Given, restore: BOOLEAN, ns: Namespaces, text: Texts]
  \cup [op: {"ingest"}, ns: Namespaces]

\* A row points at rows that were inserted, whether they still exist or not:
\* at another one as its successor, at older ones as what it quotes.
TypeOK ==
  /\ used \in 0 .. MaxRows /\ served \in 0 .. MaxRequests
  /\ rows \in [Present -> Row] /\ Present \subseteq Given
  /\ \A e \in Present : rows[e].by \in (0 .. used) \ {e} /\ rows[e].from \subseteq 1 .. e - 1
  /\ job \in [Clients -> Jobs]

\* The status says superseded exactly when a successor is recorded, however
\* status changes, edits, writes and clean-ups interleave: the search looks at
\* the edge, the interface at the status.
StatusAndEdgeAgree ==
  \A e \in Present : rows[e].status = "superseded" <=> rows[e].by # Nobody

\* Every entry lives the life that EntryLifecycle allows it.
Lives == [e \in Entries |->
  IF e > used THEN [phase |-> "unborn"]
  ELSE IF e \notin Present THEN [phase |-> "gone"]
  ELSE [phase |-> rows[e].status, by |-> rows[e].by, deleted |-> rows[e].deleted,
        wording |-> rows[e].text]]
Asked == {e \in Entries : \E c \in Clients : Busy(c, "update") /\ job[c].id = e /\ job[c].restore}
Life == INSTANCE EntryLifecycle WITH Wordings <- Texts, entry <- Lives, asked <- Asked
ImplementsLifecycle == Life!Spec

\* Only the statements that remove rows wholesale leave an entry hidden behind
\* a successor that no longer exists; the clean-ups clear the edges they cut.
Dangling(rs) == {e \in DOMAIN rs : rs[e].by \notin DOMAIN rs \cup {Nobody}}
NoEdgeLeftBehind ==
  [][\/ Dangling(rows') \subseteq Dangling(rows)
     \/ DeleteNamespace
     \/ \E c \in Clients : IngestReplaces(c)]_vars

\* When an entry is deleted, everything that quotes it is deleted with it, and
\* everything that quotes that.
DeletionTakesQuotes ==
  [][\A e, q \in Present \cap DOMAIN rows' :
       rows'[e].deleted /\ ~rows[e].deleted /\ e \in rows[q].from => rows'[q].deleted]_vars

\* The clean-up of duplicates takes no text out of sight, and no confirmation
\* of a text that can be seen.
DuplicatesKeepTheBest ==
  [][CleanupDuplicates => \A e \in Present : Visible(rows[e]) =>
       \E x \in DOMAIN rows' :
         /\ rows'[x].ns = rows[e].ns /\ rows'[x].text = rows[e].text /\ Visible(rows'[x])
         /\ rows[e].status = "confirmed" => rows'[x].status = "confirmed"]_vars
=============================================================================
