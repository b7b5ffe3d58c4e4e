------------------------ MODULE MemoryStoreProofs ------------------------
(***************************************************************************)
(* Proofs about what an agent is told of earlier runs.  The memory store:  *)
(* the status of a row and its edge agree, and every entry keeps to        *)
(* EntryLifecycle, for any number of entries, texts, namespaces and        *)
(* clients.  The rolling summary: the summary and its counter are one      *)
(* statement and nothing falls between summary and tail, for any number of *)
(* runs and messages.                                                      *)
(***************************************************************************)
EXTENDS MemoryStore, RollingSummary, FiniteSetTheorems, WellFoundedInduction, TLAPS

\* Rows of which at most u were ever inserted: the part of the invariant
\* that the operators on rows preserve one by one.
RowsOK(rs, u) ==
  /\ rs \in [DOMAIN rs -> Row]
  /\ DOMAIN rs \subseteq 1 .. u
  /\ \A e \in DOMAIN rs :
       /\ rs[e].by \in (0 .. u) \ {e}
       /\ rs[e].from \subseteq 1 .. e - 1
       /\ rs[e].status = "superseded" <=> rs[e].by # Nobody

\* The inductive invariant.
IInv == TypeOK /\ StatusAndEdgeAgree

\* The invariant says of the rows what RowsOK says.
LEMMA InvRows == IInv => RowsOK(rows, used)
BY DEF IInv, TypeOK, StatusAndEdgeAgree, RowsOK, Present, Given

\* markSuperseded keeps the rows sound when the successor has been inserted.
LEMMA MarkedOK ==
  ASSUME NEW rs, NEW u \in 0 .. MaxRows, RowsOK(rs, u), NEW old, NEW new \in 1 .. u
  PROVE  RowsOK(Marked(rs, old, new), u) /\ DOMAIN Marked(rs, old, new) = DOMAIN rs
<1>1. CASE old \in DOMAIN rs \ {new} /\ ~rs[old].deleted
  <2> DEFINE ms == [rs EXCEPT ![old].by = new, ![old].status = "superseded"]
  <2>1. Marked(rs, old, new) = ms
    BY <1>1 DEF Marked
  <2>2. DOMAIN ms = DOMAIN rs /\ \A e \in DOMAIN rs \ {old} : ms[e] = rs[e]
    OBVIOUS
  <2>3. ms[old] = [rs[old] EXCEPT !.by = new, !.status = "superseded"]
    BY <1>1 DEF RowsOK
  <2>4. rs[old] \in Row
    BY <1>1 DEF RowsOK
  <2> HIDE DEF ms
  <2>5. ms[old] \in Row /\ ms[old].by = new /\ ms[old].from = rs[old].from /\ ms[old].status = "superseded"
    <3>1. new \in MaybeId
      BY MemoryAssumption DEF MaybeId, Entries
    <3>2. ASSUME NEW r \in Row
          PROVE  LET q == [r EXCEPT !.by = new, !.status = "superseded"] IN
                 q \in Row /\ q.by = new /\ q.from = r.from /\ q.status = "superseded"
      BY <3>1 DEF Row, Statuses
    <3> QED
      BY <2>3, <2>4, <3>2
  <2>7. ms = [e \in DOMAIN ms |-> ms[e]]
    BY DEF ms
  <2>6. ms \in [DOMAIN ms -> Row]
    BY <2>2, <2>5, <2>7 DEF RowsOK
  <2> QED
    BY <1>1, <2>1, <2>2, <2>5, <2>6 DEF RowsOK, Nobody
<1>2. CASE ~(old \in DOMAIN rs \ {new} /\ ~rs[old].deleted)
  BY <1>2 DEF Marked
<1> QED
  BY <1>1, <1>2

\* clearSupersededEdges keeps the rows sound, whatever was removed.
LEMMA ClearedOK ==
  ASSUME NEW rs, NEW u \in 0 .. MaxRows, RowsOK(rs, u), NEW S
  PROVE  RowsOK(Cleared(rs, S), u)
<1> DEFINE cs == Cleared(rs, S)
<1>1. DOMAIN cs = DOMAIN rs
  BY DEF Cleared
<1>2. ASSUME NEW e \in DOMAIN rs
      PROVE  /\ cs[e] \in Row /\ cs[e].by \in (0 .. u) \ {e} /\ cs[e].from \subseteq 1 .. e - 1
             /\ cs[e].status = "superseded" <=> cs[e].by # Nobody
  <2>1. rs[e] \in Row /\ e \in 1 .. u
    BY DEF RowsOK
  <2>2. CASE rs[e].by \in S
    <3>1. cs[e] = [rs[e] EXCEPT !.by = Nobody, !.status = "unconfirmed"]
      BY <2>2 DEF Cleared
    <3>2. cs[e] \in Row /\ cs[e].by = Nobody /\ cs[e].from = rs[e].from /\ cs[e].status = "unconfirmed"
      BY <3>1, <2>1 DEF Row, MaybeId, Statuses
    <3> QED
      BY <3>2, <2>1 DEF RowsOK, Nobody
  <2>3. CASE rs[e].by \notin S
    BY <2>3, <2>1 DEF Cleared, RowsOK
  <2> QED
    BY <2>2, <2>3
<1>3. cs \in [DOMAIN cs -> Row]
  <2>1. cs = [e \in DOMAIN rs |-> cs[e]]
    BY DEF Cleared
  <2> QED
    BY <2>1, <1>1, <1>2
<1>4. cs = Cleared(rs, S)
  OBVIOUS
<1> HIDE DEF cs
<1>5. RowsOK(cs, u)
  BY <1>1, <1>2, <1>3 DEF RowsOK
<1> QED
  BY <1>4, <1>5

\* Removing rows keeps the others sound.
LEMMA WithoutOK ==
  ASSUME IInv, NEW S
  PROVE  RowsOK(Without(S), used)
<1>1. RowsOK(rows, used)
  BY InvRows
<1>2. DOMAIN Without(S) = DOMAIN rows \ S /\ \A e \in DOMAIN rows \ S : Without(S)[e] = rows[e]
  BY DEF Without, Present
<1>3. Without(S) \in [DOMAIN Without(S) -> Row]
  BY <1>1 DEF Without, Present, RowsOK
<1> QED
  BY <1>1, <1>2, <1>3 DEF RowsOK

\* A row that is inserted with the next id, quoting older ones, is sound.
LEMMA InsertedOK ==
  ASSUME IInv, used < MaxRows, NEW j, j.ns \in Namespaces, j.text \in Texts,
         j.from \subseteq 1 .. used
  PROVE  RowsOK(Inserted(used + 1, j), used + 1)
<1> DEFINE e == used + 1
           r == [ns |-> j.ns, text |-> j.text, status |-> "unconfirmed", by |-> Nobody,
                 deleted |-> FALSE, from |-> j.from]
<1>1. RowsOK(rows, used) /\ used \in 0 .. MaxRows
  BY InvRows DEF IInv, TypeOK
<1>2. r \in Row
  BY <1>1, MemoryAssumption DEF Row, Statuses, MaybeId, Nobody, Entries
<1>3. DOMAIN Inserted(e, j) = DOMAIN rows \cup {e}
  BY DEF Inserted, Present
<1>4. e \notin DOMAIN rows
  BY <1>1 DEF RowsOK
<1>5. \A x \in DOMAIN rows : Inserted(e, j)[x] = rows[x]
  BY <1>4 DEF Inserted, Present
<1>6. Inserted(e, j)[e] = r
  BY <1>4 DEF Inserted, Present
<1>7. Inserted(e, j) = [x \in DOMAIN Inserted(e, j) |-> Inserted(e, j)[x]]
  BY DEF Inserted
<1>8. r.by = Nobody /\ r.from = j.from /\ r.status = "unconfirmed"
  OBVIOUS
<1> HIDE DEF r
<1>9. Inserted(e, j) \in [DOMAIN Inserted(e, j) -> Row]
  BY <1>1, <1>2, <1>3, <1>5, <1>6, <1>7 DEF RowsOK
<1> QED
  BY <1>1, <1>3, <1>5, <1>6, <1>8, <1>9 DEF RowsOK, Nobody

\* An edit leaves the row sound, and a restored one has no successor.
LEMMA PatchedOK ==
  ASSUME NEW r \in Row, r.status = "superseded" <=> r.by # Nobody,
         NEW j, j.ns \in Namespaces, j.text \in Texts, j.restore \in BOOLEAN
  PROVE  /\ Patched(r, j) \in Row
         /\ Patched(r, j).by \in {r.by, Nobody} /\ Patched(r, j).from = r.from
         /\ Patched(r, j).status = "superseded" <=> Patched(r, j).by # Nobody
<1> DEFINE edited == [r EXCEPT !.ns = j.ns, !.text = j.text]
<1>1. /\ edited \in Row /\ edited.by = r.by /\ edited.from = r.from /\ edited.status = r.status
  BY DEF Row
<1> HIDE DEF edited
<1>2. CASE j.restore
  <2>1. Patched(r, j) = [edited EXCEPT !.deleted = FALSE, !.by = Nobody, !.status = "unconfirmed"]
    BY <1>2 DEF Patched, edited
  <2> QED
    BY <2>1, <1>1 DEF Row, MaybeId, Statuses
<1>3. CASE ~j.restore
  <2>1. Patched(r, j) = [edited EXCEPT !.status = Decayed(r, j)]
    BY <1>3 DEF Patched, edited
  <2>2. Decayed(r, j) \in Statuses /\ (Decayed(r, j) = "superseded" <=> r.status = "superseded")
    BY DEF Decayed, Statuses, Row
  <2> QED
    BY <2>1, <2>2, <1>1 DEF Row
<1> QED
  BY <1>2, <1>3

\* Changing one row into a sound one keeps the rows sound.
LEMMA OneRowOK ==
  ASSUME IInv, NEW e \in DOMAIN rows, NEW r \in Row,
         r.by \in {rows[e].by, Nobody}, r.from = rows[e].from,
         r.status = "superseded" <=> r.by # Nobody
  PROVE  RowsOK([rows EXCEPT ![e] = r], used)
<1>1. RowsOK(rows, used) /\ used \in 0 .. MaxRows
  BY InvRows DEF IInv, TypeOK
<1> DEFINE rs == [rows EXCEPT ![e] = r]
<1>2. DOMAIN rs = DOMAIN rows /\ rs[e] = r /\ \A x \in DOMAIN rows \ {e} : rs[x] = rows[x]
  OBVIOUS
<1>3. rs \in [DOMAIN rs -> Row]
  BY <1>1 DEF RowsOK
<1>4. r.by \in (0 .. used) \ {e} /\ r.from \subseteq 1 .. e - 1
  BY <1>1 DEF RowsOK, Nobody
<1>5. rs = [rows EXCEPT ![e] = r]
  OBVIOUS
<1> HIDE DEF rs
<1>6. RowsOK(rs, used)
  BY <1>1, <1>2, <1>3, <1>4 DEF RowsOK
<1> QED
  BY <1>5, <1>6

\* What a SELECT records is a job of the type invariant.
LEMMA SelectedOK ==
  ASSUME IInv, NEW c \in Clients, NEW ns \in Namespaces, NEW text \in Texts,
         NEW old \in 0 .. used, NEW from \in SUBSET (1 .. used),
         Selects(c, ns, text, old, from)
  PROVE  job' \in [Clients -> Jobs]
<1>1. PICK hit \in {Nobody} \cup Duplicates(ns, text) :
        job' = [job EXCEPT ![c] = [op |-> "write", ns |-> ns, text |-> text,
                                   hit |-> hit, supersedes |-> old, from |-> from]]
  BY DEF Selects
<1>2. hit \in Given \cup {Nobody}
  BY <1>1 DEF IInv, TypeOK, Duplicates
<1>3. old \in Given \cup {Nobody} /\ from \in SUBSET Given
  BY DEF IInv, TypeOK, Given, Nobody
<1>4. job'[c] \in Jobs /\ job' = [job EXCEPT ![c] = job'[c]]
  BY <1>1, <1>2, <1>3 DEF IInv, TypeOK, Jobs
<1> QED
  BY <1>4 DEF IInv, TypeOK

\* More ids given out, and every job stays one.
LEMMA JobsGrow ==
  ASSUME used \in Nat, used' \in {used, used + 1}
  PROVE  Jobs \subseteq Jobs'
<1>1. Given \subseteq Given'
  BY DEF Given
<1> QED
  BY <1>1 DEF Jobs

\* Sound rows and sound jobs are the invariant.
LEMMA FromParts ==
  ASSUME used' \in 0 .. MaxRows, served' \in 0 .. MaxRequests,
         RowsOK(rows', used'), job' \in [Clients -> Jobs']
  PROVE  IInv'
BY DEF IInv, TypeOK, StatusAndEdgeAgree, RowsOK, Present, Given

-----------------------------------------------------------------------------
(* The invariant, action by action *)

\* A step that touches neither rows nor ids, and leaves a job.
LEMMA JobStep ==
  ASSUME IInv, UNCHANGED <<rows, used>>, served' \in 0 .. MaxRequests, job' \in [Clients -> Jobs]
  PROVE  IInv'
<1>1. RowsOK(rows', used') /\ used' \in 0 .. MaxRows
  BY InvRows DEF IInv, TypeOK
<1>2. Jobs' = Jobs
  BY DEF Jobs, Given
<1> QED
  BY <1>1, <1>2, FromParts

\* A step that ends the job of a client and keeps the ids.
LEMMA DoneStep ==
  ASSUME IInv, NEW c \in Clients, Done(c), UNCHANGED <<used, served>>, RowsOK(rows', used)
  PROVE  IInv'
<1>1. Jobs' = Jobs /\ used' \in 0 .. MaxRows /\ served' \in 0 .. MaxRequests
  BY DEF Jobs, Given, IInv, TypeOK
<1>2. job' \in [Clients -> Jobs]
  BY DEF IInv, TypeOK, Done, Jobs
<1> QED
  BY <1>1, <1>2, FromParts

\* A clean-up or deletion: only the rows change, and the count of requests.
LEMMA RowsStep ==
  ASSUME IInv, Begins, UNCHANGED <<used, job>>, RowsOK(rows', used)
  PROVE  IInv'
<1>1. Jobs' = Jobs /\ used' \in 0 .. MaxRows /\ served' \in 0 .. MaxRequests
  BY MemoryAssumption DEF Jobs, Given, IInv, TypeOK, Begins
<1> QED
  BY <1>1, FromParts DEF IInv, TypeOK

LEMMA StartWriteOK == ASSUME IInv, NEW c \in Clients, StartWrite(c) PROVE IInv'
<1>1. PICK ns \in Namespaces, text \in Texts, old \in 0 .. used : Selects(c, ns, text, old, {})
  BY DEF StartWrite
<1>2. job' \in [Clients -> Jobs]
  BY <1>1, SelectedOK
<1>3. served' \in 0 .. MaxRequests
  BY MemoryAssumption DEF StartWrite, Free, Begins, IInv, TypeOK
<1> QED
  BY <1>2, <1>3, JobStep DEF StartWrite

LEMMA FinishWriteOK == ASSUME IInv, NEW c \in Clients, FinishWrite(c) PROVE IInv'
<1> DEFINE j == job[c]
<1>1. /\ j.ns \in Namespaces /\ j.text \in Texts /\ j.from \subseteq 1 .. used
      /\ j.hit \in 0 .. used
  BY DEF FinishWrite, Busy, IInv, TypeOK, Jobs, Idle, Given, Nobody
<1>2. RowsOK(rows, used) /\ used \in 0 .. MaxRows /\ used \in Nat
  BY InvRows DEF IInv, TypeOK
<1>3. CASE j.hit \in Present /\ rows' = Marked(Refreshed(j.hit), j.supersedes, j.hit) /\ used' = used
  <2>1. j.hit \in 1 .. used
    BY <1>3, <1>2 DEF Present, RowsOK
  <2>2. RowsOK(rows', used)
    BY <1>2, <1>3, <2>1, MarkedOK DEF Refreshed
  <2> QED
    BY <2>2, <1>3, DoneStep DEF FinishWrite
<1>4. CASE used < MaxRows /\ used' = used + 1
           /\ rows' = Marked(Inserted(used', j), j.supersedes, used')
  <2>1. RowsOK(Inserted(used', j), used')
    BY <1>1, <1>4, InsertedOK
  <2>2. used' \in 0 .. MaxRows /\ used' \in 1 .. used'
    BY <1>2, <1>4, MemoryAssumption
  <2>3. RowsOK(rows', used')
    BY <1>4, <2>1, <2>2, MarkedOK
  <2>4. job' \in [Clients -> Jobs']
    <3>1. job' \in [Clients -> Jobs]
      BY DEF IInv, TypeOK, FinishWrite, Done, Jobs
    <3> QED
      BY <3>1, <1>2, <1>4, JobsGrow
  <2> QED
    BY <2>2, <2>3, <2>4, FromParts DEF FinishWrite, IInv, TypeOK
<1> QED
  BY <1>3, <1>4 DEF FinishWrite

LEMMA RunSearchesOK == ASSUME IInv, NEW c \in Clients, RunSearches(c) PROVE IInv'
<1>1. job' \in [Clients -> Jobs]
  BY DEF RunSearches, IInv, TypeOK, Jobs, Present
<1>2. served' \in 0 .. MaxRequests
  BY MemoryAssumption DEF RunSearches, Free, Begins, IInv, TypeOK
<1> QED
  BY <1>1, <1>2, JobStep DEF RunSearches

LEMMA RunStoresOK == ASSUME IInv, NEW c \in Clients, RunStores(c) PROVE IInv'
<1>1. job[c].hits \in SUBSET (1 .. used) /\ Nobody \in 0 .. used
  BY DEF RunStores, Busy, IInv, TypeOK, Jobs, Idle, Given, Nobody
<1>2. PICK ns \in Namespaces, text \in Texts : Selects(c, ns, text, Nobody, job[c].hits)
  BY DEF RunStores
<1>3. job' \in [Clients -> Jobs]
  BY <1>1, <1>2, SelectedOK
<1> QED
  BY <1>3, JobStep DEF RunStores, IInv, TypeOK

LEMMA StartStatusOK == ASSUME IInv, NEW c \in Clients, StartStatus(c) PROVE IInv'
<1>1. job' \in [Clients -> Jobs]
  BY DEF StartStatus, IInv, TypeOK, Jobs, Present
<1>2. served' \in 0 .. MaxRequests
  BY MemoryAssumption DEF StartStatus, Free, Begins, IInv, TypeOK
<1> QED
  BY <1>1, <1>2, JobStep DEF StartStatus

\* The UPDATE looks at the edge again, so that a status never hides one.
LEMMA FinishStatusOK == ASSUME IInv, NEW c \in Clients, FinishStatus(c) PROVE IInv'
<1> DEFINE j == job[c]
<1>1. j.to \in {"unconfirmed", "confirmed"}
  BY DEF FinishStatus, Busy, IInv, TypeOK, Jobs, Idle
<1>2. RowsOK(rows', used)
  <2>1. CASE StillCurrent(j.id)
    <3> DEFINE r == [rows[j.id] EXCEPT !.status = j.to]
    <3>1. rows[j.id] \in Row /\ rows[j.id].by = Nobody /\ j.id \in DOMAIN rows
      BY <2>1 DEF StillCurrent, IInv, TypeOK, Present
    <3>2. r \in Row /\ r.by = Nobody /\ r.from = rows[j.id].from /\ r.status = j.to
      BY <3>1, <1>1 DEF Row, Statuses
    <3>3. rows' = [rows EXCEPT ![j.id] = r]
      BY <2>1 DEF FinishStatus
    <3> HIDE DEF r
    <3> QED
      BY <1>1, <3>1, <3>2, <3>3, OneRowOK
  <2>2. CASE ~StillCurrent(j.id)
    BY <2>2, InvRows DEF FinishStatus
  <2> QED
    BY <2>1, <2>2
<1> QED
  BY <1>2, DoneStep DEF FinishStatus

LEMMA StartUpdateOK == ASSUME IInv, NEW c \in Clients, StartUpdate(c) PROVE IInv'
<1>1. job' \in [Clients -> Jobs]
  BY DEF StartUpdate, IInv, TypeOK, Jobs, Present
<1>2. served' \in 0 .. MaxRequests
  BY MemoryAssumption DEF StartUpdate, Free, Begins, IInv, TypeOK
<1> QED
  BY <1>1, <1>2, JobStep DEF StartUpdate

LEMMA FinishUpdateOK == ASSUME IInv, NEW c \in Clients, FinishUpdate(c) PROVE IInv'
<1> DEFINE j == job[c]
<1>1. j.ns \in Namespaces /\ j.text \in Texts /\ j.restore \in BOOLEAN
  BY DEF FinishUpdate, Busy, IInv, TypeOK, Jobs, Idle
<1>2. RowsOK(rows', used)
  <2>1. CASE j.id \in Present
    <3> DEFINE r == Patched(rows[j.id], j)
    <3>1. /\ rows[j.id] \in Row /\ j.id \in DOMAIN rows
          /\ rows[j.id].status = "superseded" <=> rows[j.id].by # Nobody
      BY <2>1 DEF IInv, TypeOK, Present, StatusAndEdgeAgree
    <3>2. /\ r \in Row /\ r.by \in {rows[j.id].by, Nobody} /\ r.from = rows[j.id].from
          /\ r.status = "superseded" <=> r.by # Nobody
      BY <3>1, <1>1, PatchedOK
    <3>3. rows' = [rows EXCEPT ![j.id] = r]
      BY <2>1 DEF FinishUpdate
    <3> HIDE DEF r
    <3> QED
      BY <3>1, <3>2, <3>3, OneRowOK
  <2>2. CASE j.id \notin Present
    BY <2>2, InvRows DEF FinishUpdate
  <2> QED
    BY <2>1, <2>2
<1> QED
  BY <1>2, DoneStep DEF FinishUpdate

LEMMA IngestReplacesOK == ASSUME IInv, NEW c \in Clients, IngestReplaces(c) PROVE IInv'
<1>1. PICK ns \in Namespaces, S \in SUBSET Present :
        /\ rows' = Without(S)
        /\ job' = [job EXCEPT ![c] = [op |-> "ingest", ns |-> ns]]
  BY DEF IngestReplaces
<1>2. RowsOK(rows', used) /\ used' = used
  BY <1>1, WithoutOK DEF IngestReplaces
<1>3. job' \in [Clients -> Jobs] /\ Jobs' = Jobs
  BY <1>1, <1>2 DEF IInv, TypeOK, Jobs, Given
<1>4. served' \in 0 .. MaxRequests
  BY MemoryAssumption DEF IngestReplaces, Free, Begins, IInv, TypeOK
<1> QED
  BY <1>2, <1>3, <1>4, FromParts DEF IInv, TypeOK

LEMMA IngestStoresOK == ASSUME IInv, NEW c \in Clients, IngestStores(c) PROVE IInv'
<1>1. job[c].ns \in Namespaces /\ Nobody \in 0 .. used
  BY DEF IngestStores, Busy, IInv, TypeOK, Jobs, Idle, Nobody
<1>2. PICK text \in Texts : Selects(c, job[c].ns, text, Nobody, {})
  BY DEF IngestStores
<1>3. job' \in [Clients -> Jobs]
  BY <1>1, <1>2, SelectedOK
<1> QED
  BY <1>3, JobStep DEF IngestStores, IInv, TypeOK

LEMMA GivesUpOK == ASSUME IInv, NEW c \in Clients, GivesUp(c) PROVE IInv'
<1>1. RowsOK(rows', used)
  BY InvRows DEF GivesUp
<1> QED
  BY <1>1, DoneStep DEF GivesUp

LEMMA DeleteOK == ASSUME IInv, Delete PROVE IInv'
<1>1. PICK gone : rows' = [x \in Present |->
                    IF x \in gone THEN [rows[x] EXCEPT !.deleted = TRUE] ELSE rows[x]]
  BY DEF Delete
<1>2. RowsOK(rows, used)
  BY InvRows
<1>3. DOMAIN rows' = DOMAIN rows
  BY <1>1 DEF Present
<1>4. \A x \in DOMAIN rows : /\ rows'[x] \in Row /\ rows'[x].by = rows[x].by
                             /\ rows'[x].from = rows[x].from /\ rows'[x].status = rows[x].status
  <2> TAKE x \in DOMAIN rows
  <2>1. rows[x] \in Row
    BY <1>2 DEF RowsOK
  <2>2. rows'[x] = [rows[x] EXCEPT !.deleted = TRUE] \/ rows'[x] = rows[x]
    BY <1>1 DEF Present
  <2> QED
    BY <2>1, <2>2 DEF Row
<1>5. rows' \in [DOMAIN rows' -> Row]
  BY <1>1, <1>3, <1>4 DEF Present
<1>6. RowsOK(rows', used)
  BY <1>2, <1>3, <1>4, <1>5 DEF RowsOK
<1> QED
  BY <1>6, RowsStep DEF Delete

LEMMA DeleteNamespaceOK == ASSUME IInv, DeleteNamespace PROVE IInv'
<1>1. RowsOK(rows', used)
  BY WithoutOK DEF DeleteNamespace
<1> QED
  BY <1>1, RowsStep DEF DeleteNamespace

LEMMA CleanupOK == ASSUME IInv, CleanupExpired \/ CleanupDuplicates PROVE IInv'
<1>1. PICK S : rows' = Cleared(Without(S), S)
  BY DEF CleanupExpired, CleanupDuplicates
<1>2. RowsOK(rows', used)
  <2>1. RowsOK(Without(S), used) /\ used \in 0 .. MaxRows
    BY WithoutOK DEF IInv, TypeOK
  <2> QED
    BY <1>1, <2>1, ClearedOK
<1> QED
  BY <1>2, RowsStep DEF CleanupExpired, CleanupDuplicates

LEMMA NextOK == IInv /\ [Next]_vars => IInv'
<1> SUFFICES ASSUME IInv, [Next]_vars PROVE IInv'
  OBVIOUS
<1>1. CASE UNCHANGED vars
  BY <1>1 DEF vars, IInv, TypeOK, StatusAndEdgeAgree, Present, Given, Jobs
<1>2. ASSUME NEW c \in Clients, Request(c) PROVE IInv'
  BY <1>2, StartWriteOK, FinishWriteOK, RunSearchesOK, RunStoresOK, StartStatusOK, FinishStatusOK,
     StartUpdateOK, FinishUpdateOK, IngestReplacesOK, IngestStoresOK, GivesUpOK DEF Request
<1>3. CASE Maintenance
  BY <1>3, DeleteOK, DeleteNamespaceOK, CleanupOK DEF Maintenance
<1> QED
  BY <1>1, <1>2, <1>3 DEF Next

LEMMA InitOK == Init => IInv
BY MemoryAssumption DEF Init, IInv, TypeOK, StatusAndEdgeAgree, Present, Given, Jobs

LEMMA Invariant == Spec => []IInv
BY InitOK, NextOK, PTL DEF Spec

\* Rows point only at rows that were inserted, their successors at another one.
THEOREM MemoryTypes == Spec => []TypeOK
BY Invariant, PTL DEF IInv

\* The status and the edge of a row agree whatever interleaves.
THEOREM StatusFollowsEdge == Spec => []StatusAndEdgeAgree
BY Invariant, PTL DEF IInv

-----------------------------------------------------------------------------
(* The refinement: each entry takes a step of EntryLifecycle or none *)

\* What the mapping shows of a row, and of an entry that has none.
Shown(r) == Life!State(r.status, r.by, r.deleted, r.text)

LEMMA LivesOf ==
  ASSUME IInv, NEW e \in Entries
  PROVE  /\ e > used => Lives[e] = Life!Unborn
         /\ e <= used /\ e \notin Present => Lives[e] = Life!Gone
         /\ e \in Present => Lives[e] = Shown(rows[e]) /\ Lives[e] \in Life!States
<1>1. e \in Present => e <= used /\ rows[e] \in Row
  BY DEF IInv, TypeOK, Given
<1>2. e \in Present => ~(e > used)
  BY <1>1 DEF IInv, TypeOK, Entries
<1>3. e <= used => ~(e > used)
  BY DEF IInv, TypeOK, Entries
<1>4. ASSUME NEW r \in Row PROVE Shown(r) \in Life!States
  BY DEF Shown, Row, Statuses, MaybeId, Life!State, Life!States, Life!Phases
<1> QED
  BY <1>1, <1>2, <1>3, <1>4 DEF Lives, Life!Unborn, Life!Gone, Shown, Life!State

LEMMA LivesOfNext ==
  ASSUME IInv', NEW e \in Entries
  PROVE  /\ e > used' => Lives'[e] = Life!Unborn
         /\ e <= used' /\ e \notin Present' => Lives'[e] = Life!Gone
         /\ e \in Present' => Lives'[e] = Shown(rows'[e]) /\ Lives'[e] \in Life!States
<1>1. e \in Present' => e <= used' /\ rows'[e] \in Row
  <2>1. rows' \in [Present' -> Row] /\ used' \in Nat /\ Present' \subseteq 1 .. used'
    BY MemoryAssumption DEF IInv, TypeOK, Given
  <2> QED
    BY <2>1
<1>2. e \in Present' => ~(e > used')
  BY <1>1 DEF IInv, TypeOK, Entries
<1>3. e <= used' => ~(e > used')
  BY DEF IInv, TypeOK, Entries
<1>4. ASSUME NEW r \in Row PROVE Shown(r) \in Life!States
  BY DEF Shown, Row, Statuses, MaybeId, Life!State, Life!States, Life!Phases
<1> QED
  BY <1>1, <1>2, <1>3, <1>4 DEF Lives, Life!Unborn, Life!Gone, Shown, Life!State

\* An entry whose row stays, up to what the mapping does not show, stays.
LEMMA Stays ==
  ASSUME IInv, IInv', NEW e \in Entries, used' = used, e \in Present <=> e \in Present',
         e \in Present => Shown(rows'[e]) = Shown(rows[e])
  PROVE  Lives'[e] = Lives[e]
<1>1. e > used \/ e <= used
  BY DEF IInv, TypeOK, Entries
<1> QED
  BY <1>1, LivesOf, LivesOfNext

\* An entry whose row is removed is gone.
LEMMA Vanishes ==
  ASSUME IInv, IInv', NEW e \in Entries, used' = used, e \in Present, e \notin Present'
  PROVE  Life!Removed(e) /\ Lives'[e] = Life!Gone
<1>1. Present \subseteq 1 .. used /\ used \in 0 .. MaxRows
  BY DEF IInv, TypeOK, Given
<1>2. e <= used
  BY <1>1
<1>3. e <= used'
  BY <1>2
<1> QED
  BY <1>3, LivesOf, LivesOfNext DEF Life!Removed, Life!Exists

\* One abstract step of an entry.
Allowed(e) ==
  \/ Lives'[e] = Lives[e]
  \/ Life!Born(e) \/ Life!Judged(e) \/ Life!Reworded(e) \/ Life!Replaced(e) \/ Life!Released(e)
  \/ Life!Deleted(e) \/ Life!Restored(e) \/ Life!Removed(e)

\* An entry that markSuperseded changes is replaced by the one just written.
LEMMA ReplacedStep ==
  ASSUME IInv, IInv', NEW e \in Entries, NEW new \in Entries, e # new, e \in Present,
         ~rows[e].deleted, e \in Present',
         rows'[e] = [rows[e] EXCEPT !.by = new, !.status = "superseded"]
  PROVE  Life!Replaced(e)
<1>1. rows[e] \in Row
  BY DEF IInv, TypeOK
<1>2. Shown(rows'[e]) = Life!State("superseded", new, FALSE, rows[e].text)
  BY <1>1 DEF Shown, Row
<1>3. ~Shown(rows[e]).deleted /\ Shown(rows[e]).wording = rows[e].text
  BY DEF Shown, Life!State
<1> QED
  BY <1>2, <1>3, LivesOf, LivesOfNext DEF Life!Replaced, Life!Live, Life!Exists

LEMMA FinishWriteLives ==
  ASSUME IInv, IInv', NEW c \in Clients, FinishWrite(c), NEW e \in Entries
  PROVE  Allowed(e)
<1> DEFINE j == job[c]
<1>1. RowsOK(rows, used) /\ used \in 0 .. MaxRows
  BY InvRows DEF IInv, TypeOK
<1>2. CASE j.hit \in Present /\ rows' = Marked(Refreshed(j.hit), j.supersedes, j.hit) /\ used' = used
  <2>1. j.hit \in Entries
    BY <1>1, <1>2, MemoryAssumption DEF Present, RowsOK, Entries
  <2>2. CASE e = j.supersedes /\ e \in Present \ {j.hit} /\ ~rows[e].deleted
    <3>1. rows' = [rows EXCEPT ![e].by = j.hit, ![e].status = "superseded"]
      BY <1>2, <2>2 DEF Marked, Refreshed, Present
    <3>2. e \in Present' /\ rows'[e] = [rows[e] EXCEPT !.by = j.hit, !.status = "superseded"]
      BY <2>2, <3>1 DEF Present
    <3> QED
      BY <2>1, <2>2, <3>2, ReplacedStep DEF Allowed
  <2>3. CASE ~(e = j.supersedes /\ e \in Present \ {j.hit} /\ ~rows[e].deleted)
    <3>1. (e \in Present <=> e \in Present') /\ (e \in Present => rows'[e] = rows[e])
      BY <1>2, <2>3 DEF Marked, Refreshed, Present
    <3> QED
      BY <1>2, <3>1, Stays DEF Allowed
  <2> QED
    BY <2>2, <2>3
<1>3. CASE used < MaxRows /\ used' = used + 1
           /\ rows' = Marked(Inserted(used', j), j.supersedes, used')
  <2> DEFINE new == used + 1
             ins == Inserted(new, j)
  <2>1. new \in Entries /\ new \notin DOMAIN rows
    BY <1>1, <1>3, MemoryAssumption DEF Entries, RowsOK
  <2>2. DOMAIN ins = DOMAIN rows \cup {new} /\ \A x \in DOMAIN rows : ins[x] = rows[x]
    BY <2>1 DEF Inserted, Present
  <2>3. ins[new] = [ns |-> j.ns, text |-> j.text, status |-> "unconfirmed", by |-> Nobody,
                    deleted |-> FALSE, from |-> j.from]
    BY <2>1 DEF Inserted, Present
  <2>4. rows' = Marked(ins, j.supersedes, new)
    BY <1>3
  <2>5. used \in Nat /\ e \in Nat
    BY <1>1 DEF Entries
  <2> HIDE DEF ins
  <2>6. CASE e = j.supersedes /\ e \in DOMAIN rows /\ ~rows[e].deleted
    <3>1. rows' = [ins EXCEPT ![e].by = new, ![e].status = "superseded"]
      BY <2>1, <2>2, <2>4, <2>6 DEF Marked
    <3>2. e \in Present' /\ rows'[e] = [rows[e] EXCEPT !.by = new, !.status = "superseded"]
      BY <2>2, <2>6, <3>1 DEF Present
    <3> QED
      BY <2>1, <2>6, <3>2, ReplacedStep DEF Allowed, Present
  <2>7. CASE e # new /\ ~(e = j.supersedes /\ e \in DOMAIN rows /\ ~rows[e].deleted)
    <3>1. (e \in Present <=> e \in Present') /\ (e \in Present => rows'[e] = rows[e])
      BY <2>2, <2>4, <2>7 DEF Marked, Present
    <3>2. (e > used /\ e > used') \/ (e <= used /\ e <= used')
      BY <1>3, <2>5, <2>7
    <3> QED
      BY <3>1, <3>2, LivesOf, LivesOfNext DEF Allowed
  <2>8. CASE e = new
    <3>1. e \in Present' /\ rows'[e] = ins[e]
      BY <2>2, <2>4, <2>8 DEF Marked, Present
    <3>2. Lives[e] = Life!Unborn
      BY <2>5, <2>8, LivesOf
    <3>3. Lives'[e] = Shown(ins[e]) /\ rows'[e].text \in Texts
      BY <3>1, LivesOfNext DEF IInv, TypeOK, Row
    <3>4. Shown(ins[e]) = Life!State("unconfirmed", Nobody, FALSE, rows'[e].text)
      <4>1. /\ rows'[e] = ins[new] /\ ins[new].status = "unconfirmed" /\ ins[new].by = Nobody
            /\ ins[new].deleted = FALSE
        BY <2>3, <2>8, <3>1
      <4> QED
        BY <2>8, <4>1 DEF Shown
    <3> QED
      BY <3>2, <3>3, <3>4 DEF Allowed, Life!Born
  <2> QED
    BY <2>1, <2>6, <2>7, <2>8
<1> QED
  BY <1>2, <1>3 DEF FinishWrite

LEMMA FinishStatusLives ==
  ASSUME IInv, IInv', NEW c \in Clients, FinishStatus(c), NEW e \in Entries
  PROVE  Allowed(e)
<1> DEFINE j == job[c]
<1>1. CASE StillCurrent(j.id) /\ e = j.id
  <2>1. rows[e] \in Row /\ e \in Present /\ ~rows[e].deleted /\ rows[e].by = Nobody
    BY <1>1 DEF StillCurrent, IInv, TypeOK
  <2>2. e \in Present' /\ rows'[e] = [rows[e] EXCEPT !.status = j.to]
    BY <1>1, <2>1 DEF FinishStatus, Present
  <2>3. Shown(rows'[e]) = Life!State(j.to, Nobody, FALSE, rows[e].text)
    BY <2>1, <2>2 DEF Shown, Row
  <2>4. j.to \in {"unconfirmed", "confirmed"}
    BY DEF FinishStatus, Busy, IInv, TypeOK, Jobs, Idle
  <2>5. ~Shown(rows[e]).deleted /\ Shown(rows[e]).by = Nobody /\ Shown(rows[e]).wording = rows[e].text
    BY <2>1 DEF Shown, Life!State
  <2> QED
    BY <2>1, <2>2, <2>3, <2>4, <2>5, LivesOf, LivesOfNext DEF Allowed, Life!Judged, Life!Live, Life!Exists
<1>2. CASE ~(StillCurrent(j.id) /\ e = j.id)
  <2>1. (e \in Present <=> e \in Present') /\ (e \in Present => rows'[e] = rows[e])
    BY <1>2 DEF FinishStatus, Present
  <2> QED
    BY <2>1, Stays DEF FinishStatus, Allowed
<1> QED
  BY <1>1, <1>2

LEMMA FinishUpdateLives ==
  ASSUME IInv, IInv', NEW c \in Clients, FinishUpdate(c), NEW e \in Entries
  PROVE  Allowed(e)
<1> DEFINE j == job[c]
<1>1. CASE j.id \in Present /\ e = j.id
  <2>1. rows[e] \in Row /\ e \in Present
    BY <1>1 DEF IInv, TypeOK
  <2>2. e \in Present' /\ rows'[e] = Patched(rows[e], j)
    BY <1>1 DEF FinishUpdate, Present
  <2>3. j.text \in Texts /\ j.ns \in Namespaces
    BY DEF FinishUpdate, Busy, IInv, TypeOK, Jobs, Idle
  <2>4. CASE j.restore
    <3>1. Shown(rows'[e]) = Life!State("unconfirmed", Nobody, FALSE, j.text)
      BY <2>1, <2>2, <2>4 DEF Patched, Shown, Row
    <3>2. e \in Asked
      BY <1>1, <2>4 DEF Asked, FinishUpdate
    <3> QED
      BY <2>1, <2>2, <2>3, <3>1, <3>2, LivesOf, LivesOfNext DEF Allowed, Life!Restored, Life!Exists
  <2>5. CASE ~j.restore
    <3> DEFINE s == Decayed(rows[e], j)
    <3>1. Shown(rows'[e]) = Life!State(s, rows[e].by, rows[e].deleted, j.text)
      BY <2>1, <2>2, <2>5 DEF Patched, Shown, Row
    <3>2. CASE rows[e].text = j.text
      BY <3>1, <3>2, <2>1, <2>2, Stays DEF Decayed, Shown, FinishUpdate, Allowed
    <3>3. CASE rows[e].text # j.text
      <4>1. /\ s \in Life!Phases \ {"confirmed"}
            /\ s = rows[e].status \/ (rows[e].status = "confirmed" /\ s = "unconfirmed")
        BY <2>1, <3>3 DEF Decayed, Row, Statuses, Life!Phases
      <4>2. /\ Shown(rows[e]).wording # j.text /\ Shown(rows[e]).phase = rows[e].status
            /\ Shown(rows[e]).by = rows[e].by /\ Shown(rows[e]).deleted = rows[e].deleted
        BY <3>3 DEF Shown, Life!State
      <4> HIDE DEF s
      <4> QED
        BY <2>1, <2>2, <2>3, <3>1, <4>1, <4>2, LivesOf, LivesOfNext DEF Allowed, Life!Reworded, Life!Exists
    <3> QED
      BY <3>2, <3>3
  <2> QED
    BY <2>4, <2>5
<1>2. CASE ~(j.id \in Present /\ e = j.id)
  <2>1. (e \in Present <=> e \in Present') /\ (e \in Present => rows'[e] = rows[e])
    BY <1>2 DEF FinishUpdate, Present
  <2> QED
    BY <2>1, Stays DEF FinishUpdate, Allowed
<1> QED
  BY <1>1, <1>2

LEMMA WithoutLives ==
  ASSUME IInv, IInv', NEW S, rows' = Without(S), used' = used, NEW e \in Entries
  PROVE  Allowed(e)
<1>1. Present' = Present \ S /\ \A x \in Present \ S : rows'[x] = rows[x]
  BY DEF Without, Present
<1>2. CASE e \in Present /\ e \in S
  BY <1>1, <1>2, Vanishes DEF Allowed
<1>3. CASE ~(e \in Present /\ e \in S)
  BY <1>1, <1>3, Stays DEF Allowed
<1> QED
  BY <1>2, <1>3

LEMMA DeleteLives ==
  ASSUME IInv, IInv', Delete, NEW e \in Entries
  PROVE  Allowed(e)
<1>1. PICK gone : rows' = [x \in Present |->
                    IF x \in gone THEN [rows[x] EXCEPT !.deleted = TRUE] ELSE rows[x]]
  BY DEF Delete
<1>2. Present' = Present /\ used' = used
  BY <1>1 DEF Delete, Present
<1>3. CASE e \in Present /\ e \in gone /\ ~rows[e].deleted
  <2>1. rows[e] \in Row
    BY <1>3 DEF IInv, TypeOK
  <2>2. Shown(rows'[e]) = Life!State(rows[e].status, rows[e].by, TRUE, rows[e].text)
    BY <1>1, <1>3, <2>1 DEF Shown, Row, Present
  <2>3. /\ ~Shown(rows[e]).deleted /\ Shown(rows[e]).phase = rows[e].status
        /\ Shown(rows[e]).by = rows[e].by /\ Shown(rows[e]).wording = rows[e].text
    BY <1>3 DEF Shown, Life!State
  <2> QED
    BY <1>2, <1>3, <2>2, <2>3, LivesOf, LivesOfNext DEF Allowed, Life!Deleted, Life!Live, Life!Exists
<1>4. CASE ~(e \in Present /\ e \in gone /\ ~rows[e].deleted)
  <2>1. e \in Present => rows'[e] = rows[e]
    BY <1>1, <1>4 DEF IInv, TypeOK, Row
  <2> QED
    BY <1>2, <2>1, Stays DEF Allowed
<1> QED
  BY <1>3, <1>4

\* A row whose successor the clean-up removes is released.
LEMMA CleanupLives ==
  ASSUME IInv, IInv', CleanupExpired \/ CleanupDuplicates, NEW e \in Entries
  PROVE  Allowed(e)
<1>1. PICK S \in SUBSET Present : rows' = Cleared(Without(S), S)
  BY DEF CleanupExpired, CleanupDuplicates
<1>2. /\ Present' = Present \ S /\ used' = used
      /\ \A x \in Present \ S : rows'[x] =
           IF rows[x].by \in S THEN [rows[x] EXCEPT !.by = Nobody, !.status = "unconfirmed"] ELSE rows[x]
  BY <1>1 DEF Cleared, Without, Present, CleanupExpired, CleanupDuplicates
<1>3. CASE e \in S
  BY <1>1, <1>2, <1>3, Vanishes DEF Allowed
<1>4. CASE e \in Present \ S /\ rows[e].by \in S
  <2> DEFINE s == rows[e].by
  <2>1. rows[e] \in Row /\ s \in Present /\ s \in Entries /\ s # Nobody
    BY <1>1, <1>4, MemoryAssumption DEF IInv, TypeOK, Given, Entries, Nobody
  <2>2. Lives'[s] = Life!Gone
    BY <1>2, <1>4, <2>1, Vanishes
  <2>3. Shown(rows'[e]) = Life!State("unconfirmed", Nobody, rows[e].deleted, rows[e].text)
    BY <1>2, <1>4, <2>1 DEF Shown, Row
  <2>4. /\ Shown(rows[e]).by = s /\ Shown(rows[e]).deleted = rows[e].deleted
        /\ Shown(rows[e]).wording = rows[e].text
    BY DEF Shown, Life!State
  <2> QED
    BY <1>2, <1>4, <2>1, <2>2, <2>3, <2>4, LivesOf, LivesOfNext DEF Allowed, Life!Released, Life!Exists
<1>5. CASE e \notin S /\ ~(e \in Present \ S /\ rows[e].by \in S)
  BY <1>2, <1>5, Stays DEF Allowed
<1> QED
  BY <1>3, <1>4, <1>5

LEMMA NextLives ==
  ASSUME IInv, IInv', [Next]_vars, NEW e \in Entries
  PROVE  Allowed(e)
<1>1. CASE UNCHANGED <<rows, used>>
  BY <1>1, Stays DEF Allowed, Present
<1>2. ASSUME NEW c \in Clients, Request(c) PROVE Allowed(e)
  <2>1. CASE IngestReplaces(c)
    BY <2>1, WithoutLives DEF IngestReplaces
  <2> QED
    BY <1>1, <1>2, <2>1, FinishWriteLives, FinishStatusLives, FinishUpdateLives
       DEF Request, StartWrite, RunSearches, RunStores, StartStatus, StartUpdate, IngestStores, GivesUp
<1>3. CASE Maintenance
  BY <1>3, DeleteLives, CleanupLives, WithoutLives DEF Maintenance, DeleteNamespace
<1> QED
  BY <1>1, <1>2, <1>3 DEF Next, vars

\* The memory store keeps what EntryLifecycle promises of each entry.
THEOREM KeepsLifecycle == Spec => ImplementsLifecycle
<1>1. Init => Life!Init
  <2> SUFFICES ASSUME Init PROVE Life!Init
    OBVIOUS
  <2>1. \A e \in Entries : e > used
    BY MemoryAssumption DEF Init, Entries
  <2>2. Asked = {}
    BY DEF Init, Asked, Busy, Idle
  <2> QED
    BY <2>1, <2>2 DEF Life!Init, Lives, Life!Unborn
<1>2. IInv /\ IInv' /\ [Next]_vars => [Life!Next]_Lives
  <2> SUFFICES ASSUME IInv, IInv', [Next]_vars PROVE Life!Next
    OBVIOUS
  <2>1. \A e \in Entries : Allowed(e)
    BY NextLives
  <2> QED
    BY <2>1 DEF Life!Next, Allowed
<1> QED
  BY <1>1, <1>2, Invariant, PTL DEF Spec, ImplementsLifecycle, Life!Spec

-----------------------------------------------------------------------------
(* The edges of removed entries, and deletions with their quotes *)

\* After the clean-ups, an edge leads nowhere only if it did before.
LEMMA CleanupCuts ==
  ASSUME IInv, NEW S \in SUBSET Present, rows' = Cleared(Without(S), S)
  PROVE  Dangling(rows') \subseteq Dangling(rows)
<1>1. DOMAIN rows' = Present \ S
  BY DEF Cleared, Without
<1>2. ASSUME NEW e \in Present \ S, rows'[e].by \notin (Present \ S) \cup {Nobody}
      PROVE  rows[e].by \notin Present \cup {Nobody}
  <2>1. rows[e] \in Row
    BY DEF IInv, TypeOK
  <2>2. CASE rows[e].by \in S
    <3>1. rows'[e] = [rows[e] EXCEPT !.by = Nobody, !.status = "unconfirmed"]
      BY <2>2 DEF Cleared, Without
    <3> QED
      BY <1>2, <2>1, <3>1 DEF Row
  <2>3. CASE rows[e].by \notin S
    <3>1. rows'[e] = rows[e]
      BY <2>3 DEF Cleared, Without
    <3> QED
      BY <1>2, <2>3, <3>1
  <2> QED
    BY <2>2, <2>3
<1> QED
  BY <1>1, <1>2 DEF Dangling, Present

\* Entries that only gain company, and keep or lose their edge or get one that
\* leads to an entry.
LEMMA EdgesLead ==
  ASSUME Present \subseteq DOMAIN rows',
         \A e \in DOMAIN rows' :
           \/ rows'[e].by \in DOMAIN rows' \cup {Nobody}
           \/ e \in Present /\ rows'[e].by = rows[e].by
  PROVE  Dangling(rows') \subseteq Dangling(rows)
BY DEF Dangling, Present

LEMMA MarkedEdges ==
  ASSUME NEW rs, NEW u \in 0 .. MaxRows, RowsOK(rs, u), NEW old, NEW new \in DOMAIN rs
  PROVE  /\ DOMAIN Marked(rs, old, new) = DOMAIN rs
         /\ \A e \in DOMAIN rs : Marked(rs, old, new)[e].by \in {rs[e].by, new}
<1>1. \A e \in DOMAIN rs : rs[e] \in Row
  BY DEF RowsOK
<1>2. CASE old \in DOMAIN rs \ {new} /\ ~rs[old].deleted
  <2>1. Marked(rs, old, new) = [rs EXCEPT ![old].by = new, ![old].status = "superseded"]
    BY <1>2 DEF Marked
  <2> QED
    BY <1>1, <1>2, <2>1 DEF Row
<1>3. CASE ~(old \in DOMAIN rs \ {new} /\ ~rs[old].deleted)
  BY <1>3 DEF Marked
<1> QED
  BY <1>2, <1>3

LEMMA FinishWriteEdges ==
  ASSUME IInv, NEW c \in Clients, FinishWrite(c)
  PROVE  Dangling(rows') \subseteq Dangling(rows)
<1> DEFINE j == job[c]
<1>1. RowsOK(rows, used) /\ used \in 0 .. MaxRows
  BY InvRows DEF IInv, TypeOK
<1>2. j.ns \in Namespaces /\ j.text \in Texts /\ j.from \subseteq 1 .. used
  BY DEF FinishWrite, Busy, IInv, TypeOK, Jobs, Idle, Given
<1>3. CASE j.hit \in Present /\ rows' = Marked(Refreshed(j.hit), j.supersedes, j.hit)
  <2>1. /\ DOMAIN rows' = Present
        /\ \A e \in Present : rows'[e].by \in {rows[e].by, j.hit}
    BY <1>1, <1>3, MarkedEdges DEF Refreshed, Present
  <2> QED
    BY <1>3, <2>1, EdgesLead
<1>4. CASE /\ used < MaxRows /\ used' = used + 1
           /\ rows' = Marked(Inserted(used', j), j.supersedes, used')
  <2> DEFINE rs == Inserted(used', j)
  <2>1. used' \in 0 .. MaxRows /\ used' \notin Present
    BY <1>1, <1>4, MemoryAssumption DEF RowsOK, Present
  <2>2. RowsOK(rs, used')
    BY <1>1, <1>2, <1>4, InsertedOK
  <2>3. /\ DOMAIN rs = Present \cup {used'} /\ rs[used'].by = Nobody
        /\ \A e \in Present : rs[e] = rows[e]
    BY <2>1 DEF Inserted
  <2> HIDE DEF rs
  <2>4. /\ DOMAIN rows' = DOMAIN rs
        /\ \A e \in DOMAIN rs : rows'[e].by \in {rs[e].by, used'}
    BY <1>4, <2>1, <2>2, <2>3, MarkedEdges DEF rs
  <2> QED
    BY <2>3, <2>4, EdgesLead
<1> QED
  BY <1>3, <1>4 DEF FinishWrite

LEMMA UpdateEdges ==
  ASSUME IInv, NEW c \in Clients, FinishStatus(c) \/ FinishUpdate(c)
  PROVE  Dangling(rows') \subseteq Dangling(rows)
<1>1. \A e \in Present : rows[e] \in Row
  BY DEF IInv, TypeOK
<1>2. ASSUME NEW r \in Row, NEW j PROVE Patched(r, j).by \in {r.by, Nobody}
  BY DEF Patched, Row
<1>3. DOMAIN rows' = Present /\ \A e \in Present : rows'[e].by \in {rows[e].by, Nobody}
  BY <1>1, <1>2 DEF FinishStatus, FinishUpdate, Present, Row
<1> QED
  BY <1>3, EdgesLead

LEMMA DeleteEdges ==
  ASSUME IInv, Delete
  PROVE  Dangling(rows') \subseteq Dangling(rows)
<1>1. PICK gone : rows' = [x \in Present |->
                    IF x \in gone THEN [rows[x] EXCEPT !.deleted = TRUE] ELSE rows[x]]
  BY DEF Delete
<1>2. DOMAIN rows' = Present /\ \A e \in Present : rows'[e].by = rows[e].by
  BY <1>1 DEF IInv, TypeOK, Row
<1> QED
  BY <1>2, EdgesLead

(* Whatever writes, edits, deletions and clean-ups interleave, an entry is  *)
(* left behind an edge that leads nowhere by the two statements that remove *)
(* rows wholesale, and by nothing else.                                     *)
THEOREM MemoryEdgesLead == Spec => NoEdgeLeftBehind
<1>1. IInv /\ [Next]_vars =>
        [\/ Dangling(rows') \subseteq Dangling(rows)
         \/ DeleteNamespace
         \/ \E c \in Clients : IngestReplaces(c)]_vars
  <2> SUFFICES ASSUME IInv, Next
               PROVE  \/ Dangling(rows') \subseteq Dangling(rows)
                      \/ DeleteNamespace
                      \/ \E c \in Clients : IngestReplaces(c)
    OBVIOUS
  <2>1. CASE rows' = rows
    BY <2>1 DEF Dangling
  <2>2. ASSUME NEW c \in Clients, Request(c), ~IngestReplaces(c)
        PROVE  Dangling(rows') \subseteq Dangling(rows)
    BY <2>1, <2>2, FinishWriteEdges, UpdateEdges
       DEF Request, StartWrite, RunSearches, RunStores, StartStatus, StartUpdate, IngestStores, GivesUp
  <2>3. CASE Maintenance
    BY <2>3, DeleteEdges, CleanupCuts DEF Maintenance, CleanupExpired, CleanupDuplicates
  <2> QED
    BY <2>2, <2>3 DEF Next
<1> QED
  BY <1>1, Invariant, PTL DEF Spec, NoEdgeLeftBehind

\* A round of propagateDeletion, and the rounds themselves.
RoundAfter(r) == [last |-> Quoting(r.last, r.all), all |-> r.all \cup Quoting(r.last, r.all)]
FirstRound(S) == [last |-> S, all |-> S]
Rounds(S) == CHOOSE round :
  round = [n \in 0 .. MaxRounds |-> IF n = 0 THEN FirstRound(S) ELSE RoundAfter(round[n - 1])]

LEMMA DerivedByRounds == ASSUME NEW S PROVE Derived(S) = Rounds(S)[MaxRounds].all
BY DEF Derived, Rounds, RoundAfter, FirstRound

\* The ten rounds, written out, are such a function.
LEMMA RoundsDefined ==
  ASSUME NEW S
  PROVE  /\ Rounds(S)[0] = FirstRound(S)
         /\ \A n \in 1 .. MaxRounds : Rounds(S)[n] = RoundAfter(Rounds(S)[n - 1])
<1> DEFINE r0 == FirstRound(S)
           r1 == RoundAfter(r0)
           r2 == RoundAfter(r1)
           r3 == RoundAfter(r2)
           r4 == RoundAfter(r3)
           r5 == RoundAfter(r4)
           r6 == RoundAfter(r5)
           r7 == RoundAfter(r6)
           r8 == RoundAfter(r7)
           r9 == RoundAfter(r8)
           r10 == RoundAfter(r9)
           f == [n \in 0 .. MaxRounds |->
                  IF n = 0 THEN r0 ELSE IF n = 1 THEN r1 ELSE IF n = 2 THEN r2
                  ELSE IF n = 3 THEN r3 ELSE IF n = 4 THEN r4 ELSE IF n = 5 THEN r5
                  ELSE IF n = 6 THEN r6 ELSE IF n = 7 THEN r7 ELSE IF n = 8 THEN r8
                  ELSE IF n = 9 THEN r9 ELSE r10]
           P(g) == g = [n \in 0 .. MaxRounds |->
                         IF n = 0 THEN FirstRound(S) ELSE RoundAfter(g[n - 1])]
<1>1. /\ r1 = RoundAfter(r0) /\ r2 = RoundAfter(r1) /\ r3 = RoundAfter(r2)
      /\ r4 = RoundAfter(r3) /\ r5 = RoundAfter(r4) /\ r6 = RoundAfter(r5)
      /\ r7 = RoundAfter(r6) /\ r8 = RoundAfter(r7) /\ r9 = RoundAfter(r8)
      /\ r10 = RoundAfter(r9) /\ r0 = FirstRound(S)
  OBVIOUS
<1> HIDE DEF r0, r1, r2, r3, r4, r5, r6, r7, r8, r9, r10
<1>2. \A n \in 0 .. MaxRounds : f[n] = IF n = 0 THEN FirstRound(S) ELSE RoundAfter(f[n - 1])
  BY <1>1 DEF MaxRounds
<1>3. P(f)
  BY <1>2
<1> HIDE DEF f
<1>4. P(Rounds(S))
  BY <1>3 DEF Rounds
<1> QED
  BY <1>4 DEF MaxRounds

\* After n rounds, what quotes an entry is deleted with it, unless the entry was
\* reached last; what was reached last is at least n quotations away from 0.
Reached(n, r) ==
  /\ r.last \subseteq r.all /\ r.last \subseteq Present /\ \A e \in r.last : n < e
  /\ \A e \in r.all \ r.last, q \in Present :
       e \in rows[q].from => q \in r.all \/ rows[q].deleted

LEMMA ReachedOnce ==
  ASSUME IInv, NEW n \in 0 .. MaxRounds, NEW r, Reached(n, r)
  PROVE  Reached(n + 1, RoundAfter(r))
<1> DEFINE next == Quoting(r.last, r.all)
<1>1. RoundAfter(r).last = next /\ RoundAfter(r).all = r.all \cup next
  BY DEF RoundAfter
<1>2. \A q \in next : q \in Present /\ \E e \in r.last : e \in rows[q].from
  BY DEF Quoting
<1>3. \A q \in Present : \A e \in rows[q].from : e \in Nat /\ q \in Nat /\ e < q
  BY DEF IInv, TypeOK, Given
<1>4. \A q \in next : n + 1 < q
  BY <1>2, <1>3 DEF Reached
<1>5. \A e \in r.last, q \in Present :
        e \in rows[q].from => q \in r.all \cup next \/ rows[q].deleted
  BY DEF Quoting, Reached
<1> HIDE DEF next
<1> QED
  BY <1>1, <1>2, <1>4, <1>5 DEF Reached

\* The tenth round finds nothing: no entry is more than nine quotations away from S.
Exhausts(S) == Rounds(S)[MaxRounds].last = {}

LEMMA AllRounds ==
  ASSUME IInv, NEW S \in SUBSET Present
  PROVE  Reached(MaxRounds, Rounds(S)[MaxRounds])
<1>1. Reached(0, Rounds(S)[0])
  <2>1. \A e \in S : 0 < e
    BY DEF IInv, TypeOK, Given
  <2>2. Rounds(S)[0].last = S /\ Rounds(S)[0].all = S
    <3>1. Rounds(S)[0] = FirstRound(S)
      BY RoundsDefined
    <3> QED
      BY <3>1 DEF FirstRound
  <2> QED
    BY <2>1, <2>2 DEF Reached
<1>2. ASSUME NEW n \in 0 .. 9, Reached(n, Rounds(S)[n]) PROVE Reached(n + 1, Rounds(S)[n + 1])
  <2>1. Rounds(S)[n + 1] = RoundAfter(Rounds(S)[n]) /\ n \in 0 .. MaxRounds
    BY RoundsDefined DEF MaxRounds
  <2> QED
    BY <1>2, <2>1, ReachedOnce
<1>3. Reached(5, Rounds(S)[5])
  BY <1>1, <1>2
<1> QED
  BY <1>2, <1>3 DEF MaxRounds

LEMMA FewRowsExhaust ==
  ASSUME IInv, MaxRows <= MaxRounds, NEW S \in SUBSET Present
  PROVE  Exhausts(S)
<1>1. ASSUME NEW e \in Rounds(S)[MaxRounds].last PROVE FALSE
  <2>1. MaxRounds < e /\ e \in 1 .. used
    BY AllRounds DEF Reached, IInv, TypeOK, Given
  <2> QED
    BY <2>1, MemoryAssumption DEF IInv, TypeOK, MaxRounds
<1> QED
  BY <1>1 DEF Exhausts

LEMMA DerivedIsClosed ==
  ASSUME IInv, NEW S \in SUBSET Present, Exhausts(S),
         NEW e \in Derived(S), NEW q \in Present, e \in rows[q].from
  PROVE  q \in Derived(S) \/ rows[q].deleted
BY AllRounds, DerivedByRounds DEF Exhausts, Reached

\* No quotation chain of the table is longer than the rounds.
ChainsFit == \A S \in SUBSET Present : Exhausts(S)

LEMMA DeleteTakesQuotes ==
  ASSUME IInv, ChainsFit, Delete, NEW e \in Present, NEW q \in Present,
         rows'[e].deleted, ~rows[e].deleted, e \in rows[q].from
  PROVE  rows'[q].deleted
<1>1. PICK S \in SUBSET Present :
        rows' = [x \in Present |->
                   IF x \in Derived(S) THEN [rows[x] EXCEPT !.deleted = TRUE] ELSE rows[x]]
  BY DEF Delete, Duplicates
<1>2. rows[q] \in Row
  BY DEF IInv, TypeOK
<1>3. e \in Derived(S)
  BY <1>1
<1>4. q \in Derived(S) \/ rows[q].deleted
  BY <1>3, DerivedIsClosed DEF ChainsFit
<1> QED
  BY <1>1, <1>2, <1>4 DEF Row

\* Apart from Delete, no step deletes an entry that stays in the table.
LEMMA OnlyDeleteDeletes ==
  ASSUME IInv, Next, ~Delete, NEW e \in Present \cap DOMAIN rows', ~rows[e].deleted
  PROVE  ~rows'[e].deleted
<1>1. rows[e] \in Row
  BY DEF IInv, TypeOK
<1>2. CASE rows' = rows
  BY <1>2
<1>3. ASSUME NEW S, rows' = Without(S) PROVE ~rows'[e].deleted
  BY <1>3 DEF Without, Present
<1>4. ASSUME NEW S, rows' = Cleared(Without(S), S) PROVE ~rows'[e].deleted
  <2>1. e \in Present \ S /\ DOMAIN Without(S) = Present \ S /\ Without(S)[e] = rows[e]
    BY <1>4 DEF Cleared, Without
  <2> QED
    BY <1>1, <1>4, <2>1 DEF Cleared, Row
<1>5. ASSUME NEW rs, NEW old, NEW new, rows' = Marked(rs, old, new), rs[e] = rows[e]
      PROVE  ~rows'[e].deleted
  BY <1>1, <1>5 DEF Marked, Row
<1>6. ASSUME NEW c \in Clients, FinishWrite(c) PROVE ~rows'[e].deleted
  <2>1. used' = used + 1 => Inserted(used', job[c])[e] = rows[e]
    BY DEF Inserted, IInv, TypeOK, Given
  <2> QED
    BY <1>5, <1>6, <2>1 DEF FinishWrite, Refreshed
<1>7. ASSUME NEW c \in Clients, FinishStatus(c) PROVE ~rows'[e].deleted
  BY <1>1, <1>7 DEF FinishStatus, Row
<1>8. ASSUME NEW c \in Clients, FinishUpdate(c) PROVE ~rows'[e].deleted
  <2>1. ASSUME NEW j PROVE ~Patched(rows[e], j).deleted
    BY <1>1 DEF Patched, Row
  <2> QED
    BY <1>8, <2>1 DEF FinishUpdate, Present
<1>9. ASSUME NEW c \in Clients, Request(c) PROVE ~rows'[e].deleted
  BY <1>2, <1>3, <1>6, <1>7, <1>8, <1>9
     DEF Request, StartWrite, RunSearches, RunStores, StartStatus, StartUpdate, IngestReplaces,
         IngestStores, GivesUp
<1> QED
  BY <1>3, <1>4, <1>9 DEF Next, Maintenance, DeleteNamespace, CleanupExpired, CleanupDuplicates

(* A deletion takes along everything that quotes what it deletes, unless a  *)
(* chain of quotations is longer than the rounds of propagateDeletion.      *)
THEOREM MemoryQuotesGoInRounds ==
  Spec => [][ChainsFit => \A e, q \in Present \cap DOMAIN rows' :
               rows'[e].deleted /\ ~rows[e].deleted /\ e \in rows[q].from => rows'[q].deleted]_vars
<1>1. IInv /\ [Next]_vars =>
        [ChainsFit => \A e, q \in Present \cap DOMAIN rows' :
           rows'[e].deleted /\ ~rows[e].deleted /\ e \in rows[q].from => rows'[q].deleted]_vars
  BY DeleteTakesQuotes, OnlyDeleteDeletes
<1> QED
  BY <1>1, Invariant, PTL DEF Spec

(* With no more rows than there are rounds, no chain is too long.           *)
THEOREM MemoryDeletionTakesQuotes ==
  ASSUME MaxRows <= MaxRounds
  PROVE  Spec => DeletionTakesQuotes
<1>1. IInv => ChainsFit
  BY FewRowsExhaust DEF ChainsFit
<1> QED
  BY <1>1, Invariant, MemoryQuotesGoInRounds, PTL DEF DeletionTakesQuotes

-----------------------------------------------------------------------------
(* The clean-up of duplicates *)

LEMMA BestStays ==
  ASSUME IInv, CleanupDuplicates, NEW e \in Present, Visible(rows[e])
  PROVE  \E x \in DOMAIN rows' :
           /\ rows'[x].ns = rows[e].ns /\ rows'[x].text = rows[e].text /\ Visible(rows'[x])
           /\ rows[e].status = "confirmed" => rows'[x].status = "confirmed"
<1>1. PICK S \in SUBSET Present :
        /\ \A d \in Present : Cardinality(Twins(d) \ S) = 1
        /\ \A d \in Present \ S : \A x \in Twins(d) : Rank(rows[x]) <= Rank(rows[d])
        /\ rows' = Cleared(Without(S), S)
  BY DEF CleanupDuplicates
<1>2. PICK x : x \in Twins(e) \ S
  BY <1>1, FS_EmptySet
<1>3. x \in Present \ S /\ rows[x].ns = rows[e].ns /\ rows[x].text = rows[e].text
  BY <1>2 DEF Twins
<1>4. Rank(rows[e]) <= Rank(rows[x])
  BY <1>1, <1>3 DEF Twins
<1>5. rows[e] \in Row /\ rows[x] \in Row
  BY <1>3 DEF IInv, TypeOK
<1>6. Visible(rows[x]) /\ (rows[e].status = "confirmed" => rows[x].status = "confirmed")
  BY <1>4, <1>5 DEF Rank, Visible, Row
<1>7. Nobody \notin S
  BY DEF IInv, TypeOK, Given, Nobody
<1>8. x \in DOMAIN rows' /\ rows'[x] = rows[x]
  BY <1>1, <1>3, <1>6, <1>7 DEF Cleared, Without, Visible
<1> QED
  BY <1>3, <1>6, <1>8

(* Of identical entries the one that stays can be seen if one of them could *)
(* be, and is confirmed if a visible one was.                               *)
THEOREM MemoryDuplicatesKeepTheBest == Spec => DuplicatesKeepTheBest
<1>1. IInv /\ [Next]_vars =>
        [CleanupDuplicates => \A e \in Present : Visible(rows[e]) =>
           \E x \in DOMAIN rows' :
             /\ rows'[x].ns = rows[e].ns /\ rows'[x].text = rows[e].text /\ Visible(rows'[x])
             /\ rows[e].status = "confirmed" => rows'[x].status = "confirmed"]_vars
  BY BestStays
<1> QED
  BY <1>1, Invariant, PTL DEF Spec, DuplicatesKeepTheBest

-----------------------------------------------------------------------------
(* The rolling summary: what is read off the messages of a chat in order *)

\* Induction over the naturals: a set that holds neither 0 nor a first number is empty.
LEMMA NoFirstNumber ==
  ASSUME NEW B \in SUBSET Nat, 0 \notin B, \A n \in Nat : n + 1 \in B => n \in B
  PROVE  B = {}
<1> SUFFICES ASSUME B # {} PROVE FALSE
  OBVIOUS
<1>1. PICK b \in B : \A c \in B : <<c, b>> \notin OpToRel(<, Nat)
  BY WFMin, NatLessThanWellFounded
<1>2. \A c \in B : ~(c < b)
  BY <1>1 DEF OpToRel
<1>3. b \in Nat /\ b # 0
  OBVIOUS
<1>4. b - 1 \in Nat /\ (b - 1) + 1 = b
  BY <1>3
<1>5. b - 1 \in B
  BY <1>4
<1> QED
  BY <1>2, <1>3, <1>5

\* f lists, for each number up to n, the places of S up to it.
Lists(f, S, n) ==
  f = [i \in 0 .. n |-> IF i = 0 THEN <<>> ELSE IF i \in S THEN Append(f[i - 1], i) ELSE f[i - 1]]

\* The function that InOrder defines by recursion is such a list.
LEMMA InOrderLists == ASSUME NEW S, NEW n PROVE InOrder(S, n) = (CHOOSE f : Lists(f, S, n))[n]
BY DEF InOrder, Lists

\* There is one for every set and every length.
LEMMA ListExists == ASSUME NEW S, NEW n \in Nat PROVE \E f : Lists(f, S, n)
<1> DEFINE B == {m \in Nat : ~\E f : Lists(f, S, m)}
<1>1. \E f : Lists(f, S, 0)
  <2> DEFINE f == [i \in 0 .. 0 |-> <<>>]
  <2>1. Lists(f, S, 0)
    BY DEF Lists
  <2> QED
    BY <2>1
<1>2. ASSUME NEW m \in Nat, NEW f, Lists(f, S, m)
      PROVE  \E g : Lists(g, S, m + 1)
  <2> DEFINE next == IF m + 1 \in S THEN Append(f[m], m + 1) ELSE f[m]
             g == [i \in 0 .. m + 1 |-> IF i = m + 1 THEN next ELSE f[i]]
  <2>1. \A i \in 0 .. m : f[i] = IF i = 0 THEN <<>> ELSE IF i \in S THEN Append(f[i - 1], i) ELSE f[i - 1]
    BY <1>2 DEF Lists
  <2>2. g \in [0 .. m + 1 -> {g[i] : i \in 0 .. m + 1}]
    OBVIOUS
  <2>3. \A i \in 0 .. m + 1 :
          g[i] = IF i = 0 THEN <<>> ELSE IF i \in S THEN Append(g[i - 1], i) ELSE g[i - 1]
    <3> TAKE i \in 0 .. m + 1
    <3>1. CASE i = m + 1
      <4>1. g[i] = next /\ g[i - 1] = f[m] /\ i # 0
        BY <3>1
      <4> QED
        BY <3>1, <4>1
    <3>2. CASE i = 0
      BY <2>1, <3>2
    <3>3. CASE i # m + 1 /\ i # 0
      <4>1. i \in 0 .. m /\ g[i] = f[i] /\ g[i - 1] = f[i - 1]
        BY <3>3
      <4> HIDE DEF g
      <4> QED
        BY <2>1, <3>3, <4>1
    <3> QED
      BY <3>1, <3>2, <3>3
  <2> HIDE DEF g, next
  <2>4. Lists(g, S, m + 1)
    BY <2>2, <2>3 DEF Lists
  <2> QED
    BY <2>4
<1>3. B \in SUBSET Nat /\ 0 \notin B /\ \A m \in Nat : m + 1 \in B => m \in B
  BY <1>1, <1>2
<1>4. B = {}
  BY <1>3, NoFirstNumber
<1> QED
  BY <1>4

\* Lists agree as far as their sets do.
LEMMA ListsAgree ==
  ASSUME NEW S, NEW T, NEW n \in Nat, NEW m \in Nat, NEW f, NEW g,
         Lists(f, S, n), Lists(g, T, m), NEW k \in 0 .. n, k <= m,
         \A i \in 1 .. k : i \in S <=> i \in T
  PROVE  f[k] = g[k]
<1> DEFINE B == {i \in 0 .. k : f[i] # g[i]}
<1>1. \A i \in 0 .. n : f[i] = IF i = 0 THEN <<>> ELSE IF i \in S THEN Append(f[i - 1], i) ELSE f[i - 1]
  BY DEF Lists
<1>2. \A i \in 0 .. m : g[i] = IF i = 0 THEN <<>> ELSE IF i \in T THEN Append(g[i - 1], i) ELSE g[i - 1]
  BY DEF Lists
<1>3. f[0] = g[0]
  BY <1>1, <1>2
<1>4. ASSUME NEW i \in Nat, i + 1 \in B, i \notin B PROVE FALSE
  <2>1. i + 1 \in 0 .. n /\ i + 1 \in 0 .. m /\ i + 1 \in 1 .. k /\ i + 1 # 0 /\ (i + 1) - 1 = i /\ f[i] = g[i]
    BY <1>4
  <2>2. f[i + 1] = IF i + 1 \in S THEN Append(f[i], i + 1) ELSE f[i]
    BY <1>1, <2>1
  <2>3. g[i + 1] = IF i + 1 \in T THEN Append(g[i], i + 1) ELSE g[i]
    BY <1>2, <2>1
  <2> QED
    BY <1>4, <2>1, <2>2, <2>3
<1>5. B \in SUBSET Nat /\ 0 \notin B
  BY <1>3
<1>6. B = {}
  BY <1>4, <1>5, NoFirstNumber
<1> QED
  BY <1>6

\* What InOrder gives for one message more.
LEMMA InOrderGrows ==
  ASSUME NEW S, NEW n \in Nat
  PROVE  /\ InOrder(S, 0) = <<>>
         /\ InOrder(S, n + 1) = IF n + 1 \in S THEN Append(InOrder(S, n), n + 1) ELSE InOrder(S, n)
<1> DEFINE f == CHOOSE h : Lists(h, S, n)
           g == CHOOSE h : Lists(h, S, n + 1)
           z == CHOOSE h : Lists(h, S, 0)
<1>1. Lists(f, S, n) /\ Lists(g, S, n + 1) /\ Lists(z, S, 0)
  BY ListExists
<1>2. InOrder(S, n) = f[n] /\ InOrder(S, n + 1) = g[n + 1] /\ InOrder(S, 0) = z[0]
  BY InOrderLists
<1> HIDE DEF f, g, z
<1>3. f[n] = g[n]
  BY <1>1, ListsAgree
<1>4. g[n + 1] = IF n + 1 \in S THEN Append(g[n], n + 1) ELSE g[n]
  <2>1. n + 1 \in 0 .. n + 1 /\ n + 1 # 0 /\ (n + 1) - 1 = n
    OBVIOUS
  <2>2. \A i \in 0 .. n + 1 :
          g[i] = IF i = 0 THEN <<>> ELSE IF i \in S THEN Append(g[i - 1], i) ELSE g[i - 1]
    BY <1>1 DEF Lists
  <2> QED
    BY <2>1, <2>2
<1>5. z[0] = <<>>
  BY <1>1 DEF Lists
<1> QED
  BY <1>2, <1>3, <1>4, <1>5

\* It reads the places up to n only.
LEMMA InOrderReads ==
  ASSUME NEW S, NEW T, NEW n \in Nat, \A i \in 1 .. n : i \in S <=> i \in T
  PROVE  InOrder(S, n) = InOrder(T, n)
<1> DEFINE f == CHOOSE h : Lists(h, S, n)
           g == CHOOSE h : Lists(h, T, n)
<1>1. Lists(f, S, n) /\ Lists(g, T, n)
  BY ListExists
<1>2. InOrder(S, n) = f[n] /\ InOrder(T, n) = g[n]
  BY InOrderLists
<1> HIDE DEF f, g
<1> QED
  BY <1>1, <1>2, ListsAgree

LEMMA InOrderType == ASSUME NEW S, NEW n \in Nat PROVE InOrder(S, n) \in Seq(Nat)
<1> DEFINE B == {m \in Nat : InOrder(S, m) \notin Seq(Nat)}
<1>1. InOrder(S, 0) \in Seq(Nat)
  <2>1. InOrder(S, 0) = <<>>
    BY InOrderGrows
  <2>2. <<>> \in Seq(Nat)
    OBVIOUS
  <2> QED
    BY <2>1, <2>2
<1>2. ASSUME NEW m \in Nat, InOrder(S, m) \in Seq(Nat) PROVE InOrder(S, m + 1) \in Seq(Nat)
  <2>1. InOrder(S, m + 1) \in {InOrder(S, m), Append(InOrder(S, m), m + 1)}
    BY InOrderGrows
  <2>2. Append(InOrder(S, m), m + 1) \in Seq(Nat)
    BY <1>2
  <2> QED
    BY <1>2, <2>1, <2>2
<1>3. B \in SUBSET Nat /\ 0 \notin B /\ \A m \in Nat : m + 1 \in B => m \in B
  BY <1>1, <1>2
<1> QED
  BY <1>3, NoFirstNumber

-----------------------------------------------------------------------------
(* The chat as a tab sees it *)

Roles == {"user", "agent", "tool"}
SeenOf(c) == InOrder({i \in DOMAIN c : c[i] \in {"user", "agent"}}, Len(c))
Seen == SeenOf(chat)

LEMMA StoredIsSeen == Stored({"user", "agent"}) = Seen
BY DEF Stored, Places, Seen, SeenOf

\* s begins t.
Starts(s, t) == Len(s) <= Len(t) /\ \A i \in 1 .. Len(s) : s[i] = t[i]

LEMMA SeenGrows ==
  ASSUME NEW c \in Seq(Roles), NEW role \in Roles
  PROVE  /\ SeenOf(c) \in Seq(Nat)
         /\ Append(c, role) \in Seq(Roles)
         /\ SeenOf(Append(c, role)) =
              IF role \in {"user", "agent"} THEN Append(SeenOf(c), Len(c) + 1) ELSE SeenOf(c)
<1> DEFINE d == Append(c, role)
           S == {i \in DOMAIN c : c[i] \in {"user", "agent"}}
           T == {i \in DOMAIN d : d[i] \in {"user", "agent"}}
           n == Len(c)
<1>1. d \in Seq(Roles) /\ Len(d) = n + 1 /\ n \in Nat /\ d[n + 1] = role /\ \A i \in 1 .. n : d[i] = c[i]
  OBVIOUS
<1>2. DOMAIN c = 1 .. n /\ DOMAIN d = 1 .. n + 1
  BY <1>1
<1>3. \A i \in 1 .. n : i \in S <=> i \in T
  BY <1>1, <1>2
<1>4. n + 1 \in T <=> role \in {"user", "agent"}
  BY <1>1, <1>2
<1> HIDE DEF d, n, S, T
<1>5. InOrder(S, n) = InOrder(T, n)
  BY <1>1, <1>3, InOrderReads
<1>6. InOrder(T, n + 1) = IF n + 1 \in T THEN Append(InOrder(T, n), n + 1) ELSE InOrder(T, n)
  BY <1>1, InOrderGrows
<1>7. InOrder(S, n) \in Seq(Nat)
  BY <1>1, InOrderType
<1>8. SeenOf(c) = InOrder(S, n) /\ SeenOf(d) = InOrder(T, n + 1)
  BY <1>1 DEF SeenOf, S, T, n
<1> QED
  BY <1>1, <1>4, <1>5, <1>6, <1>7, <1>8 DEF d, n

LEMMA AppendStarts ==
  ASSUME NEW t \in Seq(Nat), NEW x \in Nat, NEW s \in Seq(Nat), Starts(s, t)
  PROVE  Starts(s, Append(t, x))
BY DEF Starts

LEMMA SeenKeepsStarts ==
  ASSUME NEW c \in Seq(Roles), NEW role \in Roles
  PROVE  Starts(SeenOf(c), SeenOf(Append(c, role)))
         /\ \A s \in Seq(Nat) : Starts(s, SeenOf(c)) => Starts(s, SeenOf(Append(c, role)))
<1>1. SeenOf(c) \in Seq(Nat) /\ Len(c) + 1 \in Nat
  BY SeenGrows
<1>2. Starts(SeenOf(c), SeenOf(c))
  BY DEF Starts
<1>3. SeenOf(Append(c, role)) \in {SeenOf(c), Append(SeenOf(c), Len(c) + 1)}
  BY SeenGrows
<1> QED
  BY <1>1, <1>2, <1>3, AppendStarts

\* The first k of s.
First(s, k) == {s[i] : i \in 1 .. k}

LEMMA FirstOf ==
  ASSUME NEW s, NEW q \in Seq(Nat), NEW k \in Nat, Len(q) = k, \A i \in 1 .. k : q[i] = s[i]
  PROVE  ToSet(q) = First(s, k)
<1>1. DOMAIN q = 1 .. k
  OBVIOUS
<1>2. \A x : x \in ToSet(q) <=> \E i \in 1 .. k : x = q[i]
  BY <1>1 DEF ToSet
<1>3. \A x : x \in First(s, k) <=> \E i \in 1 .. k : x = s[i]
  BY DEF First
<1>4. \A x : x \in ToSet(q) <=> x \in First(s, k)
  BY <1>2, <1>3
<1> QED
  BY <1>4

LEMMA FirstIs == ASSUME NEW s \in Seq(Nat), NEW k \in 0 .. Len(s) PROVE ToSet(SubSeq(s, 1, k)) = First(s, k)
<1>1. Len(SubSeq(s, 1, k)) = k /\ SubSeq(s, 1, k) \in Seq(Nat) /\ \A i \in 1 .. k : SubSeq(s, 1, k)[i] = s[i]
  OBVIOUS
<1>2. k \in Nat
  OBVIOUS
<1> QED
  BY <1>1, <1>2, FirstOf

LEMMA FirstStarts ==
  ASSUME NEW s \in Seq(Nat), NEW t \in Seq(Nat), Starts(s, t), NEW k \in 0 .. Len(s)
  PROVE  First(s, k) = First(t, k)
<1>1. \A i \in 1 .. k : s[i] = t[i]
  <2>1. \A i \in 1 .. Len(s) : s[i] = t[i]
    BY DEF Starts
  <2>2. Len(s) \in Nat
    OBVIOUS
  <2>3. ASSUME NEW n \in Nat, NEW m \in 0 .. n PROVE 1 .. m \subseteq 1 .. n
    OBVIOUS
  <2>4. 1 .. k \subseteq 1 .. Len(s)
    BY <2>2, <2>3
  <2> QED BY <2>1, <2>4, Zenon
<1>2. \A x : x \in First(s, k) <=> \E i \in 1 .. k : x = s[i]
  BY DEF First
<1>3. \A x : x \in First(t, k) <=> \E i \in 1 .. k : x = t[i]
  BY DEF First
<1> QED
  BY <1>1, <1>2, <1>3

LEMMA AllFirst == ASSUME NEW s \in Seq(Nat) PROVE ToSet(s) = First(s, Len(s))
BY DEF First, ToSet

-----------------------------------------------------------------------------
(* A window *)

LEMMA WindowIs ==
  ASSUME NEW h \in Seq(Nat), NEW from, from.covers \in 0 .. Len(h)
  PROVE  /\ Window(h, from) \in Seq(Nat)
         /\ Len(Window(h, from)) = Len(h) - from.covers
         /\ \A i \in 1 .. Len(Window(h, from)) : Window(h, from)[i] = h[from.covers + i]
<1> DEFINE k == from.covers
<1>1. k \in 0 .. Len(h)
  OBVIOUS
<1> HIDE DEF k
<1>2. /\ SubSeq(h, k + 1, Len(h)) \in Seq(Nat)
      /\ Len(SubSeq(h, k + 1, Len(h))) = Len(h) - k
      /\ \A i \in 1 .. Len(h) - k : SubSeq(h, k + 1, Len(h))[i] = h[k + i]
  BY <1>1
<1> QED
  BY <1>2 DEF Window, k

LEMMA GreatestIn ==
  ASSUME NEW n \in Nat, NEW S \in SUBSET (1 .. n), S # {}
  PROVE  Max(S) \in S
<1> DEFINE B == {i \in Nat : \E k \in S : k = n - i}
<1>1. PICK x \in S : TRUE
  OBVIOUS
<1>2. B \in SUBSET Nat /\ n - x \in B
  BY <1>1
<1>3. PICK b \in B : \A c \in B : <<c, b>> \notin OpToRel(<, Nat)
  BY <1>2, WFMin, NatLessThanWellFounded
<1>4. \A c \in B : ~(c < b)
  BY <1>2, <1>3 DEF OpToRel
<1>5. n - b \in S
  BY <1>3
<1>6. \A y \in S : n - y \in B
  OBVIOUS
<1>7. ASSUME NEW y \in S PROVE n - b >= y
  <2>1. n - y \in Nat /\ b \in Nat /\ y \in Nat
    BY <1>2
  <2>2. ~(n - y < b)
    BY <1>4, <1>6
  <2> QED
    BY <2>1, <2>2
<1> QED
  BY <1>5, <1>7 DEF Max

LEMMA LastUserIn == ASSUME NEW w \in Seq(Nat) PROVE LastUser(w) \in 1 .. Len(w) + 1
<1> DEFINE users == {i \in DOMAIN w : IsUser(w[i])}
<1>1. users \in SUBSET (1 .. Len(w)) /\ Len(w) \in Nat
  OBVIOUS
<1>2. LastUser(w) = IF users = {} THEN Len(w) + 1 ELSE Max(users)
  BY DEF LastUser
<1> HIDE DEF users
<1>3. users # {} => Max(users) \in users
  BY <1>1, GreatestIn
<1>4. CASE users = {}
  BY <1>1, <1>2, <1>4
<1>5. CASE users # {}
  <2>1. LastUser(w) \in 1 .. Len(w)
    BY <1>1, <1>2, <1>3, <1>5
  <2> QED
    BY <1>1, <2>1
<1> QED
  BY <1>4, <1>5

\* The window is what is compressed and then the tail.
LEMMA WindowSplits ==
  ASSUME NEW w \in Seq(Nat)
  PROVE  /\ ToCompress(w) \in Seq(Nat) /\ Len(ToCompress(w)) \in 0 .. Len(w)
         /\ Retained(w) \in Seq(Nat)
         /\ ToSet(ToCompress(w)) = First(w, Len(ToCompress(w)))
         /\ ToSet(w) = ToSet(ToCompress(w)) \cup ToSet(Retained(w))
         /\ ToCompress(w) = <<>> => Retained(w) = w
<1> DEFINE u == LastUser(w)
<1>1. u \in 1 .. Len(w) + 1
  BY LastUserIn
<1>2. ToCompress(w) = SubSeq(w, 1, u - 1) /\ Retained(w) = SubSeq(w, u, Len(w))
  BY DEF ToCompress, Retained
<1> HIDE DEF u
<1>3. /\ SubSeq(w, 1, u - 1) \in Seq(Nat) /\ Len(SubSeq(w, 1, u - 1)) = u - 1
      /\ \A i \in 1 .. u - 1 : SubSeq(w, 1, u - 1)[i] = w[i]
  BY <1>1
<1>4. /\ SubSeq(w, u, Len(w)) \in Seq(Nat) /\ Len(SubSeq(w, u, Len(w))) = Len(w) - u + 1
      /\ \A i \in 1 .. Len(w) - u + 1 : SubSeq(w, u, Len(w))[i] = w[u + i - 1]
  BY <1>1
<1>5. ToSet(ToCompress(w)) = First(w, u - 1) /\ Len(ToCompress(w)) = u - 1 /\ u - 1 \in 0 .. Len(w)
      /\ DOMAIN ToCompress(w) = 1 .. u - 1
  <2>1. u - 1 \in Nat /\ u - 1 \in 0 .. Len(w)
    BY <1>1
  <2>2. ToSet(SubSeq(w, 1, u - 1)) = First(w, u - 1)
    BY <1>3, <2>1, FirstOf
  <2> QED
    BY <1>2, <1>3, <2>1, <2>2
<1>6. ToSet(w) = ToSet(ToCompress(w)) \cup ToSet(Retained(w))
  <2>1. ASSUME NEW x \in ToSet(w) PROVE x \in ToSet(ToCompress(w)) \cup ToSet(Retained(w))
    <3>1. PICK i \in 1 .. Len(w) : x = w[i]
      BY DEF ToSet
    <3>2. CASE i <= u - 1
      <4>1. i \in 1 .. u - 1
        BY <1>1, <3>1, <3>2
      <4> QED
        BY <1>5, <3>1, <4>1 DEF First
    <3>3. CASE i >= u
      <4>1. i - u + 1 \in 1 .. Len(w) - u + 1 /\ u + (i - u + 1) - 1 = i
        BY <1>1, <3>1, <3>3
      <4>2. Retained(w)[i - u + 1] = w[i] /\ i - u + 1 \in DOMAIN Retained(w)
        BY <1>1, <1>2, <1>4, <4>1
      <4> QED
        BY <3>1, <4>2 DEF ToSet
    <3> QED
      BY <1>1, <3>2, <3>3
  <2>2. ASSUME NEW x \in ToSet(ToCompress(w)) PROVE x \in ToSet(w)
    <3>1. PICK i \in 1 .. u - 1 : x = w[i]
      BY <1>5, <2>2 DEF First
    <3>2. i \in DOMAIN w
      BY <1>5, <3>1
    <3> QED
      BY <3>1, <3>2 DEF ToSet
  <2>3. ASSUME NEW x \in ToSet(Retained(w)) PROVE x \in ToSet(w)
    <3>1. PICK i \in 1 .. Len(w) - u + 1 : x = w[u + i - 1]
      BY <1>2, <1>4, <2>3 DEF ToSet
    <3>2. u + i - 1 \in 1 .. Len(w)
      BY <1>1
    <3> QED
      BY <3>1, <3>2 DEF ToSet
  <2> QED
    BY <2>1, <2>2, <2>3
<1>7. ToCompress(w) = <<>> => Retained(w) = w
  <2>1. SUFFICES ASSUME ToCompress(w) = <<>> PROVE Retained(w) = w
    OBVIOUS
  <2>2. u = 1
    <3>1. Len(ToCompress(w)) = 0 /\ Len(ToCompress(w)) = u - 1
      BY <1>5, <2>1
    <3> QED
      BY <1>1, <3>1
  <2> QED
    BY <1>2, <1>4, <2>2
<1> QED
  BY <1>2, <1>3, <1>4, <1>5, <1>6, <1>7

\* A summary of the first messages of a history, with a window after them, has them all.
LEMMA WindowCompletes ==
  ASSUME NEW h \in Seq(Nat), NEW from, from.covers \in 0 .. Len(h), NEW x \in ToSet(h),
         x \notin First(h, from.covers)
  PROVE  x \in ToSet(Window(h, from))
<1> DEFINE k == from.covers
<1>1. PICK i \in 1 .. Len(h) : x = h[i]
  BY DEF ToSet
<1>2. k \in 0 .. Len(h) /\ ~(i <= k)
  BY <1>1 DEF First
<1>3. /\ Window(h, from) \in Seq(Nat) /\ Len(Window(h, from)) = Len(h) - k
      /\ \A j \in 1 .. Len(Window(h, from)) : Window(h, from)[j] = h[k + j]
  BY WindowIs
<1> HIDE DEF k
<1>4. i - k \in 1 .. Len(Window(h, from)) /\ k + (i - k) = i
  BY <1>2, <1>3
<1>5. Window(h, from)[i - k] = x
  BY <1>1, <1>3, <1>4
<1> QED
  BY <1>3, <1>4, <1>5 DEF ToSet

-----------------------------------------------------------------------------
(* The invariant *)

Summaries == [folded : SUBSET Nat, covers : Nat]
RunStates == [at : {"idle", "begun", "compressing", "sent"}, history : Seq(Nat), from : Summaries,
              sent : [folded : SUBSET Nat, tail : Seq(Nat)]]

\* A summary holds the first messages that a tab sees, as many as its counter says.
Covered(s, seen) == s.covers <= Len(seen) /\ s.folded = First(seen, s.covers)

\* A run's history is the beginning of what a tab sees now; what a compression started
\* from is a summary of it; and what was sent has everything.
RunInv(q, seen) ==
  /\ q.at # "idle" => Starts(q.history, seen)
  /\ q.at = "compressing" =>
       q.from.covers <= Len(q.history) /\ q.from.folded = First(q.history, q.from.covers)
  /\ q.at = "sent" => ToSet(q.history) \subseteq q.sent.folded \cup ToSet(q.sent.tail)

SummaryInv ==
  /\ chat \in Seq(Roles)
  /\ summary \in Summaries /\ Covered(summary, Seen)
  /\ run \in [Runs -> RunStates]
  /\ \A r \in Runs : RunInv(run[r], Seen)

LEMMA SummaryStarts == SummaryInit => SummaryInv
<1> SUFFICES ASSUME SummaryInit PROVE SummaryInv
  OBVIOUS
<1>1. AtRest \in RunStates /\ AtRest.at = "idle" /\ NoSummary \in Summaries
      /\ NoSummary.covers = 0 /\ NoSummary.folded = {}
  BY DEF AtRest, RunStates, NoSummary, Unsent, Summaries
<1>2. chat \in Seq(Roles) /\ Seen \in Seq(Nat)
  BY InOrderType DEF SummaryInit, Seen, SeenOf
<1>3. Covered(NoSummary, Seen)
  BY <1>1, <1>2 DEF Covered, First
<1>4. \A r \in Runs : run[r] = AtRest
  BY DEF SummaryInit
<1> QED
  BY <1>1, <1>2, <1>3, <1>4 DEF SummaryInit, SummaryInv, RunInv

\* The chat grows by messages that do not change what was there.
LEMMA ChatGrows ==
  ASSUME SummaryInv, chat' \in Seq(Roles), Seen' \in Seq(Nat),
         \A s \in Seq(Nat) : Starts(s, Seen) => Starts(s, Seen')
  PROVE  /\ Covered(summary, Seen) => summary.covers <= Len(Seen') /\ summary.folded = First(Seen', summary.covers)
         /\ \A q \in RunStates : q.at # "idle" /\ Starts(q.history, Seen) => Starts(q.history, Seen')
<1>1. Seen \in Seq(Nat) /\ Starts(Seen, Seen')
  <2>1. Seen \in Seq(Nat)
    BY InOrderType DEF SummaryInv, Seen, SeenOf
  <2>2. Starts(Seen, Seen)
    BY <2>1 DEF Starts
  <2> QED
    BY <2>1, <2>2
<1>2. summary.covers \in Nat
  BY DEF SummaryInv, Summaries
<1>3. ASSUME Covered(summary, Seen)
      PROVE  summary.covers <= Len(Seen') /\ summary.folded = First(Seen', summary.covers)
  <2>1. summary.covers \in 0 .. Len(Seen)
    BY <1>1, <1>2, <1>3 DEF Covered
  <2>2. First(Seen, summary.covers) = First(Seen', summary.covers)
    BY <1>1, <2>1, FirstStarts
  <2> QED
    BY <1>1, <1>3, <2>1, <2>2 DEF Covered, Starts
<1>4. \A q \in RunStates : q.history \in Seq(Nat)
  BY DEF RunStates
<1> QED
  BY <1>3, <1>4

\* One run moves on while the chat stays or grows.
LEMMA RunMoves ==
  ASSUME SummaryInv, NEW r \in Runs, NEW q \in RunStates, run' = [run EXCEPT ![r] = q],
         chat' \in Seq(Roles), Seen' \in Seq(Nat),
         \A s \in Seq(Nat) : Starts(s, Seen) => Starts(s, Seen'),
         RunInv(q, Seen'), summary' \in Summaries, Covered(summary', Seen')
  PROVE  SummaryInv'
<1>1. run' \in [Runs -> RunStates] /\ \A x \in Runs : run'[x] = IF x = r THEN q ELSE run[x]
  BY DEF SummaryInv
<1>2. ASSUME NEW x \in Runs, x # r PROVE RunInv(run'[x], Seen')
  <2>1. run[x] \in RunStates /\ RunInv(run[x], Seen) /\ run'[x] = run[x]
    BY <1>1, <1>2 DEF SummaryInv
  <2>2. run[x].history \in Seq(Nat)
    BY <2>1 DEF RunStates
  <2> QED
    BY <2>1, <2>2 DEF RunInv
<1> QED
  BY <1>1, <1>2 DEF SummaryInv, RunInv

\* A run stores its message and takes what its tab shows.
LEMMA BeginKeepsSummary ==
  ASSUME SummaryInv, Callers = {"tab"}, NEW r \in Runs, RunBegins(r)
  PROVE  SummaryInv'
<1> DEFINE q == [AtRest EXCEPT !.at = "begun", !.history = Append(Seen, Len(chat) + 1)]
<1>1. run' = [run EXCEPT ![r] = q] /\ chat' = Append(chat, "user") /\ UNCHANGED summary
  BY StoredIsSeen DEF RunBegins, History
<1>2. chat \in Seq(Roles) /\ "user" \in Roles
  BY DEF SummaryInv, Roles
<1>3. /\ Seen \in Seq(Nat) /\ chat' \in Seq(Roles)
      /\ Seen' = Append(Seen, Len(chat) + 1) /\ Seen' \in Seq(Nat)
      /\ \A s \in Seq(Nat) : Starts(s, Seen) => Starts(s, Seen')
  BY <1>1, <1>2, SeenGrows, SeenKeepsStarts DEF Seen
<1>4. /\ q \in RunStates /\ q.at = "begun" /\ q.history = Seen'
  <2>1. NoSummary \in Summaries /\ Unsent \in [folded : SUBSET Nat, tail : Seq(Nat)]
    BY DEF NoSummary, Unsent, Summaries
  <2>2. ASSUME NEW h \in Seq(Nat)
        PROVE  LET b == [AtRest EXCEPT !.at = "begun", !.history = h]
               IN  b \in RunStates /\ b.at = "begun" /\ b.history = h
    BY <2>1 DEF AtRest, RunStates
  <2>3. Append(Seen, Len(chat) + 1) \in Seq(Nat)
    BY <1>3
  <2> QED
    BY <1>3, <2>2, <2>3
<1>5. Starts(Seen', Seen')
  BY <1>3 DEF Starts
<1> HIDE DEF q
<1>6. RunInv(q, Seen')
  BY <1>3, <1>4, <1>5 DEF RunInv
<1>7. summary' \in Summaries /\ Covered(summary', Seen')
  BY <1>1, <1>3, ChatGrows DEF SummaryInv, Covered
<1> QED
  BY <1>1, <1>3, <1>4, <1>6, <1>7, RunMoves

\* The answer and the tool results that a run stores come after everything.
LEMMA EndKeepsSummary ==
  ASSUME SummaryInv, NEW r \in Runs, RunEnds(r)
  PROVE  SummaryInv'
<1>1. run' = [run EXCEPT ![r] = AtRest] /\ UNCHANGED summary
  BY DEF RunEnds
<1>2. PICK rest \in {<<>>, <<"agent">>, <<"tool", "agent">>} : chat' = chat \o rest
  BY DEF RunEnds
<1>3. chat \in Seq(Roles) /\ Seen \in Seq(Nat)
  BY InOrderType DEF SummaryInv, Seen, SeenOf
<1>4. /\ chat' \in Seq(Roles) /\ Seen' \in Seq(Nat)
      /\ \A s \in Seq(Nat) : Starts(s, Seen) => Starts(s, Seen')
  <2>1. CASE rest = <<>>
    <3>1. chat' = chat
      BY <1>2, <1>3, <2>1
    <3> QED
      BY <1>3, <3>1 DEF Seen
  <2>2. CASE rest = <<"agent">>
    <3>1. chat' = Append(chat, "agent") /\ "agent" \in Roles
      BY <1>2, <1>3, <2>2 DEF Roles
    <3>2. Seen' \in Seq(Nat)
      BY InOrderType, <3>1, <1>3, SeenGrows DEF Seen
    <3> QED
      BY <1>3, <3>1, <3>2, SeenGrows, SeenKeepsStarts DEF Seen
  <2>3. CASE rest = <<"tool", "agent">>
    <3> DEFINE c == Append(chat, "tool")
    <3>1. chat' = Append(c, "agent") /\ "agent" \in Roles /\ "tool" \in Roles
      BY <1>2, <1>3, <2>3 DEF Roles
    <3>2. c \in Seq(Roles)
      BY <1>3, <3>1
    <3> HIDE DEF c
    <3>3. Append(c, "agent") \in Seq(Roles)
      BY <3>1, <3>2
    <3>4. SeenOf(Append(c, "agent")) \in Seq(Nat)
      BY <3>1, <3>3, SeenGrows
    <3>5. \A s \in Seq(Nat) : Starts(s, SeenOf(chat)) => Starts(s, SeenOf(c))
      BY <1>3, <3>1, SeenKeepsStarts DEF c
    <3>6. \A s \in Seq(Nat) : Starts(s, SeenOf(c)) => Starts(s, SeenOf(Append(c, "agent")))
      BY <3>1, <3>2, SeenKeepsStarts
    <3> QED
      BY <3>1, <3>3, <3>4, <3>5, <3>6 DEF Seen
  <2> QED
    BY <2>1, <2>2, <2>3
<1>5. AtRest \in RunStates /\ AtRest.at = "idle"
  BY DEF AtRest, Unsent, NoSummary, RunStates, Summaries
<1>6. RunInv(AtRest, Seen')
  BY <1>5 DEF RunInv
<1>7. summary' \in Summaries /\ Covered(summary', Seen')
  BY <1>1, <1>4, ChatGrows DEF SummaryInv, Covered
<1> QED
  BY <1>1, <1>4, <1>5, <1>6, <1>7, RunMoves

\* A run that is sent a summary of the first messages and the rest has them all.
LEMMA SendKeepsSummary ==
  ASSUME SummaryInv, NEW r \in Runs, NEW folded \in SUBSET Nat, NEW tail \in Seq(Nat),
         run[r].at # "idle", Sends(r, folded, tail), UNCHANGED chat,
         ToSet(run[r].history) \subseteq folded \cup ToSet(tail),
         summary' \in Summaries, Covered(summary, Seen)
  PROVE  Covered(summary', Seen') => SummaryInv'
<1> DEFINE q == [run[r] EXCEPT !.at = "sent", !.sent = [folded |-> folded, tail |-> tail]]
<1>1. run[r] \in RunStates /\ RunInv(run[r], Seen) /\ run \in [Runs -> RunStates]
  BY DEF SummaryInv
<1>2. run' = [run EXCEPT ![r] = q]
  BY <1>1 DEF Sends, RunStates
<1>3. /\ q \in RunStates /\ q.at = "sent" /\ q.history = run[r].history
      /\ q.sent.folded = folded /\ q.sent.tail = tail
  BY <1>1 DEF RunStates
<1> HIDE DEF q
<1>4. Seen' = Seen /\ Seen \in Seq(Nat) /\ chat' \in Seq(Roles)
  BY InOrderType DEF SummaryInv, Seen, SeenOf
<1>5. RunInv(q, Seen')
  BY <1>1, <1>3, <1>4 DEF RunInv
<1> QED
  BY <1>2, <1>3, <1>4, <1>5, RunMoves

\* What a run loads covers a beginning of its history, which is then folded.
LEMMA LoadedCovers ==
  ASSUME SummaryInv, NEW r \in Runs, run[r].at # "idle", NEW stored \in {summary, NoSummary}
  PROVE  LET h == run[r].history
             from == Loaded(stored, h)
         IN  /\ h \in Seq(Nat) /\ from \in Summaries /\ from.covers \in 0 .. Len(h)
             /\ First(h, from.covers) \subseteq from.folded
             /\ from.covers < Len(h) => from.folded = First(h, from.covers)
<1> DEFINE h == run[r].history
           from == Loaded(stored, h)
           k == IF stored.covers < Len(h) THEN stored.covers ELSE Len(h)
<1>1. h \in Seq(Nat) /\ Starts(h, Seen)
  BY DEF SummaryInv, RunStates, RunInv
<1>2. Seen \in Seq(Nat)
  BY InOrderType DEF SummaryInv, Seen, SeenOf
<1>3. stored \in Summaries /\ Covered(stored, Seen)
  <2>1. NoSummary \in Summaries /\ NoSummary.covers = 0 /\ NoSummary.folded = {}
    BY DEF NoSummary, Summaries
  <2>2. First(Seen, 0) = {}
    BY DEF First
  <2>3. Covered(NoSummary, Seen)
    BY <1>2, <2>1, <2>2 DEF Covered
  <2> QED
    BY <2>1, <2>3 DEF SummaryInv
<1>4. from.covers = k /\ from.folded = stored.folded /\ from \in Summaries /\ k \in 0 .. Len(h)
      /\ k <= stored.covers
  BY <1>1, <1>3 DEF Loaded, Summaries
<1>5. stored.covers \in 0 .. Len(Seen) /\ stored.folded = First(Seen, stored.covers)
  BY <1>2, <1>3 DEF Covered, Summaries
<1>6. k < Len(h) => k = stored.covers
  BY <1>1, <1>5
<1> HIDE DEF k, from, h
<1>7. First(h, k) = First(Seen, k)
  BY <1>1, <1>2, <1>4, FirstStarts
<1>8. First(Seen, k) \subseteq First(Seen, stored.covers)
  BY <1>4, <1>5 DEF First
<1> QED
  BY <1>1, <1>4, <1>5, <1>6, <1>7, <1>8 DEF h, from

LEMMA LoadKeepsSummary ==
  ASSUME SummaryInv, NEW r \in Runs, Loads(r)
  PROVE  SummaryInv'
<1>1. PICK stored \in {summary, NoSummary}, long \in BOOLEAN :
        LET h == run[r].history
            from == Loaded(stored, h)
            window == Window(h, from)
        IN  IF ~Triggers(window, long)
            THEN Reuses(r, from, h, window)
            ELSE IF ToCompress(window) = <<>>
            THEN Reuses(r, from, h, Retained(window))
            ELSE run' = [run EXCEPT ![r].at = "compressing", ![r].from = from]
  BY DEF Loads
<1> DEFINE h == run[r].history
           from == Loaded(stored, h)
           window == Window(h, from)
<1>2. run[r].at = "begun" /\ UNCHANGED <<chat, summary>>
  BY DEF Loads
<1>3. /\ h \in Seq(Nat) /\ from \in Summaries /\ from.covers \in 0 .. Len(h)
      /\ First(h, from.covers) \subseteq from.folded
      /\ from.covers < Len(h) => from.folded = First(h, from.covers)
  BY <1>2, LoadedCovers
<1>4. /\ window \in Seq(Nat) /\ Len(window) = Len(h) - from.covers
  BY <1>3, WindowIs
<1>5. \A x \in ToSet(h) : x \in from.folded \/ x \in ToSet(window)
  BY <1>3, WindowCompletes
<1>6. summary' \in Summaries /\ Covered(summary, Seen) /\ Covered(summary', Seen')
  BY <1>2 DEF SummaryInv, Covered, Seen, SeenOf
<1>7. /\ ToCompress(window) \in Seq(Nat) /\ Len(ToCompress(window)) \in 0 .. Len(window)
      /\ ToCompress(window) = <<>> => Retained(window) = window
  BY <1>4, WindowSplits
<1>8. ASSUME Reuses(r, from, h, window) PROVE SummaryInv'
  <2>1. CASE from.covers > 0
    <3>1. Sends(r, from.folded, window) /\ from.folded \in SUBSET Nat
      BY <1>3, <1>8, <2>1 DEF Reuses, Summaries
    <3> QED
      BY <1>2, <1>4, <1>5, <1>6, <3>1, SendKeepsSummary
  <2>2. CASE ~(from.covers > 0)
    <3>1. Sends(r, {}, h)
      BY <1>8, <2>2 DEF Reuses
    <3> QED
      BY <1>2, <1>3, <1>6, <3>1, SendKeepsSummary
  <2> QED
    BY <2>1, <2>2
<1>9. ASSUME ToCompress(window) # <<>>, run' = [run EXCEPT ![r].at = "compressing", ![r].from = from]
      PROVE  SummaryInv'
  <2> DEFINE q == [run[r] EXCEPT !.at = "compressing", !.from = from]
  <2>1. run[r] \in RunStates /\ RunInv(run[r], Seen) /\ run \in [Runs -> RunStates]
    BY DEF SummaryInv
  <2>2. run' = [run EXCEPT ![r] = q]
    BY <1>9, <2>1 DEF RunStates
  <2>3. q \in RunStates /\ q.at = "compressing" /\ q.history = h /\ q.from = from
    BY <1>3, <2>1 DEF RunStates
  <2>4. from.covers < Len(h)
    BY <1>3, <1>4, <1>7, <1>9
  <2> HIDE DEF q, from, h, window
  <2>5. Seen' = Seen /\ Seen \in Seq(Nat) /\ chat' \in Seq(Roles)
    BY <1>2, InOrderType DEF SummaryInv, Seen, SeenOf
  <2>6. Starts(h, Seen)
    BY <1>2, <2>1 DEF RunInv, h
  <2>7. RunInv(q, Seen')
    BY <1>3, <2>3, <2>4, <2>5, <2>6 DEF RunInv
  <2> QED
    BY <1>6, <2>2, <2>3, <2>5, <2>7, RunMoves
<1> HIDE DEF h, from, window
<1>10. \/ Reuses(r, from, h, window)
       \/ ToCompress(window) = <<>> /\ Reuses(r, from, h, Retained(window))
       \/ ToCompress(window) # <<>> /\ run' = [run EXCEPT ![r].at = "compressing", ![r].from = from]
  BY <1>1 DEF h, from, window
<1> QED
  BY <1>7, <1>8, <1>9, <1>10

\* A compression folds the window but for the tail, and the chat has had those messages
\* ever since the run began.
LEMMA CompressKeepsSummary ==
  ASSUME SummaryInv, NEW r \in Runs, Compresses(r)
  PROVE  SummaryInv'
<1> DEFINE h == run[r].history
           from == run[r].from
           window == Window(h, from)
           k == from.covers
           n == Len(ToCompress(window))
<1>1. /\ run[r].at = "compressing" /\ UNCHANGED chat
      /\ summary' = [folded |-> Folds(from, window), covers |-> Covers(from, window)]
      /\ Sends(r, Folds(from, window), Retained(window))
  BY DEF Compresses
<1>2. run[r] \in RunStates /\ RunInv(run[r], Seen)
  BY DEF SummaryInv
<1>3. /\ h \in Seq(Nat) /\ from \in Summaries /\ k \in 0 .. Len(h)
      /\ from.folded = First(h, k) /\ Starts(h, Seen)
  BY <1>1, <1>2 DEF RunStates, Summaries, RunInv
<1>4. /\ window \in Seq(Nat) /\ Len(window) = Len(h) - k
      /\ \A i \in 1 .. Len(window) : window[i] = h[k + i]
  BY <1>3, WindowIs
<1>5. /\ n \in 0 .. Len(window) /\ ToSet(ToCompress(window)) = First(window, n)
      /\ Retained(window) \in Seq(Nat)
      /\ ToSet(window) = ToSet(ToCompress(window)) \cup ToSet(Retained(window))
  BY <1>4, WindowSplits
<1>6. Folds(from, window) = from.folded \cup First(window, n) /\ Covers(from, window) = k + n
  BY <1>5 DEF Folds, Covers
<1>7. \A x \in ToSet(h) : x \in First(h, k) \/ x \in ToSet(window)
  BY <1>3, WindowCompletes
<1>8. Seen' = Seen /\ Seen \in Seq(Nat)
  BY <1>1, InOrderType DEF SummaryInv, Seen, SeenOf
<1> HIDE DEF h, from, window, k, n
<1>9. k + n \in 0 .. Len(h) /\ k \in Nat /\ n \in Nat
  BY <1>3, <1>4, <1>5
<1>10. First(h, k) \cup First(window, n) = First(h, k + n)
  <2>1. \A i \in 1 .. n : window[i] = h[k + i]
    BY <1>3, <1>4, <1>5
  <2>2. ASSUME NEW x \in First(h, k) \cup First(window, n) PROVE x \in First(h, k + n)
    <3>1. CASE x \in First(h, k)
      BY <1>9, <3>1 DEF First
    <3>2. CASE x \in First(window, n)
      <4>1. PICK i \in 1 .. n : x = h[k + i]
        BY <2>1, <3>2 DEF First
      <4>2. k + i \in 1 .. k + n
        BY <1>9
      <4> QED
        BY <4>1, <4>2 DEF First
    <3> QED
      BY <2>2, <3>1, <3>2
  <2>3. ASSUME NEW x \in First(h, k + n) PROVE x \in First(h, k) \cup First(window, n)
    <3>1. PICK i \in 1 .. k + n : x = h[i]
      BY <2>3 DEF First
    <3>2. CASE i <= k
      BY <1>9, <3>1, <3>2 DEF First
    <3>3. CASE i > k
      <4>1. i - k \in 1 .. n /\ k + (i - k) = i
        BY <1>9, <3>3
      <4>2. window[i - k] = x
        BY <2>1, <3>1, <4>1
      <4> QED
        BY <4>1, <4>2 DEF First
    <3> QED
      BY <1>9, <3>2, <3>3
  <2> QED
    BY <2>2, <2>3
<1>11. First(h, k + n) = First(Seen, k + n) /\ k + n <= Len(Seen)
  <2>1. First(h, k + n) = First(Seen, k + n)
    BY <1>3, <1>8, <1>9, FirstStarts
  <2> QED
    BY <1>3, <1>8, <1>9, <2>1 DEF Starts
<1>12. First(h, k + n) \in SUBSET Nat
  BY <1>3, <1>9 DEF First
<1>13. summary' = [folded |-> First(h, k + n), covers |-> k + n]
  BY <1>1, <1>3, <1>6, <1>10 DEF h, from, window
<1>14. summary' \in Summaries /\ summary'.covers = k + n /\ summary'.folded = First(h, k + n)
  BY <1>9, <1>12, <1>13 DEF Summaries
<1>15. Covered(summary', Seen') /\ Covered(summary, Seen)
  BY <1>8, <1>11, <1>14 DEF Covered, SummaryInv
<1>16. Sends(r, First(h, k + n), Retained(window))
  BY <1>1, <1>3, <1>6, <1>10 DEF h, from, window
<1>17. ToSet(h) \subseteq First(h, k + n) \cup ToSet(Retained(window))
  BY <1>5, <1>7, <1>10
<1>18. run[r].at # "idle" /\ h = run[r].history
  BY <1>1 DEF h
<1> QED
  BY <1>1, <1>5, <1>12, <1>14, <1>15, <1>16, <1>17, <1>18, SendKeepsSummary

LEMMA FailKeepsSummary ==
  ASSUME SummaryInv, NEW r \in Runs, FailsToCompress(r)
  PROVE  SummaryInv'
<1>1. run[r].history \in Seq(Nat) /\ run[r].at # "idle"
  BY DEF SummaryInv, RunStates, FailsToCompress
<1>2. summary' \in Summaries /\ Covered(summary, Seen) /\ Covered(summary', Seen')
  BY DEF SummaryInv, FailsToCompress, Covered, Seen, SeenOf
<1> QED
  BY <1>1, <1>2, SendKeepsSummary DEF FailsToCompress

LEMMA SummaryKept == Callers = {"tab"} /\ SummaryInv /\ [SummaryNext]_summaryVars => SummaryInv'
<1> SUFFICES ASSUME Callers = {"tab"}, SummaryInv, [SummaryNext]_summaryVars PROVE SummaryInv'
  OBVIOUS
<1>1. CASE UNCHANGED summaryVars
  BY <1>1 DEF summaryVars, SummaryInv, RunInv, Covered, Seen, SeenOf
<1>2. CASE SummaryNext
  BY <1>2, BeginKeepsSummary, LoadKeepsSummary, CompressKeepsSummary, FailKeepsSummary, EndKeepsSummary
     DEF SummaryNext
<1> QED
  BY <1>1, <1>2

LEMMA SummaryInductive == ASSUME Callers = {"tab"} PROVE SummarySpec => []SummaryInv
<1>1. SummaryInv /\ [SummaryNext]_summaryVars => SummaryInv'
  BY SummaryKept
<1> QED
  BY <1>1, SummaryStarts, PTL DEF SummarySpec

\* Whatever other runs of the chat compress between its load and its answer, every message
\* of the history a tab sent reaches the model in the summary or in the tail
\* (RollingSummaryService.ts 194-337).
THEOREM SummaryLosesNothing ==
  ASSUME Callers = {"tab"}
  PROVE  SummarySpec => []NothingFallsBetween
<1>1. SummaryInv => NothingFallsBetween
  BY DEF SummaryInv, RunInv, NothingFallsBetween
<1> QED
  BY <1>1, SummaryInductive, PTL

\* The stored summary holds the messages its counter covers, after any number of
\* overlapping compressions of what the tabs of the chat sent
\* (RollingSummaryService.ts 286-321).
THEOREM SummaryMatchesCounter ==
  ASSUME Callers = {"tab"}
  PROVE  SummarySpec => []CounterMatchesText
<1>1. SummaryInv => CounterMatchesText
  <2> SUFFICES ASSUME SummaryInv PROVE CounterMatchesText
    OBVIOUS
  <2>1. Seen \in Seq(Nat)
    BY InOrderType DEF SummaryInv, Seen, SeenOf
  <2>2. summary.covers \in 0 .. Len(Seen) /\ summary.folded = First(Seen, summary.covers)
    BY <2>1 DEF SummaryInv, Covered, Summaries
  <2>3. ToSet(SubSeq(Seen, 1, summary.covers)) = First(Seen, summary.covers)
    BY <2>1, <2>2, FirstIs
  <2> QED
    BY <2>2, <2>3, StoredIsSeen DEF CounterMatchesText
<1> QED
  BY <1>1, SummaryInductive, PTL
=============================================================================
