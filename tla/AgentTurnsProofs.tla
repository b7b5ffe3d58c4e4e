-------------------------- MODULE AgentTurnsProofs --------------------------
(***************************************************************************)
(* Proofs about AgentTurns for every bound on turns, tokens and calls: its *)
(* rows hold the text of their own turn, one row for each turn, in order,  *)
(* and the whole implements TurnTranscript.                                *)
(*                                                                         *)
(* The argument follows a write from the tracker through the queue into    *)
(* its row.  A write v may stand before a write w if it belongs to an      *)
(* earlier turn, or to the same turn with less text (Before).  Queue and   *)
(* rows are sorted by it (Sorted).  What the tracker may still write next  *)
(* belongs behind all of them, because they are covered by the tracker's   *)
(* current row and text (Covered).                                         *)
(***************************************************************************)
EXTENDS AgentTurns, SequenceTheorems, TLAPS

Before(v, w) ==
  (v.kind = "agent" /\ w.kind = "agent")
  => /\ v.ref <= w.ref
     /\ v.ref = w.ref => v.content \subseteq w.content

Sorted(q, rs) ==
  /\ \A i, j \in 1 .. Len(q) : i < j => Before(q[i], q[j])
  /\ \A i \in 1 .. Len(rs), j \in 1 .. Len(q) : Before(rs[i], q[j])

(* Write w stays within row and text of tracker state s. *)
Within(w, s) ==
  w.kind = "agent" => /\ w.ref <= s.rowRef
                      /\ w.ref = s.rowRef => w.content \subseteq s.text

Covered(q, s) == \A i \in 1 .. Len(q) : Within(q[i], s)

(* Write w goes on from tracker state s. *)
Follows(w, s) ==
  w.kind = "agent" => /\ s.rowRef <= w.ref
                      /\ w.ref = s.rowRef => s.text \subseteq w.content

(* Write w carries text of its own turn, h being the history of texts. *)
Belongs(w, h) == w.kind = "agent" => w.content \subseteq h[w.ref]

Own(q, h) == \A i \in 1 .. Len(q) : Belongs(q[i], h)

(* Tracker state t may come after tracker state s. *)
Advances(s, t) == /\ s.rowRef <= t.rowRef
                  /\ s.rowRef = t.rowRef => s.text \subseteq t.text

(* The tracker's row and text are those of its turn. *)
Sound(s, h) ==
  /\ s.turnIndex < 0 => s.rowRef = NoRef /\ s.text = {}
  /\ s.turnIndex >= 0 => s.rowRef = s.turnIndex + 1 /\ s.text \subseteq h[s.rowRef]

(* What one event writes: nothing, or a write that goes on from s. *)
Wrote(ws, s, h) ==
  ws = <<>> \/ \E w \in Write : ws = <<w>> /\ Follows(w, s) /\ Belongs(w, h)

(* messageId and the rows of the agent name each other. *)
RowOf(t) ==
  /\ messageId[t] \in {NoId, GhostId} \cup 1 .. Len(rows)
  /\ messageId[t] \in 1 .. Len(rows)
       => rows[messageId[t]].kind = "agent" /\ rows[messageId[t]].ref = t

RowsNamed ==
  /\ \A t \in Turns : RowOf(t)
  /\ \A i \in 1 .. Len(rows) : rows[i].kind = "agent" => messageId[rows[i].ref] = i

Over == phase \in {"done", "returned"}

CallInv == /\ sub => call = "running"
           /\ Over => call = "none"

(* The inductive invariant. *)
TextInv == /\ Sound(turn, said)
           /\ Own(queue, said) /\ Own(rows, said)
           /\ Sorted(queue, rows)
           /\ ~Over => Covered(queue, turn) /\ Covered(rows, turn)

IInv == TypeOK /\ CallInv /\ TextInv /\ RowsNamed /\ OneRowPerTurn

-----------------------------------------------------------------------------
(* Queueing what an event wrote.                                           *)

(* A sequence with one more element, element by element.                   *)
LEMMA Snoc ==
  ASSUME NEW q \in Seq(Write), NEW w \in Write
  PROVE  /\ q \o <<w>> \in Seq(Write)
         /\ Len(q \o <<w>>) = Len(q) + 1
         /\ \A i \in 1 .. Len(q) : (q \o <<w>>)[i] = q[i]
         /\ (q \o <<w>>)[Len(q) + 1] = w
  BY AppendProperties, AppendIsConcat

(* A write that goes on from a state that covers queue and rows may stand  *)
(* behind all of them.                                                     *)
LEMMA CoveredBefore ==
  ASSUME NEW v \in Write, NEW w \in Write, NEW s \in TurnState, Within(v, s), Follows(w, s)
  PROVE  Before(v, w)
<1>1. CASE v.kind = "agent" /\ w.kind = "agent"
  <2>1. v \in TurnWrite /\ w \in TurnWrite
    BY <1>1 DEF Write, ToolWrite
  <2>2. v.ref \in Int /\ w.ref \in Int /\ s.rowRef \in Int
    BY <2>1 DEF TurnWrite, Turns, TurnState
  <2>3. v.ref <= s.rowRef /\ s.rowRef <= w.ref
    BY <1>1 DEF Within, Follows
  <2>4. v.ref = w.ref => v.ref = s.rowRef /\ w.ref = s.rowRef
    BY <2>2, <2>3
  <2> QED BY <1>1, <2>2, <2>3, <2>4 DEF Before, Within, Follows
<1> QED BY <1>1 DEF Before

(* Queueing what an event wrote keeps the queue typed, sorted, and its     *)
(* text own.                                                               *)
LEMMA QueueWrites ==
  ASSUME NEW q \in Seq(Write), NEW rs \in Seq(Write), NEW s \in TurnState, NEW h, NEW ws,
         Sorted(q, rs), Covered(q, s), Covered(rs, s), Own(q, h), Wrote(ws, s, h)
  PROVE  q \o ws \in Seq(Write) /\ Sorted(q \o ws, rs) /\ Own(q \o ws, h)
<1>1. CASE ws = <<>>
  BY <1>1, ConcatEmptySeq
<1>2. ASSUME NEW w \in Write, ws = <<w>>, Follows(w, s), Belongs(w, h)
      PROVE  q \o ws \in Seq(Write) /\ Sorted(q \o ws, rs) /\ Own(q \o ws, h)
  <2> DEFINE qw == q \o ws
  <2>1. /\ qw \in Seq(Write) /\ Len(qw) = Len(q) + 1
        /\ \A i \in 1 .. Len(q) : qw[i] = q[i]
        /\ qw[Len(q) + 1] = w
    BY <1>2, Snoc
  <2> HIDE DEF qw
  <2>2. Len(q) \in Nat /\ Len(rs) \in Nat
    BY LenProperties
  <2>3. \A i \in 1 .. Len(q) : q[i] \in Write /\ Within(q[i], s)
    BY ElementOfSeq DEF Covered
  <2>4. \A i \in 1 .. Len(rs) : rs[i] \in Write /\ Within(rs[i], s)
    BY ElementOfSeq DEF Covered
  <2>5. \A i \in 1 .. Len(qw) : i \in 1 .. Len(q) \/ i = Len(q) + 1
    BY <2>1, <2>2
  <2>6. ASSUME NEW i \in 1 .. Len(qw), NEW j \in 1 .. Len(qw), i < j
        PROVE  Before(qw[i], qw[j])
    <3>1. i \in 1 .. Len(q)
      BY <2>1, <2>2, <2>6
    <3>2. CASE j \in 1 .. Len(q)
      BY <3>1, <3>2, <2>1, <2>6 DEF Sorted
    <3>3. CASE j = Len(q) + 1
      BY <3>1, <3>3, <2>1, <2>3, <1>2, CoveredBefore
    <3> QED BY <2>5, <3>2, <3>3
  <2>7. ASSUME NEW i \in 1 .. Len(rs), NEW j \in 1 .. Len(qw)
        PROVE  Before(rs[i], qw[j])
    <3>1. CASE j \in 1 .. Len(q)
      BY <3>1, <2>1 DEF Sorted
    <3>2. CASE j = Len(q) + 1
      BY <3>2, <2>1, <2>4, <1>2, CoveredBefore
    <3> QED BY <2>5, <3>1, <3>2
  <2>8. Own(qw, h)
    BY <2>1, <2>5, <1>2 DEF Own
  <2> QED BY <2>1, <2>6, <2>7, <2>8 DEF Sorted, qw
<1> QED BY <1>1, <1>2 DEF Wrote

(* What a state covers is covered by the states after it.                  *)
LEMMA CoveredStays ==
  ASSUME NEW q \in Seq(Write), NEW s \in TurnState, NEW t \in TurnState,
         Covered(q, s), Advances(s, t)
  PROVE  Covered(q, t)
<1>1. ASSUME NEW i \in 1 .. Len(q) PROVE Within(q[i], t)
  <2>1. q[i] \in Write /\ Within(q[i], s)
    BY ElementOfSeq DEF Covered
  <2>2. CASE q[i].kind = "agent"
    <3>1. q[i].ref \in Int /\ s.rowRef \in Int /\ t.rowRef \in Int
      BY <2>1, <2>2 DEF Write, ToolWrite, TurnWrite, Turns, TurnState
    <3> QED BY <2>1, <2>2, <3>1 DEF Within, Advances
  <2> QED BY <2>2 DEF Within
<1> QED BY <1>1 DEF Covered

(* A state that covers a queue and what is added to it covers the longer   *)
(* queue.                                                                  *)
LEMMA QueueCovered ==
  ASSUME NEW q \in Seq(Write), NEW t, NEW ws, NEW s, NEW h,
         Covered(q, t), Covered(ws, t), Wrote(ws, s, h)
  PROVE  Covered(q \o ws, t)
<1>1. CASE ws = <<>>
  BY <1>1, ConcatEmptySeq
<1>2. ASSUME NEW w \in Write, ws = <<w>> PROVE Covered(q \o ws, t)
  <2>1. Within(w, t)
    BY <1>2 DEF Covered
  <2>2. \A i \in 1 .. Len(q \o <<w>>) : i \in 1 .. Len(q) \/ i = Len(q) + 1
    BY Snoc, LenProperties
  <2> QED BY <1>2, <2>1, <2>2, Snoc DEF Covered
<1> QED BY <1>1, <1>2 DEF Wrote

(* What feeding an event to the tracker in state s must give.              *)
Fed(f, s, h) ==
  /\ f.state \in TurnState
  /\ Sound(f.state, h)
  /\ Advances(s, f.state)
  /\ Wrote(f.writes, s, h)
  /\ Covered(f.writes, f.state)

IsToolRow(jobs) == jobs = <<>> \/ \E j \in ToolWrite : jobs = <<j>>

(* emitRunEvent's two queueings keep the queue sorted and covered.         *)
LEMMA EnqueueFed ==
  ASSUME NEW q \in Seq(Write), NEW rs \in Seq(Write), NEW s \in TurnState, NEW h, NEW f,
         NEW jobs, Sorted(q, rs), Covered(q, s), Covered(rs, s), Own(q, h), Fed(f, s, h),
         IsToolRow(jobs)
  PROVE  /\ q \o f.writes \o jobs \in Seq(Write)
         /\ Sorted(q \o f.writes \o jobs, rs)
         /\ Own(q \o f.writes \o jobs, h)
         /\ Covered(q \o f.writes \o jobs, f.state)
         /\ Covered(rs, f.state)
<1> DEFINE q1 == q \o f.writes
<1>1. q1 \in Seq(Write) /\ Sorted(q1, rs) /\ Own(q1, h)
  BY QueueWrites DEF Fed
<1>2. Covered(q, f.state) /\ Covered(rs, f.state)
  BY CoveredStays DEF Fed
<1>3. Covered(q1, f.state)
  BY <1>2, QueueCovered DEF Fed
<1>4. Wrote(jobs, f.state, h) /\ Covered(jobs, f.state)
  <2>1. CASE jobs = <<>>
    BY <2>1 DEF Wrote, Covered
  <2>2. ASSUME NEW j \in ToolWrite, jobs = <<j>> PROVE Wrote(jobs, f.state, h) /\ Covered(jobs, f.state)
    <3>1. j \in Write /\ j.kind # "agent"
      BY DEF Write, ToolWrite
    <3> QED BY <2>2, <3>1 DEF Wrote, Covered, Follows, Belongs, Within
  <2> QED BY <2>1, <2>2 DEF IsToolRow
<1>5. f.state \in TurnState
  BY DEF Fed
<1> HIDE DEF q1
<1>6. q1 \o jobs \in Seq(Write) /\ Sorted(q1 \o jobs, rs) /\ Own(q1 \o jobs, h)
  BY <1>1, <1>2, <1>3, <1>4, <1>5, QueueWrites
<1>7. Covered(q1 \o jobs, f.state)
  BY <1>1, <1>3, <1>4, QueueCovered
<1> QED BY <1>2, <1>6, <1>7 DEF q1

-----------------------------------------------------------------------------
(* The events of the tracker.                                              *)

History == [Turns -> SUBSET Tokens]

(* A sound tracker's row reference is its turn index plus one, and its     *)
(* text is tokens.                                                         *)
LEMMA SoundRow ==
  ASSUME NEW s \in TurnState, NEW h, Sound(s, h)
  PROVE  /\ s.rowRef \in Nat /\ s.turnIndex \in Int /\ s.turnIndex + 1 = s.rowRef
         /\ s.turnIndex >= 0 => s.rowRef \in Turns
         /\ s.text \subseteq Tokens
  BY BoundsAssumption DEF Sound, TurnState, NoRef, Turns

(* A write of the tracker's current text.                                  *)
LEMMA CurrentText ==
  ASSUME NEW s \in TurnState, NEW h, Sound(s, h), NEW status \in Status, s.turnIndex >= 0
  PROVE  LET w == WriteOf(s, s.text, status)
         IN  w \in Write /\ Follows(w, s) /\ Within(w, s) /\ Belongs(w, h) /\ w.ref = s.rowRef
<1> DEFINE w == WriteOf(s, s.text, status)
<1>1. /\ s.rowRef \in Turns /\ s.text \in SUBSET Tokens /\ s.rowRef \in Int
      /\ s.text \subseteq h[s.rowRef]
  BY SoundRow DEF Sound
<1>2. w \in TurnWrite /\ w.ref = s.rowRef /\ w.content = s.text
  BY <1>1 DEF WriteOf, TurnWrite
<1> HIDE DEF w
<1>3. w \in Write /\ Follows(w, s) /\ Within(w, s) /\ Belongs(w, h)
  BY <1>1, <1>2 DEF Write, Follows, Within, Belongs
<1> QED BY <1>2, <1>3 DEF w

(* Flush leaves row and text alone and writes the current text if at all.  *)
LEMMA FlushFed ==
  ASSUME NEW s \in TurnState, NEW h, Sound(s, h), NEW status \in Status
  PROVE  /\ Fed(Flush(s, status), s, h)
         /\ Flush(s, status).state.turnIndex = s.turnIndex
         /\ Flush(s, status).state.rowRef = s.rowRef
         /\ Flush(s, status).state.text = s.text
<1> DEFINE f == Flush(s, status)
<1>1. /\ f.state \in TurnState /\ f.state.turnIndex = s.turnIndex
      /\ f.state.rowRef = s.rowRef /\ f.state.text = s.text
  <2>1. CASE Flushable(s)
    BY <2>1 DEF Flush, TurnState
  <2>2. CASE ~Flushable(s)
    BY <2>2 DEF Flush, NoWrites
  <2> QED BY <2>1, <2>2
<1>2. f.writes = <<>> \/ (s.turnIndex >= 0 /\ f.writes = <<WriteOf(s, s.text, status)>>)
  BY DEF Flush, Flushable, NoWrites
<1> HIDE DEF f
<1>3. Wrote(f.writes, s, h) /\ Covered(f.writes, s)
  <2>1. CASE f.writes = <<>>
    BY <2>1 DEF Wrote, Covered
  <2>2. CASE s.turnIndex >= 0 /\ f.writes = <<WriteOf(s, s.text, status)>>
    BY <2>2, CurrentText DEF Wrote, Covered
  <2> QED BY <1>2, <2>1, <2>2
<1>4. Covered(f.writes, f.state) /\ Sound(f.state, h) /\ Advances(s, f.state)
  <2>1. s.rowRef \in Nat
    BY SoundRow
  <2> QED BY <1>1, <1>3, <2>1 DEF Covered, Within, Sound, Advances
<1> QED BY <1>1, <1>3, <1>4 DEF Fed, f

(* The first event opens turn 0; EnsureTurn never changes an open turn.    *)
LEMMA EnsureTurnSound ==
  ASSUME NEW s \in TurnState, NEW h \in History, Sound(s, h)
  PROVE  LET t == EnsureTurn(s)
         IN  /\ t \in TurnState /\ Sound(t, h) /\ Advances(s, t)
             /\ t.turnIndex >= 0 /\ t.text = s.text
             /\ s.turnIndex >= 0 => t = s
<1> DEFINE t == EnsureTurn(s)
<1> USE BoundsAssumption
<1>1. CASE s.turnIndex >= 0
  <2>1. t = s
    BY <1>1 DEF EnsureTurn, TurnState
  <2> QED BY <1>1, <2>1, SoundRow DEF Advances
<1>2. CASE s.turnIndex < 0
  <2>1. t = [s EXCEPT !.turnIndex = 0, !.rowRef = 1, !.turnFinalized = FALSE]
    BY <1>2 DEF EnsureTurn
  <2>2. t = [text |-> s.text, turnIndex |-> 0, rowRef |-> 1, turnFinalized |-> FALSE]
    BY <2>1 DEF TurnState
  <2>3. t.turnIndex = 0 /\ t.rowRef = 1 /\ t.text = s.text /\ t \in TurnState
    <3>1. 0 \in -1 .. MaxTurns - 1 /\ 1 \in 0 .. MaxTurns
      OBVIOUS
    <3> QED BY <2>2, <3>1 DEF TurnState
  <2>4. s.rowRef = 0 /\ s.text = {}
    BY <1>2 DEF Sound, NoRef
  <2> HIDE DEF t
  <2>5. Sound(t, h) /\ Advances(s, t)
    BY <2>3, <2>4 DEF Sound, Advances
  <2> QED BY <1>2, <2>3, <2>5 DEF t, TurnState
<1> QED BY <1>1, <1>2 DEF TurnState

(* The throttled write of a sound state.                                   *)
LEMMA StreamingWriteFed ==
  ASSUME NEW s \in TurnState, NEW t \in TurnState, NEW h, Sound(t, h), Advances(s, t),
         NEW tick \in BOOLEAN
  PROVE  Fed([state |-> t, writes |-> StreamingWrite(t, tick)], s, h)
<1> DEFINE ws == StreamingWrite(t, tick)
           w == WriteOf(t, t.text, "streaming")
<1>1. ws = <<>> \/ (t.turnIndex >= 0 /\ ws = <<w>>)
  BY DEF StreamingWrite, Flushable
<1>2. t.turnIndex >= 0 => w \in Write /\ Follows(w, t) /\ Within(w, t) /\ Belongs(w, h)
  BY CurrentText DEF Status
<1>3. ASSUME t.turnIndex >= 0 PROVE Follows(w, s)
  <2>1. w.ref = t.rowRef /\ w.content = t.text
    BY DEF WriteOf
  <2> QED BY <2>1 DEF Follows, Advances
<1> HIDE DEF ws, w
<1>4. Wrote(ws, s, h) /\ Covered(ws, t)
  BY <1>1, <1>2, <1>3 DEF Wrote, Covered
<1> QED BY <1>4 DEF Fed, ws

(* A token event of AgentTurns is a well-behaved event of the tracker.     *)
LEMMA FeedTokenFed ==
  ASSUME NEW s \in TurnState, NEW h \in History, Sound(s, h), NEW tok \in Tokens,
         NEW tick \in BOOLEAN, NEW h2,
         h2 = [h EXCEPT ![TurnOf(FeedToken(s, tok, tick).state)] = @ \cup {tok}]
  PROVE  Fed(FeedToken(s, tok, tick), s, h2)
<1> DEFINE e == EnsureTurn(s)
           t == [e EXCEPT !.text = @ \cup {tok}]
<1>1. e \in TurnState /\ Sound(e, h) /\ Advances(s, e) /\ e.turnIndex >= 0
  BY EnsureTurnSound
<1> HIDE DEF e
<1>2. /\ t \in TurnState /\ t.turnIndex = e.turnIndex /\ t.rowRef = e.rowRef
      /\ t.text = e.text \cup {tok}
  BY <1>1 DEF TurnState
<1>3. FeedToken(s, tok, tick) = [state |-> t, writes |-> StreamingWrite(t, tick)]
  BY DEF FeedToken, e
<1> HIDE DEF t
<1>4. TurnOf(FeedToken(s, tok, tick).state) = e.rowRef /\ e.rowRef \in Turns
  BY <1>1, <1>2, <1>3, SoundRow DEF TurnOf
<1>5. h2[e.rowRef] = h[e.rowRef] \cup {tok}
  BY <1>4 DEF History
<1>6. Sound(t, h2)
  <2>1. e.text \subseteq h[e.rowRef] /\ e.rowRef = e.turnIndex + 1 /\ e.turnIndex \in Int
    BY <1>1, SoundRow DEF Sound
  <2> QED BY <1>1, <1>2, <1>5, <2>1 DEF Sound
<1>7. Advances(s, t)
  BY <1>1, <1>2 DEF Advances
<1> QED BY <1>2, <1>3, <1>6, <1>7, StreamingWriteFed

(* So is a usage event, which writes at most what the tracker holds.       *)
LEMMA FeedUsageFed ==
  ASSUME NEW s \in TurnState, NEW h, Sound(s, h), NEW tick \in BOOLEAN
  PROVE  Fed(FeedUsage(s, tick), s, h)
<1>1. Advances(s, s)
  BY SoundRow DEF Advances
<1> QED BY <1>1, StreamingWriteFed DEF FeedUsage

(* A turn starts: the flush writes for the turn before it.                 *)
LEMMA FeedTurnStartFed ==
  ASSUME NEW s \in TurnState, NEW h, Sound(s, h), TurnOf(s) < MaxTurns
  PROVE  Fed(FeedTurnStart(s), s, h)
<1> DEFINE t == NewTurn(s)
           ws == Flush(s, "running").writes
<1>1. /\ s.rowRef \in Nat /\ s.turnIndex \in Int /\ s.turnIndex + 1 = s.rowRef
      /\ s.rowRef < MaxTurns
  BY SoundRow DEF TurnOf
<1>2. /\ t \in TurnState /\ t.rowRef = s.rowRef + 1 /\ t.turnIndex = s.rowRef
      /\ t.text = {}
  BY <1>1, BoundsAssumption DEF NewTurn, TurnState
<1>3. Sound(t, h) /\ Advances(s, t)
  BY <1>1, <1>2 DEF Sound, Advances
<1>4. Wrote(ws, s, h) /\ Covered(ws, Flush(s, "running").state)
      /\ Flush(s, "running").state \in TurnState
      /\ Flush(s, "running").state.rowRef = s.rowRef
  BY FlushFed DEF Fed, Status
<1>5. Advances(Flush(s, "running").state, t)
  BY <1>1, <1>2, <1>4 DEF Advances
<1> HIDE DEF t, ws
<1>6. ws \in Seq(Write)
  <2>1. \A w \in Write : <<w>> \in Seq(Write)
    OBVIOUS
  <2> QED BY <1>4, <2>1, EmptySeq DEF Wrote
<1>7. Covered(ws, t)
  BY <1>2, <1>4, <1>5, <1>6, CoveredStays
<1> QED BY <1>2, <1>3, <1>4, <1>7 DEF Fed, FeedTurnStart, t, ws

(* History h may have grown into h2. *)
Grown(h, h2) == h \in History /\ h2 \in History /\ \A t \in Turns : h[t] \subseteq h2[t]

(* Text that was the own text of its turn stays so when more is said.      *)
LEMMA OwnGrows ==
  ASSUME NEW q \in Seq(Write), NEW h, NEW h2, Grown(h, h2), Own(q, h)
  PROVE  Own(q, h2)
<1>1. ASSUME NEW i \in 1 .. Len(q) PROVE Belongs(q[i], h2)
  <2>1. q[i] \in Write /\ Belongs(q[i], h)
    BY ElementOfSeq DEF Own
  <2>2. q[i].kind = "agent" => q[i].ref \in Turns
    BY <2>1 DEF Write, TurnWrite, ToolWrite
  <2> QED BY <2>1, <2>2 DEF Belongs, Grown
<1> QED BY <1>1 DEF Own

(* A tracker that was sound for a history is sound for a longer one.       *)
LEMMA SoundGrows ==
  ASSUME NEW s \in TurnState, NEW h, NEW h2, Grown(h, h2), Sound(s, h)
  PROVE  Sound(s, h2)
  BY SoundRow DEF Sound, Grown

(* The complete event writes the turn's text, or an output that nobody     *)
(* streamed.                                                               *)
LEMMA FeedCompleteWrites ==
  ASSUME NEW s \in TurnState, NEW h, NEW h2, Grown(h, h2), Sound(s, h),
         NEW output \in SUBSET Tokens, NEW status \in Status,
         output \subseteq h2[TurnOf(EnsureTurn(s))]
  PROVE  LET f == FeedComplete(s, output, status)
         IN  /\ f.state \in TurnState /\ Sound(f.state, h2) /\ Wrote(f.writes, s, h2)
             /\ TurnOf(f.state) = TurnOf(EnsureTurn(s))
<1> DEFINE t == EnsureTurn(s)
           content == IF t.text # {} THEN t.text ELSE output
           w == WriteOf(t, content, status)
           f == FeedComplete(s, output, status)
<1>1. /\ t \in TurnState /\ Sound(t, h2) /\ Advances(s, t)
      /\ t.turnIndex >= 0 /\ t.text = s.text
  BY EnsureTurnSound, SoundGrows DEF Grown
<1>2. t.rowRef \in Turns /\ TurnOf(t) = t.rowRef /\ t.text \subseteq h2[t.rowRef]
  BY <1>1, SoundRow DEF TurnOf, Sound
<1>3. content \in SUBSET Tokens /\ content \subseteq h2[t.rowRef] /\ s.text \subseteq content
  BY <1>1, <1>2 DEF TurnState
<1>4. f = IF content = {} THEN NoWrites(t)
          ELSE [state |-> [t EXCEPT !.turnFinalized = TRUE], writes |-> <<w>>]
  BY DEF FeedComplete
<1> HIDE DEF t, content, f
<1>5. w \in TurnWrite /\ w.ref = t.rowRef /\ w.content = content
  BY <1>2, <1>3 DEF WriteOf, TurnWrite
<1> HIDE DEF w
<1>6. w \in Write /\ Follows(w, s) /\ Belongs(w, h2)
  BY <1>1, <1>3, <1>5 DEF Write, Follows, Belongs, Advances
<1>7. Wrote(f.writes, s, h2)
  BY <1>4, <1>6 DEF Wrote, NoWrites
<1>8. /\ f.state \in TurnState /\ f.state.turnIndex = t.turnIndex
      /\ f.state.rowRef = t.rowRef /\ f.state.text = t.text
  BY <1>1, <1>4 DEF NoWrites, TurnState
<1>9. Sound(f.state, h2)
  BY <1>1, <1>8 DEF Sound
<1> QED BY <1>7, <1>8, <1>9 DEF f, t, TurnOf

(* complete on its own, or right after the error event of the tool loop.   *)
LEMMA CompletionQueued ==
  ASSUME NEW q \in Seq(Write), NEW rs \in Seq(Write), NEW s \in TurnState, NEW h,
         Sorted(q, rs), Covered(q, s), Covered(rs, s), Own(q, h),
         NEW before, Fed(before, s, h), NEW done, Wrote(done, before.state, h)
  PROVE  LET out == q \o (before.writes \o done) \o <<>>
         IN  out \in Seq(Write) /\ Sorted(out, rs) /\ Own(out, h)
<1> DEFINE q1 == q \o before.writes
<1>1. q1 \in Seq(Write) /\ Sorted(q1, rs) /\ Own(q1, h)
  BY QueueWrites DEF Fed
<1>2. Covered(q, before.state) /\ Covered(rs, before.state)
  BY CoveredStays DEF Fed
<1>3. Covered(q1, before.state)
  BY <1>2, QueueCovered DEF Fed
<1>4. before.state \in TurnState
  BY DEF Fed
<1>5. before.writes \in Seq(Write) /\ done \in Seq(Write)
  <2>1. \A w \in Write : <<w>> \in Seq(Write)
    OBVIOUS
  <2> QED BY <2>1, EmptySeq DEF Fed, Wrote
<1>6. (q \o before.writes) \o done = q \o (before.writes \o done)
  <2>1. \A a, b, c \in Seq(Write) : (a \o b) \o c = a \o (b \o c)
    <3>1. ASSUME NEW S, NEW a \in Seq(S), NEW b \in Seq(S), NEW c \in Seq(S)
          PROVE  (a \o b) \o c = a \o (b \o c)
      BY ONLY ConcatAssociative, SMTT(60)
    <3>2. \A S : \A a, b, c \in Seq(S) : (a \o b) \o c = a \o (b \o c)
      BY ONLY <3>1, SMTT(60)
    <3> QED BY ONLY <3>2, SMTT(60)
  <2> QED BY <1>5, <2>1, Zenon
<1> HIDE DEF q1
<1>7. q1 \o done \in Seq(Write) /\ Sorted(q1 \o done, rs) /\ Own(q1 \o done, h)
  BY <1>1, <1>2, <1>3, <1>4, QueueWrites
<1>8. q1 \o done \o <<>> = q1 \o done
  BY <1>7, ConcatEmptySeq
<1> QED BY <1>6, <1>7, <1>8 DEF q1

-----------------------------------------------------------------------------
(* Every step of the run keeps the invariant.                              *)

(* What an emission adds to the history. *)
Says == \/ UNCHANGED said
        \/ \E t \in Turns, tok \in Tokens : said' = [said EXCEPT ![t] = @ \cup {tok}]

(* What an emission must establish.                                        *)
Emitted == turn' \in TurnState /\ queue' \in Seq(Write) /\ TextInv'

(* What was said is a history: a set of tokens for each turn.              *)
LEMMA HistoryType == TypeOK => said \in History
  BY DEF TypeOK, History

(* Saying a new token makes the history longer by that token.              *)
LEMMA TokenSaid ==
  ASSUME TypeOK, spoken < MaxTokens, NEW by \in Authors, NEW t \in Turns, Say(t, Token(by))
  PROVE  /\ Token(by) \in Tokens /\ Grown(said, said') /\ Token(by) \in said'[t]
         /\ spoken' \in 0 .. MaxTokens
<1>1. Token(by) \in Tokens
  BY BoundsAssumption DEF TypeOK, Token, Tokens
<1>2. /\ said' \in History /\ said \in History
      /\ \A r \in Turns : said[r] \subseteq said'[r]
      /\ Token(by) \in said'[t]
  BY <1>1 DEF Say, TypeOK, History
<1>3. spoken' \in 0 .. MaxTokens
  BY BoundsAssumption DEF TypeOK, Say
<1> QED BY <1>1, <1>2, <1>3 DEF Grown

(* A silent step leaves the history, which counts as grown.                *)
LEMMA SilentGrown == ASSUME TypeOK, Silent PROVE Grown(said, said')
  BY HistoryType DEF Silent, Grown

(* An event that is fed to the tracker and queued.                         *)
LEMMA FedStep ==
  ASSUME IInv, ~Over, UNCHANGED rows, NEW f, NEW jobs, Enqueue(f, jobs), IsToolRow(jobs),
         Grown(said, said'), Fed(f, turn, said')
  PROVE  Emitted
<1>1. queue \in Seq(Write) /\ rows \in Seq(Write) /\ turn \in TurnState
  BY DEF IInv, TypeOK
<1>2. /\ Sorted(queue, rows) /\ Covered(queue, turn) /\ Covered(rows, turn)
      /\ Own(queue, said') /\ Own(rows, said')
  BY <1>1, OwnGrows DEF IInv, TextInv
<1>3. turn' = f.state /\ queue' = queue \o f.writes \o jobs
  BY DEF Enqueue
<1>4. /\ queue' \in Seq(Write) /\ Sorted(queue', rows) /\ Own(queue', said')
      /\ Covered(queue', turn') /\ Covered(rows, turn')
  BY <1>1, <1>2, <1>3, EnqueueFed
<1>5. turn' \in TurnState /\ Sound(turn', said')
  BY <1>3 DEF Fed
<1> QED BY <1>2, <1>4, <1>5 DEF Emitted, TextInv

(* A complete event, which is the last thing a run emits.                  *)
LEMMA CompleteStep ==
  ASSUME IInv, ~Over, Over', UNCHANGED rows, NEW before, Fed(before, turn, said),
         NEW status \in Status,
         CompleteWith(before, status)
  PROVE  Emitted /\ spoken' \in 0 .. MaxTokens /\ said' \in History /\ Says
<1> DEFINE s == before.state
           done(out) == FeedComplete(s, out, status)
<1>1. PICK out \in SUBSET Tokens :
        /\ Completion(before, out, status)
        /\ Grown(said, said') /\ spoken' \in 0 .. MaxTokens /\ Says
        /\ out \subseteq said'[TurnOf(EnsureTurn(s))]
  <2>1. CASE Completion(before, {}, status) /\ Silent
    BY <2>1, SilentGrown DEF IInv, TypeOK, Silent, Says
  <2>2. CASE /\ spoken < MaxTokens
             /\ Completion(before, {Token("output")}, status)
             /\ Say(TurnOf(turn'), Token("output"))
    <3>1. s \in TurnState /\ Sound(s, said) /\ said \in History
      BY HistoryType DEF Fed, IInv
    <3>2. turn' = done({Token("output")}).state
      BY <2>2 DEF Completion, Enqueue
    <3>3. TurnOf(turn') = TurnOf(EnsureTurn(s))
      BY <3>2 DEF FeedComplete, NoWrites, TurnOf
    <3>4. TurnOf(EnsureTurn(s)) \in Turns
      BY <3>1, EnsureTurnSound, SoundRow DEF TurnOf
    <3>5. "output" \in Authors
      BY DEF Authors
    <3>6. /\ Token("output") \in Tokens /\ Grown(said, said') /\ spoken' \in 0 .. MaxTokens
          /\ {Token("output")} \subseteq said'[TurnOf(EnsureTurn(s))]
      BY <2>2, <3>3, <3>4, <3>5, TokenSaid DEF IInv
    <3>7. Says
      BY <2>2, <3>3, <3>4, <3>6 DEF Say, Says
    <3> QED BY <2>2, <3>6, <3>7
  <2> QED BY <2>1, <2>2 DEF CompleteWith
<1>2. turn' = done(out).state /\ queue' = queue \o (before.writes \o done(out).writes) \o <<>>
  BY <1>1 DEF Completion, Enqueue
<1>3. /\ queue \in Seq(Write) /\ rows \in Seq(Write) /\ turn \in TurnState
      /\ s \in TurnState /\ Sound(s, said)
  BY DEF IInv, TypeOK, Fed
<1>4. done(out).state \in TurnState /\ Sound(done(out).state, said')
      /\ Wrote(done(out).writes, s, said')
  BY <1>1, <1>3, FeedCompleteWrites
<1>5. Fed(before, turn, said')
  <2>1. Wrote(before.writes, turn, said')
    <3>1. ASSUME NEW w \in Write, Belongs(w, said) PROVE Belongs(w, said')
      <4>1. w.kind = "agent" => w.ref \in Turns
        BY DEF Write, TurnWrite, ToolWrite
      <4> QED BY <1>1, <3>1, <4>1 DEF Belongs, Grown
    <3> QED BY <3>1 DEF Fed, Wrote
  <2>2. Sound(s, said')
    BY <1>1, <1>3, SoundGrows
  <2> QED BY <2>1, <2>2 DEF Fed
<1>6. /\ Sorted(queue, rows) /\ Covered(queue, turn) /\ Covered(rows, turn)
      /\ Own(queue, said') /\ Own(rows, said')
  BY <1>1, <1>3, OwnGrows DEF IInv, TextInv
<1> HIDE DEF done
<1>7. queue' \in Seq(Write) /\ Sorted(queue', rows) /\ Own(queue', said')
  BY <1>2, <1>3, <1>4, <1>5, <1>6, CompletionQueued
<1>8. TextInv'
  BY <1>2, <1>4, <1>6, <1>7 DEF TextInv
<1> QED BY <1>1, <1>2, <1>4, <1>7, <1>8 DEF Emitted, Grown

(* Once tracker, queue and text are settled, the rest of TypeOK' is about  *)
(* the run's own variables.                                                *)
RunTypeOK ==
  /\ rows \in Seq(Write)
  /\ runKind \in {"provider", "chain"}
  /\ messageId \in [Turns -> Int]
  /\ phase \in {"setup", "streaming", "answered", "tools", "done", "returned"}
  /\ call \in {"none", "asked", "running"}
  /\ sub \in BOOLEAN
  /\ calls \in 0 .. MaxCalls
  /\ lost \in SUBSET Turns

Spoken == spoken \in 0 .. MaxTokens /\ said \in History

(* TypeOK in the parts that a step of the run changes.                     *)
LEMMA TypeParts == TypeOK <=> turn \in TurnState /\ queue \in Seq(Write) /\ RunTypeOK /\ Spoken
  BY DEF TypeOK, RunTypeOK, Spoken, History

(* The same, for the state after a step.                                   *)
LEMMA TypePartsNext ==
  TypeOK' <=> turn' \in TurnState /\ queue' \in Seq(Write) /\ RunTypeOK' /\ Spoken'
  BY DEF TypeOK, RunTypeOK, Spoken, History

(* A token that is spoken, fed and queued keeps tracker, queue and history *)
(* in order.                                                               *)
LEMMA TokenStep ==
  ASSUME IInv, ~Over, UNCHANGED rows, spoken < MaxTokens, NEW by \in Authors,
         \E tick \in BOOLEAN : Enqueue(FeedToken(turn, Token(by), tick), <<>>),
         Say(TurnOf(turn'), Token(by))
  PROVE  Emitted /\ Spoken' /\ Says
<1>1. PICK tick \in BOOLEAN : Enqueue(FeedToken(turn, Token(by), tick), <<>>)
  OBVIOUS
<1>2. turn \in TurnState /\ Sound(turn, said) /\ said \in History /\ TypeOK
  BY HistoryType DEF IInv, TypeOK, TextInv
<1>3. TurnOf(turn') = TurnOf(FeedToken(turn, Token(by), tick).state)
  BY <1>1 DEF Enqueue
<1>4. TurnOf(FeedToken(turn, Token(by), tick).state) = TurnOf(EnsureTurn(turn))
  <2>1. EnsureTurn(turn) \in TurnState
    BY <1>2, EnsureTurnSound
  <2> QED BY <2>1 DEF FeedToken, TurnOf, TurnState
<1>5. TurnOf(EnsureTurn(turn)) \in Turns
  BY <1>2, EnsureTurnSound, SoundRow DEF TurnOf
<1>6. Token(by) \in Tokens /\ Grown(said, said') /\ spoken' \in 0 .. MaxTokens
  BY <1>2, <1>3, <1>4, <1>5, TokenSaid
<1>7. Fed(FeedToken(turn, Token(by), tick), turn, said')
  BY <1>2, <1>3, <1>6, FeedTokenFed DEF Say
<1>8. IsToolRow(<<>>)
  BY DEF IsToolRow
<1>9. Emitted
  BY <1>1, <1>6, <1>7, <1>8, FedStep
<1>10. Says
  BY <1>3, <1>4, <1>5, <1>6 DEF Say, Says
<1> QED BY <1>6, <1>9, <1>10 DEF Spoken, Grown

(* An event without text: its feed keeps the invariant as it is.           *)
LEMMA SilentStep ==
  ASSUME IInv, ~Over, UNCHANGED rows, Silent, NEW f, NEW jobs, Enqueue(f, jobs),
         IsToolRow(jobs), Fed(f, turn, said)
  PROVE  Emitted /\ Spoken' /\ Says
<1>1. Grown(said, said') /\ said' = said
  BY SilentGrown DEF IInv, Silent
<1>2. Emitted
  BY <1>1, FedStep
<1>3. Spoken' /\ Says
  BY TypeParts DEF IInv, Spoken, Silent, Says
<1> QED BY <1>2, <1>3

(* The row of a tool call is a queue of one tool row.                      *)
LEMMA ToolRowOk == TypeOK => IsToolRow(ToolRow) /\ IsToolRow(<<>>)
<1> SUFFICES ASSUME TypeOK PROVE IsToolRow(ToolRow)
  BY DEF IsToolRow
<1>1. [kind |-> "tool", ref |-> TurnOf(turn)] \in ToolWrite
  BY BoundsAssumption DEF TypeOK, TurnState, TurnOf, ToolWrite
<1> QED BY <1>1 DEF ToolRow, IsToolRow

(* Every step of the run keeps all parts of the invariant but those on the *)
(* rows.                                                                   *)
LEMMA RunStepInv == IInv /\ RunStep => TypeOK' /\ CallInv' /\ TextInv' /\ Says
<1> SUFFICES ASSUME IInv, RunStep PROVE TypeOK' /\ CallInv' /\ TextInv' /\ Says
  OBVIOUS
<1>0. /\ turn \in TurnState /\ Sound(turn, said) /\ said \in History /\ TypeOK /\ RunTypeOK
      /\ CallInv /\ IsToolRow(ToolRow) /\ IsToolRow(<<>>)
      /\ "running" \in Status /\ "error" \in Status /\ "success" \in Status
      /\ "agent" \in Authors /\ "sub" \in Authors
  BY HistoryType, TypeParts, ToolRowOk DEF IInv, TypeOK, TextInv, Status, Authors
<1> DEFINE Kept == RunTypeOK' /\ CallInv'
<1>1. ASSUME Emitted, Spoken', Says, Kept PROVE TypeOK' /\ CallInv' /\ TextInv' /\ Says
  BY <1>1, TypePartsNext DEF Emitted
<1>2. CASE Dispatch
  <2>1. ~Over /\ Kept
    BY <1>0, <1>2 DEF Dispatch, Over, CallInv, RunTypeOK, Stores
  <2>2. Fed(FeedTurnStart(turn), turn, said)
    BY <1>0, <1>2, FeedTurnStartFed DEF Dispatch
  <2> QED BY <1>0, <1>1, <1>2, <2>1, <2>2, SilentStep DEF Dispatch, Stores
<1>3. CASE AgentToken
  <2>1. ~Over /\ Kept
    BY <1>0, <1>3 DEF AgentToken, Over, CallInv, RunTypeOK, Stores
  <2> QED BY <1>0, <1>1, <1>3, <2>1, TokenStep DEF AgentToken, Stores
<1>4. CASE StreamEnd
  <2>1. ~Over /\ Kept
    BY <1>0, <1>4 DEF StreamEnd, Over, CallInv, RunTypeOK, Stores
  <2>2. PICK tick \in BOOLEAN : Enqueue(FeedUsage(turn, tick), <<>>)
    BY <1>4 DEF StreamEnd
  <2>3. Fed(FeedUsage(turn, tick), turn, said)
    BY <1>0, FeedUsageFed
  <2> QED BY <1>0, <1>1, <1>4, <2>1, <2>2, <2>3, SilentStep DEF StreamEnd, Stores
<1>5. Fed(FeedToolCall(turn), turn, said) /\ Fed(FeedError(turn), turn, said)
  BY <1>0, FlushFed DEF FeedToolCall, FeedError
<1>6. CASE RequestTool
  <2>1. ~Over /\ Kept
    BY <1>0, <1>6, BoundsAssumption DEF RequestTool, Over, CallInv, RunTypeOK, Stores
  <2> QED BY <1>0, <1>1, <1>5, <1>6, <2>1, SilentStep DEF RequestTool, Stores
<1>7. CASE DenyTool
  <2>1. ~Over /\ Kept
    BY <1>0, <1>7 DEF DenyTool, Over, CallInv, RunTypeOK, Stores
  <2> QED BY <1>0, <1>1, <1>5, <1>7, <2>1, SilentStep DEF DenyTool, Stores
<1>8. CASE StartTool
  <2>1. Kept
    BY <1>0, <1>8, BoundsAssumption DEF StartTool, Over, CallInv, RunTypeOK, Stores
  <2>2. ~Over /\ ~Over'
    BY <1>0, <1>8 DEF StartTool, Over, CallInv
  <2>3. UNCHANGED <<turn, queue, said, rows, spoken>>
    BY <1>8 DEF StartTool, Stores
  <2>4. TextInv'
    BY <2>2, <2>3 DEF IInv, TextInv
  <2> QED BY <2>1, <2>3, <2>4, <1>0, TypeParts, TypePartsNext DEF Spoken, Says
<1>9. CASE FinishTool
  <2>1. ~Over /\ Kept
    BY <1>0, <1>9 DEF FinishTool, Over, CallInv, RunTypeOK, Stores
  <2> QED BY <1>0, <1>1, <1>5, <1>9, <2>1, SilentStep DEF FinishTool, Stores
<1>10. CASE SubToken
  <2>1. ~Over /\ Kept
    BY <1>0, <1>10 DEF SubToken, Over, CallInv, RunTypeOK, Stores
  <2> QED BY <1>0, <1>1, <1>10, <2>1, TokenStep DEF SubToken, Stores
<1>11. CASE SubToolCall
  <2>1. ~Over /\ Kept
    BY <1>0, <1>11, BoundsAssumption DEF SubToolCall, Over, CallInv, RunTypeOK, Stores
  <2> QED BY <1>0, <1>1, <1>5, <1>11, <2>1, SilentStep DEF SubToolCall, Stores
<1>12. CASE SubError
  <2>1. ~Over /\ Kept
    BY <1>0, <1>12 DEF SubError, Over, CallInv, RunTypeOK, Stores
  <2> QED BY <1>0, <1>1, <1>5, <1>12, <2>1, SilentStep DEF SubError, Stores
<1>13. CASE StepError
  <2>1. ~Over /\ Kept
    <3>1. /\ phase = "answered" /\ call' = "none" /\ sub' = FALSE /\ calls' \in 0 .. MaxCalls
          /\ UNCHANGED <<phase, Stores>>
      BY <1>0, <1>13, BoundsAssumption DEF StepError, RunTypeOK
    <3> QED BY <1>0, <3>1 DEF Over, CallInv, RunTypeOK, Stores
  <2> QED BY <1>0, <1>1, <1>5, <1>13, <2>1, SilentStep DEF StepError, Stores
<1>14. CASE Succeed
  <2>1. ~Over /\ Over' /\ Kept
    BY <1>0, <1>14 DEF Succeed, Over, CallInv, RunTypeOK, Stores
  <2>2. Fed(NoWrites(turn), turn, said)
    BY <1>0, SoundRow DEF Fed, NoWrites, Advances, Wrote, Covered
  <2> QED BY <1>0, <1>1, <1>14, <2>1, <2>2, CompleteStep DEF Succeed, Stores, Spoken
<1>15. CASE AbortTools
  <2>1. ~Over /\ Over' /\ Kept
    BY <1>0, <1>15 DEF AbortTools, Over, CallInv, RunTypeOK, Stores
  <2> QED BY <1>0, <1>1, <1>5, <1>15, <2>1, CompleteStep DEF AbortTools, Stores, Spoken
<1>16. CASE Fail
  <2>1. ~Over /\ Kept
    BY <1>0, <1>16 DEF Fail, Over, CallInv, RunTypeOK, Stores
  <2> QED BY <1>0, <1>1, <1>5, <1>16, <2>1, SilentStep DEF Fail, Stores
<1> QED BY <1>2, <1>3, <1>4, <1>6, <1>7, <1>8, <1>9, <1>10, <1>11, <1>12, <1>13, <1>14,
           <1>15, <1>16 DEF RunStep

(* A step of the run does not touch the rows: the queue does.              *)
LEMMA RunStepRows == IInv /\ RunStep => RowsNamed' /\ OneRowPerTurn'
<1> SUFFICES ASSUME IInv, RunStep PROVE RowsNamed' /\ OneRowPerTurn'
  OBVIOUS
<1>1. UNCHANGED <<rows, messageId>>
  BY DEF RunStep, Stores, Dispatch, AgentToken, StreamEnd, RequestTool, DenyTool, StartTool,
         FinishTool, SubToken, SubToolCall, SubError, StepError, Succeed, AbortTools, Fail
<1> QED BY <1>1 DEF IInv, RowsNamed, RowOf, OneRowPerTurn

-----------------------------------------------------------------------------
(* Executing the write at the head of the queue keeps the invariant.       *)

(* Taking the head off a sorted queue: what is left is sorted, and behind  *)
(* it.                                                                     *)
LEMMA HeadOfSorted ==
  ASSUME NEW q \in Seq(Write), NEW rs \in Seq(Write), NEW h, q # <<>>, Sorted(q, rs), Own(q, h)
  PROVE  /\ Head(q) \in Write /\ Belongs(Head(q), h)
         /\ Tail(q) \in Seq(Write) /\ Sorted(Tail(q), rs) /\ Own(Tail(q), h)
         /\ \A j \in 1 .. Len(Tail(q)) : Before(Head(q), Tail(q)[j])
         /\ \A i \in 1 .. Len(rs) : Before(rs[i], Head(q))
         /\ \A s : Covered(q, s) => Covered(Tail(q), s) /\ Within(Head(q), s)
<1>1. /\ Head(q) \in Write /\ Tail(q) \in Seq(Write) /\ Len(Tail(q)) = Len(q) - 1
      /\ \A i \in 1 .. Len(Tail(q)) : Tail(q)[i] = q[i + 1]
  BY HeadTailProperties
<1>2. Len(q) \in Nat \ {0} /\ Head(q) = q[1]
  BY EmptySeq
<1> DEFINE tail == Tail(q)
           head == Head(q)
<1> HIDE DEF tail, head
<1>3. Sorted(tail, rs)
  BY <1>1, <1>2 DEF Sorted, tail
<1>4. Own(tail, h) /\ Belongs(head, h)
  BY <1>1, <1>2 DEF Own, tail, head
<1>5. \A j \in 1 .. Len(tail) : Before(head, tail[j])
  BY <1>1, <1>2 DEF Sorted, tail, head
<1>6. \A i \in 1 .. Len(rs) : Before(rs[i], head)
  BY <1>2 DEF Sorted, head
<1>7. \A s : Covered(q, s) => Covered(tail, s) /\ Within(head, s)
  BY <1>1, <1>2 DEF Covered, tail, head
<1> QED BY <1>1, <1>3, <1>4, <1>5, <1>6, <1>7 DEF tail, head

(* Rows that differ from the old ones by w alone are in order before q.    *)
LEMMA RowStored ==
  ASSUME NEW q \in Seq(Write), NEW rs \in Seq(Write), NEW rs2 \in Seq(Write), NEW w \in Write,
         NEW h, Sorted(q, rs), Own(rs, h), Belongs(w, h),
         \A j \in 1 .. Len(q) : Before(w, q[j]),
         \A i \in 1 .. Len(rs2) : rs2[i] = w \/ (i \in 1 .. Len(rs) /\ rs2[i] = rs[i])
  PROVE  /\ Sorted(q, rs2) /\ Own(rs2, h)
         /\ \A s : Covered(rs, s) /\ Within(w, s) => Covered(rs2, s)
<1>1. Sorted(q, rs2)
  BY DEF Sorted
<1>2. Own(rs2, h)
  BY DEF Own
<1>3. \A s : Covered(rs, s) /\ Within(w, s) => Covered(rs2, s)
  BY DEF Covered
<1> QED BY <1>1, <1>2, <1>3

(* The three ways PersistOk changes the rows.                              *)
NewToolRow(w) ==
  w.kind # "agent" /\ rows' = Append(rows, w) /\ UNCHANGED messageId
NewTurnRow(w) ==
  /\ w.kind = "agent" /\ messageId[w.ref] = NoId
  /\ rows' = Append(rows, w) /\ messageId' = [messageId EXCEPT ![w.ref] = Len(rows) + 1]
TurnRowAgain(w) ==
  /\ w.kind = "agent" /\ messageId[w.ref] \in 1 .. Len(rows)
  /\ rows' = [rows EXCEPT ![messageId[w.ref]] = w] /\ UNCHANGED messageId

(* A write that succeeds inserts a row, updates a row, or does nothing.    *)
LEMMA PersistCases ==
  ASSUME IInv, PersistOk
  PROVE  LET w == Head(queue)
         IN  NewToolRow(w) \/ NewTurnRow(w) \/ TurnRowAgain(w) \/ UNCHANGED <<rows, messageId>>
<1> DEFINE w == Head(queue)
<1>1. w \in Write
  BY HeadTailProperties DEF IInv, TypeOK, PersistOk
<1>2. CASE w.kind # "agent"
  BY <1>2 DEF PersistOk, NewToolRow
<1>3. CASE w.kind = "agent"
  <2>1. w.ref \in Turns /\ StoreTurn(w)
    BY <1>1, <1>3 DEF PersistOk, Write, TurnWrite, ToolWrite
  <2>2. messageId[w.ref] \in {NoId, GhostId} \cup 1 .. Len(rows)
    BY <2>1 DEF IInv, RowsNamed, RowOf
  <2>3. CASE messageId[w.ref] = NoId
    BY <1>3, <2>1, <2>3 DEF StoreTurn, NewTurnRow, NoId, GhostId
  <2>4. CASE messageId[w.ref] = GhostId
    BY <2>1, <2>4 DEF StoreTurn, NoId, GhostId
  <2>5. CASE messageId[w.ref] \in 1 .. Len(rows)
    <3>1. messageId[w.ref] # NoId /\ messageId[w.ref] # GhostId
      BY <2>5 DEF NoId, GhostId
    <3>2. rows' = [rows EXCEPT ![messageId[w.ref]] = w] /\ UNCHANGED messageId
      BY <2>1, <3>1 DEF StoreTurn
    <3> QED BY <1>3, <2>5, <3>2 DEF TurnRowAgain
  <2> QED BY <2>2, <2>3, <2>4, <2>5 DEF w
<1> QED BY <1>2, <1>3

(* What an execution keeps: the rows, their ids and their order.           *)
RowsGood == /\ rows' \in Seq(Write) /\ messageId' \in [Turns -> Int]
            /\ RowsNamed' /\ OneRowPerTurn'

OnlyNew(w) ==
  \A i \in 1 .. Len(rows') : rows'[i] = w \/ (i \in 1 .. Len(rows) /\ rows'[i] = rows[i])

(* Inserting the row of a tool call keeps the rows in order.               *)
LEMMA NewToolRowGood ==
  ASSUME IInv, NEW w \in Write, NewToolRow(w)
  PROVE  RowsGood /\ OnlyNew(w)
<1> DEFINE n == Len(rows) + 1
<1>1. /\ rows \in Seq(Write) /\ Len(rows) \in Nat /\ messageId \in [Turns -> Int]
      /\ RowsNamed /\ OneRowPerTurn
  BY LenProperties DEF IInv, TypeOK
<1>2. /\ rows' \in Seq(Write) /\ Len(rows') = n /\ messageId' = messageId
      /\ \A i \in 1 .. Len(rows) : rows'[i] = rows[i]
      /\ rows'[n] = w /\ w.kind # "agent"
  BY <1>1, AppendProperties DEF NewToolRow
<1>3. \A i \in 1 .. Len(rows') : i \in 1 .. Len(rows) \/ i = n
  BY <1>1, <1>2
<1>4. 1 .. Len(rows) \subseteq 1 .. Len(rows')
  BY <1>1, <1>2
<1>5. ASSUME NEW t \in Turns PROVE RowOf(t)'
  <2>1. RowOf(t) /\ messageId[t] # n
    BY <1>1 DEF RowsNamed, RowOf, NoId, GhostId
  <2> QED BY <1>2, <1>3, <1>4, <2>1 DEF RowOf
<1>6. RowsNamed'
  BY <1>1, <1>2, <1>3, <1>5 DEF RowsNamed
<1>7. OneRowPerTurn'
  BY <1>1, <1>2, <1>3 DEF OneRowPerTurn
<1>8. OnlyNew(w)
  BY <1>2, <1>3 DEF OnlyNew
<1> QED BY <1>1, <1>2, <1>6, <1>7, <1>8 DEF RowsGood

(* So does inserting the first row of a turn.                              *)
LEMMA NewTurnRowGood ==
  ASSUME IInv, NEW w \in Write, NewTurnRow(w), \A i \in 1 .. Len(rows) : Before(rows[i], w)
  PROVE  RowsGood /\ OnlyNew(w)
<1> DEFINE n == Len(rows) + 1
<1>1. /\ rows \in Seq(Write) /\ Len(rows) \in Nat /\ messageId \in [Turns -> Int]
      /\ RowsNamed /\ OneRowPerTurn
  BY LenProperties DEF IInv, TypeOK
<1>2. /\ rows' \in Seq(Write) /\ Len(rows') = n
      /\ \A i \in 1 .. Len(rows) : rows'[i] = rows[i]
      /\ rows'[n] = w /\ w.kind = "agent"
  BY <1>1, AppendProperties DEF NewTurnRow
<1>3. w.ref \in Turns /\ w.ref \in Int
  BY <1>2 DEF Write, TurnWrite, ToolWrite, Turns
<1>4. \A t \in Turns : messageId'[t] = IF t = w.ref THEN n ELSE messageId[t]
  BY <1>1, <1>3 DEF NewTurnRow
<1>5. \A i \in 1 .. Len(rows') : i \in 1 .. Len(rows) \/ i = n
  BY <1>1, <1>2
<1>6. 1 .. Len(rows) \subseteq 1 .. Len(rows') /\ n \in 1 .. Len(rows')
  BY <1>1, <1>2
<1>7. \A i \in 1 .. Len(rows) : rows[i] \in Write
  BY <1>1, ElementOfSeq
<1>8. ASSUME NEW i \in 1 .. Len(rows), rows[i].kind = "agent"
      PROVE  rows[i].ref \in Turns /\ rows[i].ref < w.ref /\ rows[i].ref # w.ref
  <2>1. rows[i].ref \in Turns /\ rows[i].ref \in Int
    BY <1>7, <1>8 DEF Write, TurnWrite, ToolWrite, Turns
  <2>2. rows[i].ref <= w.ref
    BY <1>2, <1>8 DEF Before
  <2>3. rows[i].ref # w.ref
    <3>1. messageId[rows[i].ref] = i /\ i # 0
      BY <1>1, <1>8 DEF RowsNamed
    <3>2. messageId[w.ref] = 0
      BY DEF NewTurnRow, NoId
    <3> QED BY <3>1, <3>2
  <2> QED BY <1>3, <2>1, <2>2, <2>3
<1>9. ASSUME NEW t \in Turns PROVE RowOf(t)'
  <2>1. CASE t = w.ref
    BY <1>2, <1>4, <1>6, <2>1 DEF RowOf
  <2>2. CASE t # w.ref
    <3>1. RowOf(t) /\ messageId[t] # n
      BY <1>1 DEF RowsNamed, RowOf, NoId, GhostId
    <3> QED BY <1>2, <1>4, <1>5, <1>6, <2>2, <3>1 DEF RowOf
  <2> QED BY <2>1, <2>2
<1>10. ASSUME NEW i \in 1 .. Len(rows'), rows'[i].kind = "agent"
       PROVE  messageId'[rows'[i].ref] = i
  <2>1. CASE i = n
    BY <1>2, <1>3, <1>4, <2>1
  <2>2. CASE i \in 1 .. Len(rows)
    <3>1. rows'[i] = rows[i] /\ rows[i].kind = "agent"
      BY <1>2, <1>10, <2>2
    <3>2. rows[i].ref \in Turns /\ rows[i].ref # w.ref
      BY <1>8, <2>2, <3>1
    <3> QED BY <1>1, <1>4, <2>2, <3>1, <3>2 DEF RowsNamed
  <2> QED BY <1>5, <2>1, <2>2
<1>11. OneRowPerTurn'
  BY <1>1, <1>2, <1>5, <1>8 DEF OneRowPerTurn
<1>12. OnlyNew(w)
  BY <1>2, <1>5 DEF OnlyNew
<1>13. messageId' \in [Turns -> Int]
  <2>1. n \in Int
    BY <1>1
  <2>2. messageId' = [messageId EXCEPT ![w.ref] = n]
    BY DEF NewTurnRow
  <2> HIDE DEF n
  <2> QED BY <1>1, <2>1, <2>2
<1> QED BY <1>2, <1>9, <1>10, <1>11, <1>12, <1>13 DEF RowsGood, RowsNamed

(* And so does updating the row a turn already has.                        *)
LEMMA TurnRowAgainGood ==
  ASSUME IInv, NEW w \in Write, TurnRowAgain(w)
  PROVE  RowsGood /\ OnlyNew(w)
<1> DEFINE id == messageId[w.ref]
<1>1. /\ rows \in Seq(Write) /\ messageId \in [Turns -> Int] /\ RowsNamed /\ OneRowPerTurn
  BY DEF IInv, TypeOK
<1>2. /\ w.kind = "agent" /\ id \in 1 .. Len(rows) /\ messageId' = messageId
      /\ rows' = [rows EXCEPT ![id] = w]
  BY DEF TurnRowAgain
<1>3. w.ref \in Turns
  BY <1>2 DEF Write, TurnWrite, ToolWrite
<1>4. rows[id].kind = "agent" /\ rows[id].ref = w.ref
  BY <1>1, <1>2, <1>3 DEF RowsNamed, RowOf
<1> HIDE DEF id
<1>5. /\ rows' \in Seq(Write) /\ Len(rows') = Len(rows)
      /\ \A j \in 1 .. Len(rows) : rows'[j] = IF j = id THEN w ELSE rows[j]
  BY <1>1, <1>2, ExceptSeq
<1>6. \A j \in 1 .. Len(rows) :
        /\ rows'[j].kind = rows[j].kind
        /\ rows[j].kind = "agent" => rows'[j].ref = rows[j].ref
  BY <1>2, <1>4, <1>5
<1>7. RowsNamed'
  BY <1>1, <1>2, <1>5, <1>6 DEF RowsNamed, RowOf
<1>8. OneRowPerTurn'
  BY <1>1, <1>5, <1>6 DEF OneRowPerTurn
<1>9. OnlyNew(w)
  BY <1>5 DEF OnlyNew
<1> QED BY <1>1, <1>2, <1>5, <1>7, <1>8, <1>9 DEF RowsGood

(* Together: a write that succeeds keeps the rows in order.                *)
LEMMA PersistOkRows ==
  ASSUME IInv, PersistOk
  PROVE  RowsGood /\ (OnlyNew(Head(queue)) \/ UNCHANGED rows)
<1> DEFINE w == Head(queue)
<1>1. /\ w \in Write /\ queue # <<>> /\ \A i \in 1 .. Len(rows) : Before(rows[i], w)
  BY HeadOfSorted DEF IInv, TypeOK, TextInv, PersistOk
<1>2. NewToolRow(w) \/ NewTurnRow(w) \/ TurnRowAgain(w) \/ UNCHANGED <<rows, messageId>>
  BY PersistCases
<1>3. CASE UNCHANGED <<rows, messageId>>
  BY <1>3 DEF RowsGood, IInv, TypeOK, RowsNamed, RowOf, OneRowPerTurn
<1> QED BY <1>1, <1>2, <1>3, NewToolRowGood, NewTurnRowGood, TurnRowAgainGood

(* A write taken from the queue, whatever it does to rows and ids.         *)
LEMMA TakeFromQueue ==
  ASSUME IInv, queue # <<>>, queue' = Tail(queue), RowsGood,
         OnlyNew(Head(queue)) \/ UNCHANGED rows,
         UNCHANGED Unemitted, lost' \in SUBSET Turns
  PROVE  IInv'
<1> DEFINE w == Head(queue)
<1>1. /\ queue \in Seq(Write) /\ rows \in Seq(Write) /\ rows' \in Seq(Write)
      /\ Sorted(queue, rows) /\ Own(queue, said) /\ Own(rows, said)
      /\ ~Over => Covered(queue, turn) /\ Covered(rows, turn)
      /\ Sound(turn, said)
  BY DEF IInv, TypeOK, TextInv, RowsGood
<1>2. /\ w \in Write /\ Belongs(w, said)
      /\ queue' \in Seq(Write) /\ Sorted(queue', rows) /\ Own(queue', said)
      /\ \A j \in 1 .. Len(queue') : Before(w, queue'[j])
      /\ ~Over => Covered(queue', turn) /\ Within(w, turn)
  BY <1>1, HeadOfSorted
<1> HIDE DEF w
<1>3. /\ Sorted(queue', rows') /\ Own(rows', said)
      /\ ~Over => Covered(rows', turn)
  <2>1. CASE UNCHANGED rows
    BY <1>1, <1>2, <2>1
  <2>2. CASE OnlyNew(w)
    <3>1. \A i \in 1 .. Len(rows') : rows'[i] = w \/ (i \in 1 .. Len(rows) /\ rows'[i] = rows[i])
      BY <2>2 DEF OnlyNew
    <3>2. /\ Sorted(queue', rows') /\ Own(rows', said)
          /\ \A s : Covered(rows, s) /\ Within(w, s) => Covered(rows', s)
      BY <1>1, <1>2, <3>1, RowStored
    <3> QED BY <1>1, <1>2, <3>2
  <2> QED BY <2>1, <2>2 DEF w
<1>4. UNCHANGED <<turn, said>> /\ Over' = Over
  BY DEF Unemitted, Over
<1>5. TextInv'
  BY <1>1, <1>2, <1>3, <1>4 DEF TextInv
<1>6. TypeOK'
  BY <1>1, <1>2 DEF IInv, TypeOK, RowsGood, Unemitted
<1>7. CallInv'
  BY DEF IInv, CallInv, Unemitted, Over
<1> QED BY <1>5, <1>6, <1>7 DEF IInv, RowsGood

(* A write that fails leaves the rows, and names no row that does not      *)
(* exist.                                                                  *)
LEMMA PersistFailsRows == IInv /\ PersistFails => RowsGood /\ UNCHANGED rows /\ lost' \in SUBSET Turns
<1> SUFFICES ASSUME IInv, PersistFails PROVE RowsGood /\ UNCHANGED rows /\ lost' \in SUBSET Turns
  OBVIOUS
<1> DEFINE w == Head(queue)
<1>1. /\ rows \in Seq(Write) /\ messageId \in [Turns -> Int] /\ lost \in SUBSET Turns
      /\ RowsNamed /\ OneRowPerTurn
  BY DEF IInv, TypeOK
<1>2. w \in Write
  BY HeadTailProperties DEF IInv, TypeOK, PersistFails
<1>3. w.kind = "agent" => w.ref \in Turns
  BY <1>2 DEF Write, TurnWrite, ToolWrite
<1>4. DropFailed(w)
  BY DEF PersistFails
<1> HIDE DEF w
<1>5. UNCHANGED rows /\ lost' \in SUBSET Turns
  BY <1>1, <1>3, <1>4 DEF DropFailed
<1>6. CASE UNCHANGED messageId
  BY <1>1, <1>5, <1>6 DEF RowsGood, RowsNamed, RowOf, OneRowPerTurn
<1>7. CASE /\ w.kind = "agent" /\ messageId[w.ref] = NoId
           /\ messageId' = [messageId EXCEPT ![w.ref] = GhostId]
  <2>1. \A t \in Turns : messageId'[t] = IF t = w.ref THEN GhostId ELSE messageId[t]
    BY <1>1, <1>7
  <2>2. messageId' \in [Turns -> Int]
    <3>1. GhostId \in Int
      BY DEF GhostId
    <3> QED BY <1>1, <1>7, <3>1
  <2>3. \A t \in Turns : RowOf(t)'
    <3>1. GhostId \notin 1 .. Len(rows)
      BY DEF GhostId
    <3> QED BY <1>1, <1>5, <2>1, <3>1 DEF RowsNamed, RowOf
  <2>4. ASSUME NEW i \in 1 .. Len(rows), rows[i].kind = "agent"
        PROVE  messageId'[rows[i].ref] = i
    <3>1. messageId[rows[i].ref] = i /\ i # NoId
      BY <1>1, <2>4 DEF RowsNamed, NoId
    <3>2. rows[i] \in Write
      BY <1>1, ElementOfSeq
    <3>3. rows[i].ref \in Turns
      BY <2>4, <3>2 DEF Write, TurnWrite, ToolWrite
    <3> QED BY <1>7, <2>1, <3>1, <3>3
  <2>5. OneRowPerTurn'
    BY <1>1, <1>5 DEF OneRowPerTurn
  <2> QED BY <1>1, <1>5, <2>2, <2>3, <2>4, <2>5 DEF RowsGood, RowsNamed
<1> QED BY <1>4, <1>5, <1>6, <1>7 DEF DropFailed

(* The invariant holds initially.                                          *)
LEMMA IInvInit == Init => IInv
<1> SUFFICES ASSUME Init PROVE IInv
  OBVIOUS
<1> USE BoundsAssumption DEF Init
<1>1. TypeOK
  <2>1. turn \in TurnState
    BY DEF TurnState, NoRef
  <2>2. /\ messageId \in [Turns -> Int] /\ said \in [Turns -> SUBSET Tokens]
        /\ queue \in Seq(Write) /\ rows \in Seq(Write)
    BY DEF NoId
  <2>3. calls \in 0 .. MaxCalls /\ spoken \in 0 .. MaxTokens
    OBVIOUS
  <2> QED BY <2>1, <2>2, <2>3 DEF TypeOK
<1>2. CallInv
  BY DEF CallInv, Over
<1>3. TextInv
  BY DEF TextInv, Sound, Own, Sorted, Covered
<1>4. RowsNamed /\ OneRowPerTurn
  BY DEF RowsNamed, RowOf, OneRowPerTurn, NoId
<1> QED BY <1>1, <1>2, <1>3, <1>4 DEF IInv

(* Every step keeps the invariant.                                         *)
LEMMA IInvStep == IInv /\ [Next]_vars => IInv'
<1> SUFFICES ASSUME IInv, [Next]_vars PROVE IInv'
  OBVIOUS
<1>1. CASE RunStep
  BY <1>1, RunStepInv, RunStepRows DEF IInv
<1>2. CASE PersistOk
  <2>1. lost' \in SUBSET Turns
    BY <1>2 DEF PersistOk, IInv, TypeOK
  <2> QED BY <1>2, <2>1, PersistOkRows, TakeFromQueue DEF PersistOk
<1>3. CASE PersistFails
  BY <1>3, PersistFailsRows, TakeFromQueue DEF PersistFails, DropFailed
<1>4. CASE Return
  <2>1. Over /\ Over' /\ phase' = "returned"
    BY <1>4 DEF Return, Over
  <2>2. UNCHANGED <<turn, queue, call, sub, calls, spoken, said, rows, messageId, lost, runKind>>
    BY <1>4 DEF Return, Stores
  <2>3. TypeOK'
    BY <2>1, <2>2 DEF IInv, TypeOK
  <2>4. CallInv' /\ TextInv'
    BY <2>1, <2>2 DEF IInv, CallInv, TextInv
  <2>5. RowsNamed' /\ OneRowPerTurn'
    BY <2>2 DEF IInv, RowsNamed, RowOf, OneRowPerTurn
  <2> QED BY <2>3, <2>4, <2>5 DEF IInv
<1>5. CASE UNCHANGED vars
  BY <1>5 DEF vars, IInv, TypeOK, CallInv, TextInv, RowsNamed, RowOf, OneRowPerTurn, Over
<1> QED BY <1>1, <1>2, <1>3, <1>4, <1>5 DEF Next, Finished

(* Hence the invariant always holds.                                       *)
LEMMA Inductive == Spec => []IInv
  BY IInvInit, IInvStep, PTL DEF Spec

-----------------------------------------------------------------------------
(* Tracker, queue and rows keep their shape.                               *)
THEOREM TurnsTypeCorrect == Spec => []TypeOK
<1>1. IInv => TypeOK
  BY DEF IInv
<1> QED BY <1>1, Inductive, PTL

(* No lag of the queue and no failed write ever brings one turn's text     *)
(* into another turn's row.                                                *)
THEOREM TurnsOwnTextOnly == Spec => []OwnTextOnly
<1>1. IInv => OwnTextOnly
  BY DEF IInv, TextInv, Own, Belongs, OwnTextOnly, OwnText
<1> QED BY <1>1, Inductive, PTL

(* However its writes go, a turn has at most one row, and the rows of the  *)
(* turns are inserted in the order of the turns.                           *)
THEOREM TurnsOneRowPerTurn == Spec => []OneRowPerTurn
<1>1. IInv => OneRowPerTurn
  BY DEF IInv
<1> QED BY <1>1, Inductive, PTL

-----------------------------------------------------------------------------
(* The order of the rows, and what is stored once a turn is over.          *)
(*                                                                         *)
(* Read rows and queue as one log of writes.  A turn that is past has a    *)
(* write in it (KeptInv); in a provider run the last one holds all text of *)
(* the agent and is no streaming write (WholeInv); and no tool row of a    *)
(* turn stands in it before the turn's own first write, once the turn      *)
(* holds text of the agent (HeadInv).                                      *)

(* Write w is of turn r; it is final if it is no streaming write and holds *)
(* all text a of the agent.                                                *)
Of(w, r) == w.kind = "agent" /\ w.ref = r
Final(w, r, a) == Of(w, r) /\ w.status # "streaming" /\ AgentText(w.content) = a

HasRow(r) == messageId[r] \in 1 .. Len(rows)

(* Turn r has a row or will get one from queue q.                          *)
Has(q, r) == HasRow(r) \/ \E i \in 1 .. Len(q) : Of(q[i], r)

(* Once queue q is written, the row of turn r is final.                    *)
FinalFrom(q, i, r, a) == \A k \in i .. Len(q) : Of(q[k], r) => Final(q[k], r, a)
RowFinal(r, a) == HasRow(r) /\ Final(rows[messageId[r]], r, a)
Whole(q, r, a) ==
  \/ RowFinal(r, a) /\ FinalFrom(q, 1, r, a)
  \/ \E i \in 1 .. Len(q) : Of(q[i], r) /\ FinalFrom(q, i, r, a)

(* Tool row w belongs behind the row of turn r.                            *)
Behind(w, r) == w.kind = "tool" /\ r <= w.ref

Headed(q, r) ==
  \A i \in 1 .. Len(q) : Behind(q[i], r) => HasRow(r) \/ \E k \in 1 .. i - 1 : Of(q[k], r)
RowsHeaded(r) == \A i \in 1 .. Len(rows) : Behind(rows[i], r) => messageId[r] \in 1 .. i - 1

(* Turn r must have been written: there is a later one, or it is           *)
(* finalized, or the run is over.                                          *)
Past(r, s, h) == \/ r < s.rowRef /\ AgentText(h[r]) # {}
                 \/ r = s.rowRef /\ s.turnFinalized
Must(r, s, h, over) == Past(r, s, h) \/ (over /\ AgentText(h[r]) # {})

(* A row of turn r belongs before the rows of its tools.                   *)
Leads(r, h) == ChainRun \/ AgentText(h[r]) # {}

ToolsUpTo(q, n) == \A i \in 1 .. Len(q) : q[i].kind = "tool" => q[i].ref <= n

HeadInv == \A r \in Turns \ lost : Leads(r, said) => Headed(queue, r) /\ RowsHeaded(r)
KeptInv == \A r \in Turns \ lost : Must(r, turn, said, Over) => Has(queue, r)
WholeInv == ~ChainRun => \A r \in Turns \ lost :
               Must(r, turn, said, Over) => Whole(queue, r, AgentText(said[r]))
GhostInv == \A r \in Turns : messageId[r] = GhostId => r \in lost

(* Where the tracker stands while the run goes on.                         *)
StandInv ==
  ~Over => /\ ToolsUpTo(queue, TurnOf(turn)) /\ ToolsUpTo(rows, TurnOf(turn))
           /\ turn.turnIndex >= 0 => turn.text = said[turn.rowRef]
           /\ \A r \in Turns : r > turn.rowRef => said[r] = {}
           /\ ChainRun => turn.turnIndex <= 0 /\ (turn.turnIndex = 0 => turn.text # {})

StreamInv ==
  phase = "streaming" =>
    /\ call = "none" /\ ~ChainRun
    /\ turn.turnIndex >= 0 /\ ~turn.turnFinalized
    /\ ToolsUpTo(queue, turn.turnIndex) /\ ToolsUpTo(rows, turn.turnIndex)

OrderInv == HeadInv /\ KeptInv /\ WholeInv /\ GhostInv /\ StandInv /\ StreamInv

-----------------------------------------------------------------------------
(* Writes ws, added to a queue, write turn r; they keep it final.          *)
Writes(ws, r)   == \E i \in 1 .. Len(ws) : Of(ws[i], r)
Keeps(ws, r, a) == \A i \in 1 .. Len(ws) : Of(ws[i], r) => Final(ws[i], r, a)
NoTools(ws)     == \A i \in 1 .. Len(ws) : ws[i].kind # "tool"

(* The elements of a concatenation.                                        *)
LEMMA Joined ==
  ASSUME NEW q \in Seq(Write), NEW ws \in Seq(Write)
  PROVE  /\ q \o ws \in Seq(Write) /\ Len(q) \in Nat /\ Len(ws) \in Nat
         /\ Len(q \o ws) = Len(q) + Len(ws)
         /\ \A i \in 1 .. Len(q) : i \in 1 .. Len(q \o ws) /\ (q \o ws)[i] = q[i]
         /\ \A i \in 1 .. Len(ws) : /\ Len(q) + i \in 1 .. Len(q \o ws)
                                    /\ (q \o ws)[Len(q) + i] = ws[i]
         /\ \A k \in 1 .. Len(q \o ws) :
              k \in 1 .. Len(q) \/ \E i \in 1 .. Len(ws) : k = Len(q) + i
<1>1. Len(q) \in Nat /\ Len(ws) \in Nat
  BY LenProperties
<1>2. /\ q \o ws \in Seq(Write) /\ Len(q \o ws) = Len(q) + Len(ws)
      /\ \A i \in 1 .. Len(q) + Len(ws) :
           (q \o ws)[i] = IF i <= Len(q) THEN q[i] ELSE ws[i - Len(q)]
  BY ConcatProperties
<1> DEFINE qw == q \o ws
<1> HIDE DEF qw
<1>3. \A i \in 1 .. Len(q) : i \in 1 .. Len(qw) /\ qw[i] = q[i]
  BY <1>1, <1>2 DEF qw
<1>4. ASSUME NEW i \in 1 .. Len(ws) PROVE Len(q) + i \in 1 .. Len(qw) /\ qw[Len(q) + i] = ws[i]
  <2>1. Len(q) + i \in 1 .. Len(q) + Len(ws) /\ ~(Len(q) + i <= Len(q)) /\ (Len(q) + i) - Len(q) = i
    BY <1>1
  <2> QED BY <1>2, <2>1 DEF qw
<1>5. ASSUME NEW k \in 1 .. Len(qw), k \notin 1 .. Len(q) PROVE \E i \in 1 .. Len(ws) : k = Len(q) + i
  <2>1. k - Len(q) \in 1 .. Len(ws) /\ k = Len(q) + (k - Len(q))
    BY <1>1, <1>2, <1>5 DEF qw
  <2> QED BY <2>1
<1> QED BY <1>1, <1>2, <1>3, <1>4, <1>5 DEF qw

(* What a queue has, and what of it is whole, as writes are added.         *)
LEMMA WritesAdded ==
  ASSUME NEW q \in Seq(Write), NEW ws \in Seq(Write), NEW r, NEW a
  PROVE  /\ Has(q, r) \/ Writes(ws, r) => Has(q \o ws, r)
         /\ Whole(q, r, a) /\ Keeps(ws, r, a) => Whole(q \o ws, r, a)
         /\ Writes(ws, r) /\ Keeps(ws, r, a) => Whole(q \o ws, r, a)
<1> DEFINE qw == q \o ws
           n == Len(q)
<1>1. /\ n \in Nat /\ Len(ws) \in Nat /\ Len(qw) = n + Len(ws)
      /\ \A i \in 1 .. n : i \in 1 .. Len(qw) /\ qw[i] = q[i]
      /\ \A i \in 1 .. Len(ws) : n + i \in 1 .. Len(qw) /\ qw[n + i] = ws[i]
      /\ \A k \in 1 .. Len(qw) : k \in 1 .. n \/ \E i \in 1 .. Len(ws) : k = n + i
  BY Joined
<1> HIDE DEF qw, n
<1>2. Has(q, r) \/ Writes(ws, r) => Has(qw, r)
  BY <1>1 DEF Has, Writes, n
<1>3. ASSUME Keeps(ws, r, a), NEW i \in 1 .. Len(qw), i \in 1 .. n => FinalFrom(q, i, r, a)
      PROVE  FinalFrom(qw, i, r, a)
  <2>1. ASSUME NEW k \in i .. Len(qw), Of(qw[k], r) PROVE Final(qw[k], r, a)
    <3>1. k \in 1 .. Len(qw)
      BY <1>1
    <3>2. CASE k \in 1 .. n
      <4>1. i \in 1 .. n /\ k \in i .. n
        BY <1>1, <3>2
      <4> QED BY <1>1, <1>3, <2>1, <3>2, <4>1 DEF FinalFrom, n
    <3>3. CASE \E l \in 1 .. Len(ws) : k = n + l
      BY <1>1, <1>3, <2>1, <3>3 DEF Keeps
    <3> QED BY <1>1, <3>1, <3>2, <3>3
  <2> QED BY <2>1 DEF FinalFrom
<1>4. Whole(q, r, a) /\ Keeps(ws, r, a) => Whole(qw, r, a)
  <2> SUFFICES ASSUME Whole(q, r, a), Keeps(ws, r, a) PROVE Whole(qw, r, a)
    OBVIOUS
  <2>1. CASE RowFinal(r, a) /\ FinalFrom(q, 1, r, a)
    <3>1. CASE Len(qw) = 0
      BY <2>1, <3>1 DEF Whole, FinalFrom
    <3>2. CASE Len(qw) # 0
      <4>1. 1 \in 1 .. Len(qw)
        BY <1>1, <3>2
      <4> QED BY <1>3, <2>1, <4>1 DEF Whole
    <3> QED BY <3>1, <3>2
  <2>2. ASSUME NEW i \in 1 .. n, Of(q[i], r), FinalFrom(q, i, r, a) PROVE Whole(qw, r, a)
    BY <1>1, <1>3, <2>2 DEF Whole
  <2> QED BY <2>1, <2>2 DEF Whole, n
<1>5. Writes(ws, r) /\ Keeps(ws, r, a) => Whole(qw, r, a)
  <2> SUFFICES ASSUME Keeps(ws, r, a), NEW l \in 1 .. Len(ws), Of(ws[l], r) PROVE Whole(qw, r, a)
    BY DEF Writes
  <2>1. n + l \in 1 .. Len(qw) /\ n + l \notin 1 .. n /\ Of(qw[n + l], r)
    BY <1>1
  <2> QED BY <1>3, <2>1 DEF Whole
<1> QED BY <1>2, <1>4, <1>5 DEF qw

(* Tool rows behind the rows of their turns, as writes are added.          *)
LEMMA ToolsAdded ==
  ASSUME NEW q \in Seq(Write), NEW ws \in Seq(Write), NEW r,
         Headed(q, r), \A i \in 1 .. Len(ws) : Behind(ws[i], r) => Has(q, r)
  PROVE  Headed(q \o ws, r)
<1> DEFINE qw == q \o ws
<1>1. /\ Len(q) \in Nat /\ Len(ws) \in Nat /\ Len(qw) = Len(q) + Len(ws)
      /\ \A i \in 1 .. Len(q) : i \in 1 .. Len(qw) /\ qw[i] = q[i]
      /\ \A i \in 1 .. Len(ws) : Len(q) + i \in 1 .. Len(qw) /\ qw[Len(q) + i] = ws[i]
      /\ \A k \in 1 .. Len(qw) : k \in 1 .. Len(q) \/ \E i \in 1 .. Len(ws) : k = Len(q) + i
  BY Joined
<1> HIDE DEF qw
<1>2. ASSUME NEW k \in 1 .. Len(qw), Behind(qw[k], r), ~HasRow(r)
      PROVE  \E l \in 1 .. k - 1 : Of(qw[l], r)
  <2>1. CASE k \in 1 .. Len(q)
    <3>1. PICK l \in 1 .. k - 1 : Of(q[l], r)
      BY <1>1, <1>2, <2>1 DEF Headed
    <3>2. l \in 1 .. Len(q)
      BY <1>1, <2>1
    <3> QED BY <1>1, <3>1, <3>2
  <2>2. ASSUME NEW i \in 1 .. Len(ws), k = Len(q) + i PROVE \E l \in 1 .. k - 1 : Of(qw[l], r)
    <3>1. PICK l \in 1 .. Len(q) : Of(q[l], r)
      BY <1>1, <1>2, <2>2 DEF Has
    <3>2. l \in 1 .. k - 1
      BY <1>1, <2>2
    <3> QED BY <1>1, <3>1, <3>2
  <2> QED BY <1>1, <2>1, <2>2
<1> QED BY <1>2 DEF Headed, qw

(* A bound on the turns of a queue's tool rows, as writes are added.       *)
LEMMA ToolsBounded ==
  ASSUME NEW q \in Seq(Write), NEW ws \in Seq(Write), NEW n, ToolsUpTo(q, n), ToolsUpTo(ws, n)
  PROVE  ToolsUpTo(q \o ws, n)
<1> DEFINE qw == q \o ws
<1>1. /\ \A i \in 1 .. Len(q) : i \in 1 .. Len(qw) /\ qw[i] = q[i]
      /\ \A i \in 1 .. Len(ws) : Len(q) + i \in 1 .. Len(qw) /\ qw[Len(q) + i] = ws[i]
      /\ \A k \in 1 .. Len(qw) : k \in 1 .. Len(q) \/ \E i \in 1 .. Len(ws) : k = Len(q) + i
  BY Joined
<1> HIDE DEF qw
<1>2. ASSUME NEW k \in 1 .. Len(qw), qw[k].kind = "tool" PROVE qw[k].ref <= n
  <2>1. CASE k \in 1 .. Len(q)
    BY <1>1, <1>2, <2>1 DEF ToolsUpTo
  <2>2. ASSUME NEW i \in 1 .. Len(ws), k = Len(q) + i PROVE qw[k].ref <= n
    <3>1. qw[k] = ws[i]
      BY <1>1, <2>2
    <3> QED BY <1>2, <3>1 DEF ToolsUpTo
  <2> QED BY <1>1, <2>1, <2>2
<1> QED BY <1>2 DEF ToolsUpTo, qw

-----------------------------------------------------------------------------
(* An emission: writes ws and the row of a finished tool call join the     *)
(* queue.  What is past keeps its text, and its later writes are final;    *)
(* what becomes past is written; so is every turn that a tool row stands   *)
(* behind.                                                                 *)
PastKept(ws) ==
  ~ChainRun => \A r \in Turns \ lost : Past(r, turn, said) =>
    AgentText(said'[r]) = AgentText(said[r]) /\ Keeps(ws, r, AgentText(said[r]))
PastWritten(ws) ==
  \A r \in Turns \ lost : Must(r, turn', said', Over') /\ ~Past(r, turn, said) =>
    Writes(ws, r) /\ (~ChainRun => Keeps(ws, r, AgentText(said'[r])))
ToolsBehind(ws, jobs) ==
  \A r \in Turns \ lost, i \in 1 .. Len(jobs) : Behind(jobs[i], r) /\ Leads(r, said') =>
    Past(r, turn, said) \/ Writes(ws, r)
LeadsKept ==
  \A r \in Turns : Leads(r, said') =>
    \/ Leads(r, said)
    \/ /\ \A i \in 1 .. Len(queue) : ~Behind(queue[i], r)
       /\ \A i \in 1 .. Len(rows) : ~Behind(rows[i], r)

Emission(ws, jobs) ==
  /\ queue' = queue \o ws \o jobs
  /\ NoTools(ws) /\ (\A i \in 1 .. Len(jobs) : jobs[i].kind = "tool")
  /\ PastKept(ws) /\ PastWritten(ws) /\ ToolsBehind(ws, jobs) /\ LeadsKept

(* An emission keeps what is stored and queued for the turns in order.     *)
LEMMA EmissionKeeps ==
  ASSUME IInv, OrderInv, ~Over, UNCHANGED Stores, NEW ws \in Seq(Write), NEW jobs \in Seq(Write),
         Emission(ws, jobs)
  PROVE  HeadInv' /\ KeptInv' /\ WholeInv' /\ GhostInv'
<1> DEFINE q1 == queue \o ws
           q2 == q1 \o jobs
<1>1. queue \in Seq(Write) /\ rows \in Seq(Write) /\ q1 \in Seq(Write) /\ q2 \in Seq(Write)
  <2>1. queue \in Seq(Write) /\ rows \in Seq(Write)
    BY DEF IInv, TypeOK
  <2>2. q1 \in Seq(Write)
    BY <2>1, Joined
  <2> QED BY <2>1, <2>2, Joined
<1>2. /\ queue' = q2 /\ NoTools(ws) /\ (\A i \in 1 .. Len(jobs) : jobs[i].kind = "tool")
      /\ PastKept(ws) /\ PastWritten(ws) /\ ToolsBehind(ws, jobs) /\ LeadsKept
  BY DEF Emission
<1>3. UNCHANGED <<rows, messageId, lost>> /\ ChainRun' = ChainRun
  BY DEF Stores, ChainRun
<1>4. \A r, a : Keeps(jobs, r, a)
  BY <1>2 DEF Keeps, Of
<1> HIDE DEF q1, q2
<1>5. \A r \in Turns \ lost : Past(r, turn, said) \/ Writes(ws, r) => Has(q1, r)
  <2> SUFFICES ASSUME NEW r \in Turns \ lost, Past(r, turn, said) \/ Writes(ws, r) PROVE Has(q1, r)
    OBVIOUS
  <2>1. CASE Past(r, turn, said)
    <3>1. Has(queue, r)
      BY <2>1 DEF OrderInv, KeptInv, Must
    <3> QED BY <1>1, <3>1, WritesAdded DEF q1
  <2>2. CASE Writes(ws, r)
    BY <1>1, <2>2, WritesAdded DEF q1
  <2> QED BY <2>1, <2>2
<1>6. \A r \in Turns \ lost : Must(r, turn', said', Over') => Past(r, turn, said) \/ Writes(ws, r)
  BY <1>2 DEF PastWritten
<1>7. KeptInv'
  <2>1. \A r \in Turns \ lost : Must(r, turn', said', Over') => Has(q2, r)
    BY <1>1, <1>5, <1>6, WritesAdded DEF q2
  <2> QED BY <1>2, <1>3, <2>1 DEF KeptInv, Has, HasRow, Must, Past, Over
<1>8. WholeInv'
  <2>1. ASSUME ~ChainRun, NEW r \in Turns \ lost, Must(r, turn', said', Over')
        PROVE  Whole(q2, r, AgentText(said'[r]))
    <3> DEFINE a == AgentText(said'[r])
    <3>1. Whole(q1, r, a)
      <4>1. CASE Past(r, turn, said)
        <5>1. a = AgentText(said[r]) /\ Keeps(ws, r, a)
          BY <1>2, <2>1, <4>1 DEF PastKept
        <5>2. Whole(queue, r, a)
          BY <2>1, <4>1, <5>1 DEF OrderInv, WholeInv, Must
        <5> QED BY <1>1, <5>1, <5>2, WritesAdded DEF q1
      <4>2. CASE ~Past(r, turn, said)
        <5>1. Writes(ws, r) /\ Keeps(ws, r, a)
          BY <1>2, <2>1, <4>2 DEF PastWritten
        <5> QED BY <1>1, <5>1, WritesAdded DEF q1
      <4> QED BY <4>1, <4>2
    <3> QED BY <1>1, <1>4, <3>1, WritesAdded DEF q2
  <2> QED BY <1>2, <1>3, <2>1 DEF WholeInv, Whole, RowFinal, HasRow, Must, Past, Over
<1>9. HeadInv'
  <2> SUFFICES ASSUME NEW r \in Turns \ lost, Leads(r, said')
               PROVE  Headed(queue, r)' /\ RowsHeaded(r)'
    <3>1. (\A r \in Turns \ lost : Leads(r, said') => Headed(queue, r)' /\ RowsHeaded(r)') => HeadInv'
      BY <1>3 DEF HeadInv, Leads
    <3> QED BY <3>1
  <2>1. Headed(queue, r) /\ RowsHeaded(r)
    <3>1. CASE Leads(r, said)
      BY <3>1 DEF OrderInv, HeadInv
    <3>2. CASE /\ \A i \in 1 .. Len(queue) : ~Behind(queue[i], r)
               /\ \A i \in 1 .. Len(rows) : ~Behind(rows[i], r)
      BY <3>2 DEF Headed, RowsHeaded
    <3> QED BY <1>2, <3>1, <3>2 DEF LeadsKept
  <2>2. Headed(q1, r)
    <3>1. \A i \in 1 .. Len(ws) : ~Behind(ws[i], r)
      BY <1>2 DEF NoTools, Behind
    <3> QED BY <1>1, <2>1, <3>1, ToolsAdded DEF q1
  <2>3. Headed(q2, r)
    <3>1. \A i \in 1 .. Len(jobs) : Behind(jobs[i], r) => Has(q1, r)
      BY <1>2, <1>5 DEF ToolsBehind
    <3> QED BY <1>1, <2>2, <3>1, ToolsAdded DEF q2
  <2> QED BY <1>2, <1>3, <2>1, <2>3 DEF Headed, RowsHeaded, HasRow
<1>10. GhostInv'
  BY <1>3 DEF OrderInv, GhostInv
<1> QED BY <1>7, <1>8, <1>9, <1>10

(* An emission adds no tool rows of turns behind the bound of its own.     *)
LEMMA EmissionTools ==
  ASSUME IInv, UNCHANGED Stores, NEW ws \in Seq(Write), NEW jobs \in Seq(Write),
         Emission(ws, jobs), NEW n \in Int, ToolsUpTo(queue, n), ToolsUpTo(rows, n),
         ToolsUpTo(jobs, n)
  PROVE  ToolsUpTo(queue', n) /\ ToolsUpTo(rows', n)
<1>1. queue \in Seq(Write) /\ queue \o ws \in Seq(Write) /\ rows' = rows
  BY Joined DEF IInv, TypeOK, Stores
<1>2. ToolsUpTo(ws, n) /\ queue' = queue \o ws \o jobs
  BY DEF Emission, NoTools, ToolsUpTo
<1>3. ToolsUpTo(queue \o ws, n)
  BY <1>1, <1>2, ToolsBounded
<1>4. ToolsUpTo(queue \o ws \o jobs, n)
  BY <1>1, <1>3, ToolsBounded
<1> QED BY <1>1, <1>2, <1>4

(* The agent's part of a text.                                             *)
LEMMA AgentTexts ==
  /\ AgentText({}) = {}
  /\ \A c, d : c \subseteq d => AgentText(c) \subseteq AgentText(d)
  /\ \A c, tok : tok.by # "agent" => AgentText(c \cup {tok}) = AgentText(c)
  BY DEF AgentText

(* Where the tracker stands in a run that goes on.                         *)
LEMMA Standing ==
  ASSUME IInv, OrderInv, ~Over
  PROVE  /\ turn \in TurnState /\ turn.rowRef \in Nat /\ turn.turnIndex \in Int
         /\ turn.turnIndex + 1 = turn.rowRef /\ TurnOf(turn) = turn.rowRef
         /\ turn.turnIndex >= 0 => turn.rowRef \in Turns /\ turn.text = said[turn.rowRef]
         /\ turn.turnIndex < 0 => turn.text = {}
         /\ \A r \in Turns : r > turn.rowRef => said[r] = {}
         /\ said \in History
<1>1. turn \in TurnState /\ Sound(turn, said) /\ said \in History
  BY HistoryType DEF IInv, TypeOK, TextInv
<1> QED BY <1>1, SoundRow DEF OrderInv, StandInv, TurnOf, Sound

(* A flush writes the turn's whole text, unless it was written before.     *)
LEMMA FlushedText ==
  ASSUME IInv, OrderInv, ~Over, NEW st \in Status \ {"streaming"}
  PROVE  LET ws == Flush(turn, st).writes
         IN  /\ ws \in Seq(Write) /\ NoTools(ws)
             /\ \A r \in Turns : Keeps(ws, r, AgentText(said[r]))
             /\ \A r \in Turns : r <= turn.rowRef /\ Leads(r, said) =>
                  Past(r, turn, said) \/ Writes(ws, r)
             /\ \A i \in 1 .. Len(ws) : Of(ws[i], turn.rowRef)
             /\ Flush(turn, st).state.turnFinalized /\ ~turn.turnFinalized => Writes(ws, turn.rowRef)
<1> DEFINE ws == Flush(turn, st).writes
           w == WriteOf(turn, turn.text, st)
<1>0. /\ turn \in TurnState /\ turn.rowRef \in Nat /\ turn.turnIndex \in Int
      /\ turn.turnIndex + 1 = turn.rowRef
      /\ turn.turnIndex >= 0 => turn.rowRef \in Turns /\ turn.text = said[turn.rowRef]
      /\ turn.turnIndex < 0 => turn.text = {}
      /\ said \in History
  BY Standing
<1>1. Flushable(turn) => turn.rowRef \in Turns /\ w \in Write /\ Final(w, turn.rowRef, AgentText(said[turn.rowRef]))
  <2> SUFFICES ASSUME Flushable(turn)
               PROVE  turn.rowRef \in Turns /\ w \in Write /\ Final(w, turn.rowRef, AgentText(said[turn.rowRef]))
    OBVIOUS
  <2>1. turn.turnIndex >= 0
    BY DEF Flushable
  <2>2. w = [kind |-> "agent", ref |-> turn.rowRef, content |-> turn.text, status |-> st]
    BY DEF WriteOf
  <2>3. w \in TurnWrite
    BY <1>0, <2>1, <2>2 DEF TurnWrite, TurnState
  <2> QED BY <1>0, <2>1, <2>2, <2>3 DEF Write, Final, Of
<1>2. \/ Flushable(turn) /\ ws = <<w>>
      \/ ~Flushable(turn) /\ ws = <<>> /\ Flush(turn, st).state = turn
  BY DEF Flush, NoWrites
<1> HIDE DEF ws, w
<1>3. ws \in Seq(Write) /\ (\A i \in 1 .. Len(ws) : Flushable(turn) /\ ws[i] = w)
      /\ (Flushable(turn) => 1 \in 1 .. Len(ws))
  <2>1. CASE Flushable(turn) /\ ws = <<w>>
    BY <1>1, <2>1
  <2>2. CASE ~Flushable(turn) /\ ws = <<>>
    BY <2>2
  <2> QED BY <1>2, <2>1, <2>2
<1>4. NoTools(ws) /\ (\A i \in 1 .. Len(ws) : Of(ws[i], turn.rowRef))
  BY <1>1, <1>3 DEF NoTools, Final, Of
<1>5. Flushable(turn) => Writes(ws, turn.rowRef)
  BY <1>1, <1>3 DEF Writes, Final
<1>6. ASSUME NEW r \in Turns PROVE Keeps(ws, r, AgentText(said[r]))
  BY <1>1, <1>3 DEF Keeps, Of, Final
<1>7. ASSUME NEW r \in Turns, r <= turn.rowRef, Leads(r, said)
      PROVE  Past(r, turn, said) \/ Writes(ws, r)
  <2>1. r \in Int /\ r >= 1
    BY DEF Turns
  <2>2. CASE r = turn.rowRef
    <3>1. turn.turnIndex >= 0 /\ turn.rowRef # NoRef
      BY <1>0, <2>1, <2>2 DEF NoRef
    <3>2. turn.text # {}
      <4>1. CASE ChainRun
        BY <1>0, <3>1, <4>1 DEF OrderInv, StandInv
      <4>2. CASE ~ChainRun
        BY <1>0, <3>1, <4>2, <1>7, <2>2, AgentTexts DEF Leads
      <4> QED BY <4>1, <4>2
    <3>3. Flushable(turn) \/ turn.turnFinalized
      BY <3>1, <3>2 DEF Flushable
    <3> QED BY <1>5, <2>2, <3>3 DEF Past
  <2>3. CASE r # turn.rowRef
    <3>1. r < turn.rowRef
      BY <1>0, <1>7, <2>1, <2>3
    <3>2. ~ChainRun
      BY <1>0, <2>1, <3>1 DEF OrderInv, StandInv
    <3> QED BY <1>7, <3>1, <3>2 DEF Leads, Past
  <2> QED BY <2>2, <2>3
<1>8. Flush(turn, st).state.turnFinalized /\ ~turn.turnFinalized => Writes(ws, turn.rowRef)
  BY <1>2, <1>5
<1> QED BY <1>3, <1>4, <1>6, <1>7, <1>8 DEF ws

(* The events that flush, without text of their own.                       *)
LEMMA FlushEmission ==
  ASSUME IInv, OrderInv, ~Over, UNCHANGED Stores, Silent, NEW st \in Status \ {"streaming"},
         turn' \in {NewTurn(turn), Flush(turn, st).state},
         NEW jobs, jobs \in {<<>>, ToolRow},
         queue' = queue \o Flush(turn, st).writes \o jobs
  PROVE  /\ Flush(turn, st).writes \in Seq(Write) /\ jobs \in Seq(Write)
         /\ Emission(Flush(turn, st).writes, jobs)
         /\ ToolsUpTo(jobs, TurnOf(turn))
<1> DEFINE ws == Flush(turn, st).writes
<1>0. /\ turn \in TurnState /\ turn.rowRef \in Nat /\ turn.turnIndex \in Int
      /\ turn.turnIndex + 1 = turn.rowRef /\ TurnOf(turn) = turn.rowRef
      /\ \A r \in Turns : r > turn.rowRef => said[r] = {}
  BY Standing
<1>1. /\ ws \in Seq(Write) /\ NoTools(ws)
      /\ \A r \in Turns : Keeps(ws, r, AgentText(said[r]))
      /\ \A r \in Turns : r <= turn.rowRef /\ Leads(r, said) => Past(r, turn, said) \/ Writes(ws, r)
      /\ Flush(turn, st).state.turnFinalized /\ ~turn.turnFinalized => Writes(ws, turn.rowRef)
  BY FlushedText
<1>2. /\ Flush(turn, st).state.rowRef = turn.rowRef
      /\ NewTurn(turn).rowRef = turn.rowRef + 1 /\ ~NewTurn(turn).turnFinalized
  <2>1. Sound(turn, said)
    BY DEF IInv, TextInv
  <2> QED BY <1>0, <2>1, FlushFed DEF NewTurn
<1> HIDE DEF ws
<1>3. said' = said /\ ChainRun' = ChainRun
  BY DEF Silent, Stores, ChainRun
<1>4. /\ jobs \in Seq(Write)
      /\ \A i \in 1 .. Len(jobs) : jobs[i].kind = "tool" /\ jobs[i].ref = turn.rowRef
  <2>1. CASE jobs = <<>>
    BY <2>1
  <2>2. CASE jobs = ToolRow
    <3>1. [kind |-> "tool", ref |-> turn.rowRef] \in Write
      BY <1>0 DEF Write, ToolWrite, TurnState
    <3> QED BY <1>0, <2>2, <3>1 DEF ToolRow
  <2> QED BY <2>1, <2>2
<1>5. ASSUME NEW r \in Turns PROVE AgentText(said[r]) # {} => r <= turn.rowRef
  BY <1>0, <1>5, AgentTexts DEF Turns
<1>6. PastKept(ws)
  BY <1>1, <1>3 DEF PastKept
<1>7. PastWritten(ws)
  <2> SUFFICES ASSUME NEW r \in Turns \ lost, Must(r, turn', said, Over'), ~Past(r, turn, said)
               PROVE  Writes(ws, r)
    BY <1>1, <1>3 DEF PastWritten
  <2>1. CASE AgentText(said[r]) # {}
    BY <1>1, <1>5, <2>1 DEF Leads
  <2>2. CASE r = turn'.rowRef /\ turn'.turnFinalized
    <3>1. turn' = Flush(turn, st).state /\ r = turn.rowRef
      BY <1>2, <2>2
    <3> QED BY <1>1, <2>2, <3>1 DEF Past
  <2> QED BY <2>1, <2>2 DEF Must, Past
<1>8. ToolsBehind(ws, jobs)
  BY <1>1, <1>3, <1>4 DEF ToolsBehind, Behind
<1>9. LeadsKept
  BY <1>3 DEF LeadsKept, Leads
<1>10. ToolsUpTo(jobs, TurnOf(turn))
  BY <1>0, <1>4 DEF ToolsUpTo
<1> QED BY <1>1, <1>4, <1>6, <1>7, <1>8, <1>9, <1>10 DEF Emission, ws

(* What a token does to the tracker and to the history.                    *)
LEMMA TokenFacts ==
  ASSUME IInv, OrderInv, ~Over, spoken < MaxTokens, NEW by \in Authors, NEW tick \in BOOLEAN,
         Enqueue(FeedToken(turn, Token(by), tick), <<>>), Say(TurnOf(turn'), Token(by))
  PROVE  LET ws == FeedToken(turn, Token(by), tick).writes
         IN  /\ ws \in Seq(Write) /\ NoTools(ws) /\ queue' = queue \o ws \o <<>>
             /\ \A i \in 1 .. Len(ws) : Of(ws[i], turn'.rowRef) /\ ~turn'.turnFinalized
             /\ turn'.rowRef \in Turns /\ turn'.turnIndex + 1 = turn'.rowRef
             /\ turn'.text = turn.text \cup {Token(by)} /\ turn'.text = said'[turn'.rowRef]
             /\ \A r \in Turns : r # turn'.rowRef => said'[r] = said[r]
             /\ said'[turn'.rowRef] = said[turn'.rowRef] \cup {Token(by)}
             /\ \/ /\ turn.turnIndex >= 0 /\ turn'.turnIndex = turn.turnIndex
                   /\ turn'.rowRef = turn.rowRef /\ turn'.turnFinalized = turn.turnFinalized
                \/ /\ turn.turnIndex < 0 /\ turn'.turnIndex = 0
                   /\ turn'.rowRef = 1 /\ ~turn'.turnFinalized
<1> DEFINE e == EnsureTurn(turn)
           t == [e EXCEPT !.text = @ \cup {Token(by)}]
           ws == FeedToken(turn, Token(by), tick).writes
<1>0. /\ turn \in TurnState /\ turn.rowRef \in Nat /\ turn.turnIndex \in Int
      /\ turn.turnIndex + 1 = turn.rowRef
      /\ turn.turnIndex >= 0 => turn.rowRef \in Turns /\ turn.text = said[turn.rowRef]
      /\ turn.turnIndex < 0 => turn.text = {}
      /\ \A r \in Turns : r > turn.rowRef => said[r] = {}
      /\ said \in History /\ Sound(turn, said)
  BY Standing DEF IInv, TextInv
<1>1. /\ e \in TurnState /\ e.text = turn.text
      /\ \/ turn.turnIndex >= 0 /\ e = turn
         \/ /\ turn.turnIndex < 0 /\ e.turnIndex = 0
            /\ e.rowRef = 1 /\ ~e.turnFinalized
  <2>1. e \in TurnState /\ e.text = turn.text /\ (turn.turnIndex >= 0 => e = turn)
    BY <1>0, EnsureTurnSound
  <2>2. turn.turnIndex < 0 => e.turnIndex = 0 /\ e.rowRef = 1 /\ e.turnFinalized = FALSE
    BY <1>0 DEF EnsureTurn, TurnState
  <2> QED BY <1>0, <2>1, <2>2
<1> HIDE DEF e
<1>2. /\ t \in [text : SUBSET (Tokens \cup {Token(by)}), turnIndex : -1 .. MaxTurns - 1,
                rowRef : 0 .. MaxTurns, turnFinalized : BOOLEAN]
      /\ t.text = e.text \cup {Token(by)} /\ t.turnIndex = e.turnIndex
      /\ t.rowRef = e.rowRef /\ t.turnFinalized = e.turnFinalized
  BY <1>1 DEF TurnState
<1>3. turn' = t /\ ws = StreamingWrite(t, tick) /\ queue' = queue \o ws \o <<>>
  BY DEF Enqueue, FeedToken, e
<1> HIDE DEF t, ws
<1>4. turn'.rowRef \in Turns /\ turn'.turnIndex + 1 = turn'.rowRef /\ TurnOf(turn') = turn'.rowRef
  <2>1. CASE turn.turnIndex >= 0
    BY <1>0, <1>1, <1>2, <1>3, <2>1 DEF TurnOf
  <2>2. CASE turn.turnIndex < 0
    <3>1. 1 \in Turns
      BY BoundsAssumption DEF Turns
    <3> QED BY <1>0, <1>1, <1>2, <1>3, <2>2, <3>1 DEF TurnOf
  <2> QED BY <1>0, <2>1, <2>2
<1>5. /\ Token(by) \in Tokens
      /\ \A r \in Turns : r # turn'.rowRef => said'[r] = said[r]
      /\ said'[turn'.rowRef] = said[turn'.rowRef] \cup {Token(by)}
  BY <1>0, <1>4, TokenSaid DEF IInv, Say, History
<1>6. t \in TurnState
  BY <1>2, <1>5 DEF TurnState
<1>7. turn.text = said[turn'.rowRef]
  <2>1. CASE turn.turnIndex >= 0
    BY <1>0, <1>1, <1>2, <1>3, <2>1
  <2>2. CASE turn.turnIndex < 0
    <3>1. turn'.rowRef = 1 /\ turn.rowRef = 0
      BY <1>0, <1>1, <1>2, <1>3, <2>2
    <3>2. 1 \in Turns /\ 1 > turn.rowRef
      BY <1>4, <3>1
    <3>3. said[1] = {}
      BY <1>0, <3>2
    <3> QED BY <1>0, <2>2, <3>1, <3>3
  <2> QED BY <1>0, <2>1, <2>2
<1>8. /\ ws \in Seq(Write) /\ NoTools(ws)
      /\ \A i \in 1 .. Len(ws) : Of(ws[i], turn'.rowRef) /\ ~turn'.turnFinalized
  <2> DEFINE w == WriteOf(t, t.text, "streaming")
  <2>1. w \in TurnWrite /\ w.ref = t.rowRef /\ w.kind = "agent"
    BY <1>3, <1>4, <1>6 DEF WriteOf, TurnWrite, TurnState, Status
  <2>2. ws = <<>> \/ (~t.turnFinalized /\ ws = <<w>>)
    BY <1>3 DEF StreamingWrite, Flushable
  <2>3. w \in Write
    BY <2>1 DEF Write
  <2> HIDE DEF w
  <2>4. CASE ws = <<>>
    BY <2>4 DEF NoTools
  <2>5. CASE ~t.turnFinalized /\ ws = <<w>>
    BY <1>3, <2>1, <2>3, <2>5 DEF NoTools, Of
  <2> QED BY <2>2, <2>4, <2>5
<1> QED BY <1>0, <1>1, <1>2, <1>3, <1>4, <1>5, <1>7, <1>8 DEF ws

(* A token of the agent streams while no tool of its turn has a row, and   *)
(* the text of a turn that is past is only added to by others.             *)
LEMMA TokenEmission ==
  ASSUME IInv, OrderInv, ~Over, ~Over', UNCHANGED Stores, spoken < MaxTokens,
         NEW by \in Authors, by = "agent" /\ ~ChainRun => phase = "streaming",
         NEW tick \in BOOLEAN,
         Enqueue(FeedToken(turn, Token(by), tick), <<>>), Say(TurnOf(turn'), Token(by))
  PROVE  LET ws == FeedToken(turn, Token(by), tick).writes
         IN  ws \in Seq(Write) /\ Emission(ws, <<>>)
<1> DEFINE ws == FeedToken(turn, Token(by), tick).writes
<1>0. /\ turn \in TurnState /\ turn.rowRef \in Nat /\ turn.turnIndex \in Int
      /\ turn.turnIndex + 1 = turn.rowRef
  BY Standing
<1>1. /\ ws \in Seq(Write) /\ NoTools(ws) /\ queue' = queue \o ws \o <<>>
      /\ \A i \in 1 .. Len(ws) : Of(ws[i], turn'.rowRef) /\ ~turn'.turnFinalized
      /\ turn'.rowRef \in Turns
      /\ \A r \in Turns : r # turn'.rowRef => said'[r] = said[r]
      /\ said'[turn'.rowRef] = said[turn'.rowRef] \cup {Token(by)}
      /\ \/ /\ turn.turnIndex >= 0 /\ turn'.turnIndex = turn.turnIndex
            /\ turn'.rowRef = turn.rowRef /\ turn'.turnFinalized = turn.turnFinalized
         \/ /\ turn.turnIndex < 0 /\ turn'.turnIndex = 0
            /\ turn'.rowRef = 1 /\ ~turn'.turnFinalized
  BY TokenFacts
<1>2. Token(by).by = by
  BY DEF Token
<1> HIDE DEF ws
<1>3. \A r \in Turns : r # turn'.rowRef \/ by # "agent" => AgentText(said'[r]) = AgentText(said[r])
  BY <1>1, <1>2, AgentTexts
<1>4. \A r \in Turns : Past(r, turn, said) => r # turn'.rowRef \/ turn'.turnFinalized
  BY <1>0, <1>1 DEF Past, Turns
<1>5. PastKept(ws)
  <2> SUFFICES ASSUME ~ChainRun, NEW r \in Turns \ lost, Past(r, turn, said)
               PROVE  /\ AgentText(said'[r]) = AgentText(said[r])
                      /\ Keeps(ws, r, AgentText(said[r]))
    BY DEF PastKept
  <2>1. Keeps(ws, r, AgentText(said[r]))
    BY <1>1, <1>4 DEF Keeps, Of
  <2>2. by = "agent" => ~turn.turnFinalized /\ turn.turnIndex >= 0
    BY DEF OrderInv, StreamInv
  <2>3. by = "agent" => r # turn'.rowRef
    BY <1>0, <1>1, <1>4, <2>2
  <2> QED BY <1>3, <2>1, <2>3
<1>6. PastWritten(ws)
  <2> SUFFICES ASSUME NEW r \in Turns, Past(r, turn', said') PROVE Past(r, turn, said)
    BY DEF PastWritten, Must
  <2>1. CASE r = turn'.rowRef /\ turn'.turnFinalized
    BY <1>1, <2>1 DEF Past
  <2>2. CASE r < turn'.rowRef /\ AgentText(said'[r]) # {}
    <3>1. r # turn'.rowRef /\ r >= 1 /\ r < turn.rowRef
      BY <1>0, <1>1, <2>2 DEF Turns
    <3> QED BY <1>1, <2>2, <3>1 DEF Past
  <2> QED BY <2>1, <2>2 DEF Past
<1>7. ToolsBehind(ws, <<>>)
  BY DEF ToolsBehind
<1>8. LeadsKept
  <2> SUFFICES ASSUME NEW r \in Turns, Leads(r, said'), ~Leads(r, said)
               PROVE  /\ \A i \in 1 .. Len(queue) : ~Behind(queue[i], r)
                      /\ \A i \in 1 .. Len(rows) : ~Behind(rows[i], r)
    BY DEF LeadsKept
  <2>1. ~ChainRun /\ AgentText(said'[r]) # AgentText(said[r])
    BY DEF Leads, ChainRun, Stores
  <2>2. by = "agent" /\ r = turn'.rowRef
    BY <1>3, <2>1
  <2>3. /\ turn.turnIndex >= 0
        /\ ToolsUpTo(queue, turn.turnIndex) /\ ToolsUpTo(rows, turn.turnIndex)
    BY <2>1, <2>2 DEF OrderInv, StreamInv
  <2>4. r = turn.turnIndex + 1
    BY <1>0, <1>1, <2>2, <2>3
  <2>5. \A w \in Write : w.kind = "tool" => w.ref \in Int
    BY DEF Write, TurnWrite, ToolWrite
  <2>6. /\ \A i \in 1 .. Len(queue) : queue[i] \in Write
        /\ \A i \in 1 .. Len(rows) : rows[i] \in Write
    BY ElementOfSeq DEF IInv, TypeOK
  <2> QED BY <1>0, <2>3, <2>4, <2>5, <2>6 DEF ToolsUpTo, Behind
<1> QED BY <1>1, <1>5, <1>6, <1>7, <1>8 DEF Emission, ws

(* A complete event writes the whole text of its turn, and an output only  *)
(* when nobody streamed.                                                   *)
LEMMA CompleteEmission ==
  ASSUME IInv, OrderInv, ~Over, Over', UNCHANGED Stores,
         NEW before, before \in {NoWrites(turn), FeedError(turn)},
         NEW status \in Status \ {"streaming"}, CompleteWith(before, status)
  PROVE  \E ws \in Seq(Write) : Emission(ws, <<>>)
<1>1. PICK out \in SUBSET Tokens :
        /\ Completion(before, out, status)
        /\ AgentText(out) = {} /\ said' \in History
        /\ \A r \in Turns : AgentText(said'[r]) = AgentText(said[r])
  <2>1. CASE Completion(before, {}, status) /\ Silent
    <3>1. said' = said /\ said \in History
      BY <2>1, Standing DEF Silent
    <3> QED BY <2>1, <3>1, AgentTexts
  <2>2. CASE /\ spoken < MaxTokens
             /\ Completion(before, {Token("output")}, status)
             /\ Say(TurnOf(turn'), Token("output"))
    <3>1. Token("output") \in Tokens
      BY <2>2, BoundsAssumption DEF Token, Tokens, Authors, IInv, TypeOK
    <3>2. Token("output").by = "output"
      BY DEF Token
    <3>3. AgentText({Token("output")}) = {}
      BY <3>2 DEF AgentText
    <3>4. said' = [said EXCEPT ![TurnOf(turn')] = @ \cup {Token("output")}] /\ said \in History
      BY <2>2, Standing DEF Say
    <3>5. said' \in History
      BY <3>1, <3>4 DEF History
    <3>6. ASSUME NEW r \in Turns PROVE AgentText(said'[r]) = AgentText(said[r])
      <4>1. said'[r] = said[r] \/ said'[r] = said[r] \cup {Token("output")}
        BY <3>4 DEF History
      <4> QED BY <3>2, <4>1, AgentTexts
    <3> QED BY <2>2, <3>1, <3>3, <3>5, <3>6
  <2> QED BY <2>1, <2>2 DEF CompleteWith
<1> DEFINE b  == before.state
           e  == EnsureTurn(b)
           content == IF e.text # {} THEN e.text ELSE out
           w  == WriteOf(e, content, status)
           dw == FeedComplete(b, out, status).writes
           bw == before.writes
           ws == bw \o dw
<1>0. /\ turn \in TurnState /\ turn.rowRef \in Nat /\ turn.turnIndex \in Int
      /\ turn.turnIndex + 1 = turn.rowRef
      /\ turn.turnIndex >= 0 => turn.rowRef \in Turns /\ turn.text = said[turn.rowRef]
      /\ turn.turnIndex < 0 => turn.text = {}
      /\ \A r \in Turns : r > turn.rowRef => said[r] = {}
      /\ said \in History /\ Sound(turn, said)
  BY Standing DEF IInv, TextInv
<1>2. turn' = FeedComplete(b, out, status).state /\ queue' = queue \o ws \o <<>>
  BY <1>1 DEF Completion, Enqueue
<1>3. "error" \in Status \ {"streaming"}
  BY DEF Status
<1>4. /\ bw \in Seq(Write) /\ NoTools(bw)
      /\ \A r \in Turns : Keeps(bw, r, AgentText(said[r]))
      /\ \A i \in 1 .. Len(bw) : Of(bw[i], turn.rowRef)
      /\ b.turnFinalized /\ ~turn.turnFinalized => Writes(bw, turn.rowRef)
      /\ b \in TurnState /\ b.turnIndex = turn.turnIndex /\ b.rowRef = turn.rowRef
      /\ b.text = turn.text
  <2>1. CASE before = NoWrites(turn)
    <3>1. bw = <<>> /\ b = turn
      BY <2>1 DEF NoWrites
    <3> QED BY <1>0, <3>1 DEF NoTools, Keeps
  <2>2. CASE before = FeedError(turn)
    <3>1. bw = Flush(turn, "error").writes /\ b = Flush(turn, "error").state
      BY <2>2 DEF FeedError
    <3>2. /\ b \in TurnState /\ b.turnIndex = turn.turnIndex /\ b.rowRef = turn.rowRef
          /\ b.text = turn.text
      BY <1>0, <1>3, <3>1, FlushFed DEF Fed
    <3>3. /\ bw \in Seq(Write) /\ NoTools(bw)
          /\ \A r \in Turns : Keeps(bw, r, AgentText(said[r]))
          /\ \A i \in 1 .. Len(bw) : Of(bw[i], turn.rowRef)
          /\ b.turnFinalized /\ ~turn.turnFinalized => Writes(bw, turn.rowRef)
      BY <1>3, <3>1, FlushedText
    <3> QED BY <3>2, <3>3
  <2> QED BY <2>1, <2>2
<1> HIDE DEF b, bw
<1>5. /\ e \in TurnState /\ e.text = turn.text
      /\ \/ turn.turnIndex >= 0 /\ e = b
         \/ /\ turn.turnIndex < 0 /\ e.turnIndex = 0
            /\ e.rowRef = 1 /\ ~e.turnFinalized
  <2>0. Sound(b, said)
    BY <1>0, <1>4 DEF Sound
  <2>1. e \in TurnState /\ e.text = b.text /\ (b.turnIndex >= 0 => e = b)
    BY <1>0, <1>4, <2>0, EnsureTurnSound
  <2>2. b.turnIndex < 0 => e.turnIndex = 0 /\ e.rowRef = 1 /\ e.turnFinalized = FALSE
    BY <1>4 DEF EnsureTurn, TurnState
  <2> QED BY <1>0, <1>4, <2>1, <2>2
<1>6. turn' = (IF content = {} THEN e ELSE [e EXCEPT !.turnFinalized = TRUE])
      /\ dw = (IF content = {} THEN <<>> ELSE <<w>>)
  BY <1>2 DEF FeedComplete, NoWrites
<1> HIDE DEF e, dw
<1>7. /\ turn'.rowRef = e.rowRef /\ turn'.text = e.text
      /\ content = {} => turn'.turnFinalized = e.turnFinalized
  BY <1>5, <1>6 DEF TurnState
<1>8. /\ e.rowRef \in Turns /\ (turn.turnIndex >= 0 => e.rowRef = turn.rowRef)
      /\ AgentText(e.text) = AgentText(said[e.rowRef])
      /\ \A r \in Turns : AgentText(said[r]) # {} => r <= turn.rowRef
  <2>1. \A r \in Turns : AgentText(said[r]) # {} => r <= turn.rowRef
    BY <1>0, AgentTexts DEF Turns
  <2>2. CASE turn.turnIndex >= 0
    <3>1. e.rowRef = turn.rowRef /\ turn.rowRef \in Turns /\ e.text = said[turn.rowRef]
      BY <1>0, <1>4, <1>5, <2>2
    <3> QED BY <2>1, <3>1
  <2>3. CASE turn.turnIndex < 0
    <3>1. 1 \in Turns /\ 1 > turn.rowRef /\ e.rowRef = 1 /\ e.text = {}
      BY <1>0, <1>5, <2>3, BoundsAssumption DEF Turns
    <3>2. said[1] = {}
      BY <1>0, <3>1
    <3>3. e.text = said[e.rowRef] /\ e.rowRef \in Turns
      BY <3>1, <3>2
    <3>4. ~(turn.turnIndex >= 0)
      BY <1>0, <2>3
    <3> QED BY <2>1, <3>3, <3>4
  <2> QED BY <1>0, <2>2, <2>3
<1>9. AgentText(content) = AgentText(said[e.rowRef]) /\ content \in SUBSET Tokens
  BY <1>1, <1>5, <1>8, AgentTexts DEF TurnState
<1> HIDE DEF content
<1>10. w \in Write /\ Final(w, e.rowRef, AgentText(said[e.rowRef]))
  <2>1. w = [kind |-> "agent", ref |-> e.rowRef, content |-> content, status |-> status]
    BY DEF WriteOf
  <2>2. w \in TurnWrite
    BY <1>8, <1>9, <2>1 DEF TurnWrite
  <2> QED BY <1>9, <2>1, <2>2 DEF Write, Final, Of
<1> HIDE DEF w
<1>11. /\ dw \in Seq(Write) /\ NoTools(dw) /\ \A r \in Turns : Keeps(dw, r, AgentText(said[r]))
       /\ content # {} => Writes(dw, e.rowRef)
  <2>1. CASE content = {}
    BY <1>6, <2>1 DEF NoTools, Keeps
  <2>2. CASE content # {}
    <3>1. dw = <<w>>
      BY <1>6, <2>2
    <3>2. dw \in Seq(Write) /\ Len(dw) = 1 /\ dw[1] = w
      BY <1>10, <3>1
    <3> QED BY <1>10, <3>2 DEF NoTools, Keeps, Writes, Final, Of
  <2> QED BY <2>1, <2>2
<1>12. /\ Len(bw) \in Nat /\ ws \in Seq(Write)
       /\ \A i \in 1 .. Len(bw) : i \in 1 .. Len(ws) /\ ws[i] = bw[i]
       /\ \A i \in 1 .. Len(dw) : Len(bw) + i \in 1 .. Len(ws) /\ ws[Len(bw) + i] = dw[i]
       /\ \A k \in 1 .. Len(ws) : k \in 1 .. Len(bw) \/ \E i \in 1 .. Len(dw) : k = Len(bw) + i
  BY <1>4, <1>11, Joined
<1> HIDE DEF ws
<1>13. /\ NoTools(ws) /\ \A r \in Turns : Keeps(ws, r, AgentText(said[r]))
       /\ \A r : Writes(bw, r) \/ Writes(dw, r) => Writes(ws, r)
  <2>0. ASSUME NEW k \in 1 .. Len(ws)
        PROVE  (\E i \in 1 .. Len(bw) : ws[k] = bw[i]) \/ (\E i \in 1 .. Len(dw) : ws[k] = dw[i])
    <3>1. CASE k \in 1 .. Len(bw)
      BY <1>12, <3>1
    <3>2. ASSUME NEW i \in 1 .. Len(dw), k = Len(bw) + i PROVE ws[k] = dw[i]
      BY <1>12, <3>2
    <3> QED BY <1>12, <3>1, <3>2
  <2>1. NoTools(ws)
    BY <1>4, <1>11, <2>0 DEF NoTools
  <2>2. ASSUME NEW r \in Turns PROVE Keeps(ws, r, AgentText(said[r]))
    BY <1>4, <1>11, <2>0 DEF Keeps
  <2>3. ASSUME NEW r, Writes(bw, r) \/ Writes(dw, r) PROVE Writes(ws, r)
    BY <1>12, <2>3 DEF Writes
  <2> QED BY <2>1, <2>2, <2>3
<1>14. PastKept(ws)
  BY <1>1, <1>13 DEF PastKept
<1>15. PastWritten(ws)
  <2> SUFFICES ASSUME NEW r \in Turns, Must(r, turn', said', Over'), ~Past(r, turn, said)
               PROVE  Writes(ws, r)
    BY <1>1, <1>13 DEF PastWritten
  <2>1. CASE AgentText(said'[r]) # {}
    <3>1. AgentText(said[r]) # {} /\ r <= turn.rowRef
      BY <1>1, <1>8, <2>1
    <3>2. r = turn.rowRef /\ turn.turnIndex >= 0
      BY <1>0, <3>1 DEF Past, Turns
    <3>3. content # {}
      BY <1>8, <1>9, <3>1, <3>2, AgentTexts
    <3> QED BY <1>8, <1>11, <1>13, <3>2, <3>3
  <2>2. CASE r = turn'.rowRef /\ turn'.turnFinalized
    <3>1. r = e.rowRef
      BY <1>7, <2>2
    <3>2. CASE content # {}
      BY <1>11, <1>13, <3>1, <3>2
    <3>3. CASE content = {}
      <4>1. e.turnFinalized
        BY <1>7, <2>2, <3>3
      <4>2. turn.turnIndex >= 0 /\ b.turnFinalized /\ r = turn.rowRef
        BY <1>5, <1>8, <3>1, <4>1
      <4>3. ~turn.turnFinalized
        BY <4>2 DEF Past
      <4> QED BY <1>4, <1>13, <4>2, <4>3
    <3> QED BY <3>2, <3>3
  <2> QED BY <2>1, <2>2 DEF Must, Past
<1>16. ToolsBehind(ws, <<>>)
  BY DEF ToolsBehind
<1>17. LeadsKept
  BY <1>1 DEF LeadsKept, Leads, ChainRun, Stores
<1>18. queue' = queue \o ws \o <<>>
  BY <1>2 DEF ws
<1>19. \A i \in 1 .. Len(<<>>) : <<>>[i].kind = "tool"
  OBVIOUS
<1>20. Emission(ws, <<>>)
  BY <1>13, <1>14, <1>15, <1>16, <1>17, <1>18, <1>19 DEF Emission
<1> QED BY <1>12, <1>20

-----------------------------------------------------------------------------
(* Every step of the run keeps the order invariant.                        *)

(* An event that flushes and adds no text.                                 *)
LEMMA FlushStep ==
  ASSUME IInv, OrderInv, ~Over, UNCHANGED Stores, Silent, NEW st \in Status \ {"streaming"},
         NEW jobs, jobs \in {<<>>, ToolRow}, Enqueue(Flush(turn, st), jobs),
         phase' # "streaming"
  PROVE  OrderInv'
<1> DEFINE ws == Flush(turn, st).writes
<1>0. /\ turn \in TurnState /\ turn.rowRef \in Nat /\ turn.turnIndex \in Int
      /\ turn.turnIndex + 1 = turn.rowRef /\ TurnOf(turn) = turn.rowRef
      /\ turn.turnIndex >= 0 => turn.rowRef \in Turns /\ turn.text = said[turn.rowRef]
      /\ \A r \in Turns : r > turn.rowRef => said[r] = {}
      /\ Sound(turn, said)
  BY Standing DEF IInv, TextInv
<1>1. turn' = Flush(turn, st).state /\ queue' = queue \o ws \o jobs
  BY DEF Enqueue
<1>2. ws \in Seq(Write) /\ jobs \in Seq(Write) /\ Emission(ws, jobs) /\ ToolsUpTo(jobs, TurnOf(turn))
  BY <1>1, FlushEmission
<1> HIDE DEF ws
<1>3. HeadInv' /\ KeptInv' /\ WholeInv' /\ GhostInv'
  BY <1>2, EmissionKeeps
<1>4. turn'.turnIndex = turn.turnIndex /\ turn'.rowRef = turn.rowRef /\ turn'.text = turn.text
  BY <1>0, <1>1, FlushFed
<1>5. ToolsUpTo(queue', TurnOf(turn)) /\ ToolsUpTo(rows', TurnOf(turn))
  BY <1>0, <1>2, EmissionTools DEF OrderInv, StandInv
<1>6. TurnOf(turn') = TurnOf(turn) /\ said' = said /\ ChainRun' = ChainRun
  BY <1>4 DEF TurnOf, Silent, Stores, ChainRun
<1>7. StandInv'
  BY <1>0, <1>4, <1>5, <1>6 DEF OrderInv, StandInv
<1>8. StreamInv'
  BY DEF StreamInv
<1> QED BY <1>3, <1>7, <1>8 DEF OrderInv

(* A token.                                                                *)
LEMMA TokenOrderStep ==
  ASSUME IInv, OrderInv, ~Over, UNCHANGED <<phase, call, Stores>>, spoken < MaxTokens,
         NEW by \in Authors, by = "agent" /\ ~ChainRun => phase = "streaming",
         \E tick \in BOOLEAN : Enqueue(FeedToken(turn, Token(by), tick), <<>>),
         Say(TurnOf(turn'), Token(by))
  PROVE  OrderInv'
<1>1. PICK tick \in BOOLEAN : Enqueue(FeedToken(turn, Token(by), tick), <<>>)
  OBVIOUS
<1> DEFINE ws == FeedToken(turn, Token(by), tick).writes
<1>2. UNCHANGED Stores /\ ~Over' /\ UNCHANGED <<phase, call>> /\ ChainRun' = ChainRun
  BY DEF Over, Stores, ChainRun
<1>3. ws \in Seq(Write) /\ Emission(ws, <<>>)
  BY <1>1, <1>2, TokenEmission
<1>4. HeadInv' /\ KeptInv' /\ WholeInv' /\ GhostInv'
  <2>1. <<>> \in Seq(Write)
    OBVIOUS
  <2> QED BY <1>2, <1>3, <2>1, EmissionKeeps
<1>5. /\ turn'.rowRef \in Turns /\ turn'.turnIndex + 1 = turn'.rowRef
      /\ turn'.text = turn.text \cup {Token(by)} /\ turn'.text = said'[turn'.rowRef]
      /\ \A r \in Turns : r # turn'.rowRef => said'[r] = said[r]
      /\ \/ /\ turn.turnIndex >= 0 /\ turn'.turnIndex = turn.turnIndex
            /\ turn'.rowRef = turn.rowRef /\ turn'.turnFinalized = turn.turnFinalized
         \/ /\ turn.turnIndex < 0 /\ turn'.turnIndex = 0
            /\ turn'.rowRef = 1 /\ ~turn'.turnFinalized
  BY <1>1, TokenFacts
<1>0. /\ turn.rowRef \in Nat /\ turn.turnIndex \in Int /\ turn.turnIndex + 1 = turn.rowRef
      /\ TurnOf(turn) = turn.rowRef /\ \A r \in Turns : r > turn.rowRef => said[r] = {}
  BY Standing
<1> HIDE DEF ws
<1>6. ASSUME NEW n \in Int, ToolsUpTo(queue, n), ToolsUpTo(rows, n)
      PROVE  ToolsUpTo(queue', n) /\ ToolsUpTo(rows', n)
  <2>1. <<>> \in Seq(Write) /\ ToolsUpTo(<<>>, n)
    BY DEF ToolsUpTo
  <2> QED BY <1>2, <1>3, <1>6, <2>1, EmissionTools
<1>7. TurnOf(turn') = turn'.rowRef /\ turn'.rowRef \in Nat /\ turn.rowRef <= turn'.rowRef
  <2>1. turn'.rowRef \in Nat
    BY <1>5 DEF Turns
  <2> QED BY <1>0, <1>5, <2>1, SMT DEF TurnOf, Turns
<1>8. ToolsUpTo(queue', TurnOf(turn')) /\ ToolsUpTo(rows', TurnOf(turn'))
  <2>1. ToolsUpTo(queue, TurnOf(turn')) /\ ToolsUpTo(rows, TurnOf(turn'))
    <3>1. ToolsUpTo(queue, turn.rowRef) /\ ToolsUpTo(rows, turn.rowRef)
      BY <1>0 DEF OrderInv, StandInv
    <3>2. \A w \in Write : w.kind = "tool" => w.ref \in Int
      BY DEF Write, TurnWrite, ToolWrite
    <3>3. /\ \A i \in 1 .. Len(queue) : queue[i] \in Write
          /\ \A i \in 1 .. Len(rows) : rows[i] \in Write
      BY ElementOfSeq DEF IInv, TypeOK
    <3> QED BY <1>0, <1>7, <3>1, <3>2, <3>3 DEF ToolsUpTo
  <2> QED BY <1>6, <1>7, <2>1
<1>9. \A r \in Turns : r > turn'.rowRef => said'[r] = {}
  BY <1>0, <1>5, <1>7 DEF Turns
<1>10. StandInv'
  <2>1. ChainRun => turn'.turnIndex <= 0
    BY <1>5 DEF OrderInv, StandInv
  <2>2. turn'.text # {}
    BY <1>5
  <2> QED BY <1>2, <1>5, <1>8, <1>9, <2>1, <2>2 DEF StandInv
<1>11. StreamInv'
  <2> SUFFICES ASSUME phase = "streaming" PROVE StreamInv'
    BY <1>2 DEF StreamInv
  <2>1. /\ call = "none" /\ ~ChainRun /\ turn.turnIndex >= 0 /\ ~turn.turnFinalized
        /\ ToolsUpTo(queue, turn.turnIndex) /\ ToolsUpTo(rows, turn.turnIndex)
    BY DEF OrderInv, StreamInv
  <2>2. turn'.turnIndex = turn.turnIndex /\ ~turn'.turnFinalized
    BY <1>0, <1>5, <2>1
  <2>3. ToolsUpTo(queue', turn'.turnIndex) /\ ToolsUpTo(rows', turn'.turnIndex)
    BY <1>0, <1>6, <2>1, <2>2
  <2> QED BY <1>2, <2>1, <2>2, <2>3 DEF StreamInv
<1> QED BY <1>4, <1>10, <1>11 DEF OrderInv

(* The next turn starts.                                                   *)
LEMMA DispatchOrder == ASSUME IInv, OrderInv, Dispatch PROVE OrderInv'
<1> DEFINE ws == Flush(turn, "running").writes
<1>1. /\ ~Over /\ ~ChainRun /\ UNCHANGED Stores /\ Silent /\ phase' = "streaming" /\ call' = "none"
      /\ turn' = NewTurn(turn) /\ queue' = queue \o ws \o <<>>
  BY DEF Dispatch, Over, Enqueue, FeedTurnStart
<1>0. /\ turn.rowRef \in Nat /\ turn.turnIndex \in Int /\ turn.turnIndex + 1 = turn.rowRef
      /\ TurnOf(turn) = turn.rowRef /\ (\A r \in Turns : r > turn.rowRef => said[r] = {})
      /\ TurnOf(turn) < MaxTurns /\ turn.turnIndex >= -1
  BY <1>1, Standing DEF Dispatch, TurnState
<1>2. ws \in Seq(Write) /\ <<>> \in Seq(Write) /\ Emission(ws, <<>>)
  BY <1>1, FlushEmission DEF Status
<1>3. HeadInv' /\ KeptInv' /\ WholeInv' /\ GhostInv'
  BY <1>1, <1>2, EmissionKeeps
<1> HIDE DEF ws
<1>4. ToolsUpTo(queue', turn.rowRef) /\ ToolsUpTo(rows', turn.rowRef)
  <2>0. turn.rowRef \in Int
    BY <1>0
  <2>1. ToolsUpTo(<<>>, turn.rowRef)
    BY DEF ToolsUpTo
  <2>2. ToolsUpTo(queue, turn.rowRef) /\ ToolsUpTo(rows, turn.rowRef)
    BY <1>0, <1>1 DEF OrderInv, StandInv
  <2> QED BY <1>1, <1>2, <2>0, <2>1, <2>2, EmissionTools
<1>5. /\ turn'.turnIndex = turn.rowRef /\ turn'.rowRef = turn.rowRef + 1
      /\ turn'.text = {} /\ ~turn'.turnFinalized /\ TurnOf(turn') = turn.rowRef + 1
      /\ said' = said /\ ChainRun' = ChainRun
  BY <1>0, <1>1 DEF NewTurn, TurnOf, Silent, Stores, ChainRun
<1>6. StreamInv'
  BY <1>0, <1>1, <1>4, <1>5 DEF StreamInv
<1>7. StandInv'
  <2>1. ToolsUpTo(queue', TurnOf(turn')) /\ ToolsUpTo(rows', TurnOf(turn'))
    <3>1. \A w \in Write : w.kind = "tool" => w.ref \in Int
      BY DEF Write, TurnWrite, ToolWrite
    <3>2. queue' \in Seq(Write) /\ rows' \in Seq(Write)
      <4>1. queue \in Seq(Write) /\ rows \in Seq(Write)
        BY DEF IInv, TypeOK
      <4>2. queue \o ws \in Seq(Write)
        BY <1>2, <4>1, Joined
      <4> QED BY <1>1, <1>2, <4>1, <4>2, Joined DEF Stores
    <3>3. /\ \A i \in 1 .. Len(queue') : queue'[i] \in Write
          /\ \A i \in 1 .. Len(rows') : rows'[i] \in Write
      BY <3>2, ElementOfSeq
    <3> QED BY <1>0, <1>4, <1>5, <3>1, <3>3 DEF ToolsUpTo
  <2>2. said'[turn'.rowRef] = {} /\ \A r \in Turns : r > turn'.rowRef => said'[r] = {}
    <3>1. turn'.rowRef \in Turns /\ turn'.rowRef > turn.rowRef
      BY <1>0, <1>5, BoundsAssumption DEF Turns
    <3> QED BY <1>0, <1>5, <3>1 DEF Turns
  <2> QED BY <1>1, <1>5, <2>1, <2>2 DEF StandInv
<1> QED BY <1>3, <1>6, <1>7 DEF OrderInv

(* The stream ends.                                                        *)
LEMMA StreamEndOrder == ASSUME IInv, OrderInv, StreamEnd PROVE OrderInv'
<1>1. PICK tick \in BOOLEAN : Enqueue(FeedUsage(turn, tick), <<>>)
  BY DEF StreamEnd
<1> DEFINE ws == StreamingWrite(turn, tick)
           w  == WriteOf(turn, turn.text, "streaming")
<1>2. /\ ~Over /\ ~Over' /\ UNCHANGED Stores /\ said' = said /\ phase' # "streaming"
      /\ turn' = turn /\ queue' = queue \o ws \o <<>> /\ ChainRun' = ChainRun
  BY <1>1 DEF StreamEnd, Over, Enqueue, FeedUsage, Silent, Stores, ChainRun
<1>0. /\ turn \in TurnState /\ turn.rowRef \in Nat /\ turn.turnIndex \in Int
      /\ turn.turnIndex + 1 = turn.rowRef
      /\ TurnOf(turn) = turn.rowRef /\ (\A r \in Turns : r > turn.rowRef => said[r] = {})
      /\ turn.turnIndex >= 0 => turn.rowRef \in Turns /\ turn.text = said[turn.rowRef]
  BY <1>2, Standing
<1>3. /\ ws \in Seq(Write) /\ NoTools(ws)
      /\ \A i \in 1 .. Len(ws) : Of(ws[i], turn.rowRef) /\ ~turn.turnFinalized
  <2>1. turn.turnIndex >= 0 => w \in TurnWrite /\ w.ref = turn.rowRef /\ w.kind = "agent"
    BY <1>0 DEF WriteOf, TurnWrite, TurnState, Status
  <2>2. ws = <<>> \/ (turn.turnIndex >= 0 /\ ~turn.turnFinalized /\ ws = <<w>>)
    BY DEF StreamingWrite, Flushable
  <2>3. turn.turnIndex >= 0 => w \in Write
    BY <2>1 DEF Write
  <2> HIDE DEF w, ws
  <2>4. CASE ws = <<>>
    BY <2>4 DEF NoTools
  <2>5. CASE turn.turnIndex >= 0 /\ ~turn.turnFinalized /\ ws = <<w>>
    BY <2>1, <2>3, <2>5 DEF NoTools, Of
  <2> QED BY <2>2, <2>4, <2>5
<1> HIDE DEF ws
<1>4. PastKept(ws)
  BY <1>0, <1>2, <1>3 DEF PastKept, Past, Keeps, Of, Turns
<1>5. PastWritten(ws)
  BY <1>2 DEF PastWritten, Must
<1>6. ToolsBehind(ws, <<>>) /\ LeadsKept
  BY <1>2 DEF ToolsBehind, LeadsKept, Leads
<1>7. Emission(ws, <<>>) /\ <<>> \in Seq(Write)
  <2>1. <<>> \in Seq(Write) /\ \A i \in 1 .. Len(<<>>) : <<>>[i].kind = "tool"
    OBVIOUS
  <2> QED BY <1>2, <1>3, <1>4, <1>5, <1>6, <2>1 DEF Emission
<1>8. HeadInv' /\ KeptInv' /\ WholeInv' /\ GhostInv'
  BY <1>2, <1>3, <1>7, EmissionKeeps
<1>9. ToolsUpTo(queue', turn.rowRef) /\ ToolsUpTo(rows', turn.rowRef)
  <2>0. turn.rowRef \in Int
    BY <1>0
  <2>1. ToolsUpTo(<<>>, turn.rowRef)
    BY DEF ToolsUpTo
  <2>2. ToolsUpTo(queue, turn.rowRef) /\ ToolsUpTo(rows, turn.rowRef)
    BY <1>0, <1>2 DEF OrderInv, StandInv
  <2> QED BY <1>2, <1>3, <1>7, <2>0, <2>1, <2>2, EmissionTools
<1>10. StandInv'
  BY <1>0, <1>2, <1>9 DEF OrderInv, StandInv
<1>11. StreamInv'
  BY <1>2 DEF StreamInv
<1> QED BY <1>8, <1>10, <1>11 DEF OrderInv

(* The complete event.                                                     *)
LEMMA CompleteOrder ==
  ASSUME IInv, OrderInv, ~Over, phase' = "done", UNCHANGED Stores,
         NEW before, before \in {NoWrites(turn), FeedError(turn)},
         NEW status \in Status \ {"streaming"}, CompleteWith(before, status)
  PROVE  OrderInv'
<1>1. Over' /\ phase' # "streaming"
  BY DEF Over
<1>2. PICK ws \in Seq(Write) : Emission(ws, <<>>)
  BY <1>1, CompleteEmission
<1>3. <<>> \in Seq(Write)
  OBVIOUS
<1>4. HeadInv' /\ KeptInv' /\ WholeInv' /\ GhostInv'
  BY <1>2, <1>3, EmissionKeeps
<1>5. StandInv' /\ StreamInv'
  BY <1>1 DEF StandInv, StreamInv
<1> QED BY <1>4, <1>5 DEF OrderInv

(* So every step of the run keeps the order invariant.                     *)
LEMMA RunStepOrder == IInv /\ OrderInv /\ RunStep => OrderInv'
<1> SUFFICES ASSUME IInv, OrderInv, RunStep PROVE OrderInv'
  OBVIOUS
<1>0. /\ sub => call = "running"
      /\ Over => call = "none"
      /\ phase = "streaming" => call = "none" /\ ~ChainRun
      /\ "agent" \in Authors /\ "sub" \in Authors
      /\ "running" \in Status \ {"streaming"} /\ "error" \in Status \ {"streaming"}
      /\ "success" \in Status \ {"streaming"}
  BY DEF IInv, CallInv, OrderInv, StreamInv, Authors, Status
<1>1. CASE Dispatch
  BY <1>1, DispatchOrder
<1>2. CASE AgentToken
  <2>1. ~Over /\ UNCHANGED <<phase, call, Stores>> /\ (~ChainRun => phase = "streaming")
    BY <1>2 DEF AgentToken, Over
  <2> QED BY <1>0, <1>2, <2>1, TokenOrderStep DEF AgentToken
<1>3. CASE StreamEnd
  BY <1>3, StreamEndOrder
<1>4. CASE RequestTool
  <2>1. ~Over /\ UNCHANGED Stores /\ phase' # "streaming"
    BY <1>4 DEF RequestTool, Over
  <2> QED BY <1>0, <1>4, <2>1, FlushStep DEF RequestTool, FeedToolCall
<1>5. CASE DenyTool
  <2>1. ~Over /\ UNCHANGED Stores /\ phase' # "streaming"
    BY <1>0, <1>5 DEF DenyTool
  <2> QED BY <1>0, <1>5, <2>1, FlushStep DEF DenyTool, FeedToolCall
<1>6. CASE StartTool
  <2>1. /\ phase' # "streaming" /\ ~Over /\ ~Over'
        /\ UNCHANGED <<turn, queue, said, rows, messageId, lost, runKind>>
    BY <1>0, <1>6 DEF StartTool, Over, Stores
  <2>2. ChainRun' = ChainRun
    BY <2>1 DEF ChainRun
  <2>3. HeadInv' /\ KeptInv' /\ WholeInv' /\ GhostInv'
    BY <2>1, <2>2 DEF OrderInv, HeadInv, KeptInv, WholeInv, GhostInv, Headed, RowsHeaded, Leads,
                      Must, Past, Has, HasRow, Whole, RowFinal
  <2>4. StandInv' /\ StreamInv'
    BY <2>1, <2>2 DEF OrderInv, StandInv, StreamInv
  <2> QED BY <2>3, <2>4 DEF OrderInv
<1>7. CASE FinishTool
  <2>1. ~Over /\ UNCHANGED Stores /\ phase' # "streaming"
    BY <1>0, <1>7 DEF FinishTool
  <2> QED BY <1>0, <1>7, <2>1, FlushStep DEF FinishTool, FeedToolCall
<1>8. CASE SubToken
  <2>1. ~Over /\ UNCHANGED <<phase, call, Stores>>
    BY <1>0, <1>8 DEF SubToken
  <2> QED BY <1>0, <1>8, <2>1, TokenOrderStep DEF SubToken
<1>9. CASE SubToolCall
  <2>1. ~Over /\ UNCHANGED Stores /\ phase' # "streaming"
    BY <1>0, <1>9 DEF SubToolCall
  <2> QED BY <1>0, <1>9, <2>1, FlushStep DEF SubToolCall, FeedToolCall
<1>10. CASE SubError
  <2>1. ~Over /\ UNCHANGED Stores /\ phase' # "streaming"
    BY <1>0, <1>10 DEF SubError
  <2> QED BY <1>0, <1>10, <2>1, FlushStep DEF SubError, FeedError
<1>11. CASE StepError
  <2>1. ~Over /\ UNCHANGED Stores /\ phase' # "streaming"
    BY <1>0, <1>11 DEF StepError, Over
  <2> QED BY <1>0, <1>11, <2>1, FlushStep DEF StepError, FeedError
<1>12. CASE Succeed
  <2>1. ~Over /\ UNCHANGED Stores
    BY <1>0, <1>12 DEF Succeed, Over
  <2> QED BY <1>0, <1>12, <2>1, CompleteOrder DEF Succeed
<1>13. CASE AbortTools
  <2>1. ~Over /\ UNCHANGED Stores
    BY <1>0, <1>13 DEF AbortTools, Over
  <2> QED BY <1>0, <1>13, <2>1, CompleteOrder DEF AbortTools
<1>14. CASE Fail
  <2>1. ~Over /\ UNCHANGED Stores /\ phase' # "streaming"
    BY <1>0, <1>14 DEF Fail, Over
  <2> QED BY <1>0, <1>14, <2>1, FlushStep DEF Fail, FeedError
<1> QED BY <1>1, <1>2, <1>3, <1>4, <1>5, <1>6, <1>7, <1>8, <1>9, <1>10, <1>11, <1>12, <1>13,
           <1>14 DEF RunStep

-----------------------------------------------------------------------------
(* The queue writes, or fails to.                                          *)

(* What the execution of write w does to the rows, for the turns that lose *)
(* no write.                                                               *)
RowKept(w, r) ==
  /\ HasRow(r) => messageId'[r] = messageId[r] /\ messageId[r] \in 1 .. Len(rows')
  /\ HasRow(r) /\ ~Of(w, r) => rows'[messageId[r]] = rows[messageId[r]]
  /\ Of(w, r) => messageId'[r] \in 1 .. Len(rows') /\ rows'[messageId'[r]] = w
ToolRowsKept(w) ==
  \A i \in 1 .. Len(rows') : rows'[i].kind = "tool" =>
    \/ i \in 1 .. Len(rows) /\ rows'[i] = rows[i]
    \/ i = Len(rows) + 1 /\ rows'[i] = w

(* A write taken from the queue keeps the order invariant.                 *)
LEMMA TakenOrder ==
  ASSUME IInv, OrderInv, queue # <<>>, queue' = Tail(queue), UNCHANGED Unemitted,
         lost \subseteq lost', \A r \in Turns \ lost' : RowKept(Head(queue), r),
         ToolRowsKept(Head(queue)), GhostInv'
  PROVE  OrderInv'
<1> DEFINE w == Head(queue)
           q == Tail(queue)
<1>1. /\ queue \in Seq(Write) /\ q \in Seq(Write) /\ Len(queue) \in Nat /\ Len(q) = Len(queue) - 1
      /\ \A i \in 1 .. Len(q) : q[i] = queue[i + 1] /\ i + 1 \in 1 .. Len(queue)
      /\ w = queue[1] /\ 1 \in 1 .. Len(queue)
      /\ \A i \in 1 .. Len(queue) : i = 1 \/ (i - 1 \in 1 .. Len(q) /\ queue[i] = q[i - 1])
      /\ rows \in Seq(Write) /\ Len(rows) \in Nat
  <2>1. queue \in Seq(Write) /\ rows \in Seq(Write)
    BY DEF IInv, TypeOK
  <2>2. /\ q \in Seq(Write) /\ Len(q) = Len(queue) - 1
        /\ \A i \in 1 .. Len(q) : q[i] = queue[i + 1]
    BY <2>1, HeadTailProperties
  <2>3. Len(queue) \in Nat \ {0} /\ w = queue[1] /\ Len(rows) \in Nat
    BY <2>1, EmptySeq
  <2>4. \A i \in 1 .. Len(queue) : i = 1 \/ (i - 1 \in 1 .. Len(q) /\ queue[i] = q[i - 1])
    BY <2>2, <2>3
  <2> QED BY <2>1, <2>2, <2>3, <2>4
<1>2. /\ queue' = q /\ \A r \in Turns \ lost' : r \in Turns \ lost /\ RowKept(w, r)
      /\ ToolRowsKept(w) /\ UNCHANGED <<turn, runKind, phase, call, said>>
      /\ ChainRun' = ChainRun /\ Over' = Over
  BY DEF Unemitted, ChainRun, Over
<1> HIDE DEF w, q
<1>3. ASSUME NEW r \in Turns \ lost', HasRow(r) \/ Of(w, r) PROVE messageId'[r] \in 1 .. Len(rows')
  BY <1>2, <1>3 DEF RowKept
<1>4. ASSUME NEW r \in Turns \ lost', Has(queue, r)
      PROVE  messageId'[r] \in 1 .. Len(rows') \/ \E i \in 1 .. Len(q) : Of(q[i], r)
  <2>1. CASE HasRow(r)
    BY <1>3, <2>1
  <2>2. ASSUME NEW i \in 1 .. Len(queue), Of(queue[i], r)
        PROVE  messageId'[r] \in 1 .. Len(rows') \/ \E j \in 1 .. Len(q) : Of(q[j], r)
    <3>1. CASE i = 1
      BY <1>1, <1>3, <2>2, <3>1
    <3>2. CASE i - 1 \in 1 .. Len(q) /\ queue[i] = q[i - 1]
      BY <2>2, <3>2
    <3> QED BY <1>1, <3>1, <3>2
  <2> QED BY <1>4, <2>1, <2>2 DEF Has
<1>5. KeptInv'
  BY <1>2, <1>4 DEF OrderInv, KeptInv, Has, HasRow, Must, Past
<1>6. ASSUME NEW r \in Turns \ lost', NEW a, Whole(queue, r, a)
      PROVE  \/ /\ messageId'[r] \in 1 .. Len(rows') /\ Final(rows'[messageId'[r]], r, a)
                /\ FinalFrom(q, 1, r, a)
             \/ \E i \in 1 .. Len(q) : Of(q[i], r) /\ FinalFrom(q, i, r, a)
  <2>0. RowKept(w, r)
    BY <1>2
  <2>1. ASSUME FinalFrom(queue, 1, r, a) PROVE FinalFrom(q, 1, r, a) /\ (Of(w, r) => Final(w, r, a))
    BY <1>1, <2>1 DEF FinalFrom
  <2>2. CASE RowFinal(r, a) /\ FinalFrom(queue, 1, r, a)
    <3>1. CASE Of(w, r)
      BY <2>0, <2>1, <2>2, <3>1 DEF RowKept
    <3>2. CASE ~Of(w, r)
      BY <2>0, <2>1, <2>2, <3>2 DEF RowKept, RowFinal
    <3> QED BY <3>1, <3>2
  <2>3. ASSUME NEW i \in 1 .. Len(queue), Of(queue[i], r), FinalFrom(queue, i, r, a), i # 1
        PROVE  \E j \in 1 .. Len(q) : Of(q[j], r) /\ FinalFrom(q, j, r, a)
    <3>1. i - 1 \in 1 .. Len(q) /\ queue[i] = q[i - 1]
      BY <1>1, <2>3
    <3>2. \A k \in i - 1 .. Len(q) : k \in 1 .. Len(q) /\ k + 1 \in i .. Len(queue) /\ q[k] = queue[k + 1]
      BY <1>1, <3>1
    <3>3. FinalFrom(q, i - 1, r, a)
      BY <2>3, <3>2 DEF FinalFrom
    <3> QED BY <2>3, <3>1, <3>3
  <2>4. CASE Of(queue[1], r) /\ FinalFrom(queue, 1, r, a)
    BY <1>1, <2>0, <2>1, <2>4 DEF RowKept
  <2> QED BY <1>6, <2>2, <2>3, <2>4 DEF Whole
<1>7. WholeInv'
  BY <1>2, <1>6 DEF OrderInv, WholeInv, Whole, RowFinal, HasRow, Must, Past
<1>8. ASSUME NEW r \in Turns \ lost', Headed(queue, r), RowsHeaded(r)
      PROVE  /\ \A i \in 1 .. Len(q) : Behind(q[i], r)
                  => messageId'[r] \in 1 .. Len(rows') \/ \E k \in 1 .. i - 1 : Of(q[k], r)
             /\ \A i \in 1 .. Len(rows') : Behind(rows'[i], r) => messageId'[r] \in 1 .. i - 1
  <2>0. RowKept(w, r)
    BY <1>2
  <2>1. ASSUME NEW i \in 1 .. Len(q), Behind(q[i], r), messageId'[r] \notin 1 .. Len(rows')
        PROVE  \E k \in 1 .. i - 1 : Of(q[k], r)
    <3>1. ~HasRow(r) /\ ~Of(w, r)
      BY <1>3, <2>1
    <3>2. PICK k \in 1 .. (i + 1) - 1 : Of(queue[k], r)
      BY <1>1, <1>8, <2>1, <3>1 DEF Headed
    <3>3. k # 1 /\ k \in 1 .. Len(queue)
      BY <1>1, <3>1, <3>2
    <3>4. k - 1 \in 1 .. i - 1 /\ Of(q[k - 1], r)
      BY <1>1, <3>2, <3>3
    <3> QED BY <3>4
  <2>2. ASSUME NEW i \in 1 .. Len(rows'), Behind(rows'[i], r) PROVE messageId'[r] \in 1 .. i - 1
    <3>1. CASE i \in 1 .. Len(rows) /\ rows'[i] = rows[i]
      <4>1. messageId[r] \in 1 .. i - 1 /\ HasRow(r)
        BY <1>1, <1>8, <2>2, <3>1 DEF RowsHeaded, HasRow
      <4> QED BY <2>0, <4>1 DEF RowKept
    <3>2. CASE i = Len(rows) + 1 /\ rows'[i] = w
      <4>1. HasRow(r)
        <5>1. Behind(queue[1], r) /\ ~\E k \in 1 .. 1 - 1 : Of(queue[k], r)
          BY <1>1, <2>2, <3>2
        <5> QED BY <1>1, <1>8, <5>1 DEF Headed
      <4> QED BY <1>1, <2>0, <3>2, <4>1 DEF RowKept, HasRow
    <3> QED BY <1>2, <2>2, <3>1, <3>2 DEF ToolRowsKept, Behind
  <2> QED BY <2>1, <2>2
<1>9. HeadInv'
  <2>1. ASSUME NEW r \in Turns \ lost', Leads(r, said) PROVE Headed(queue, r) /\ RowsHeaded(r)
    BY <1>2, <2>1 DEF OrderInv, HeadInv
  <2>2. ASSUME NEW r \in Turns \ lost', Leads(r, said)
        PROVE  Headed(queue, r)' /\ RowsHeaded(r)'
    <3>1. Headed(queue, r) /\ RowsHeaded(r)
      BY <2>1, <2>2
    <3>2. Headed(queue, r)'
      BY <1>2, <1>8, <3>1 DEF Headed, HasRow
    <3>3. RowsHeaded(r)'
      BY <1>8, <3>1 DEF RowsHeaded
    <3> QED BY <3>2, <3>3
  <2>3. said' = said /\ Turns' = Turns
    BY <1>2 DEF Turns
  <2>4. \A r : Leads(r, said)' => Leads(r, said)
    BY <1>2, <2>3 DEF Leads, ChainRun
  <2> QED BY <2>2, <2>3, <2>4 DEF HeadInv
<1>10. ASSUME NEW n, ToolsUpTo(queue, n), ToolsUpTo(rows, n)
       PROVE  ToolsUpTo(q, n) /\ ToolsUpTo(rows', n)
  <2>1. ToolsUpTo(q, n)
    BY <1>1, <1>10 DEF ToolsUpTo
  <2>2. w.kind = "tool" => w.ref <= n
    BY <1>1, <1>10 DEF ToolsUpTo
  <2>3. ASSUME NEW i \in 1 .. Len(rows'), rows'[i].kind = "tool" PROVE rows'[i].ref <= n
    <3>1. \/ i \in 1 .. Len(rows) /\ rows'[i] = rows[i]
          \/ rows'[i] = w
      BY <1>2, <2>3 DEF ToolRowsKept
    <3> QED BY <1>10, <2>2, <2>3, <3>1 DEF ToolsUpTo
  <2>4. ToolsUpTo(rows', n)
    BY <2>3 DEF ToolsUpTo
  <2> QED BY <2>1, <2>4
<1>11. StandInv' /\ StreamInv'
  <2>1. StandInv'
    <3> SUFFICES ASSUME ~Over PROVE StandInv'
      BY <1>2 DEF StandInv
    <3>1. ToolsUpTo(q, TurnOf(turn)) /\ ToolsUpTo(rows', TurnOf(turn))
      BY <1>10 DEF OrderInv, StandInv
    <3> QED BY <1>2, <3>1 DEF OrderInv, StandInv
  <2>2. StreamInv'
    BY <1>2, <1>10 DEF OrderInv, StreamInv
  <2> QED BY <2>1, <2>2
<1> QED BY <1>5, <1>7, <1>9, <1>11 DEF OrderInv

(* A write that succeeds keeps the order invariant.                        *)
LEMMA PersistOkOrder == ASSUME IInv, OrderInv, PersistOk PROVE OrderInv'
<1> DEFINE w == Head(queue)
           n == Len(rows) + 1
<1>1. /\ rows \in Seq(Write) /\ Len(rows) \in Nat /\ messageId \in [Turns -> Int]
      /\ RowsNamed /\ w \in Write /\ queue # <<>> /\ queue' = Tail(queue)
      /\ UNCHANGED <<lost, Unemitted>> /\ GhostInv
  BY HeadTailProperties, LenProperties DEF IInv, TypeOK, PersistOk, OrderInv
<1>2. w.kind = "agent" => w.ref \in Turns
  BY <1>1 DEF Write, TurnWrite, ToolWrite
<1>3. NewToolRow(w) \/ NewTurnRow(w) \/ TurnRowAgain(w) \/ UNCHANGED <<rows, messageId>>
  BY PersistCases
<1>4. CASE NewToolRow(w)
  <2>1. /\ rows' \in Seq(Write) /\ Len(rows') = n /\ messageId' = messageId
        /\ \A i \in 1 .. Len(rows) : rows'[i] = rows[i] /\ i \in 1 .. Len(rows')
        /\ rows'[n] = w /\ w.kind # "agent"
    BY <1>1, <1>4, AppendProperties DEF NewToolRow
  <2>2. \A i \in 1 .. Len(rows') : i \in 1 .. Len(rows) \/ i = n
    BY <1>1, <2>1
  <2>3. ToolRowsKept(w)
    BY <2>1, <2>2 DEF ToolRowsKept
  <2>4. \A r \in Turns \ lost' : RowKept(w, r)
    BY <2>1 DEF RowKept, HasRow, Of
  <2>5. GhostInv'
    BY <1>1, <2>1 DEF GhostInv
  <2> QED BY <1>1, <2>3, <2>4, <2>5, TakenOrder DEF w
<1>5. CASE NewTurnRow(w)
  <2>1. /\ rows' \in Seq(Write) /\ Len(rows') = n /\ n \in 1 .. Len(rows')
        /\ \A i \in 1 .. Len(rows) : rows'[i] = rows[i] /\ i \in 1 .. Len(rows')
        /\ rows'[n] = w /\ w.kind = "agent" /\ messageId[w.ref] = NoId
        /\ messageId' = [messageId EXCEPT ![w.ref] = n]
    BY <1>1, <1>5, AppendProperties DEF NewTurnRow
  <2>2. \A i \in 1 .. Len(rows') : i \in 1 .. Len(rows) \/ i = n
    BY <1>1, <2>1
  <2>3. ToolRowsKept(w)
    BY <2>1, <2>2 DEF ToolRowsKept
  <2>4. \A r \in Turns : messageId'[r] = IF r = w.ref THEN n ELSE messageId[r]
    BY <1>1, <1>2, <2>1
  <2>5. \A r \in Turns \ lost' : RowKept(w, r)
    <3>1. ~HasRow(w.ref)
      BY <2>1 DEF HasRow, NoId
    <3> QED BY <2>1, <2>4, <3>1 DEF RowKept, HasRow, Of
  <2>6. GhostInv'
    <3>1. n # GhostId
      BY <1>1 DEF GhostId
    <3> QED BY <1>1, <2>4, <3>1 DEF GhostInv
  <2> QED BY <1>1, <2>3, <2>5, <2>6, TakenOrder DEF w
<1>6. CASE TurnRowAgain(w)
  <2> DEFINE id == messageId[w.ref]
  <2>1. /\ w.kind = "agent" /\ id \in 1 .. Len(rows) /\ messageId' = messageId
        /\ rows' = [rows EXCEPT ![id] = w]
    BY <1>6 DEF TurnRowAgain
  <2> HIDE DEF id
  <2>2. /\ rows' \in Seq(Write) /\ Len(rows') = Len(rows)
        /\ \A j \in 1 .. Len(rows) : rows'[j] = IF j = id THEN w ELSE rows[j]
    BY <1>1, <2>1, ExceptSeq
  <2>3. ToolRowsKept(w)
    BY <2>1, <2>2 DEF ToolRowsKept
  <2>4. ASSUME NEW r \in Turns \ lost' PROVE RowKept(w, r)
    <3>1. HasRow(r) => rows[messageId[r]].ref = r
      BY <1>1 DEF RowsNamed, RowOf, HasRow
    <3>2. rows[id].ref = w.ref
      BY <1>1, <1>2, <2>1 DEF RowsNamed, RowOf, id
    <3>3. HasRow(r) /\ ~Of(w, r) => messageId[r] # id
      BY <2>1, <3>1, <3>2 DEF Of
    <3>4. Of(w, r) => messageId[r] = id
      BY DEF Of, id
    <3> QED BY <2>1, <2>2, <3>3, <3>4 DEF RowKept, HasRow
  <2>5. GhostInv'
    BY <1>1, <2>1 DEF GhostInv
  <2> QED BY <1>1, <2>3, <2>4, <2>5, TakenOrder DEF w
<1>7. CASE UNCHANGED <<rows, messageId>> /\ ~TurnRowAgain(w)
  <2>1. w.kind = "agent" => messageId[w.ref] = GhostId
    <3> SUFFICES ASSUME w.kind = "agent", messageId[w.ref] # GhostId PROVE FALSE
      OBVIOUS
    <3>1. StoreTurn(w) /\ (messageId[w.ref] = NoId \/ messageId[w.ref] \in 1 .. Len(rows))
      BY <1>1, <1>2 DEF PersistOk, RowsNamed, RowOf, w
    <3>2. CASE messageId[w.ref] = NoId
      <4>1. rows' = Append(rows, w)
        BY <3>1, <3>2 DEF StoreTurn, NoId, GhostId
      <4>2. Len(rows') = Len(rows) + 1
        BY <1>1, <4>1, AppendProperties
      <4> QED BY <1>1, <1>7, <4>2
    <3>3. CASE messageId[w.ref] \in 1 .. Len(rows)
      <4>1. messageId[w.ref] # NoId /\ messageId[w.ref] # GhostId
        BY <3>3 DEF NoId, GhostId
      <4>2. rows' = [rows EXCEPT ![messageId[w.ref]] = w] /\ UNCHANGED messageId
        BY <3>1, <4>1 DEF StoreTurn
      <4> QED BY <1>7, <3>3, <4>2 DEF TurnRowAgain
    <3> QED BY <3>1, <3>2, <3>3
  <2>2. \A r \in Turns \ lost' : RowKept(w, r)
    BY <1>1, <1>7, <2>1 DEF GhostInv, RowKept, HasRow, Of
  <2>3. ToolRowsKept(w) /\ GhostInv'
    BY <1>1, <1>7 DEF ToolRowsKept, GhostInv
  <2> QED BY <1>1, <2>2, <2>3, TakenOrder DEF w
<1> QED BY <1>3, <1>4, <1>5, <1>6, <1>7

(* A write that fails keeps it: its turn is lost from then on.             *)
LEMMA PersistFailsOrder == ASSUME IInv, OrderInv, PersistFails PROVE OrderInv'
<1> DEFINE w == Head(queue)
<1>1. /\ rows \in Seq(Write) /\ messageId \in [Turns -> Int] /\ w \in Write
      /\ queue # <<>> /\ UNCHANGED Unemitted /\ GhostInv /\ DropFailed(w)
  BY HeadTailProperties DEF IInv, TypeOK, PersistFails, OrderInv
<1>2. w.kind = "agent" => w.ref \in Turns
  BY <1>1 DEF Write, TurnWrite, ToolWrite
<1>3. queue' = Tail(queue) /\ UNCHANGED rows
  BY <1>1 DEF DropFailed, w
<1> HIDE DEF w
<1>4. lost \subseteq lost' /\ \A r \in Turns \ lost' : ~Of(w, r)
  BY <1>1 DEF DropFailed, Of
<1>5. \A r \in Turns : messageId'[r] # messageId[r] => Of(w, r)
  BY <1>1, <1>2 DEF DropFailed, Of
<1>6. \A r \in Turns \ lost' : RowKept(w, r)
  BY <1>3, <1>4, <1>5 DEF RowKept, HasRow
<1>7. ToolRowsKept(w)
  BY <1>3 DEF ToolRowsKept
<1>8. GhostInv'
  BY <1>1, <1>4, <1>5 DEF GhostInv
<1> QED BY <1>1, <1>3, <1>4, <1>6, <1>7, <1>8, TakenOrder DEF w

(* Nothing is stored or queued at the start.                               *)
LEMMA OrderInit == Init => OrderInv
<1> SUFFICES ASSUME Init PROVE OrderInv
  OBVIOUS
<1>1. /\ turn.rowRef = 0 /\ turn.turnIndex = -1 /\ turn.text = {} /\ ~Over
      /\ queue = <<>> /\ rows = <<>> /\ phase # "streaming"
      /\ \A t \in Turns : messageId[t] = 0 /\ said[t] = {}
  BY DEF Init, NoRef, NoId, Over
<1>2. HeadInv
  BY <1>1 DEF HeadInv, Headed, RowsHeaded
<1>3. KeptInv /\ WholeInv
  BY <1>1, AgentTexts DEF KeptInv, WholeInv, Must, Past, Turns
<1>4. GhostInv /\ StandInv /\ StreamInv
  BY <1>1 DEF GhostInv, GhostId, StandInv, ToolsUpTo, StreamInv
<1> QED BY <1>2, <1>3, <1>4 DEF OrderInv

(* Every step keeps the order invariant.                                   *)
LEMMA OrderStep == IInv /\ OrderInv /\ [Next]_vars => OrderInv'
<1> SUFFICES ASSUME IInv, OrderInv, [Next]_vars PROVE OrderInv'
  OBVIOUS
<1>1. CASE Return \/ UNCHANGED vars
  <2>1. /\ UNCHANGED <<turn, queue, call, said, rows, messageId, lost, runKind>>
        /\ Over' = Over /\ (phase' = phase \/ phase' = "returned") /\ ChainRun' = ChainRun
    BY <1>1 DEF Return, vars, Stores, Over, ChainRun
  <2>2. HeadInv' /\ KeptInv' /\ WholeInv' /\ GhostInv'
    BY <2>1 DEF OrderInv, HeadInv, KeptInv, WholeInv, GhostInv, Headed, RowsHeaded, Leads,
                Must, Past, Has, HasRow, Whole, RowFinal
  <2>3. StandInv' /\ StreamInv'
    BY <2>1 DEF OrderInv, StandInv, StreamInv
  <2> QED BY <2>2, <2>3 DEF OrderInv
<1> QED BY <1>1, RunStepOrder, PersistOkOrder, PersistFailsOrder DEF Next, Finished

(* Hence both invariants always hold.                                      *)
LEMMA OrderHolds == Spec => [](IInv /\ OrderInv)
<1>1. Init => IInv /\ OrderInv
  BY IInvInit, OrderInit
<1>2. IInv /\ OrderInv /\ [Next]_vars => (IInv /\ OrderInv)'
  BY IInvStep, OrderStep
<1> QED BY <1>1, <1>2, PTL DEF Spec

(* The row of a turn that streamed text sorts before the rows of the tools *)
(* it called, whatever the run does, unless the database refused one of    *)
(* the turn's writes.                                                      *)
THEOREM TurnsTextBeforeTools == Spec => []TextBeforeItsTools
<1>1. IInv /\ OrderInv => TextBeforeItsTools
  <2> SUFFICES ASSUME IInv, OrderInv, NEW i \in 1 .. Len(rows), NEW j \in 1 .. Len(rows),
                      i < j, rows[i].kind = "tool", rows[j].kind = "agent",
                      AgentText(rows[j].content) # {}, rows[j].ref \notin lost
               PROVE  rows[i].ref < rows[j].ref
    BY DEF TextBeforeItsTools
  <2> DEFINE r == rows[j].ref
  <2>1. rows \in Seq(Write) /\ Len(rows) \in Nat
    BY LenProperties DEF IInv, TypeOK
  <2>2. rows[i] \in Write /\ rows[j] \in Write
    BY <2>1, ElementOfSeq
  <2>3. rows[i].ref \in Int /\ r \in Turns \ lost /\ r \in Int
    BY <2>2 DEF Write, TurnWrite, ToolWrite, Turns
  <2>4. messageId[r] = j
    BY DEF IInv, RowsNamed
  <2>5. AgentText(said[r]) # {}
    <3>1. rows[j].content \subseteq said[r]
      BY DEF IInv, TextInv, Own, Belongs
    <3> QED BY <3>1, AgentTexts
  <2> HIDE DEF r
  <2>6. RowsHeaded(r)
    BY <2>3, <2>5 DEF OrderInv, HeadInv, Leads
  <2>7. ~(r <= rows[i].ref)
    <3> SUFFICES ASSUME r <= rows[i].ref PROVE FALSE
      OBVIOUS
    <3>1. messageId[r] \in 1 .. i - 1
      BY <2>6 DEF RowsHeaded, Behind
    <3> QED BY <2>1, <2>4, <3>1
  <2> QED BY <2>3, <2>7 DEF r
<1> QED BY <1>1, OrderHolds, PTL

(* A turn of a provider run that is over has its whole streamed text in    *)
(* its row, and the row is not marked as streaming, once the queue holds   *)
(* no write of that turn, unless the database refused one of them.         *)
THEOREM TurnsClosedTurnStored == Spec => []ClosedTurnStored
<1>1. IInv /\ OrderInv => ClosedTurnStored
  <2> SUFFICES ASSUME IInv, OrderInv, NEW t \in Turns, Settled(t), ~ChainRun PROVE Stored(t)
    BY DEF ClosedTurnStored
  <2>1. /\ t < turn.rowRef \/ Over
        /\ t \in Turns \ lost /\ AgentText(said[t]) # {}
        /\ \A i \in 1 .. Len(queue) : ~Of(queue[i], t)
    BY DEF Settled, Closed, Pending, Over, Of
  <2>2. Whole(queue, t, AgentText(said[t]))
    BY <2>1 DEF OrderInv, WholeInv, Must, Past
  <2>3. RowFinal(t, AgentText(said[t]))
    BY <2>1, <2>2 DEF Whole
  <2> QED BY <2>3 DEF RowFinal, HasRow, Final, Of, Stored
<1> QED BY <1>1, OrderHolds, PTL

-----------------------------------------------------------------------------
(* The refinement of TurnTranscript.                                       *)

(* A write that succeeds changes what is saved of one turn at most, by     *)
(* growth.                                                                 *)
LEMMA PersistOkSaves ==
  ASSUME IInv, PersistOk
  PROVE  \/ \A t \in Turns : Saved(t)' = Saved(t)
         \/ \E u \in Turns : \E content \in SUBSET said[u] :
              /\ Saved(u) \subseteq content
              /\ Saved(u)' = content
              /\ \A t \in Turns : t # u => Saved(t)' = Saved(t)
<1>0. PICK w : w = Head(queue)
  OBVIOUS
<1>1. /\ w \in Write /\ queue # <<>> /\ \A i \in 1 .. Len(rows) : Before(rows[i], w)
      /\ Belongs(w, said)
  BY <1>0, HeadOfSorted DEF IInv, TypeOK, TextInv, PersistOk
<1>2. /\ rows \in Seq(Write) /\ Len(rows) \in Nat /\ messageId \in [Turns -> Int]
      /\ \A t \in Turns : RowOf(t)
  BY LenProperties DEF IInv, TypeOK, RowsNamed
<1>3. NewToolRow(w) \/ NewTurnRow(w) \/ TurnRowAgain(w) \/ UNCHANGED <<rows, messageId>>
  BY <1>0, PersistCases
<1>4. w.kind = "agent" => w.ref \in Turns /\ w.content \in SUBSET said[w.ref]
  BY <1>1 DEF Write, TurnWrite, ToolWrite, Belongs
<1>5. CASE UNCHANGED <<rows, messageId>>
  BY <1>5 DEF Saved
<1>6. ASSUME rows' = Append(rows, w), NEW t \in Turns, messageId'[t] = messageId[t]
      PROVE  Saved(t)' = Saved(t)
  <2>1. /\ Len(rows') = Len(rows) + 1
        /\ \A i \in 1 .. Len(rows) : rows'[i] = rows[i]
    BY <1>1, <1>2, <1>6, AppendProperties
  <2>2. messageId[t] # Len(rows) + 1
    BY <1>2 DEF RowOf, NoId, GhostId
  <2>3. messageId[t] \in 1 .. Len(rows') <=> messageId[t] \in 1 .. Len(rows)
    BY <1>2, <2>1, <2>2
  <2> QED BY <1>6, <2>1, <2>3 DEF Saved
<1>7. CASE NewToolRow(w)
  BY <1>6, <1>7 DEF NewToolRow
<1>8. CASE NewTurnRow(w)
  <2>1. \A t \in Turns : messageId'[t] = IF t = w.ref THEN Len(rows) + 1 ELSE messageId[t]
    BY <1>2, <1>8 DEF NewTurnRow
  <2>2. \A t \in Turns : t # w.ref => Saved(t)' = Saved(t)
    BY <1>6, <1>8, <2>1 DEF NewTurnRow
  <2>3. w.ref \in Turns /\ w.content \in SUBSET said[w.ref]
    BY <1>4, <1>8 DEF NewTurnRow
  <2>4. rows'[Len(rows) + 1] = w /\ Len(rows') = Len(rows) + 1
    BY <1>1, <1>2, <1>8, AppendProperties DEF NewTurnRow
  <2>5. messageId[w.ref] \notin 1 .. Len(rows)
    BY <1>8 DEF NewTurnRow, NoId
  <2>6. Len(rows) + 1 \in 1 .. Len(rows')
    BY <1>2, <2>4
  <2>7. Saved(w.ref)' = w.content /\ Saved(w.ref) = {}
    BY <2>1, <2>3, <2>4, <2>5, <2>6 DEF Saved
  <2> QED BY <2>2, <2>3, <2>7
<1>9. CASE TurnRowAgain(w)
  <2> DEFINE id == messageId[w.ref]
  <2>1. /\ w.kind = "agent" /\ w.ref \in Turns /\ w.content \in SUBSET said[w.ref]
        /\ id \in 1 .. Len(rows) /\ messageId' = messageId /\ rows' = [rows EXCEPT ![id] = w]
    BY <1>4, <1>9 DEF TurnRowAgain
  <2>2. rows[id].kind = "agent" /\ rows[id].ref = w.ref
    BY <1>2, <2>1 DEF RowOf
  <2>3. rows[id].content \subseteq w.content
    BY <1>1, <2>1, <2>2 DEF Before
  <2>4. /\ Len(rows') = Len(rows)
        /\ \A j \in 1 .. Len(rows) : rows'[j] = IF j = id THEN w ELSE rows[j]
    BY <1>1, <1>2, <2>1, ExceptSeq
  <2>5. Saved(w.ref) = rows[id].content /\ Saved(w.ref)' = w.content
    BY <2>1, <2>4 DEF Saved
  <2>6. ASSUME NEW t \in Turns, t # w.ref PROVE Saved(t)' = Saved(t)
    <3>1. messageId[t] \in 1 .. Len(rows) => messageId[t] # id
      BY <1>2, <2>2, <2>6 DEF RowOf
    <3> QED BY <2>1, <2>4, <3>1 DEF Saved
  <2> QED BY <2>1, <2>3, <2>5, <2>6
<1> QED BY <1>3, <1>5, <1>7, <1>8, <1>9

(* No other step changes what is saved of a turn.                          *)
LEMMA OthersKeepSaved ==
  IInv /\ [Next]_vars => PersistOk \/ \A t \in Turns : Saved(t)' = Saved(t)
<1> SUFFICES ASSUME IInv, [Next]_vars, ~PersistOk, NEW t \in Turns PROVE Saved(t)' = Saved(t)
  OBVIOUS
<1>1. CASE UNCHANGED <<rows, messageId>>
  BY <1>1 DEF Saved
<1>2. CASE PersistFails
  <2>1. CASE UNCHANGED messageId
    BY <1>2, <2>1 DEF Saved, PersistFails, DropFailed
  <2>2. CASE /\ UNCHANGED rows /\ messageId[Head(queue).ref] = NoId
             /\ messageId' = [messageId EXCEPT ![Head(queue).ref] = GhostId]
    <3>1. messageId \in [Turns -> Int]
      BY DEF IInv, TypeOK
    <3>2. \/ messageId'[t] = messageId[t]
          \/ messageId[t] = NoId /\ messageId'[t] = GhostId
      BY <2>2, <3>1
    <3>3. NoId \notin 1 .. Len(rows) /\ GhostId \notin 1 .. Len(rows)
      BY DEF NoId, GhostId
    <3> QED BY <2>2, <3>2, <3>3 DEF Saved
  <2> QED BY <1>2, <2>1, <2>2 DEF PersistFails, DropFailed
<1>3. PersistFails \/ UNCHANGED <<rows, messageId>>
  BY DEF Next, vars, Finished, Return, RunStep, Stores, Dispatch, AgentToken, StreamEnd,
         RequestTool, DenyTool, StartTool, FinishTool, SubToken, SubToolCall, SubError,
         StepError, Succeed, AbortTools, Fail
<1> QED BY <1>1, <1>2, <1>3

(* The history only grows, and not while the queue is being written.       *)
LEMMA HistorySteps == IInv /\ [Next]_vars => Says /\ (PersistOk => UNCHANGED said)
<1> SUFFICES ASSUME IInv, [Next]_vars PROVE Says /\ (PersistOk => UNCHANGED said)
  OBVIOUS
<1>1. PersistOk => UNCHANGED said
  BY DEF PersistOk, Unemitted
<1>2. CASE RunStep
  BY <1>1, <1>2, RunStepInv
<1>3. RunStep \/ UNCHANGED said
  BY DEF Next, vars, Finished, Return, PersistOk, PersistFails, Unemitted
<1> QED BY <1>1, <1>2, <1>3 DEF Says

(* Seen through its rows, the persistence is the abstract transcript: each *)
(* turn's stored text only catches up with that turn's own text, and never *)
(* falls back, whatever the queue and the database do.                     *)
THEOREM TurnsImplementTranscript == Spec => ImplementsTranscript
<1>1. Init => Transcript!AInit
  <2> SUFFICES ASSUME Init PROVE Transcript!AInit
    OBVIOUS
  <2>1. \A t \in Turns : Saved(t) = {}
    BY DEF Init, Saved
  <2> QED BY <2>1 DEF Init, Transcript!AInit
<1>2. IInv /\ [Next]_vars => [Transcript!ANext]_Transcript!avars
  <2> SUFFICES ASSUME IInv, [Next]_vars PROVE [Transcript!ANext]_Transcript!avars
    OBVIOUS
  <2>1. CASE \A t \in Turns : Saved(t)' = Saved(t)
    <3>1. [t \in Turns |-> Saved(t)]' = [t \in Turns |-> Saved(t)]
      BY <2>1
    <3>2. CASE UNCHANGED said
      BY <3>1, <3>2 DEF Transcript!avars
    <3>3. ASSUME NEW t \in Turns, NEW tok \in Tokens, said' = [said EXCEPT ![t] = @ \cup {tok}]
          PROVE  Transcript!ANext
      BY <3>1, <3>3 DEF Transcript!ANext, Transcript!Speak
    <3> QED BY <3>2, <3>3, HistorySteps DEF Says
  <2>2. ASSUME PersistOk,
               NEW u \in Turns, NEW content \in SUBSET said[u],
               Saved(u) \subseteq content, Saved(u)' = content,
               \A t \in Turns : t # u => Saved(t)' = Saved(t)
        PROVE  Transcript!ANext
    <3> DEFINE saved == [t \in Turns |-> Saved(t)]
    <3>1. saved' = [saved EXCEPT ![u] = content]
      BY <2>2
    <3>2. saved[u] \subseteq content
      BY <2>2
    <3>3. UNCHANGED said
      BY <2>2, HistorySteps
    <3> QED BY <3>1, <3>2, <3>3 DEF Transcript!ANext, Transcript!Save
  <2> QED BY <2>1, <2>2, OthersKeepSaved, PersistOkSaves
<1> QED BY <1>1, <1>2, Inductive, PTL DEF Spec, ImplementsTranscript, Transcript!ASpec
=============================================================================
