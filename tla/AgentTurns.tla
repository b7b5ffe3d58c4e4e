----------------------------- MODULE AgentTurns -----------------------------
(***************************************************************************)
(* The persistence of one run's agent answer: the per-turn tracker         *)
(* (agent-turn-tracker.ts) fed with the run's events, the promise chain    *)
(* RunService calls persistenceQueue, and the chat_messages rows it writes.*)
(*                                                                         *)
(* Text is a set of tokens; a token remembers who produced it: the agent   *)
(* ("agent", streamed), a delegated sub-run whose events are forwarded     *)
(* into the run ("sub"), or a complete event's output that never streamed  *)
(* ("output"). JavaScript runs one event at a time, so each event with all *)
(* its bookkeeping is one action; only the queued writes interleave.       *)
(***************************************************************************)
EXTENDS Integers, Sequences

CONSTANTS MaxTurns,   \* bound: completion calls of one run
          MaxTokens,  \* bound: tokens of one run
          MaxCalls,   \* bound: tool calls of one run
          RunKinds    \* the kinds of run: "provider", or "chain" (never dispatches itself)

ASSUME BoundsAssumption ==
  /\ MaxTurns \in Nat \ {0}
  /\ MaxTokens \in Nat
  /\ MaxCalls \in Nat
  /\ RunKinds \subseteq {"provider", "chain"}

VARIABLES
  turn,       \* AgentTurnState: text, turnIndex, rowRef, turnFinalized
  queue,      \* persistenceQueue: writes decided but not yet executed
  rows,       \* app.chat_messages rows of the run, in insertion order
  messageId,  \* messageId[r]: what rowRef r holds
  runKind,    \* what executeRun executes: a provider completion or a chain
  phase,      \* where the run that emits the events stands
  call,       \* the tool call in hand
  sub,        \* a delegated sub-run is forwarding its events
  calls,      \* tool calls so far (bound)
  spoken,     \* tokens so far; the next token gets the next number
  said,       \* history: said[t] is the text that belongs to turn t
  lost        \* history: turns with a write the database refused

vars == <<turn, queue, rows, messageId, runKind, phase, call, sub, calls, spoken, said, lost>>

ChainRun == runKind = "chain"

-----------------------------------------------------------------------------
Turns   == 1 .. MaxTurns
NoRef   == 0              \* rowRef = null; a turn with index i uses row reference i + 1
NoId    == 0              \* messageId = null
GhostId == -1             \* an id whose INSERT was rolled back at COMMIT
Authors == {"agent", "sub", "output"}
Tokens  == [n : 1 .. MaxTokens, by : Authors]
Status  == {"streaming", "running", "error", "success"}

TurnState == [text : SUBSET Tokens, turnIndex : -1 .. MaxTurns - 1,
              rowRef : 0 .. MaxTurns, turnFinalized : BOOLEAN]
TurnWrite == [kind : {"agent"}, ref : Turns, content : SUBSET Tokens, status : Status]
ToolWrite == [kind : {"tool"}, ref : 0 .. MaxTurns]
Write     == TurnWrite \cup ToolWrite

(* The turn an event that is fed in state s belongs to. *)
TurnOf(s) == s.turnIndex + 1

-----------------------------------------------------------------------------
(* The tracker. Each Feed operator returns the next state and the writes.  *)

NoWrites(s) == [state |-> s, writes |-> <<>>]

WriteOf(s, content, status) ==
  [kind |-> "agent", ref |-> s.rowRef, content |-> content, status |-> status]

EnsureTurn(s) ==
  IF s.turnIndex < 0
  THEN [s EXCEPT !.turnIndex = 0, !.rowRef = 1, !.turnFinalized = FALSE]
  ELSE s

Flushable(s) == s.turnIndex >= 0 /\ s.rowRef # NoRef /\ ~s.turnFinalized /\ s.text # {}

Flush(s, status) ==
  IF Flushable(s)
  THEN [state  |-> [s EXCEPT !.turnFinalized = TRUE],
        writes |-> <<WriteOf(s, s.text, status)>>]
  ELSE NoWrites(s)

(* tick is the caller's one-second throttle decision. *)
StreamingWrite(s, tick) ==
  IF tick /\ Flushable(s) THEN <<WriteOf(s, s.text, "streaming")>> ELSE <<>>

\* Mutant: only the tokens of a throttle tick are accumulated.
TokenOnTickOnly(s, tok, tick) ==
  LET t == IF tick THEN [EnsureTurn(s) EXCEPT !.text = @ \cup {tok}] ELSE EnsureTurn(s)
  IN  [state |-> t, writes |-> StreamingWrite(t, tick)]

FeedToken(s, tok, tick) ==
  LET t == [EnsureTurn(s) EXCEPT !.text = @ \cup {tok}]
  IN  [state |-> t, writes |-> StreamingWrite(t, tick)]

FeedUsage(s, tick) == [state |-> s, writes |-> StreamingWrite(s, tick)]

NewTurn(s) == [text |-> {}, turnIndex |-> s.turnIndex + 1,
               rowRef |-> s.turnIndex + 2, turnFinalized |-> FALSE]

FeedTurnStart(s) == [state |-> NewTurn(s), writes |-> Flush(s, "running").writes]

FeedToolCall(s) == Flush(s, "running")

FeedError(s) == Flush(s, "error")

\* Mutant: the complete event's output wins over the text that streamed.
CompleteOutputWins(s, output, status) ==
  LET t == EnsureTurn(s)
  IN  IF output = {} /\ t.text = {}
      THEN NoWrites(t)
      ELSE [state  |-> [t EXCEPT !.turnFinalized = TRUE],
            writes |-> <<WriteOf(t, output, status)>>]

FeedComplete(s, output, status) ==
  LET t       == EnsureTurn(s)
      content == IF t.text # {} THEN t.text ELSE output
  IN  IF content = {}
      THEN NoWrites(t)
      ELSE [state  |-> [t EXCEPT !.turnFinalized = TRUE],
            writes |-> <<WriteOf(t, content, status)>>]

-----------------------------------------------------------------------------
(* emitRunEvent: feed the tracker, then queue its writes, then the row of  *)
(* a finished tool call.                                                   *)

\* Mutant: the tool's own row is queued before the turn's.
EnqueueToolFirst(fed, jobs) ==
  /\ turn'  = fed.state
  /\ queue' = queue \o jobs \o fed.writes

Enqueue(fed, jobs) ==
  /\ turn'  = fed.state
  /\ queue' = queue \o fed.writes \o jobs

ToolRow == <<[kind |-> "tool", ref |-> TurnOf(turn)]>>

Token(author) == [n |-> spoken + 1, by |-> author]

(* The history: a token belongs to the turn the tracker is in after it. *)
Say(t, tok) ==
  /\ spoken' = spoken + 1
  /\ said' = [said EXCEPT ![t] = @ \cup {tok}]

Silent == UNCHANGED <<spoken, said>>

Stores == <<rows, messageId, lost, runKind>>

-----------------------------------------------------------------------------
(* The run.  A provider run loops: setup -> streaming -> answered -> tools *)
(* -> streaming ...; a chain run stays in "answered" between its steps,    *)
(* whose texts, tool calls and errors reach the tracker without a          *)
(* dispatch_provider_request.                                              *)

Init ==
  /\ turn = [text |-> {}, turnIndex |-> -1, rowRef |-> NoRef, turnFinalized |-> TRUE]
  /\ queue = <<>>
  /\ rows = <<>>
  /\ messageId = [t \in Turns |-> NoId]
  /\ runKind \in RunKinds
  /\ phase = IF ChainRun THEN "answered" ELSE "setup"
  /\ call = "none"
  /\ sub = FALSE
  /\ calls = 0
  /\ spoken = 0
  /\ said = [t \in Turns |-> {}]
  /\ lost = {}

(* step_start dispatch_provider_request *)
Dispatch ==
  /\ ~ChainRun
  /\ phase \in {"setup", "tools"} /\ call = "none"
  /\ TurnOf(turn) < MaxTurns
  /\ phase' = "streaming"
  /\ Enqueue(FeedTurnStart(turn), <<>>)
  /\ Silent /\ UNCHANGED <<call, sub, calls, Stores>>

(* run_token of the agent itself (of a chain's own step in a chain run) *)
AgentToken ==
  /\ phase = (IF ChainRun THEN "answered" ELSE "streaming") /\ call = "none"
  /\ spoken < MaxTokens
  /\ \E tick \in BOOLEAN : Enqueue(FeedToken(turn, Token("agent"), tick), <<>>)
  /\ Say(TurnOf(turn'), Token("agent"))
  /\ UNCHANGED <<phase, call, sub, calls, Stores>>

(* The provider's stream ends; its usage arrives as a tokens event. *)
StreamEnd ==
  /\ phase = "streaming"
  /\ phase' = "answered"
  /\ \E tick \in BOOLEAN : Enqueue(FeedUsage(turn, tick), <<>>)
  /\ Silent /\ UNCHANGED <<call, sub, calls, Stores>>

(* tool_call "requested": only a call that needs the user's approval has one. *)
RequestTool ==
  /\ phase \in {"answered", "tools"} /\ call = "none"
  /\ calls < MaxCalls
  /\ calls' = calls + 1
  /\ call' = "asked"
  /\ phase' = IF ChainRun THEN "answered" ELSE "tools"
  /\ Enqueue(FeedToolCall(turn), <<>>)
  /\ Silent /\ UNCHANGED <<sub, Stores>>

(* The user (or a stopped run) denies the call: tool_call "error". *)
DenyTool ==
  /\ call = "asked"
  /\ call' = "none"
  /\ Enqueue(FeedToolCall(turn), ToolRow)
  /\ Silent /\ UNCHANGED <<phase, sub, calls, Stores>>

(* The call starts: after the approval, or at once when it was granted. *)
StartTool ==
  /\ \/ call = "asked" /\ UNCHANGED calls
     \/ /\ phase \in {"answered", "tools"} /\ call = "none"
        /\ calls < MaxCalls
        /\ calls' = calls + 1
  /\ call' = "running"
  /\ phase' = IF ChainRun THEN "answered" ELSE "tools"
  /\ sub' \in BOOLEAN
  /\ UNCHANGED <<turn, queue, spoken, said, Stores>>

(* tool_call "success" or "error" of the call in hand. *)
FinishTool ==
  /\ call = "running"
  /\ call' = "none"
  /\ sub' = FALSE
  /\ Enqueue(FeedToolCall(turn), ToolRow)
  /\ Silent /\ UNCHANGED <<phase, calls, Stores>>

(* Events a delegated sub-run forwards while its tool call runs. *)
SubToken ==
  /\ sub
  /\ spoken < MaxTokens
  /\ \E tick \in BOOLEAN : Enqueue(FeedToken(turn, Token("sub"), tick), <<>>)
  /\ Say(TurnOf(turn'), Token("sub"))
  /\ UNCHANGED <<phase, call, sub, calls, Stores>>

SubToolCall ==
  /\ sub
  /\ calls < MaxCalls
  /\ calls' = calls + 1
  /\ Enqueue(FeedToolCall(turn), ToolRow)
  /\ Silent /\ UNCHANGED <<phase, call, sub, Stores>>

SubError ==
  /\ sub
  /\ Enqueue(FeedError(turn), <<>>)
  /\ sub' = FALSE
  /\ Silent /\ UNCHANGED <<phase, call, calls, Stores>>

(* A chain step fails, reports it with an error event (a tool step too, in *)
(* the place of its call's result), and the chain goes on.                 *)
StepError ==
  /\ ChainRun /\ phase = "answered"
  /\ call' = "none" /\ sub' = FALSE
  /\ calls < MaxCalls
  /\ calls' = calls + 1
  /\ Enqueue(FeedError(turn), <<>>)
  /\ Silent /\ UNCHANGED <<phase, Stores>>

(* The complete event, whose output is a text that may never have streamed, *)
(* after what another event of the same emission wrote.                     *)
Completion(before, output, status) ==
  LET done == FeedComplete(before.state, output, status)
  IN  Enqueue([state |-> done.state, writes |-> before.writes \o done.writes], <<>>)

CompleteWith(before, status) ==
  \/ Completion(before, {}, status) /\ Silent
  \/ /\ spoken < MaxTokens
     /\ EnsureTurn(turn).text = {}
     /\ Completion(before, {Token("output")}, status)
     /\ Say(TurnOf(turn'), Token("output"))

(* complete "success": the answer asked for no tool. *)
Succeed ==
  /\ phase = "answered" /\ call = "none"
  /\ CompleteWith(NoWrites(turn), "success")
  /\ phase' = "done"
  /\ UNCHANGED <<call, sub, calls, Stores>>

(* The tool loop gives up: an error event, and complete "error" right after. *)
AbortTools ==
  /\ ~ChainRun
  /\ phase \in {"answered", "tools"} /\ call \in {"none", "running"}
  /\ CompleteWith(FeedError(turn), "error")
  /\ phase' = "done" /\ call' = "none" /\ sub' = FALSE
  /\ UNCHANGED <<calls, Stores>>

(* The run ends with a bare error event. *)
Fail ==
  /\ phase \in {"setup", "streaming", "answered", "tools"} /\ call = "none"
  /\ Enqueue(FeedError(turn), <<>>)
  /\ phase' = "done"
  /\ Silent /\ UNCHANGED <<call, sub, calls, Stores>>

-----------------------------------------------------------------------------
(* The persistence queue: one write at a time, each in a transaction.  A   *)
(* write may fail before its INSERT returns, or at COMMIT, when rowRef     *)
(* already holds the id of a row that is rolled back.                      *)

\* Mutant: the writer inserts although the turn already has its row.
StoreTurnAlwaysInserts(w) ==
  /\ rows' = Append(rows, w)
  /\ messageId' = [messageId EXCEPT ![w.ref] = Len(rows) + 1]

StoreTurn(w) ==
  CASE messageId[w.ref] = NoId ->
         /\ rows' = Append(rows, w)
         /\ messageId' = [messageId EXCEPT ![w.ref] = Len(rows) + 1]
    [] messageId[w.ref] = GhostId ->
         UNCHANGED <<rows, messageId>>
    [] OTHER ->
         /\ rows' = [rows EXCEPT ![messageId[w.ref]] = w]
         /\ UNCHANGED messageId

(* The failed write is caught and logged; the chain moves on to the next. *)
DropFailed(w) ==
  /\ queue' = Tail(queue)
  /\ UNCHANGED rows
  /\ \/ UNCHANGED messageId
     \/ /\ w.kind = "agent" /\ messageId[w.ref] = NoId
        /\ messageId' = [messageId EXCEPT ![w.ref] = GhostId]
  /\ lost' = IF w.kind = "agent" THEN lost \cup {w.ref} ELSE lost

Unemitted == <<turn, runKind, phase, call, sub, calls, spoken, said>>

PersistOk ==
  /\ queue # <<>>
  /\ queue' = Tail(queue)
  /\ IF Head(queue).kind = "agent"
     THEN StoreTurn(Head(queue))
     ELSE rows' = Append(rows, Head(queue)) /\ UNCHANGED messageId
  /\ UNCHANGED <<lost, Unemitted>>

PersistFails ==
  /\ queue # <<>>
  /\ DropFailed(Head(queue))
  /\ UNCHANGED Unemitted

(* executeRun returns once `await persistenceQueue` resolves. *)
Return ==
  /\ phase = "done" /\ queue = <<>>
  /\ phase' = "returned"
  /\ UNCHANGED <<turn, queue, call, sub, calls, spoken, said, Stores>>

(* Nothing is left to do. *)
Finished == phase = "returned" /\ UNCHANGED vars

RunStep ==
  \/ Dispatch \/ AgentToken \/ StreamEnd
  \/ RequestTool \/ DenyTool \/ StartTool \/ FinishTool
  \/ SubToken \/ SubToolCall \/ SubError \/ StepError
  \/ Succeed \/ AbortTools \/ Fail

Next == RunStep \/ PersistOk \/ PersistFails \/ Return \/ Finished

Spec == Init /\ [][Next]_vars

-----------------------------------------------------------------------------
(* Every variable keeps its shape: the tracker's fields, the two kinds of  *)
(* write of the queue, and a rowRef that names a row only once inserted.   *)
TypeOK ==
  /\ turn \in TurnState
  /\ queue \in Seq(Write)
  /\ rows \in Seq(Write)
  /\ runKind \in {"provider", "chain"}
  /\ messageId \in [Turns -> Int]
  /\ phase \in {"setup", "streaming", "answered", "tools", "done", "returned"}
  /\ call \in {"none", "asked", "running"}
  /\ sub \in BOOLEAN
  /\ calls \in 0 .. MaxCalls
  /\ spoken \in 0 .. MaxTokens
  /\ said \in [Turns -> SUBSET Tokens]
  /\ lost \in SUBSET Turns

(* Queue lag never bleeds one turn's text into another's row: whatever is  *)
(* queued or stored for a turn is text of that turn (tracker header, "can  *)
(* never bleed one turn's text into another's row").                       *)
OwnText(w) == w.kind = "agent" => w.content \subseteq said[w.ref]

OwnTextOnly ==
  /\ \A i \in 1 .. Len(queue) : OwnText(queue[i])
  /\ \A i \in 1 .. Len(rows) : OwnText(rows[i])

(* The answer is one row per turn, in turn order, whatever writes fail:    *)
(* a retried INSERT never leaves two rows of a turn and never lands behind *)
(* a later turn's row.                                                     *)
OneRowPerTurn ==
  \A i, j \in 1 .. Len(rows) :
    (i < j /\ rows[i].kind = "agent" /\ rows[j].kind = "agent") => rows[i].ref < rows[j].ref

AgentText(content) == {tok \in content : tok.by = "agent"}

(* The row of a turn that streamed text sorts before the rows of the tools *)
(* it called, as long as none of its writes failed (comments at the flush  *)
(* in feedAgentTurnEvent).                                                 *)
TextBeforeItsTools ==
  \A i, j \in 1 .. Len(rows) :
    ( /\ i < j
      /\ rows[i].kind = "tool" /\ rows[j].kind = "agent"
      /\ AgentText(rows[j].content) # {}
      /\ rows[j].ref \notin lost )
    => rows[i].ref < rows[j].ref

Closed(t) == t < turn.rowRef \/ phase \in {"done", "returned"}

Pending(t) == \E i \in 1 .. Len(queue) : queue[i].kind = "agent" /\ queue[i].ref = t

Stored(t) ==
  \E i \in 1 .. Len(rows) :
    /\ rows[i].kind = "agent" /\ rows[i].ref = t
    /\ AgentText(rows[i].content) = AgentText(said[t])
    /\ rows[i].status # "streaming"

Settled(t) == Closed(t) /\ t \notin lost /\ ~Pending(t) /\ AgentText(said[t]) # {}

(* A turn of a provider run that is over has its whole streamed text in    *)
(* its row, no longer marked as streaming, unless the database refused one *)
(* of its writes.                                                          *)
ClosedTurnStored == \A t \in Turns : Settled(t) /\ ~ChainRun => Stored(t)

-----------------------------------------------------------------------------
(* The stored text of a turn, {} while the turn has no row. *)
Saved(t) == IF messageId[t] \in 1 .. Len(rows) THEN rows[messageId[t]].content ELSE {}

Transcript == INSTANCE TurnTranscript WITH
                Turns <- Turns, Tokens <- Tokens,
                said <- said, saved <- [t \in Turns |-> Saved(t)]

(* The tracker, its queue and the rows implement the abstract transcript:  *)
(* each turn's row only ever catches up with that turn's own text.         *)
ImplementsTranscript == Transcript!ASpec
=============================================================================
