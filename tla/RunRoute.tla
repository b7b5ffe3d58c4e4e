------------------------------ MODULE RunRoute ------------------------------
(***************************************************************************)
(* The server side of one run as its clients see it: the run registry, the *)
(* stream state with its replayable event log, the SSE streams attached to *)
(* it, and the tool approvals the run waits for (routes/runs.ts,           *)
(* run-registry.ts, and the registration in RunService.executeRun).        *)
(*                                                                         *)
(* What executeRun does in between is abstracted to three things: it emits *)
(* events, its parallel branches ask for approvals, and it returns when no *)
(* branch is waiting; ToolLoop and AgentTurns model the inside.  Every     *)
(* handler is one action from one await to the next.                       *)
(***************************************************************************)
EXTENDS Naturals, Sequences

CONSTANTS Clients,    \* connections that may be made to the run's events
          Poster,     \* the connection of POST /runs itself
          Branches,   \* parallel branches of the run that may ask
          Blind,      \* those that run a delegated agent without the run's signal
          CallIds,    \* ids of tool calls
          None,       \* no id, no branch
          MaxEvents   \* bound: events of the run

ASSUME RouteAssumption ==
  /\ Poster \in Clients
  /\ Blind \subseteq Branches
  /\ None \notin CallIds \cup Branches
  /\ MaxEvents \in Nat

VARIABLES
  chat,        \* a run of POST /runs; FALSE: of cron, a webhook, a chain test
  registered,  \* activeRuns has the run
  aborted,     \* the signal of its controller
  over,        \* executeRun has settled
  state,       \* runStreamStates.get(runId)
  log,         \* state.events
  conn,        \* conn[c]: where connection c stands
  gone,        \* gone[c]: the client has hung up
  heard,       \* heard[c]: the close listener was attached in time
  inbox,       \* inbox[c]: the messages pushed to the stream of c
  ended,       \* ended[c]: the stream of c was ended
  waiting,     \* waiting[b]: the call id branch b waits for
  pending,     \* pendingToolApprovals.get(runId): the branch behind an id
  clashed      \* history: ids asked for while they were pending

vars == <<chat, registered, aborted, over, state, log, conn, gone, heard, inbox, ended,
          waiting, pending, clashed>>

Run       == <<chat, registered, aborted, over>>
Streams   == <<state, log, conn, gone, heard, inbox, ended>>
Approvals == <<waiting, pending, clashed>>

-----------------------------------------------------------------------------
Fin     == 0                      \* the "finished" message; events are 1, 2, ..
Message == 0 .. MaxEvents
State   == [present : BOOLEAN, finished : BOOLEAN, streams : SUBSET Clients]

Init ==
  /\ chat \in BOOLEAN
  /\ registered = TRUE
  /\ aborted = FALSE
  /\ over = FALSE
  /\ state = [present |-> chat, finished |-> FALSE, streams |-> IF chat THEN {Poster} ELSE {}]
  /\ log = <<>>
  /\ conn = [c \in Clients |-> IF chat /\ c = Poster THEN "open" ELSE "none"]
  /\ gone \in {[c \in Clients |-> FALSE], [c \in Clients |-> chat /\ c = Poster]}
  /\ heard = [c \in Clients |-> chat /\ c = Poster /\ ~gone[c]]
  /\ inbox = [c \in Clients |-> <<>>]
  /\ ended = [c \in Clients |-> FALSE]
  /\ waiting = [b \in Branches |-> None]
  /\ pending = [i \in CallIds |-> None]
  /\ clashed = {}

-----------------------------------------------------------------------------
(* Streams *)

Push(cs, msg) == inbox' = [c \in Clients |-> IF c \in cs THEN Append(inbox[c], msg) ELSE inbox[c]]

(* Dropping connection c: a finished state without streams is deleted.     *)
Without(st, c) ==
  LET left == st.streams \ {c}
  IN  [st EXCEPT !.streams = left, !.present = @ /\ ~(left = {} /\ st.finished)]

Publish(msg) ==
  /\ log' = Append(log, msg)
  /\ Push(state.streams, msg)

(* onEvent *)
Emit ==
  /\ chat /\ ~over /\ Len(log) < MaxEvents
  /\ Publish(Len(log) + 1)
  /\ UNCHANGED <<Run, state, conn, gone, heard, ended, Approvals>>

(* GET /runs/:id/stream arrives; requireSession is awaited.                *)
Request(c) ==
  /\ c # Poster /\ conn[c] = "none"
  /\ conn' = [conn EXCEPT ![c] = "auth"]
  /\ UNCHANGED <<Run, state, log, gone, heard, inbox, ended, Approvals>>

\* Mutant: a stream that attaches gets only what happens from then on.
NoReplay(c) == <<>>

Replay(c) == log

(* The session is checked: replay what happened, then stay for the rest.   *)
Attach(c) ==
  /\ conn[c] = "auth"
  /\ IF ~state.present
     THEN /\ conn' = [conn EXCEPT ![c] = "closed"]
          /\ UNCHANGED <<state, heard, inbox, ended>>
     ELSE /\ conn' = [conn EXCEPT ![c] = "open"]
          /\ heard' = [heard EXCEPT ![c] = ~gone[c]]
          /\ IF state.finished
             THEN /\ inbox' = [inbox EXCEPT ![c] = Append(Replay(c), Fin)]
                  /\ ended' = [ended EXCEPT ![c] = TRUE]
                  /\ UNCHANGED state
             ELSE /\ inbox' = [inbox EXCEPT ![c] = Replay(c)]
                  /\ state' = [state EXCEPT !.streams = @ \cup {c}]
                  /\ UNCHANGED ended
  /\ UNCHANGED <<Run, log, gone, Approvals>>

(* cleanup (Poster) and closeHandler (the others).                         *)
OnClose(c) ==
  /\ state' = Without(state, c)
  /\ UNCHANGED registered

(* The client hangs up: while its session is being checked nobody listens. *)
HangUp(c) ==
  /\ conn[c] \in {"auth", "open"} /\ ~gone[c]
  /\ gone' = [gone EXCEPT ![c] = TRUE]
  /\ IF heard[c]
     THEN /\ OnClose(c)
          /\ conn' = [conn EXCEPT ![c] = "closed"]
          /\ ended' = [ended EXCEPT ![c] = @ \/ c # Poster]
     ELSE UNCHANGED <<state, registered, conn, ended>>
  /\ UNCHANGED <<chat, aborted, over, log, heard, inbox, Approvals>>

(* The response of an ended stream finishes and its connection closes.     *)
ResponseEnds(c) ==
  /\ conn[c] = "open" /\ ended[c] /\ heard[c] /\ ~gone[c]
  /\ OnClose(c)
  /\ conn' = [conn EXCEPT ![c] = "closed"]
  /\ UNCHANGED <<chat, aborted, over, log, gone, heard, inbox, ended, Approvals>>

-----------------------------------------------------------------------------
(* Approvals and the stop *)

(* waitForToolApproval: a branch looks at its signal before it asks, but   *)
(* an agent that an Anthropic or Responses runner delegates to has none    *)
(* (ToolLoop, PassesSignal). A listener added to an aborted signal never   *)
(* fires.                                                                  *)
Ask(b, i) ==
  /\ chat /\ ~over /\ waiting[b] = None
  /\ aborted => b \in Blind
  /\ waiting' = [waiting EXCEPT ![b] = i]
  /\ pending' = [pending EXCEPT ![i] = b]
  /\ clashed' = IF \E other \in Branches : waiting[other] = i THEN clashed \cup {i} ELSE clashed
  /\ UNCHANGED <<Run, Streams>>

Forget(i) == pending' = [pending EXCEPT ![i] = None]

(* POST /runs/:id/tool-approval *)
Answer(i) ==
  /\ pending[i] # None
  /\ waiting' = [waiting EXCEPT ![pending[i]] = None]
  /\ Forget(i)
  /\ UNCHANGED <<Run, Streams, clashed>>

\* Mutant: only calls that are still in the map are rejected by the abort.
RejectPendingOnly ==
  /\ waiting' = [b \in Branches |->
                   IF \E i \in CallIds : pending[i] = b THEN None ELSE waiting[b]]
  /\ pending' = [i \in CallIds |-> None]

(* Every waiting call has its own listener on the signal, which drops the  *)
(* entry of its id and rejects.                                            *)
RejectWaiting ==
  /\ waiting' = [b \in Branches |-> None]
  /\ pending' = [i \in CallIds |->
                   IF \E b \in Branches : waiting[b] = i THEN None ELSE pending[i]]

(* POST /runs/:id/stop by the owner: abortActiveRun.                       *)
Stop ==
  /\ registered /\ ~aborted
  /\ aborted' = TRUE
  /\ RejectWaiting
  /\ UNCHANGED <<chat, registered, over, Streams, clashed>>

-----------------------------------------------------------------------------
(* executeRun settles: .then of POST /runs, or finally in executeRun.      *)

\* Mutant: a finished state is kept although nobody is attached to it.
FinishKeepsState(st) == [st EXCEPT !.finished = TRUE, !.streams = @ \ {Poster}]

Finish(st) == Without([st EXCEPT !.finished = TRUE], Poster)

Settle ==
  /\ ~over /\ \A b \in Branches : waiting[b] = None
  /\ over' = TRUE
  /\ registered' = FALSE
  /\ IF chat
     THEN /\ Push(state.streams, Fin)
          /\ ended' = [c \in Clients |-> ended[c] \/ c \in state.streams]
          /\ state' = Finish(state)
     ELSE UNCHANGED <<inbox, ended, state>>
  /\ UNCHANGED <<chat, aborted, log, conn, gone, heard, Approvals>>

Next ==
  \/ Emit \/ Stop \/ Settle
  \/ \E c \in Clients : Request(c) \/ Attach(c) \/ HangUp(c) \/ ResponseEnds(c)
  \/ \E b \in Branches, i \in CallIds : Ask(b, i)
  \/ \E i \in CallIds : Answer(i)

(* A stopped run settles (ToolLoop, StopEndsLoop); an ended response is    *)
(* closed by the server. Nothing is assumed of clients and of users.       *)
Fairness ==
  /\ WF_vars(aborted /\ Settle)
  /\ \A c \in Clients : WF_vars(ResponseEnds(c))

Spec == Init /\ [][Next]_vars

FairSpec == Spec /\ Fairness

-----------------------------------------------------------------------------
(* Every variable keeps its shape; a deleted state has no streams.         *)
TypeOK ==
  /\ chat \in BOOLEAN
  /\ registered \in BOOLEAN
  /\ aborted \in BOOLEAN
  /\ over \in BOOLEAN
  /\ state \in State /\ (~state.present => state.streams = {})
  /\ log \in Seq(Message)
  /\ conn \in [Clients -> {"none", "auth", "open", "closed"}]
  /\ gone \in [Clients -> BOOLEAN]
  /\ heard \in [Clients -> BOOLEAN]
  /\ inbox \in [Clients -> Seq(Message)]
  /\ ended \in [Clients -> BOOLEAN]
  /\ waiting \in [Branches -> CallIds \cup {None}]
  /\ pending \in [CallIds -> Branches \cup {None}]
  /\ clashed \in SUBSET CallIds

(* Whenever it attached, a client that is attached has got every event of  *)
(* the run, once and in order; once the run is over, and the message that  *)
(* it is finished behind them.                                             *)
FeedsAreComplete ==
  \A c \in Clients : (conn[c] = "open" /\ (heard[c] \/ c \in state.streams))
    => inbox[c] = IF over THEN Append(log, Fin) ELSE log

(* As long as it executes a run can be stopped, whatever its clients do,   *)
(* and a run that is over cannot (comments at cleanup in POST /runs).      *)
RunningIsStoppable == registered <=> ~over

(* A finished state always has a stream left whose close frees it, and a   *)
(* running chat run always has its state.                                  *)
FinishedStateHeld ==
  /\ state.present /\ over => state.finished /\ state.streams # {}
  /\ chat /\ ~over => state.present /\ ~state.finished

(* An entry of the approval map belongs to a branch that waits for it, so  *)
(* that an answer is never given to a run that does not wait.              *)
PendingIsAwaited ==
  \A i \in CallIds : pending[i] # None => waiting[pending[i]] = i

(* A branch that waits can be answered, unless another branch asked under  *)
(* the same call id.                                                       *)
WaitingIsAnswerable ==
  \A b \in Branches :
    (waiting[b] # None /\ waiting[b] \notin clashed) => pending[waiting[b]] = b

(* After a stop no branch that has the signal waits, not even for a call   *)
(* whose entry another call of the same id replaced, and what is left to   *)
(* answer was asked by a branch without it.                                *)
StopReleasesWaiters ==
  aborted => /\ \A b \in Branches : waiting[b] # None => b \in Blind
             /\ \A i \in CallIds : pending[i] # None => pending[i] \in Blind

(* A stop ends the run though nobody ever answers its approvals, except    *)
(* one that a branch without the signal asked for.                         *)
StopSettles == aborted ~> (over \/ \E b \in Blind : waiting[b] # None)

(* The stream state of a run that is over is freed once the responses have *)
(* ended, unless a client hung up before its close listener was attached.  *)
LeftEarly == \E c \in state.streams : gone[c] /\ ~heard[c]

StateIsFreed == over ~> (~state.present \/ LeftEarly)
=============================================================================
