------------------------------ MODULE ChatView ------------------------------
(***************************************************************************)
(* One tab of the web client as it follows the runs of its chats: the chat *)
(* view with its refs, its history loads and its timers (ChatView.tsx),    *)
(* the streams of lib/api.ts, and the active runs of the sidebar.          *)
(*                                                                         *)
(* The view is not remounted when another chat is opened, so that every    *)
(* callback that was begun for one chat may end in another.  An action is  *)
(* one event handler or continuation with the effects of its render.  The  *)
(* server is what RunRoute promises of it: a stream gets the whole log of  *)
(* its run, then the message that it is finished.                          *)
(***************************************************************************)
EXTENDS Naturals, Sequences

CONSTANTS Chats,
          NoChat,      \* the view of /chat without an id
          MaxStreams,  \* bound: streams the tab opens
          MaxEvents,   \* bound: events of a run
          MaxLoads     \* bound: histories the tab loads

ASSUME ViewAssumption ==
  /\ NoChat \notin Chats
  /\ MaxStreams \in Nat /\ MaxEvents \in Nat /\ MaxLoads \in Nat

VARIABLES
  view,       \* activeChatId
  shown,      \* runs with a text among the messages
  loading,    \* loading and isProcessing, which change together
  runRef,     \* serverRunIdRef: the run that Stop and approvals address
  cancelRef,  \* streamCancelRef: the stream that can be cancelled
  finishRef,  \* finishRunRef: the resumed stream whose finishRun it holds
  approvals,  \* pendingApprovals
  timers,     \* streams whose finishRun is due in 50 ms and has not run
  tracked,    \* activeRunByChatId of the sidebar
  fetches,    \* fetchHistory calls that have not ended
  loads,      \* how many there were
  stopping,   \* the run whose stop handleStop awaits
  stream,     \* the streams, numbered as they are opened
  strays,     \* history: runs of streams that cancelRef lost alive
  run,        \* server: the runs; a run has the number of its POST
  stored      \* server: chats that have a row

vars == <<view, shown, loading, runRef, cancelRef, finishRef, approvals, timers, tracked,
          fetches, loads, stopping, stream, strays, run, stored>>

Refs   == <<runRef, cancelRef, finishRef>>
Server == <<run, stored>>

-----------------------------------------------------------------------------
None   == 0
Slots  == 1 .. MaxStreams
Events == {"token", "complete", "ask"}

Stream == [kind : {"post", "resume"}, chat : Chats \cup {NoChat}, run : Slots \cup {None},
           st : {"none", "sent", "ghost", "answered", "open", "closed"}, pos : Nat]
Run    == [st : {"none", "registered", "running", "over"}, log : Seq(Events), waits : BOOLEAN]
Ask    == [run : Slots, call : BOOLEAN]
Fetch  == [chat : Chats, live : BOOLEAN, stage : {"asked", "answer"},
           texts : SUBSET Slots, found : BOOLEAN, active : Slots \cup {None}]

Opened(kind, c, r, st) == [kind |-> kind, chat |-> c, run |-> r, st |-> st, pos |-> 0]

Unused == Opened("post", NoChat, None, "none")
NoLog  == [st |-> "none", log |-> <<>>, waits |-> FALSE]

(* A page that has just been opened, perhaps while another tab runs chat c. *)
Init ==
  /\ view = NoChat /\ shown = {} /\ loading = FALSE
  /\ runRef = None /\ cancelRef = None /\ finishRef = None
  /\ approvals = {} /\ timers = {}
  /\ tracked = [c \in Chats |-> None]
  /\ fetches = {} /\ loads = 0 /\ stopping = None /\ strays = {}
  /\ \E c \in Chats : stored = {c}
  /\ \/ /\ stream = [s \in Slots |-> Unused]
        /\ run = [s \in Slots |-> NoLog]
     \/ \E c \in stored :
          /\ stream = [s \in Slots |-> IF s = 1 THEN Opened("post", c, 1, "closed") ELSE Unused]
          /\ run = [s \in Slots |-> IF s = 1 THEN [NoLog EXCEPT !.st = "running"] ELSE NoLog]

-----------------------------------------------------------------------------
(* Streams *)

IsNext(s) == stream[s].st = "none" /\ \A p \in Slots : p < s => stream[p].st # "none"
Live(s)   == stream[s].st \in {"sent", "answered", "open"}

(* controller.abort(): the handlers are not called again; a request that   *)
(* is still on its way may or may not reach the server.                    *)
Aborted(st, s) ==
  IF s = None THEN st
  ELSE [st EXCEPT ![s].st = IF @ = "sent" /\ st[s].kind = "post" THEN "ghost"
                            ELSE IF @ = "ghost" THEN @ ELSE "closed",
                  ![s].pos = 0]

Closed(s) == stream' = [stream EXCEPT ![s].st = "closed", ![s].pos = 0]

Taken(c) == c \in stored \/ \E s \in Slots : stream[s].chat = c

-----------------------------------------------------------------------------
(* The history of a chat *)

Superseded == {[f EXCEPT !.live = FALSE] : f \in fetches}

Load(c) ==
  /\ shown' = {}
  /\ IF c = NoChat
     THEN /\ fetches' = Superseded
          /\ UNCHANGED loads
     ELSE /\ loads < MaxLoads
          /\ fetches' = Superseded \cup
               {[chat |-> c, live |-> TRUE, stage |-> "asked", texts |-> {},
                 found |-> FALSE, active |-> None]}
          /\ loads' = loads + 1

\* Mutant: the stream of the chat that is left goes on.
LeaveKeepsStream(st, s) == st

(* The effect on [activeChatId] and the cleanup of finishRunRef; st are    *)
(* the streams as the handler that changed the chat left them, s the one   *)
(* streamCancelRef holds.                                                  *)
Leave(st, s) == Aborted(st, s)

LeaveChat(c) ==
  /\ view' = c
  /\ loading' = FALSE
  /\ runRef' = None /\ cancelRef' = None /\ finishRef' = None
  /\ Load(c)

(* Another chat, or a new one, is opened: navigate of the sidebar.         *)
Switch(c) ==
  /\ c # view
  /\ LeaveChat(c)
  /\ stream' = Leave(stream, cancelRef)
  /\ UNCHANGED <<approvals, timers, tracked, stopping, strays, Server>>

(* A letter in the search box, a cron job that ends in this chat, or a new *)
(* identity of resumeActiveRun: the history is loaded again.               *)
Reload ==
  /\ view # NoChat
  /\ Load(view)
  /\ UNCHANGED <<view, loading, Refs, approvals, timers, tracked, stopping, stream, strays,
                 Server>>

(* GET /chats/:id/messages, then GET /chats/:id are answered.              *)
TextsOf(c) == {r \in Slots : stream[r].chat = c /\ run[r].log # <<>>}

ActiveRuns(c) == {r \in Slots : stream[r].chat = c /\ run[r].st \in {"registered", "running"}}

Answer(f) ==
  /\ f \in fetches /\ f.stage = "asked"
  /\ \E a \in Slots \cup {None} :
       /\ IF ActiveRuns(f.chat) = {} \/ f.chat \notin stored THEN a = None
          ELSE a \in ActiveRuns(f.chat)
       /\ fetches' = (fetches \ {f}) \cup
            {[f EXCEPT !.stage = "answer", !.found = f.chat \in stored, !.active = a,
                       !.texts = TextsOf(f.chat)]}
  /\ UNCHANGED <<view, shown, loading, Refs, approvals, timers, tracked, loads, stopping,
                 stream, strays, Server>>

(* resumeActiveRun: the stream that streamCancelRef held is not cancelled. *)
Resume(r, c) ==
  \E s \in Slots :
    /\ IsNext(s)
    /\ stream' = [stream EXCEPT ![s] = Opened("resume", c, r, "sent")]
    /\ strays' = strays \cup {stream[p].run : p \in {q \in {cancelRef} \ {None} : Live(q)}}
                        \cup {p \in {r} : c # view}
    /\ cancelRef' = s /\ finishRef' = s /\ runRef' = r
    /\ loading' = TRUE

StayAsIs == UNCHANGED <<loading, Refs, stream, strays>>

(* The history arrives.                                                    *)
Arrive(f) ==
  /\ f \in fetches /\ f.stage = "answer" /\ f.found
  /\ fetches' = fetches \ {f}
  /\ IF ~f.live THEN UNCHANGED <<shown, tracked>> /\ StayAsIs
     ELSE /\ shown' = f.texts
          /\ IF f.active = None
             THEN tracked' = [tracked EXCEPT ![f.chat] = None] /\ StayAsIs
             ELSE /\ UNCHANGED tracked
                  /\ IF runRef \in {None, f.active} THEN Resume(f.active, f.chat) ELSE StayAsIs
  /\ UNCHANGED <<view, approvals, timers, loads, stopping, Server>>

(* The chat has no row yet (404): the catch looks for a tracked run, and   *)
(* not at whether the load is still wanted.                                *)
ArriveMissing(f) ==
  /\ f \in fetches /\ f.stage = "answer" /\ ~f.found
  /\ fetches' = fetches \ {f}
  /\ IF tracked[f.chat] # None /\ runRef = None
     THEN Resume(tracked[f.chat], f.chat) ELSE StayAsIs
  /\ UNCHANGED <<view, shown, approvals, timers, tracked, loads, stopping, Server>>

(* A load fails otherwise: the error is shown.                             *)
LoadFails(f) ==
  /\ f \in fetches
  /\ fetches' = fetches \ {f}
  /\ UNCHANGED <<view, shown, loading, Refs, approvals, timers, tracked, loads, stopping,
                 stream, strays, Server>>

-----------------------------------------------------------------------------
(* Sending and stopping *)

Posting(s, c) ==
  [Aborted(stream, cancelRef) EXCEPT ![s] = Opened("post", c, s, "sent")]

(* handleSend that finds no agent or no model, after it has cleared the    *)
(* stream and the approvals.                                               *)
SendRefused ==
  /\ ~loading
  /\ stream' = Aborted(stream, cancelRef)
  /\ cancelRef' = None
  /\ approvals' = {}
  /\ UNCHANGED <<view, shown, loading, runRef, finishRef, timers, tracked, fetches, loads,
                 stopping, strays, Server>>

(* handleSend in a chat.                                                   *)
Send ==
  /\ ~loading /\ view # NoChat
  /\ \E s \in Slots : /\ IsNext(s)
                      /\ stream' = Posting(s, view)
                      /\ cancelRef' = s
  /\ loading' = TRUE
  /\ approvals' = {}
  /\ UNCHANGED <<view, shown, runRef, finishRef, timers, tracked, fetches, loads, stopping,
                 strays, Server>>

(* handleSend in the view of a new chat: navigate makes the effects of a   *)
(* chat change follow, which abort the request that was just made.         *)
SendFirst(c) ==
  /\ ~loading /\ view = NoChat /\ ~Taken(c)
  /\ \E s \in Slots : IsNext(s) /\ stream' = Leave(Posting(s, c), s)
  /\ approvals' = {}
  /\ LeaveChat(c)
  /\ UNCHANGED <<timers, tracked, stopping, strays, Server>>

(* finishRun of stream s.                                                  *)
FinishRun(s) ==
  /\ runRef' = IF approvals = {} THEN None ELSE runRef
  /\ loading' = FALSE
  /\ stream' = Aborted(stream, cancelRef)
  /\ cancelRef' = None
  /\ finishRef' = IF stream[s].kind = "resume" THEN None ELSE finishRef
  /\ tracked' = [tracked EXCEPT ![stream[s].chat] = None]

(* The 50 ms are over.                                                     *)
Timer(s) ==
  /\ s \in timers
  /\ timers' = timers \ {s}
  /\ FinishRun(s)
  /\ UNCHANGED <<view, shown, approvals, fetches, loads, stopping, strays, Server>>

(* handleStop: the request aborts the run, which rejects its approvals.    *)
(* Bound: one request at a time.                                           *)
Stop ==
  /\ runRef # None /\ stopping = None
  /\ stopping' = runRef
  /\ run' = [run EXCEPT ![runRef].waits = FALSE]
  /\ UNCHANGED <<view, shown, loading, Refs, approvals, timers, tracked, fetches, loads,
                 stream, strays, stored>>

(* Its continuation, in whatever chat is open by then.                     *)
StopAnswered ==
  /\ stopping # None
  /\ stopping' = None
  /\ stream' = Aborted(stream, cancelRef)
  /\ runRef' = None /\ cancelRef' = None
  /\ approvals' = {}
  /\ loading' = FALSE
  /\ finishRef' = None
  /\ timers' = timers \ {finishRef}
  /\ tracked' = IF finishRef = None THEN tracked
                ELSE [tracked EXCEPT ![stream[finishRef].chat] = None]
  /\ UNCHANGED <<view, shown, fetches, loads, strays, Server>>

(* submitToolApproval: the server takes an answer only under the call id,  *)
(* which the entries of a resumed stream lack.                             *)
Approve(e) ==
  /\ e \in approvals /\ e.call /\ e.run = runRef /\ run[e.run].waits
  /\ run' = [run EXCEPT ![e.run].waits = FALSE]
  /\ approvals' = approvals \ {e}
  /\ UNCHANGED <<view, shown, loading, Refs, timers, tracked, fetches, loads, stopping,
                 stream, strays, stored>>

-----------------------------------------------------------------------------
(* What the streams deliver *)

Client == <<view, shown, loading, Refs, approvals, timers, tracked, fetches, loads, stopping,
            strays>>

(* POST /runs arrives, even one that has been aborted.                     *)
ReceivePost(s) ==
  /\ stream[s].kind = "post" /\ stream[s].st \in {"sent", "ghost"}
  /\ run' = [run EXCEPT ![s].st = "registered"]
  /\ stream' = [stream EXCEPT ![s].st = IF @ = "sent" THEN "answered" ELSE "closed"]
  /\ UNCHANGED <<Client, stored>>

(* An aborted request is lost.                                             *)
Lost(s) ==
  /\ stream[s].st = "ghost"
  /\ Closed(s)
  /\ UNCHANGED <<Client, Server>>

(* The header of the answer names the run: onStarted.                      *)
Started(s) ==
  /\ stream[s].st = "answered"
  /\ stream' = [stream EXCEPT ![s].st = "open"]
  /\ runRef' = s
  /\ tracked' = [tracked EXCEPT ![stream[s].chat] = s]
  /\ UNCHANGED <<view, shown, loading, cancelRef, finishRef, approvals, timers, fetches,
                 loads, stopping, strays, Server>>

(* GET /runs/:id/stream finds the state of the run.                        *)
Attach(s) ==
  /\ stream[s].kind = "resume" /\ stream[s].st = "sent"
  /\ stream' = [stream EXCEPT ![s].st = "open"]
  /\ UNCHANGED <<Client, Server>>

(* onEvent.  A resumed stream takes the output of a complete event for the *)
(* only answer; the one of a POST adds it unless its text was streamed.    *)
Shows(s, event) ==
  CASE event = "ask"      -> {shown}
    [] event = "token"    -> {shown \cup {stream[s].run}}
    [] event = "complete" -> IF stream[s].kind = "resume" THEN {{stream[s].run}}
                             ELSE {shown, shown \cup {stream[s].run}}

Deliver(s) ==
  LET r == stream[s].run
      i == stream[s].pos + 1
  IN  /\ stream[s].st = "open" /\ i <= Len(run[r].log)
      /\ stream' = [stream EXCEPT ![s].pos = i]
      /\ shown' \in Shows(s, run[r].log[i])
      /\ approvals' = IF run[r].log[i] = "ask"
                      THEN approvals \cup {[run |-> r, call |-> stream[s].kind = "post"]}
                      ELSE approvals
      /\ UNCHANGED <<view, loading, Refs, timers, tracked, fetches, loads, stopping, strays,
                     Server>>

\* Mutant: the end of a stream is noted, but not made the end of its run.
Unscheduled(s) == timers

Scheduled(s) == timers \cup {s}

(* setTimeout(finishRun, 50)                                               *)
Ends(s) ==
  /\ Closed(s)
  /\ timers' = Scheduled(s)
  /\ UNCHANGED <<view, shown, loading, Refs, approvals, tracked, fetches, loads, stopping,
                 strays, Server>>

(* onFinished, behind all events.                                          *)
Finished(s) ==
  /\ stream[s].st = "open"
  /\ stream[s].pos = Len(run[stream[s].run].log) /\ run[stream[s].run].st = "over"
  /\ Ends(s)

(* onError: the request is refused, the state of the run has been freed,   *)
(* or the connection drops.                                                *)
Fail(s) == Live(s) /\ Ends(s)

(* The poll of the sidebar sees that a run is over.                        *)
Poll(c) ==
  /\ tracked[c] # None /\ run[tracked[c]].st = "over"
  /\ tracked' = [tracked EXCEPT ![c] = None]
  /\ UNCHANGED <<view, shown, loading, Refs, approvals, timers, fetches, loads, stopping,
                 stream, strays, Server>>

-----------------------------------------------------------------------------
(* The runs on the server *)

(* executeRun stores the chat.                                             *)
StoreChat(r) ==
  /\ run[r].st = "registered"
  /\ run' = [run EXCEPT ![r].st = "running"]
  /\ stored' = stored \cup {stream[r].chat}
  /\ UNCHANGED <<Client, stream>>

Emit(r, event) ==
  /\ run[r].st = "running" /\ Len(run[r].log) < MaxEvents
  /\ event = "ask" => ~run[r].waits
  /\ run' = [run EXCEPT ![r].log = Append(@, event), ![r].waits = @ \/ event = "ask"]
  /\ UNCHANGED <<Client, stream, stored>>

Settle(r) ==
  /\ run[r].st \in {"registered", "running"} /\ ~run[r].waits
  /\ run' = [run EXCEPT ![r].st = "over"]
  /\ UNCHANGED <<Client, stream, stored>>

Next ==
  \/ Reload \/ SendRefused \/ Send \/ Stop \/ StopAnswered
  \/ \E c \in Chats \cup {NoChat} : Switch(c)
  \/ \E c \in Chats : SendFirst(c) \/ Poll(c)
  \/ \E f \in fetches : Answer(f) \/ Arrive(f) \/ ArriveMissing(f)
                          \/ LoadFails(f)
  \/ \E e \in approvals : Approve(e)
  \/ \E s \in Slots :
       \/ Timer(s) \/ ReceivePost(s) \/ Lost(s) \/ Started(s) \/ Attach(s) \/ Deliver(s)
       \/ Finished(s) \/ Fail(s) \/ StoreChat(s) \/ Settle(s)
       \/ \E event \in Events : Emit(s, event)

Spec == Init /\ [][Next]_vars

-----------------------------------------------------------------------------
(* Every variable keeps its shape.                                         *)
TypeOK ==
  /\ view \in Chats \cup {NoChat}
  /\ shown \in SUBSET Slots
  /\ loading \in BOOLEAN
  /\ runRef \in Slots \cup {None}
  /\ cancelRef \in Slots \cup {None}
  /\ finishRef \in Slots \cup {None}
  /\ approvals \in SUBSET Ask
  /\ timers \in SUBSET Slots
  /\ tracked \in [Chats -> Slots \cup {None}]
  /\ fetches \in SUBSET Fetch
  /\ loads \in 0 .. MaxLoads
  /\ stopping \in Slots \cup {None}
  /\ stream \in [Slots -> Stream]
  /\ strays \in SUBSET Slots
  /\ run \in [Slots -> Run]
  /\ stored \in SUBSET Chats

(* However loads, streams, timers and chat changes interleave, the text in *)
(* the view and the run that Stop and the approvals address belong to the  *)
(* chat that is open: the purpose of the effect on activeChatId. What      *)
(* escapes are the runs of a stream that a second resume left uncancelled, *)
(* or that a superseded load resumed.                                      *)
ViewIsOfItsChat ==
  \A r \in shown \cup ({runRef} \ {None}) :
    stream[r].chat = view \/ r \in strays

(* The composer is never left loading: as long as it is, the stream whose  *)
(* end releases it is live and is the one that Stop and a change of chat   *)
(* cancel, or a finishRun is due, whatever was cancelled, replaced or      *)
(* failed before.                                                          *)
LoadingHasEnd ==
  loading => timers # {} \/ (cancelRef # None /\ Live(cancelRef))
=============================================================================
