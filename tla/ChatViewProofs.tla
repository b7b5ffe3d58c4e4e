--------------------------- MODULE ChatViewProofs ---------------------------
(***************************************************************************)
(* Proofs that what a view shows and addresses belongs to its chat, that a *)
(* loading composer is released, and that the sidebar beside it shows one  *)
(* user and keeps its stop buttons, for any chats, streams and runs.       *)
(* Inv is inductive: Origins says which chat every stream, tracked run and *)
(* history load comes from, and Held that a live stream is the one that    *)
(* can be cancelled, and of the open chat, unless its run has strayed.     *)
(***************************************************************************)
EXTENDS ChatView, ChatSidebar, TLAPS

\* A slot keeps the chat it was opened for, and a run the chat of its POST.
StreamsKnown ==
  \A s \in Slots :
    /\ stream[s].st = "none" => stream[s].chat = NoChat
    /\ stream[s].st # "none" =>
         /\ stream[s].chat \in Chats /\ stream[s].run \in Slots
         /\ stream[stream[s].run].chat = stream[s].chat
         /\ stream[s].kind = "post" => stream[s].run = s
    /\ stream[s].st = "answered" => stream[s].kind = "post"
    /\ run[s].st # "none" => stream[s].st # "none"

TrackedKnown == \A c \in Chats : tracked[c] # None => stream[tracked[c]].chat = c

FetchKnown(f) ==
  /\ f.active # None => stream[f.active].chat = f.chat
  /\ \A r \in f.texts : stream[r].chat = f.chat
  /\ f.live => f.chat = view

FetchesKnown == \A f \in fetches : FetchKnown(f)

CancelKnown == cancelRef # None => stream[cancelRef].st # "none"

Origins == StreamsKnown /\ TrackedKnown /\ FetchesKnown /\ CancelKnown

Held ==
  \A s \in Slots :
    Live(s) => stream[s].run \in strays \/ (s = cancelRef /\ stream[s].chat = view)

OfView(r) == stream[r].chat \in Chats /\ (stream[r].chat = view \/ r \in strays)

InView == \A r \in Slots : r \in shown \/ r = runRef => OfView(r)

Inv == TypeOK /\ Origins /\ Held /\ InView

\* What a change of the streams that opens none leaves alone.
Kept(st) ==
  /\ st \in [Slots -> Stream]
  /\ \A s \in Slots :
       /\ st[s].kind = stream[s].kind /\ st[s].chat = stream[s].chat /\ st[s].run = stream[s].run
       /\ st[s].st = "none" <=> stream[s].st = "none"
       /\ st[s].st = "answered" => stream[s].st = "answered" \/ stream[s].kind = "post"

LEMMA NoneIsNoSlot == None \notin Slots
BY DEF None, Slots

LEMMA InitInv == Init => Inv
<1> SUFFICES ASSUME Init PROVE Inv
  OBVIOUS
<1>1. Unused \in Stream /\ Unused.st = "none" /\ Unused.chat = NoChat
  BY DEF Unused, Opened, Stream
<1>2. \A c \in Chats : 1 \in Slots => Opened("post", c, 1, "closed") \in Stream
  BY DEF Opened, Stream
<1>3. NoLog \in Run /\ [NoLog EXCEPT !.st = "running"] \in Run
  <2>1. <<>> \in Seq(Events)
    OBVIOUS
  <2> QED
    BY <2>1 DEF NoLog, Run
<1>4. stream \in [Slots -> Stream] /\ run \in [Slots -> Run]
  BY <1>1, <1>2, <1>3 DEF Init
<1>5. TypeOK
  <2>1. loads \in 0 .. MaxLoads
    BY ViewAssumption DEF Init
  <2>2. stored \in SUBSET Chats /\ tracked \in [Chats -> Slots \cup {None}]
    BY DEF Init
  <2> QED
    BY <1>4, <2>1, <2>2 DEF Init, TypeOK
<1>6. StreamsKnown
  <2>1. \A s \in Slots : run[s].st # "none" => stream[s].st # "none"
    BY <1>1 DEF Init, NoLog, Opened
  <2> QED
    BY <1>1, <2>1 DEF Init, StreamsKnown, Opened, Unused
<1>7. TrackedKnown /\ FetchesKnown /\ CancelKnown
  BY DEF Init, TrackedKnown, FetchesKnown, CancelKnown
<1>8. Held
  BY <1>1 DEF Init, Held, Live, Opened, Unused
<1>9. InView
  BY NoneIsNoSlot DEF Init, InView
<1> QED
  BY <1>5, <1>6, <1>7, <1>8, <1>9 DEF Inv, Origins

\* Cancelling a stream leaves every other one as it was.
LEMMA AbortKeeps ==
  ASSUME Inv, NEW s \in Slots \cup {None}, s # None => stream[s].st # "none"
  PROVE  /\ Kept(Aborted(stream, s))
         /\ \A p \in Slots : p # s => Aborted(stream, s)[p] = stream[p]
         /\ s # None => Aborted(stream, s)[s].st \in {"ghost", "closed"}
<1>1. stream \in [Slots -> Stream]
  BY DEF Inv, TypeOK
<1>2. CASE s = None
  BY <1>1, <1>2, NoneIsNoSlot DEF Aborted, Kept
<1>3. CASE s # None
  <2> DEFINE new == IF stream[s].st = "sent" /\ stream[s].kind = "post" THEN "ghost"
                    ELSE IF stream[s].st = "ghost" THEN "ghost" ELSE "closed"
  <2>1. Aborted(stream, s) = [stream EXCEPT ![s].st = new, ![s].pos = 0]
    BY <1>1, <1>3 DEF Aborted
  <2>2. new \in {"ghost", "closed"}
    OBVIOUS
  <2> HIDE DEF new
  <2>3. stream[s] \in Stream /\ s \in Slots
    BY <1>1, <1>3
  <2>4. [stream[s] EXCEPT !.st = new, !.pos = 0] \in Stream
    BY <2>2, <2>3 DEF Stream
  <2>5. Aborted(stream, s) = [stream EXCEPT ![s] = [stream[s] EXCEPT !.st = new, !.pos = 0]]
    BY <2>1, <1>1
  <2> QED
    BY <1>1, <1>3, <2>2, <2>3, <2>4, <2>5 DEF Kept, Stream
<1> QED
  BY <1>2, <1>3

\* A slot that had a chat keeps it, whatever else happens to the streams.
Grown == \A s \in Slots : stream[s].chat # NoChat => stream'[s].chat = stream[s].chat

\* A run begins only in a slot whose stream is in use.
RunsBegin ==
  \A s \in Slots : run'[s].st # "none" => run[s].st # "none" \/ stream[s].st # "none"

LEMMA OriginsKept ==
  ASSUME Inv, RunsBegin, Kept(stream'), TypeOK', UNCHANGED <<view, fetches>>,
         \A c \in Chats : tracked'[c] \in {tracked[c], None},
         cancelRef' \in {cancelRef, None}
  PROVE  Origins'
<1>1. StreamsKnown'
  BY DEF Inv, Origins, StreamsKnown, Kept, TypeOK, RunsBegin
<1>2. TrackedKnown'
  BY DEF Inv, Origins, TrackedKnown, Kept, TypeOK
<1>3. FetchesKnown'
  BY DEF Inv, Origins, FetchesKnown, FetchKnown, Kept, TypeOK, Fetch
<1>4. CancelKnown'
  BY DEF Inv, Origins, CancelKnown, Kept, TypeOK
<1> QED
  BY <1>1, <1>2, <1>3, <1>4 DEF Origins

\* Streams that only end, in a view that stays.
LEMMA HeldKept ==
  ASSUME Inv, Kept(stream'), UNCHANGED <<view, strays>>,
         \A s \in Slots : Live(s)' => Live(s) /\ (s = cancelRef => s = cancelRef')
  PROVE  Held'
BY DEF Inv, Held, Kept

LEMMA InViewKept ==
  ASSUME Inv, Kept(stream'), UNCHANGED <<view, strays>>,
         shown' \subseteq shown, runRef' \in {runRef, None}
  PROVE  InView'
BY NoneIsNoSlot DEF Inv, InView, OfView, Kept

LEMMA SameIsKept == ASSUME Inv, UNCHANGED stream PROVE Kept(stream')
BY DEF Inv, TypeOK, Kept

-----------------------------------------------------------------------------
(* Actions that leave the streams as they are. *)

\* A load that is given up is still a load.
LEMMA SupersededTyped == ASSUME Inv PROVE Superseded \subseteq Fetch
<1>1. \A f \in fetches : f \in Fetch
  BY DEF Inv, TypeOK
<1>2. \A f \in Fetch : [f EXCEPT !.live = FALSE] \in Fetch
  BY DEF Fetch
<1> QED
  BY <1>1, <1>2 DEF Superseded

LEMMA ReloadInv == ASSUME Inv, Reload PROVE Inv'
<1>1. view \in Chats /\ UNCHANGED <<view, loading, Refs, approvals, timers, tracked, stopping,
                                  stream, strays, Server>>
      /\ shown' = {} /\ loads < MaxLoads /\ loads' = loads + 1
  BY DEF Reload, Load, Inv, TypeOK
<1> DEFINE newLoad == [chat |-> view, live |-> TRUE, stage |-> "asked", texts |-> {},
                       found |-> FALSE, active |-> None]
<1>2. fetches' = Superseded \cup {newLoad}
  BY DEF Reload, Load
<1>3. newLoad \in Fetch
  BY <1>1 DEF Fetch
<1>4. Superseded \subseteq Fetch
  BY SupersededTyped
<1>5. TypeOK'
  <2>1. loads' \in 0 .. MaxLoads
    BY <1>1, ViewAssumption DEF Inv, TypeOK
  <2>2. fetches' \in SUBSET Fetch
    BY <1>2, <1>3, <1>4
  <2> QED
    BY <1>1, <2>1, <2>2 DEF Inv, TypeOK, Refs, Server
<1>6. FetchesKnown'
  <2>1. \A f \in Superseded : FetchKnown(f)
    BY DEF Superseded, FetchKnown, Inv, Origins, FetchesKnown, TypeOK, Fetch
  <2>2. FetchKnown(newLoad)
    BY DEF FetchKnown
  <2> QED
    BY <1>1, <1>2, <2>1, <2>2 DEF FetchesKnown, FetchKnown
<1>7. StreamsKnown' /\ TrackedKnown' /\ CancelKnown'
  BY <1>1 DEF Inv, Origins, StreamsKnown, TrackedKnown, CancelKnown, Refs, Server
<1>8. Held' /\ InView'
  BY <1>1 DEF Inv, Held, Live, InView, OfView, Refs
<1> QED
  BY <1>5, <1>6, <1>7, <1>8 DEF Inv, Origins

LEMMA AnswerInv == ASSUME Inv, NEW f \in fetches, Answer(f) PROVE Inv'
<1>1. UNCHANGED <<view, shown, loading, Refs, approvals, timers, tracked, loads, stopping,
                  stream, strays, Server>>
  BY DEF Answer
<1>2. PICK a \in Slots \cup {None} :
        /\ a # None => stream[a].chat = f.chat
        /\ fetches' = (fetches \ {f}) \cup
             {[f EXCEPT !.stage = "answer", !.found = f.chat \in stored, !.active = a,
                        !.texts = TextsOf(f.chat)]}
  BY DEF Answer, ActiveRuns
<1> DEFINE g == [f EXCEPT !.stage = "answer", !.found = f.chat \in stored, !.active = a,
                          !.texts = TextsOf(f.chat)]
<1>3. f \in Fetch /\ FetchKnown(f)
  BY DEF Inv, TypeOK, Origins, FetchesKnown
<1>4. TextsOf(f.chat) \subseteq Slots /\ \A r \in TextsOf(f.chat) : stream[r].chat = f.chat
  BY DEF TextsOf
<1>5. g \in Fetch
  <2> DEFINE b == f.chat \in stored
             t == TextsOf(f.chat)
  <2>1. b \in BOOLEAN /\ t \in SUBSET Slots
    BY <1>4
  <2>2. g = [f EXCEPT !.stage = "answer", !.found = b, !.active = a, !.texts = t]
    OBVIOUS
  <2> HIDE DEF b, t, g
  <2> QED
    BY <1>3, <2>1, <2>2 DEF Fetch
<1>6. FetchKnown(g)
  BY <1>2, <1>3, <1>4 DEF FetchKnown, Fetch
<1>7. TypeOK'
  BY <1>1, <1>2, <1>5 DEF Inv, TypeOK, Refs, Server
<1>8. Origins'
  <2>1. StreamsKnown' /\ TrackedKnown' /\ CancelKnown'
    BY <1>1 DEF Inv, Origins, StreamsKnown, TrackedKnown, CancelKnown, Refs, Server
  <2>2. \A e \in fetches' : FetchKnown(e)
    BY <1>2, <1>6 DEF Inv, Origins, FetchesKnown
  <2>3. stream' = stream /\ view' = view
    BY <1>1
  <2>4. FetchesKnown'
    BY <2>2, <2>3 DEF FetchesKnown, FetchKnown
  <2> QED
    BY <2>1, <2>4 DEF Origins
<1>9. Held' /\ InView'
  BY <1>1 DEF Inv, Held, Live, InView, OfView, Refs
<1> QED
  BY <1>7, <1>8, <1>9 DEF Inv

LEMMA LoadFailsInv == ASSUME Inv, NEW f \in fetches, LoadFails(f) PROVE Inv'
<1>1. fetches' \subseteq fetches
      /\ UNCHANGED <<view, shown, loading, Refs, approvals, timers, tracked, loads, stopping,
                     stream, strays, Server>>
  BY DEF LoadFails
<1>2. TypeOK'
  BY <1>1 DEF Inv, TypeOK, Refs, Server
<1>3. Origins'
  BY <1>1 DEF Inv, Origins, StreamsKnown, TrackedKnown, CancelKnown, FetchesKnown, FetchKnown,
              Refs, Server
<1>4. Held' /\ InView'
  BY <1>1 DEF Inv, Held, Live, InView, OfView, Refs
<1> QED
  BY <1>2, <1>3, <1>4 DEF Inv

\* The variables that Origins, Held and InView are about.
Followed == <<view, shown, runRef, cancelRef, tracked, fetches, stream, strays>>

LEMMA FollowedSame == ASSUME Inv, RunsBegin, TypeOK', UNCHANGED Followed PROVE Inv'
<1>1. Origins'
  BY DEF Inv, Followed, Origins, StreamsKnown, TrackedKnown, CancelKnown, FetchesKnown,
         FetchKnown, RunsBegin
<1>2. Held' /\ InView'
  BY DEF Inv, Followed, Held, Live, InView, OfView
<1> QED
  BY <1>1, <1>2 DEF Inv

\* The runs of the server; stop and approve change them as well.
LEMMA RunWhole ==
  ASSUME Inv, NEW r \in Slots
  PROVE  /\ run \in [Slots -> Run] /\ run[r] \in Run
         /\ [run[r] EXCEPT !.waits = FALSE] \in Run
         /\ [run[r] EXCEPT !.st = "over"] \in Run
         /\ [run[r] EXCEPT !.st = "running"] \in Run
         /\ [run[r] EXCEPT !.st = "registered"] \in Run
<1>1. run \in [Slots -> Run] /\ run[r] \in Run
  BY DEF Inv, TypeOK
<1> QED
  BY <1>1 DEF Run

LEMMA StopInv == ASSUME Inv, Stop PROVE Inv'
<1>1. runRef \in Slots
  BY DEF Stop, Inv, TypeOK
<1>2. run' \in [Slots -> Run]
  BY <1>1, RunWhole DEF Stop
<1>3. TypeOK'
  BY <1>1, <1>2 DEF Stop, Inv, TypeOK, Refs
<1>4. RunsBegin
  BY <1>1, RunWhole DEF Stop, Run, RunsBegin
<1> QED
  BY <1>3, <1>4, FollowedSame DEF Stop, Followed, Refs

LEMMA ApproveInv == ASSUME Inv, NEW e \in approvals, Approve(e) PROVE Inv'
<1>1. e.run \in Slots
  BY DEF Inv, TypeOK, Ask
<1>2. run' \in [Slots -> Run]
  BY <1>1, RunWhole DEF Approve
<1>3. TypeOK'
  BY <1>2 DEF Approve, Inv, TypeOK, Refs
<1>4. RunsBegin
  BY <1>1, RunWhole DEF Approve, Run, RunsBegin
<1> QED
  BY <1>3, <1>4, FollowedSame DEF Approve, Followed, Refs

LEMMA SettleInv == ASSUME Inv, NEW s \in Slots, Settle(s) PROVE Inv'
<1>1. run' \in [Slots -> Run]
  BY RunWhole DEF Settle
<1>2. TypeOK'
  BY <1>1 DEF Settle, Inv, TypeOK, Client, Refs
<1>3. RunsBegin
  BY RunWhole DEF Settle, Run, RunsBegin
<1> QED
  BY <1>2, <1>3, FollowedSame DEF Settle, Followed, Client, Refs

LEMMA EmitInv == ASSUME Inv, NEW s \in Slots, NEW event \in Events, Emit(s, event) PROVE Inv'
<1> DEFINE l == Append(run[s].log, event)
           w == run[s].waits \/ event = "ask"
<1>1. run[s] \in Run /\ run \in [Slots -> Run]
  BY RunWhole
<1>2. l \in Seq(Events) /\ w \in BOOLEAN
  BY <1>1 DEF Run
<1> HIDE DEF l, w
<1>3. [run[s] EXCEPT !.log = l, !.waits = w] \in Run
  BY <1>1, <1>2 DEF Run
<1>4. run' = [run EXCEPT ![s] = [run[s] EXCEPT !.log = l, !.waits = w]]
  BY <1>1 DEF Emit, l, w
<1>5. run' \in [Slots -> Run]
  BY <1>1, <1>3, <1>4
<1>6. TypeOK'
  BY <1>5 DEF Emit, Inv, TypeOK, Client, Refs
<1>7. RunsBegin
  BY <1>1, <1>4, RunWhole DEF Emit, Run, RunsBegin
<1> QED
  BY <1>6, <1>7, FollowedSame DEF Emit, Followed, Client, Refs

-----------------------------------------------------------------------------
(* Actions that change streams and open none. *)

\* One stream goes on: its chat, its run and its kind stay.
GoesOn(s, x) ==
  /\ x \in Stream /\ x.kind = stream[s].kind /\ x.chat = stream[s].chat
  /\ x.run = stream[s].run
  /\ x.st = "none" <=> stream[s].st = "none"
  /\ x.st = "answered" => stream[s].kind = "post"

LEMMA GoneOn ==
  ASSUME Inv, NEW s \in Slots, NEW x, GoesOn(s, x), stream' = [stream EXCEPT ![s] = x]
  PROVE  Kept(stream') /\ stream'[s] = x /\ \A p \in Slots : p # s => stream'[p] = stream[p]
<1>1. stream \in [Slots -> Stream]
  BY DEF Inv, TypeOK
<1>2. stream' \in [Slots -> Stream] /\ stream'[s] = x
      /\ \A p \in Slots : p # s => stream'[p] = stream[p]
  BY <1>1 DEF GoesOn
<1> QED
  BY <1>2 DEF GoesOn, Kept

\* What holds of the streams when the one that can be cancelled is cancelled.
LEMMA CancelledDead ==
  ASSUME Inv, stream' = Aborted(stream, cancelRef)
  PROVE  /\ Kept(stream')
         /\ \A s \in Slots : Live(s)' => Live(s) /\ s # cancelRef
<1>1. cancelRef \in Slots \cup {None} /\ (cancelRef # None => stream[cancelRef].st # "none")
  BY DEF Inv, TypeOK, Origins, CancelKnown
<1> QED
  BY <1>1, AbortKeeps, NoneIsNoSlot DEF Live

LEMMA SendRefusedInv == ASSUME Inv, SendRefused PROVE Inv'
<1>1. Kept(stream') /\ \A s \in Slots : Live(s)' => Live(s) /\ s # cancelRef
  BY CancelledDead DEF SendRefused
<1>2. TypeOK'
  BY <1>1 DEF SendRefused, Inv, TypeOK, Server, Kept
<1>3. Origins'
  BY <1>1, <1>2, OriginsKept DEF SendRefused, Inv, TypeOK, RunsBegin, Server
<1>4. Held'
  BY <1>1, HeldKept DEF SendRefused
<1>5. InView'
  BY <1>1, InViewKept DEF SendRefused
<1> QED
  BY <1>2, <1>3, <1>4, <1>5 DEF Inv

LEMMA TimerInv == ASSUME Inv, NEW s \in Slots, Timer(s) PROVE Inv'
<1>1. Kept(stream') /\ \A p \in Slots : Live(p)' => Live(p) /\ p # cancelRef
  BY CancelledDead DEF Timer, FinishRun
<1>2. \A c \in Chats : tracked'[c] \in {tracked[c], None}
  BY DEF Timer, FinishRun, Inv, TypeOK
<1>3. tracked' \in [Chats -> Slots \cup {None}]
  BY DEF Timer, FinishRun, Inv, TypeOK
<1>4. TypeOK'
  BY <1>1, <1>3 DEF Timer, FinishRun, Inv, TypeOK, Server, Kept
<1>5. Origins'
  BY <1>1, <1>2, <1>4, OriginsKept DEF Timer, FinishRun, RunsBegin, Server
<1>6. Held'
  BY <1>1, HeldKept DEF Timer, FinishRun
<1>7. InView'
  BY <1>1, InViewKept DEF Timer, FinishRun
<1> QED
  BY <1>4, <1>5, <1>6, <1>7 DEF Inv

LEMMA StopAnsweredInv == ASSUME Inv, StopAnswered PROVE Inv'
<1>1. Kept(stream') /\ \A p \in Slots : Live(p)' => Live(p) /\ p # cancelRef
  BY CancelledDead DEF StopAnswered
<1>2. \A c \in Chats : tracked'[c] \in {tracked[c], None}
  BY DEF StopAnswered, Inv, TypeOK
<1>3. tracked' \in [Chats -> Slots \cup {None}]
  BY DEF StopAnswered, Inv, TypeOK
<1>4. TypeOK'
  BY <1>1, <1>3 DEF StopAnswered, Inv, TypeOK, Server, Kept
<1>5. Origins'
  BY <1>1, <1>2, <1>4, OriginsKept DEF StopAnswered, RunsBegin, Server
<1>6. Held'
  BY <1>1, HeldKept DEF StopAnswered
<1>7. InView'
  BY <1>1, InViewKept DEF StopAnswered
<1> QED
  BY <1>4, <1>5, <1>6, <1>7 DEF Inv

\* A stream is closed.
LEMMA ClosedDead ==
  ASSUME Inv, NEW s \in Slots, stream[s].st # "none", Closed(s)
  PROVE  Kept(stream') /\ \A p \in Slots : Live(p)' => Live(p)
<1> DEFINE x == [stream[s] EXCEPT !.st = "closed", !.pos = 0]
<1>1. stream \in [Slots -> Stream] /\ stream[s] \in Stream
  BY DEF Inv, TypeOK
<1>2. GoesOn(s, x) /\ x.st = "closed"
  BY <1>1 DEF Stream, GoesOn
<1>3. stream' = [stream EXCEPT ![s] = x]
  BY <1>1 DEF Closed
<1> HIDE DEF x
<1> QED
  BY <1>2, <1>3, GoneOn DEF Live

LEMMA EndsInv == ASSUME Inv, NEW s \in Slots, stream[s].st # "none", Ends(s) PROVE Inv'
<1>1. Kept(stream') /\ \A p \in Slots : Live(p)' => Live(p)
  BY ClosedDead DEF Ends
<1>2. TypeOK'
  BY <1>1 DEF Ends, Scheduled, Inv, TypeOK, Refs, Server, Kept
<1>3. Origins'
  BY <1>1, <1>2, OriginsKept DEF Ends, Refs, Inv, TypeOK, RunsBegin, Server
<1>4. Held'
  BY <1>1, HeldKept DEF Ends, Refs
<1>5. InView'
  BY <1>1, InViewKept DEF Ends, Refs
<1> QED
  BY <1>2, <1>3, <1>4, <1>5 DEF Inv

LEMMA LostInv == ASSUME Inv, NEW s \in Slots, Lost(s) PROVE Inv'
<1>1. Kept(stream') /\ \A p \in Slots : Live(p)' => Live(p)
  BY ClosedDead DEF Lost
<1>2. TypeOK'
  BY <1>1 DEF Lost, Client, Inv, TypeOK, Refs, Server, Kept
<1>3. Origins'
  BY <1>1, <1>2, OriginsKept DEF Lost, Client, Refs, Inv, TypeOK, RunsBegin, Server
<1>4. Held' /\ InView'
  BY <1>1, HeldKept, InViewKept DEF Lost, Client, Refs
<1> QED
  BY <1>2, <1>3, <1>4 DEF Inv

\* A live stream goes on in an action that leaves the view alone.
LEMMA LiveGoesOn ==
  ASSUME Inv, NEW s \in Slots, Live(s) \/ stream[s].st = "ghost",
         NEW x, GoesOn(s, x), x.st \in {"answered", "open", "closed"},
         stream[s].st = "ghost" => x.st = "closed",
         stream' = [stream EXCEPT ![s] = x],
         UNCHANGED <<view, cancelRef, strays>>
  PROVE  Kept(stream') /\ Held' /\ stream'[s] = x
<1>1. Kept(stream') /\ stream'[s] = x /\ \A p \in Slots : p # s => stream'[p] = stream[p]
  BY GoneOn
<1>2. \A p \in Slots : Live(p)' => Live(p)
  BY <1>1 DEF Live
<1> QED
  BY <1>1, <1>2, HeldKept

LEMMA ReceivePostInv == ASSUME Inv, NEW s \in Slots, ReceivePost(s) PROVE Inv'
<1> DEFINE to == IF stream[s].st = "sent" THEN "answered" ELSE "closed"
           x == [stream[s] EXCEPT !.st = to]
<1>1. stream \in [Slots -> Stream] /\ stream[s] \in Stream
  BY DEF Inv, TypeOK
<1>2. stream[s].kind = "post" /\ stream[s].st \in {"sent", "ghost"}
      /\ UNCHANGED <<Client, stored>>
  BY DEF ReceivePost
<1>3. stream' = [stream EXCEPT ![s] = x]
  BY <1>1 DEF ReceivePost
<1>4. to \in {"answered", "closed"} /\ (stream[s].st = "ghost" => to = "closed")
  OBVIOUS
<1> HIDE DEF to
<1>5. GoesOn(s, x) /\ x.st = to
  BY <1>1, <1>2, <1>4 DEF Stream, GoesOn
<1> HIDE DEF x
<1>6. Kept(stream') /\ Held' /\ stream'[s] = x
  BY <1>2, <1>3, <1>4, <1>5, LiveGoesOn DEF Live, Client, Refs
<1>7. run' \in [Slots -> Run]
  BY RunWhole DEF ReceivePost
<1>8. TypeOK'
  BY <1>2, <1>6, <1>7 DEF Inv, TypeOK, Client, Refs, Kept
<1>9. Origins'
  <2>1. RunsBegin
    BY <1>2, RunWhole DEF ReceivePost, RunsBegin
  <2> QED
    BY <1>2, <1>6, <1>8, <2>1, OriginsKept DEF Client, Refs, Inv, TypeOK
<1>10. InView'
  BY <1>2, <1>6, InViewKept DEF Client, Refs
<1> QED
  BY <1>6, <1>8, <1>9, <1>10 DEF Inv

LEMMA AttachInv == ASSUME Inv, NEW s \in Slots, Attach(s) PROVE Inv'
<1> DEFINE x == [stream[s] EXCEPT !.st = "open"]
<1>1. stream \in [Slots -> Stream] /\ stream[s] \in Stream
  BY DEF Inv, TypeOK
<1>2. Live(s) /\ UNCHANGED <<Client, Server>>
  BY DEF Attach, Live
<1>3. stream' = [stream EXCEPT ![s] = x]
  BY <1>1 DEF Attach
<1>4. GoesOn(s, x) /\ x.st = "open"
  BY <1>1, <1>2 DEF Stream, GoesOn, Live
<1> HIDE DEF x
<1>5. Kept(stream') /\ Held'
  BY <1>2, <1>3, <1>4, LiveGoesOn DEF Live, Client, Refs
<1>6. TypeOK'
  BY <1>2, <1>5 DEF Inv, TypeOK, Client, Refs, Server, Kept
<1>7. Origins'
  BY <1>2, <1>5, <1>6, OriginsKept DEF Client, Refs, Inv, TypeOK, RunsBegin, Server
<1>8. InView'
  BY <1>2, <1>5, InViewKept DEF Client, Refs
<1> QED
  BY <1>5, <1>6, <1>7, <1>8 DEF Inv

LEMMA StartedInv == ASSUME Inv, NEW s \in Slots, Started(s) PROVE Inv'
<1> DEFINE x == [stream[s] EXCEPT !.st = "open"]
<1>1. stream \in [Slots -> Stream] /\ stream[s] \in Stream
  BY DEF Inv, TypeOK
<1>2. Live(s) /\ stream[s].st = "answered" /\ runRef' = s
      /\ tracked' = [tracked EXCEPT ![stream[s].chat] = s]
      /\ UNCHANGED <<view, shown, loading, cancelRef, finishRef, approvals, timers, fetches,
                     loads, stopping, strays, Server>>
  BY DEF Started, Live
<1>3. stream' = [stream EXCEPT ![s] = x]
  BY <1>1 DEF Started
<1>4. GoesOn(s, x) /\ x.st = "open"
  BY <1>1, <1>2 DEF Stream, GoesOn
<1> HIDE DEF x
<1>5. Kept(stream') /\ Held' /\ stream'[s] = x
  BY <1>2, <1>3, <1>4, LiveGoesOn
<1>6. stream[s].chat \in Chats /\ stream[s].run = s
  BY <1>2 DEF Inv, Origins, StreamsKnown
<1>7. tracked' \in [Chats -> Slots \cup {None}]
  BY <1>2 DEF Inv, TypeOK
<1>8. TypeOK'
  BY <1>2, <1>5, <1>7 DEF Inv, TypeOK, Server, Kept
<1>9. Origins'
  <2>1. StreamsKnown'
    BY <1>2, <1>5 DEF Inv, Origins, StreamsKnown, Kept, TypeOK, Server
  <2>2. TrackedKnown'
    BY <1>2, <1>5, <1>6 DEF Inv, Origins, TrackedKnown, Kept, TypeOK
  <2>3. FetchesKnown'
    BY <1>2, <1>5 DEF Inv, Origins, FetchesKnown, FetchKnown, Kept, TypeOK, Fetch
  <2>4. CancelKnown'
    BY <1>2, <1>5 DEF Inv, Origins, CancelKnown, Kept, TypeOK
  <2> QED
    BY <2>1, <2>2, <2>3, <2>4 DEF Origins
<1>10. InView'
  BY <1>2, <1>5, <1>6 DEF Inv, Held, InView, OfView, Kept
<1> QED
  BY <1>5, <1>8, <1>9, <1>10 DEF Inv

LEMMA DeliverInv == ASSUME Inv, NEW s \in Slots, Deliver(s) PROVE Inv'
<1>1. stream \in [Slots -> Stream] /\ stream[s] \in Stream
  BY DEF Inv, TypeOK
<1>2. Live(s) /\ stream[s].st = "open"
      /\ UNCHANGED <<view, loading, Refs, timers, tracked, fetches, loads, stopping, strays,
                     Server>>
  BY DEF Deliver, Live
<1>3. PICK r \in Slots, i \in Nat, event \in Events :
        /\ r = stream[s].run
        /\ stream' = [stream EXCEPT ![s].pos = i]
        /\ shown' \in Shows(s, event)
        /\ approvals' = IF event = "ask"
                        THEN approvals \cup {[run |-> r, call |-> stream[s].kind = "post"]}
                        ELSE approvals
  <2>1. stream[s].run \in Slots
    BY <1>2 DEF Inv, Origins, StreamsKnown
  <2>2. stream[s].pos + 1 \in Nat
    BY <1>1 DEF Stream
  <2>3. run[stream[s].run].log \in Seq(Events)
    BY <2>1, RunWhole DEF Run
  <2>4. run[stream[s].run].log[stream[s].pos + 1] \in Events
    BY <1>1, <2>2, <2>3 DEF Deliver, Stream
  <2> QED
    BY <2>1, <2>2, <2>4 DEF Deliver
<1> DEFINE x == [stream[s] EXCEPT !.pos = i]
<1>4. stream' = [stream EXCEPT ![s] = x]
  BY <1>1, <1>3
<1>5. GoesOn(s, x) /\ x.st = "open"
  BY <1>1, <1>2 DEF Stream, GoesOn
<1> HIDE DEF x
<1>6. Kept(stream') /\ Held'
  BY <1>2, <1>4, <1>5, LiveGoesOn DEF Refs
<1>7. shown' \subseteq shown \cup {r}
  BY <1>3 DEF Shows, Events
<1>8. approvals' \in SUBSET Ask
  <2> DEFINE b == stream[s].kind = "post"
  <2>1. b \in BOOLEAN
    OBVIOUS
  <2>2. approvals' \subseteq approvals \cup {[run |-> r, call |-> b]}
    BY <1>3
  <2> HIDE DEF b
  <2>3. [run |-> r, call |-> b] \in Ask
    BY <2>1 DEF Ask
  <2> QED
    BY <2>2, <2>3 DEF Inv, TypeOK
<1>9. TypeOK'
  BY <1>2, <1>6, <1>7, <1>8 DEF Inv, TypeOK, Refs, Server, Kept
<1>10. Origins'
  BY <1>2, <1>6, <1>9, OriginsKept DEF Refs, Inv, TypeOK, RunsBegin, Server
<1>11. OfView(r)'
  BY <1>2, <1>3, <1>6 DEF Inv, Origins, StreamsKnown, Held, OfView, Kept, Refs
<1>12. InView'
  BY <1>2, <1>6, <1>7, <1>11 DEF Inv, InView, OfView, Kept, Refs
<1> QED
  BY <1>6, <1>9, <1>10, <1>12 DEF Inv

LEMMA StoreChatInv == ASSUME Inv, NEW s \in Slots, StoreChat(s) PROVE Inv'
<1>1. run' \in [Slots -> Run]
  BY RunWhole DEF StoreChat
<1>2. stream[s].chat \in Chats
  BY DEF Inv, Origins, StreamsKnown, StoreChat
<1>3. TypeOK'
  BY <1>1, <1>2 DEF StoreChat, Inv, TypeOK, Client, Refs
<1>4. RunsBegin
  BY RunWhole DEF StoreChat, Run, RunsBegin
<1> QED
  BY <1>3, <1>4, FollowedSame DEF StoreChat, Followed, Client, Refs

-----------------------------------------------------------------------------
(* Another chat is opened. *)

\* The loads after the view has become c.
LEMMA LoadFetches ==
  ASSUME Inv, NEW c \in Chats \cup {NoChat}, Load(c), view' = c, TypeOK', Grown
  PROVE  FetchesKnown'
<1>1. \A f \in Superseded : FetchKnown(f) /\ ~f.live /\ f.chat \in Chats
                           /\ f.texts \subseteq Slots /\ f.active \in Slots \cup {None}
  BY DEF Superseded, FetchKnown, Inv, Origins, FetchesKnown, TypeOK, Fetch
<1>2. \A f \in Superseded : FetchKnown(f)'
  BY <1>1, ViewAssumption DEF FetchKnown, Grown
<1>3. \A f \in fetches' : f \in Superseded
                         \/ (f.chat = c /\ f.texts = {} /\ f.active = None)
  BY DEF Load
<1> QED
  BY <1>2, <1>3 DEF FetchesKnown, FetchKnown

LEMMA LoadTyped ==
  ASSUME Inv, NEW c \in Chats \cup {NoChat}, Load(c)
  PROVE  fetches' \in SUBSET Fetch /\ loads' \in 0 .. MaxLoads /\ shown' = {}
<1> DEFINE newLoad == [chat |-> c, live |-> TRUE, stage |-> "asked", texts |-> {},
                       found |-> FALSE, active |-> None]
<1>1. Superseded \subseteq Fetch
  BY SupersededTyped
<1>2. fetches' = Superseded \/ (c \in Chats /\ fetches' = Superseded \cup {newLoad})
  BY DEF Load
<1>3. c \in Chats => newLoad \in Fetch
  BY DEF Fetch
<1>4. loads' \in 0 .. MaxLoads
  BY ViewAssumption DEF Load, Inv, TypeOK
<1> QED
  BY <1>1, <1>2, <1>3, <1>4 DEF Load

LEMMA GrownKeeps ==
  ASSUME Inv, Grown
  PROVE  /\ \A c \in Chats : tracked[c] # None => stream'[tracked[c]].chat = c
         /\ \A s \in Slots : stream[s].st # "none" =>
              stream'[stream[s].run].chat = stream[s].chat
<1>1. tracked \in [Chats -> Slots \cup {None}]
  BY DEF Inv, TypeOK
<1>2. \A c \in Chats : tracked[c] # None => tracked[c] \in Slots /\ stream[tracked[c]].chat = c
  BY <1>1 DEF Inv, Origins, TrackedKnown
<1> QED
  BY <1>2, ViewAssumption DEF Inv, Origins, StreamsKnown, Grown

LEMMA SwitchInv == ASSUME Inv, NEW c \in Chats \cup {NoChat}, Switch(c) PROVE Inv'
<1>1. Kept(stream') /\ \A s \in Slots : Live(s)' => Live(s) /\ s # cancelRef
  BY CancelledDead DEF Switch, Leave
<1>2. view' = c /\ loading' = FALSE /\ runRef' = None /\ cancelRef' = None
      /\ finishRef' = None /\ Load(c)
      /\ UNCHANGED <<approvals, timers, tracked, stopping, strays, Server>>
  BY DEF Switch, LeaveChat
<1>3. TypeOK'
  BY <1>1, <1>2, LoadTyped DEF Inv, TypeOK, Server, Kept
<1>4. Grown
  BY <1>1 DEF Kept, Grown
<1>5. Origins'
  <2>1. StreamsKnown'
    BY <1>1, <1>2 DEF Inv, Origins, StreamsKnown, Kept, TypeOK, Server
  <2>2. TrackedKnown' /\ CancelKnown'
    BY <1>2, <1>4, GrownKeeps DEF TrackedKnown, CancelKnown
  <2> QED
    BY <1>2, <1>3, <1>4, <2>1, <2>2, LoadFetches DEF Origins
<1>6. Held'
  BY <1>1, <1>2 DEF Inv, Held, Kept
<1>7. InView'
  BY <1>2, LoadTyped, NoneIsNoSlot DEF InView
<1> QED
  BY <1>3, <1>5, <1>6, <1>7 DEF Inv

-----------------------------------------------------------------------------
(* Actions that open a stream. *)

\* Streams st, with one that is opened for chat c and run r in slot s.
OpenedIn(st, s, kind, c, r, at) ==
  /\ Kept(st) /\ stream[s].st = "none"
  /\ stream' \in [Slots -> Stream]
  /\ \A p \in Slots : p # s => stream'[p] = st[p]
  /\ stream'[s].kind = kind /\ stream'[s].chat = c /\ stream'[s].run = r
  /\ stream'[s].st = at

LEMMA OpenedGrows ==
  ASSUME Inv, NEW st, NEW s \in Slots, NEW kind, NEW c \in Chats, NEW r \in Slots, NEW at,
         OpenedIn(st, s, kind, c, r, at), at \in {"sent", "ghost"},
         kind = "post" => r = s, r = s \/ stream[r].chat = c, UNCHANGED run
  PROVE  Grown /\ StreamsKnown'
<1>1. Grown
  BY DEF OpenedIn, Kept, Grown, Inv, Origins, StreamsKnown
<1>2. stream'[s].chat = c /\ stream'[r].chat = c
  BY <1>1, ViewAssumption DEF OpenedIn, Grown
<1>3. ASSUME NEW p \in Slots, p # s
      PROVE  /\ stream'[p].st = "none" => stream'[p].chat = NoChat
             /\ stream'[p].st # "none" =>
                  /\ stream'[p].chat \in Chats /\ stream'[p].run \in Slots
                  /\ stream'[stream'[p].run].chat = stream'[p].chat
                  /\ stream'[p].kind = "post" => stream'[p].run = p
             /\ stream'[p].st = "answered" => stream'[p].kind = "post"
             /\ run'[p].st # "none" => stream'[p].st # "none"
  BY <1>1, <1>3, GrownKeeps DEF OpenedIn, Kept, Inv, Origins, StreamsKnown
<1>4. /\ stream'[s].st # "none" /\ stream'[s].st # "answered"
      /\ stream'[s].chat \in Chats /\ stream'[s].run \in Slots
      /\ stream'[stream'[s].run].chat = stream'[s].chat
      /\ stream'[s].kind = "post" => stream'[s].run = s
  BY <1>2 DEF OpenedIn
<1> QED
  BY <1>1, <1>3, <1>4 DEF StreamsKnown

LEMMA FetchesGrow ==
  ASSUME Inv, Grown, view' = view, fetches' \subseteq fetches
  PROVE  FetchesKnown'
<1>1. \A f \in fetches : FetchKnown(f) /\ f.chat \in Chats
                        /\ f.texts \subseteq Slots /\ f.active \in Slots \cup {None}
  BY DEF Inv, Origins, FetchesKnown, TypeOK, Fetch
<1>2. \A f \in fetches : FetchKnown(f)'
  BY <1>1, ViewAssumption DEF FetchKnown, Grown
<1> QED
  BY <1>2 DEF FetchesKnown

\* Resume of a run r whose chat is c.
LEMMA ResumeOpens ==
  ASSUME Inv, NEW r \in Slots, NEW c \in Chats, stream[r].chat = c, Resume(r, c)
  PROVE  \E s \in Slots :
           /\ OpenedIn(stream, s, "resume", c, r, "sent")
           /\ cancelRef' = s /\ finishRef' = s /\ runRef' = r /\ loading' = TRUE
           /\ strays \subseteq strays' /\ strays' \subseteq Slots
           /\ c # view => r \in strays'
           /\ \A p \in Slots : Live(p) => stream[p].run \in strays'
<1>1. PICK s \in Slots :
        /\ IsNext(s)
        /\ stream' = [stream EXCEPT ![s] = Opened("resume", c, r, "sent")]
        /\ strays' = strays \cup {stream[p].run : p \in {q \in {cancelRef} \ {None} : Live(q)}}
                            \cup {p \in {r} : c # view}
        /\ cancelRef' = s /\ finishRef' = s /\ runRef' = r
        /\ loading' = TRUE
  BY DEF Resume
<1>2. stream \in [Slots -> Stream] /\ strays \subseteq Slots /\ cancelRef \in Slots \cup {None}
  BY DEF Inv, TypeOK
<1>3. Opened("resume", c, r, "sent") \in Stream
      /\ Opened("resume", c, r, "sent").kind = "resume"
      /\ Opened("resume", c, r, "sent").chat = c /\ Opened("resume", c, r, "sent").run = r
      /\ Opened("resume", c, r, "sent").st = "sent"
  BY DEF Opened, Stream
<1>4. Kept(stream)
  BY <1>2 DEF Kept
<1>5. OpenedIn(stream, s, "resume", c, r, "sent")
  BY <1>1, <1>2, <1>3, <1>4 DEF OpenedIn, IsNext
<1>6. \A p \in Slots : Live(p) => stream[p].run \in strays'
  BY <1>1, NoneIsNoSlot DEF Inv, Held
<1>7. \A p \in {q \in {cancelRef} \ {None} : Live(q)} : stream[p].run \in Slots
  BY <1>2 DEF Inv, Origins, StreamsKnown, Live
<1>8. strays' \subseteq Slots /\ strays \subseteq strays' /\ (c # view => r \in strays')
  BY <1>1, <1>2, <1>7
<1> QED
  BY <1>1, <1>5, <1>6, <1>8

LEMMA ResumeInv ==
  ASSUME Inv, NEW r \in Slots, NEW c \in Chats, stream[r].chat = c, Resume(r, c),
         UNCHANGED <<view, approvals, timers, tracked, loads, stopping, Server>>,
         fetches' \subseteq fetches, shown' \in SUBSET Slots,
         \A p \in shown' : OfView(p)
  PROVE  Inv'
<1>1. PICK s \in Slots :
           /\ OpenedIn(stream, s, "resume", c, r, "sent")
           /\ cancelRef' = s /\ finishRef' = s /\ runRef' = r /\ loading' = TRUE
           /\ strays \subseteq strays' /\ strays' \subseteq Slots
           /\ c # view => r \in strays'
           /\ \A p \in Slots : Live(p) => stream[p].run \in strays'
  BY ResumeOpens
<1>2. Grown /\ StreamsKnown'
  BY <1>1, OpenedGrows DEF Server
<1>3. TypeOK'
  BY <1>1 DEF OpenedIn, Inv, TypeOK, Server
<1>4. Origins'
  <2>1. TrackedKnown'
    BY <1>2, GrownKeeps DEF TrackedKnown
  <2>2. CancelKnown'
    BY <1>1 DEF OpenedIn, CancelKnown
  <2> QED
    BY <1>2, <2>1, <2>2, FetchesGrow DEF Origins
<1>5. Held'
  BY <1>1 DEF OpenedIn, Held, Live
<1>6. InView'
  <2>1. \A p \in shown' : OfView(p)'
    BY <1>1, <1>2, ViewAssumption DEF OfView, Grown
  <2>2. OfView(r)'
    BY <1>1, <1>2, ViewAssumption DEF OfView, Grown
  <2> QED
    BY <1>1, <2>1, <2>2 DEF InView
<1> QED
  BY <1>3, <1>4, <1>5, <1>6 DEF Inv

LEMMA ArriveInv == ASSUME Inv, NEW f \in fetches, Arrive(f) PROVE Inv'
<1>1. f \in Fetch /\ FetchKnown(f) /\ fetches' \subseteq fetches
      /\ UNCHANGED <<view, approvals, timers, loads, stopping, Server>>
  BY DEF Arrive, Inv, TypeOK, Origins, FetchesKnown
<1>2. /\ f.chat \in Chats /\ f.texts \in SUBSET Slots /\ f.active \in Slots \cup {None}
      /\ f.live => f.chat = view
      /\ \A r \in f.texts : stream[r].chat = f.chat
      /\ f.active # None => stream[f.active].chat = f.chat
  BY <1>1 DEF Fetch, FetchKnown
<1>3. CASE f.live /\ f.active # None /\ runRef \in {None, f.active}
  <2>1. Resume(f.active, f.chat) /\ shown' = f.texts /\ UNCHANGED tracked
    BY <1>3 DEF Arrive
  <2>2. \A p \in shown' : OfView(p)
    BY <1>2, <1>3, <2>1 DEF OfView
  <2> QED
    BY <1>1, <1>2, <1>3, <2>1, <2>2, ResumeInv
<1>4. CASE ~(f.live /\ f.active # None /\ runRef \in {None, f.active})
  <2>1. UNCHANGED <<loading, Refs, stream, strays>>
    BY <1>4 DEF Arrive, StayAsIs
  <2>2. shown' = shown \/ (f.live /\ shown' = f.texts)
    BY DEF Arrive
  <2>3. tracked' = tracked \/ tracked' = [tracked EXCEPT ![f.chat] = None]
    BY DEF Arrive
  <2>4. tracked' \in [Chats -> Slots \cup {None}]
        /\ \A c \in Chats : tracked'[c] \in {tracked[c], None}
    BY <2>3 DEF Inv, TypeOK
  <2>5. TypeOK'
    BY <1>1, <1>2, <2>1, <2>2, <2>4 DEF Inv, TypeOK, Refs, Server
  <2>6. Grown
    BY <2>1 DEF Grown
  <2>7. Origins'
    <3>1. StreamsKnown' /\ CancelKnown'
      BY <1>1, <2>1 DEF Inv, Origins, StreamsKnown, CancelKnown, Refs, Server
    <3>2. TrackedKnown'
      BY <2>1, <2>4 DEF Inv, Origins, TrackedKnown
    <3> QED
      BY <1>1, <2>6, <3>1, <3>2, FetchesGrow DEF Origins
  <2>8. Held'
    BY <1>1, <2>1 DEF Inv, Held, Live, Refs
  <2>9. InView'
    BY <1>1, <1>2, <2>1, <2>2 DEF Inv, InView, OfView, Refs
  <2> QED
    BY <2>5, <2>7, <2>8, <2>9 DEF Inv
<1> QED
  BY <1>3, <1>4

LEMMA ArriveMissingInv == ASSUME Inv, NEW f \in fetches, ArriveMissing(f) PROVE Inv'
<1>1. f \in Fetch /\ f.chat \in Chats /\ fetches' \subseteq fetches
      /\ UNCHANGED <<view, shown, approvals, timers, tracked, loads, stopping, Server>>
  BY DEF ArriveMissing, Inv, TypeOK, Fetch
<1>2. CASE tracked[f.chat] # None /\ runRef = None
  <2>1. Resume(tracked[f.chat], f.chat)
    BY <1>2 DEF ArriveMissing
  <2>2. tracked[f.chat] \in Slots /\ stream[tracked[f.chat]].chat = f.chat
    BY <1>1, <1>2 DEF Inv, TypeOK, Origins, TrackedKnown
  <2>3. shown' \in SUBSET Slots /\ \A p \in shown' : OfView(p)
    BY <1>1 DEF Inv, TypeOK, InView
  <2> QED
    BY <1>1, <2>1, <2>2, <2>3, ResumeInv
<1>3. CASE ~(tracked[f.chat] # None /\ runRef = None)
  <2>1. UNCHANGED <<loading, Refs, stream, strays>>
    BY <1>3 DEF ArriveMissing, StayAsIs
  <2>2. TypeOK'
    BY <1>1, <2>1 DEF Inv, TypeOK, Refs, Server
  <2>3. Grown
    BY <2>1 DEF Grown
  <2>4. StreamsKnown' /\ CancelKnown' /\ TrackedKnown'
    BY <1>1, <2>1 DEF Inv, Origins, StreamsKnown, CancelKnown, TrackedKnown, Refs, Server
  <2>5. FetchesKnown'
    BY <1>1, <2>3, FetchesGrow
  <2>6. Held' /\ InView'
    BY <1>1, <2>1 DEF Inv, Held, Live, InView, OfView, Refs
  <2> QED
    BY <2>2, <2>4, <2>5, <2>6 DEF Inv, Origins
<1> QED
  BY <1>2, <1>3

\* What handleSend makes of the streams: the held one is cancelled, slot s
\* gets the request for chat c.
LEMMA PostingOpens ==
  ASSUME Inv, NEW s \in Slots, IsNext(s), NEW c \in Chats
  PROVE  /\ Posting(s, c) \in [Slots -> Stream]
         /\ Posting(s, c)[s] = Opened("post", c, s, "sent")
         /\ Posting(s, c)[s].kind = "post" /\ Posting(s, c)[s].chat = c
         /\ Posting(s, c)[s].run = s /\ Posting(s, c)[s].st = "sent"
         /\ \A p \in Slots : p # s => Posting(s, c)[p] = Aborted(stream, cancelRef)[p]
         /\ Kept(Aborted(stream, cancelRef))
         /\ \A p \in Slots : Aborted(stream, cancelRef)[p].st \in {"sent", "answered", "open"}
              => Live(p) /\ p # cancelRef
<1>1. cancelRef \in Slots \cup {None} /\ (cancelRef # None => stream[cancelRef].st # "none")
  BY DEF Inv, TypeOK, Origins, CancelKnown
<1>2. Kept(Aborted(stream, cancelRef))
      /\ \A p \in Slots : Aborted(stream, cancelRef)[p].st \in {"sent", "answered", "open"}
              => Live(p) /\ p # cancelRef
  BY <1>1, AbortKeeps, NoneIsNoSlot DEF Live
<1>3. Aborted(stream, cancelRef) \in [Slots -> Stream]
  BY <1>2 DEF Kept
<1>4. Opened("post", c, s, "sent") \in Stream
  BY DEF Opened, Stream
<1>5. Posting(s, c) \in [Slots -> Stream] /\ Posting(s, c)[s] = Opened("post", c, s, "sent")
      /\ \A p \in Slots : p # s => Posting(s, c)[p] = Aborted(stream, cancelRef)[p]
  BY <1>3, <1>4 DEF Posting
<1> QED
  BY <1>2, <1>5 DEF Opened

LEMMA SendInv == ASSUME Inv, Send PROVE Inv'
<1>1. PICK s \in Slots : IsNext(s) /\ stream' = Posting(s, view) /\ cancelRef' = s
  BY DEF Send
<1>2. view \in Chats /\ loading' = TRUE /\ approvals' = {}
      /\ UNCHANGED <<view, shown, runRef, finishRef, timers, tracked, fetches, loads, stopping,
                     strays, Server>>
  BY DEF Send, Inv, TypeOK
<1>3. OpenedIn(Aborted(stream, cancelRef), s, "post", view, s, "sent")
  BY <1>1, <1>2, PostingOpens DEF OpenedIn, IsNext
<1>4. Grown /\ StreamsKnown'
  BY <1>2, <1>3, OpenedGrows DEF Server
<1>5. TypeOK'
  BY <1>1, <1>2, <1>3 DEF OpenedIn, Inv, TypeOK, Server
<1>6. Origins'
  <2>1. TrackedKnown'
    BY <1>2, <1>4, GrownKeeps DEF TrackedKnown
  <2>2. CancelKnown'
    BY <1>1, <1>3 DEF OpenedIn, CancelKnown
  <2> QED
    BY <1>2, <1>4, <2>1, <2>2, FetchesGrow DEF Origins
<1>7. Held'
  <2>1. ASSUME NEW p \in Slots, p # s, Live(p)' PROVE stream'[p].run \in strays'
    <3>1. Live(p) /\ p # cancelRef
      BY <1>1, <1>2, <2>1, PostingOpens DEF Live
    <3>2. stream'[p].run = stream[p].run
      BY <1>3, <2>1 DEF OpenedIn, Kept
    <3> QED
      BY <1>2, <3>1, <3>2 DEF Inv, Held
  <2> QED
    BY <1>1, <1>2, <1>3, <2>1 DEF Held, OpenedIn
<1>8. InView'
  BY <1>2, <1>4, ViewAssumption DEF Inv, InView, OfView, Grown
<1> QED
  BY <1>5, <1>6, <1>7, <1>8 DEF Inv

LEMMA SendFirstInv == ASSUME Inv, NEW c \in Chats, SendFirst(c) PROVE Inv'
<1>1. PICK s \in Slots : IsNext(s) /\ stream' = Leave(Posting(s, c), s)
  BY DEF SendFirst
<1>2. view' = c /\ loading' = FALSE /\ runRef' = None /\ cancelRef' = None
      /\ finishRef' = None /\ Load(c) /\ approvals' = {}
      /\ UNCHANGED <<timers, tracked, stopping, strays, Server>>
  BY DEF SendFirst, LeaveChat
<1>3. Posting(s, c) \in [Slots -> Stream] /\ Posting(s, c)[s] = Opened("post", c, s, "sent")
  BY <1>1, PostingOpens
<1> DEFINE x == [Posting(s, c)[s] EXCEPT !.st = "ghost", !.pos = 0]
<1>4. stream' = [Posting(s, c) EXCEPT ![s] = x]
  <2>1. stream' = [Posting(s, c) EXCEPT ![s].st = "ghost", ![s].pos = 0]
    BY <1>1, <1>3, NoneIsNoSlot DEF Leave, Aborted, Opened
  <2> QED
    BY <1>3, <2>1
<1>5. x \in Stream /\ x.kind = "post" /\ x.chat = c /\ x.run = s /\ x.st = "ghost"
  <2>1. Posting(s, c)[s] \in Stream
    BY <1>3
  <2>2. Posting(s, c)[s].kind = "post" /\ Posting(s, c)[s].chat = c /\ Posting(s, c)[s].run = s
    BY <1>1, PostingOpens
  <2> QED
    BY <2>1, <2>2 DEF Stream
<1> HIDE DEF x
<1>6. OpenedIn(Aborted(stream, cancelRef), s, "post", c, s, "ghost")
  BY <1>1, <1>3, <1>4, <1>5, PostingOpens DEF OpenedIn, IsNext
<1>7. Grown /\ StreamsKnown'
  BY <1>2, <1>6, OpenedGrows DEF Server
<1>8. TypeOK'
  BY <1>2, <1>6, LoadTyped DEF OpenedIn, Inv, TypeOK, Server
<1>9. Origins'
  <2>1. TrackedKnown' /\ CancelKnown'
    BY <1>2, <1>7, GrownKeeps DEF TrackedKnown, CancelKnown
  <2> QED
    BY <1>2, <1>7, <1>8, <2>1, LoadFetches DEF Origins
<1>10. Held'
  <2>1. ASSUME NEW p \in Slots, Live(p)' PROVE stream'[p].run \in strays'
    <3>1. p # s
      BY <1>6, <2>1 DEF OpenedIn, Live
    <3>2. stream'[p] = Aborted(stream, cancelRef)[p]
      BY <1>6, <3>1 DEF OpenedIn
    <3>3. Live(p) /\ p # cancelRef
      BY <1>1, <2>1, <3>2, PostingOpens DEF Live
    <3>4. stream'[p].run = stream[p].run
      BY <1>6, <3>2 DEF OpenedIn, Kept
    <3> QED
      BY <1>2, <3>3, <3>4 DEF Inv, Held
  <2> QED
    BY <2>1 DEF Held
<1>11. InView'
  BY <1>2, LoadTyped, NoneIsNoSlot DEF InView
<1> QED
  BY <1>8, <1>9, <1>10, <1>11 DEF Inv

-----------------------------------------------------------------------------
LEMMA PollInv == ASSUME Inv, NEW c \in Chats, Poll(c) PROVE Inv'
<1>1. tracked' = [tracked EXCEPT ![c] = None]
      /\ UNCHANGED <<view, shown, loading, Refs, approvals, timers, fetches, loads, stopping,
                     stream, strays, Server>>
  BY DEF Poll
<1>2. tracked' \in [Chats -> Slots \cup {None}]
      /\ \A d \in Chats : tracked'[d] \in {tracked[d], None}
  BY <1>1 DEF Inv, TypeOK
<1>3. TypeOK'
  BY <1>1, <1>2 DEF Inv, TypeOK, Refs, Server
<1>4. Kept(stream')
  BY <1>1, SameIsKept
<1>5. Origins'
  BY <1>1, <1>2, <1>3, <1>4, OriginsKept DEF Refs, Server, RunsBegin
<1>6. Held' /\ InView'
  BY <1>1 DEF Inv, Held, Live, InView, OfView, Refs
<1> QED
  BY <1>3, <1>5, <1>6 DEF Inv

LEMMA StepInv == Inv /\ [Next]_vars => Inv'
<1> SUFFICES ASSUME Inv, [Next]_vars PROVE Inv'
  OBVIOUS
<1>1. CASE Reload \/ SendRefused \/ Send \/ Stop \/ StopAnswered
  BY <1>1, ReloadInv, SendRefusedInv, SendInv, StopInv, StopAnsweredInv
<1>2. CASE \E c \in Chats \cup {NoChat} : Switch(c)
  BY <1>2, SwitchInv
<1>3. CASE \E c \in Chats : SendFirst(c) \/ Poll(c)
  BY <1>3, SendFirstInv, PollInv
<1>4. CASE \E f \in fetches : Answer(f) \/ Arrive(f) \/ ArriveMissing(f) \/ LoadFails(f)
  BY <1>4, AnswerInv, ArriveInv, ArriveMissingInv, LoadFailsInv
<1>5. CASE \E e \in approvals : Approve(e)
  BY <1>5, ApproveInv
<1>6. ASSUME NEW s \in Slots,
             \/ Timer(s) \/ ReceivePost(s) \/ Lost(s) \/ Started(s) \/ Attach(s) \/ Deliver(s)
             \/ Finished(s) \/ Fail(s) \/ StoreChat(s) \/ Settle(s)
             \/ \E event \in Events : Emit(s, event)
      PROVE  Inv'
  <2>1. Finished(s) \/ Fail(s) => stream[s].st # "none" /\ Ends(s)
    BY DEF Finished, Fail, Live
  <2> QED
    BY <1>6, <2>1, TimerInv, ReceivePostInv, LostInv, StartedInv, AttachInv, DeliverInv,
       EndsInv, StoreChatInv, SettleInv, EmitInv
<1>7. CASE UNCHANGED vars
  <2>1. TypeOK'
    BY <1>7 DEF vars, Inv, TypeOK
  <2> QED
    BY <1>7, <2>1, FollowedSame DEF vars, Followed, RunsBegin
<1> QED
  BY <1>1, <1>2, <1>3, <1>4, <1>5, <1>6, <1>7 DEF Next

THEOREM Invariance == Spec => []Inv
BY InitInv, StepInv, PTL DEF Spec

(* Every variable keeps its shape. *)
THEOREM TypeCorrect == Spec => []TypeOK
<1>1. Inv => TypeOK
  BY DEF Inv
<1> QED
  BY <1>1, Invariance, PTL

(* Whatever was begun for another chat, the text in the view and the run   *)
(* that Stop and the approvals address are of the chat that is open, or of *)
(* a stream that was left uncancelled.                                     *)
THEOREM ViewCorrect == Spec => []ViewIsOfItsChat
<1>1. Inv => ViewIsOfItsChat
  BY DEF Inv, TypeOK, InView, OfView, ViewIsOfItsChat
<1> QED
  BY <1>1, Invariance, PTL

-----------------------------------------------------------------------------
(* The composer *)

\* Every step that leaves the composer loading leaves something to end it.
LEMMA LoadingStep ==
  ASSUME Inv, LoadingHasEnd, Next PROVE LoadingHasEnd'
<1> USE DEF LoadingHasEnd
<1>1. CASE Reload
  BY <1>1 DEF Reload, Refs, Live
<1>2. CASE SendRefused
  BY <1>2 DEF SendRefused
<1>3. CASE Send
  <2>1. PICK s \in Slots : IsNext(s) /\ stream' = Posting(s, view) /\ cancelRef' = s
    BY <1>3 DEF Send
  <2>2. view \in Chats
    BY <1>3 DEF Send, Inv, TypeOK
  <2>3. stream'[s].st = "sent"
    BY <2>1, <2>2, PostingOpens
  <2> QED
    BY <2>1, <2>3, NoneIsNoSlot DEF Live
<1>4. CASE Stop
  BY <1>4 DEF Stop, Refs, Live
<1>5. CASE StopAnswered
  BY <1>5 DEF StopAnswered
<1>6. CASE \E c \in Chats \cup {NoChat} : Switch(c)
  BY <1>6 DEF Switch, LeaveChat
<1>7. CASE \E c \in Chats : SendFirst(c)
  BY <1>7 DEF SendFirst, LeaveChat
<1>8. CASE \E c \in Chats : Poll(c)
  BY <1>8 DEF Poll, Refs, Live
<1>9. CASE \E f \in fetches : Answer(f) \/ LoadFails(f)
  BY <1>9 DEF Answer, LoadFails, Refs, Live
<1>10. CASE \E f \in fetches : Arrive(f) \/ ArriveMissing(f)
  <2>1. PICK f \in fetches : Arrive(f) \/ ArriveMissing(f)
    BY <1>10
  <2>2. timers' = timers
    BY <2>1 DEF Arrive, ArriveMissing
  <2>3. UNCHANGED <<loading, Refs, stream, strays>> \/ \E r, c : Resume(r, c)
    BY <2>1 DEF Arrive, ArriveMissing, StayAsIs
  <2>4. ASSUME NEW r, NEW c, Resume(r, c) PROVE cancelRef' \in Slots /\ Live(cancelRef)'
    <3>1. PICK s \in Slots : /\ stream' = [stream EXCEPT ![s] = Opened("resume", c, r, "sent")]
                             /\ cancelRef' = s
      BY <2>4 DEF Resume
    <3>2. stream \in [Slots -> Stream]
      BY DEF Inv, TypeOK
    <3> QED
      BY <3>1, <3>2 DEF Live, Opened
  <2> QED
    BY <2>2, <2>3, <2>4, NoneIsNoSlot DEF Refs, Live
<1>11. CASE \E e \in approvals : Approve(e)
  BY <1>11 DEF Approve, Refs, Live
<1>12. CASE \E s \in Slots : Timer(s)
  BY <1>12 DEF Timer, FinishRun
<1>13. CASE \E s \in Slots : Finished(s) \/ Fail(s)
  BY <1>13 DEF Finished, Fail, Ends, Scheduled
<1>14. CASE \E s \in Slots : StoreChat(s) \/ Settle(s) \/ \E event \in Events : Emit(s, event)
  BY <1>14 DEF StoreChat, Settle, Emit, Client, Refs, Live
<1>15. CASE \E s \in Slots : ReceivePost(s) \/ Lost(s) \/ Started(s) \/ Attach(s) \/ Deliver(s)
  <2>1. PICK s \in Slots : ReceivePost(s) \/ Lost(s) \/ Started(s) \/ Attach(s) \/ Deliver(s)
    BY <1>15
  <2>2. stream \in [Slots -> Stream]
    BY DEF Inv, TypeOK
  <2>3. UNCHANGED <<loading, cancelRef, timers>>
    BY <2>1 DEF ReceivePost, Lost, Started, Attach, Deliver, Client, Refs
  <2>4. \A p \in Slots : p # s => stream'[p] = stream[p]
    BY <2>1, <2>2 DEF ReceivePost, Lost, Closed, Started, Attach, Deliver
  <2>5. Live(s) => Live(s)'
    BY <2>1, <2>2 DEF ReceivePost, Lost, Started, Attach, Deliver, Live, Stream
  <2>6. cancelRef \in Slots \cup {None}
    BY DEF Inv, TypeOK
  <2> QED
    BY <2>3, <2>4, <2>5, <2>6 DEF Live
<1> QED
  BY <1>1, <1>2, <1>3, <1>4, <1>5, <1>6, <1>7, <1>8, <1>9, <1>10, <1>11, <1>12, <1>13, <1>14,
     <1>15 DEF Next

(* However streams are cancelled, replaced and lost, a loading composer    *)
(* waits for a stream that is live and can be cancelled, or for a timer.   *)
THEOREM LoadingCorrect == Spec => []LoadingHasEnd
<1>1. Init => LoadingHasEnd
  BY DEF Init, LoadingHasEnd
<1>2. Inv /\ LoadingHasEnd /\ [Next]_vars => LoadingHasEnd'
  <2>1. UNCHANGED vars /\ LoadingHasEnd => LoadingHasEnd'
    BY DEF vars, LoadingHasEnd, Live
  <2> QED
    BY <2>1, LoadingStep
<1> QED
  BY <1>1, <1>2, Invariance, PTL DEF Spec

-----------------------------------------------------------------------------
(* The sidebar of the same browser.  SessionInv: what is asked, listed and *)
(* named belongs to the session; RunsInv: what an answer says of a run.    *)

\* A page that has a token and no user yet, as after loading it, has asked for nothing else.
PageIsEmpty == token # 0 /\ me = NoUser => lists = {} /\ todo = {} /\ refreshed = {} /\ reading = {}

\* An answer to GET /chats holds the rows of one user.
ListsOwn == \A a \in lists : \A c \in ChatIds : a.rows[c] # Gone => a.rows[c].of = a.of

NobodyListed == ~mixed /\ ~IsAuthenticated => \A c \in ChatIds : listed[c] = Gone

\* An answer to GET /runs/recent calls a run ended only if it has, or if the run is hidden.
EndedKnown == \A a \in recents : \A r \in a.ended : runs[r].st = "ended" \/ r \in hidden

SessionInv == PageIsEmpty /\ ListsOwn /\ NobodyListed /\ OneUserOnScreen
RunsInv == EndedKnown /\ StopButtonStays
SidebarInv == SidebarTypeOK /\ SessionInv /\ RunsInv

LEMMA OwnIsRow ==
  ASSUME SidebarTypeOK, NEW u \in Users, NEW c \in ChatIds
  PROVE  Own(u, c) \in Row \cup {Gone} /\ (Own(u, c) # Gone => Own(u, c).of = u)
BY DEF Own, SidebarTypeOK

LEMMA RowsAreOwn ==
  ASSUME SidebarTypeOK, NEW u \in Users
  PROVE  /\ RowsOf(u) \in [ChatIds -> Row \cup {Gone}]
         /\ \A c \in ChatIds : RowsOf(u)[c] # Gone => RowsOf(u)[c].of = u
BY OwnIsRow DEF RowsOf

LEMMA UserOfSession ==
  ASSUME SidebarTypeOK, NEW s \in Sessions
  PROVE  s # 0 /\ owner[s] \in Users /\ UserOf(s) = owner[s] /\ owner[s] # NoUser
BY SidebarAssumption DEF Sessions, SidebarTypeOK, UserOf

LEMMA SameSessions ==
  ASSUME owner' = owner
  PROVE  Sessions' = Sessions /\ Handler' = Handler /\ \A s : UserOf(s)' = UserOf(s)
BY DEF Sessions, Handler, UserOf

LEMMA RunKnown ==
  ASSUME SidebarTypeOK, NEW r \in DOMAIN runs
  PROVE  /\ r # 0 /\ runs[r] \in ChatRun /\ runs[r].chat \in ChatIds /\ runs[r].of \in Users
         /\ runs[r].st \in {"running", "tripped", "ended"} /\ runs[r].old \in BOOLEAN
<1>1. runs \in Seq(ChatRun)
  BY DEF SidebarTypeOK
<1>2. runs[r] \in ChatRun /\ r # 0
  BY <1>1
<1> QED
  BY <1>2 DEF ChatRun

\* An answer of the host to whoever is signed in.
LEMMA ListOfUser ==
  ASSUME SidebarTypeOK, token \in valid
  PROVE  /\ ChatList \in [of : Users, rows : [ChatIds -> Row \cup {Gone}]]
         /\ \A c \in ChatIds : ChatList.rows[c] # Gone => ChatList.rows[c].of = ChatList.of
<1>1. owner[token] \in Users
  BY UserOfSession DEF SidebarTypeOK
<1> QED
  BY <1>1, RowsAreOwn DEF ChatList

LEMMA AskChatsTypes ==
  ASSUME SidebarTypeOK, AskChats
  PROVE  lists' \subseteq [of : Users, rows : [ChatIds -> Row \cup {Gone}]]
BY ListOfUser DEF AskChats, Answers, SidebarTypeOK

LEMMA BecomesTypes ==
  ASSUME SidebarTypeOK, NEW s, NEW u, Becomes(s, u), Sessions \subseteq Sessions',
         s \in Sessions' \cup {0}, u \in Users \cup {NoUser}
  PROVE  /\ token' \in Sessions' \cup {0} /\ me' \in Users \cup {NoUser}
         /\ listed' \in [ChatIds -> Row \cup {Gone}]
         /\ folders' \in Forest
         /\ lists' \subseteq [of : Users, rows : [ChatIds -> Row \cup {Gone}]]
         /\ opens' \subseteq [chat : ChatIds, run : BOOLEAN]
         /\ todo' \subseteq Handler'
<1>1. todo \subseteq Handler'
  BY DEF SidebarTypeOK, Handler
<1>2. CASE s # 0 /\ u # NoUser /\ ~IsAuthenticated
  <2>1. u \in Users /\ s \in Sessions'
    BY <1>2
  <2>2. [do |-> "projects", of |-> s, tree |-> parent, reload |-> FALSE] \in Handler'
    BY <2>1 DEF Handler, SidebarTypeOK, Forest
  <2>3. [p \in Projects |-> Gone] \in Forest
    BY DEF Forest
  <2>4. [of |-> u, rows |-> RowsOf(u)] \in [of : Users, rows : [ChatIds -> Row \cup {Gone}]]
    BY <2>1, RowsAreOwn
  <2>5. /\ token' = s /\ me' = u
        /\ lists' = lists \cup {[of |-> u, rows |-> RowsOf(u)]}
        /\ folders' = [p \in Projects |-> Gone]
        /\ todo' = todo \cup {[do |-> "projects", of |-> s, tree |-> parent, reload |-> FALSE]}
        /\ UNCHANGED <<listed, opens>>
    BY <1>2 DEF Becomes
  <2> QED
    BY <1>1, <2>2, <2>3, <2>4, <2>5 DEF SidebarTypeOK
<1>3. CASE ~(s # 0 /\ u # NoUser /\ ~IsAuthenticated) /\ (s = 0 \/ u = NoUser) /\ IsAuthenticated
  BY <1>1, <1>3 DEF Becomes, SidebarTypeOK
<1>4. CASE ~(s # 0 /\ u # NoUser /\ ~IsAuthenticated) /\ ~((s = 0 \/ u = NoUser) /\ IsAuthenticated)
  BY <1>1, <1>4 DEF Becomes, SidebarTypeOK
<1> QED
  BY <1>2, <1>3, <1>4

LEMMA InitTypes == SidebarInit => SidebarTypeOK
<1> SUFFICES ASSUME SidebarInit PROVE SidebarTypeOK
  OBVIOUS
<1>1. owner \in Seq(Users) /\ runs \in Seq(ChatRun) /\ valid \subseteq Sessions
  BY DEF SidebarInit
<1>2. parent \in Forest /\ folders \in Forest
  BY DEF SidebarInit, Forest
<1>3. edits \in 0 .. MaxEdits
  BY SidebarAssumption DEF SidebarInit
<1>4. listed \in [ChatIds -> Row \cup {Gone}] /\ stop \in [ChatIds -> {0} \cup DOMAIN runs]
  BY DEF SidebarInit
<1> QED
  BY <1>1, <1>2, <1>3, <1>4 DEF SidebarInit, SidebarTypeOK

LEMMA LoginTypes ==
  ASSUME SidebarTypeOK, NEW u \in Users, Login(u)
  PROVE  SidebarTypeOK'
<1> DEFINE s == Len(owner) + 1
<1>1. Sessions \subseteq Sessions' /\ s \in Sessions' /\ owner' \in Seq(Users)
  BY DEF Login, SidebarTypeOK, Sessions
<1>2. Becomes(s, u)
  BY DEF Login
<1>3. valid' \subseteq Sessions' /\ asked' \subseteq Sessions' /\ leaving' \subseteq Sessions'
      /\ refreshed' \subseteq Sessions'
  BY <1>1 DEF Login, SidebarTypeOK
<1> HIDE DEF s
<1>4. UNCHANGED <<chats, parent, runs, edits, stop, reading, recents, hidden, mixed>>
  BY DEF Login
<1> QED
  BY <1>1, <1>2, <1>3, <1>4, BecomesTypes DEF SidebarTypeOK

LEMMA SessionTypes ==
  ASSUME SidebarTypeOK, NEW s \in Sessions,
         UserAnswers(s) \/ UserFails(s) \/ RefreshAnswers(s) \/ RefreshFails(s)
           \/ LogoutAnswers(s) \/ SessionExpires(s)
  PROVE  SidebarTypeOK'
<1>1. owner' = owner
  BY DEF UserAnswers, UserFails, RefreshAnswers, RefreshFails, LogoutAnswers, SessionExpires, host
<1>2. Sessions' = Sessions /\ Handler' = Handler
  BY <1>1, SameSessions
<1>3. owner[s] \in Users
  BY UserOfSession
<1>4. CASE UserAnswers(s) /\ s = token
  BY <1>2, <1>3, <1>4, BecomesTypes DEF UserAnswers, SidebarTypeOK, host
<1>5. CASE UserAnswers(s) /\ s # token
  BY <1>2, <1>5 DEF UserAnswers, SidebarTypeOK, host
<1>6. CASE UserFails(s)
  BY <1>2, <1>6, BecomesTypes DEF UserFails, SidebarTypeOK, host
<1>7. CASE RefreshAnswers(s)
  BY <1>2, <1>3, <1>7 DEF RefreshAnswers, SidebarTypeOK, host, screen
<1>8. CASE RefreshFails(s)
  BY <1>2, <1>8 DEF RefreshFails, SidebarTypeOK, host, screen
<1>9. CASE LogoutAnswers(s)
  BY <1>2, <1>9, BecomesTypes DEF LogoutAnswers, SidebarTypeOK, host
<1>10. CASE SessionExpires(s)
  BY <1>2, <1>10, SidebarAssumption DEF SessionExpires, SidebarTypeOK, session, screen
<1> QED
  BY <1>4, <1>5, <1>6, <1>7, <1>8, <1>9, <1>10

LEMMA PageTypes ==
  ASSUME SidebarTypeOK, Refresh \/ Logout \/ ReloadPage
  PROVE  SidebarTypeOK'
<1>1. owner' = owner
  BY DEF Refresh, Logout, ReloadPage, host
<1>2. Sessions' = Sessions /\ Handler' = Handler
  BY <1>1, SameSessions
<1>3. CASE Refresh
  BY <1>2, <1>3 DEF Refresh, SidebarTypeOK, host, screen, IsAuthenticated
<1>4. CASE Logout
  BY <1>2, <1>4 DEF Logout, SidebarTypeOK, host, screen, IsAuthenticated
<1>5. CASE ReloadPage
  BY <1>2, <1>5, SidebarAssumption DEF ReloadPage, SidebarTypeOK, Forest
<1> QED
  BY <1>3, <1>4, <1>5

LEMMA PollTypes ==
  ASSUME SidebarTypeOK,
         PollChats \/ PollRuns \/ (\E a \in lists : ListAnswers(a))
           \/ (\E a \in recents : RecentAnswers(a))
  PROVE  SidebarTypeOK'
<1>1. owner' = owner
  BY DEF PollChats, PollRuns, ListAnswers, RecentAnswers, host
<1>2. Sessions' = Sessions /\ Handler' = Handler
  BY <1>1, SameSessions
<1>3. CASE PollChats
  BY <1>2, <1>3, AskChatsTypes DEF PollChats, SidebarTypeOK, host, session
<1>4. CASE PollRuns
  BY <1>2, <1>4 DEF PollRuns, AskRecent, Recent, SidebarTypeOK, host, session
<1>5. ASSUME NEW a \in lists, ListAnswers(a) PROVE SidebarTypeOK'
  BY <1>2, <1>5 DEF ListAnswers, SidebarTypeOK, host, session
<1>6. ASSUME NEW a \in recents, RecentAnswers(a) PROVE SidebarTypeOK'
  BY <1>2, <1>6 DEF RecentAnswers, WithoutEnded, SidebarTypeOK, host, session
<1> QED
  BY <1>3, <1>4, <1>5, <1>6

\* What a message that is sent, a complete event and a new chat enter.
LEMMA NewRow ==
  ASSUME NEW u \in Users, NEW p \in Projects \cup {Root}
  PROVE  [of |-> u, in |-> p, name |-> "first"] \in Row
BY DEF Row

LEMMA EntryRow ==
  ASSUME SidebarTypeOK, NEW c \in ChatIds, NEW u \in Users
  PROVE  Entry(c, u) \in Row
BY NewRow DEF Entry, SidebarTypeOK

LEMMA RunStartsTypes ==
  ASSUME SidebarTypeOK, NEW c \in ChatIds, RunStarts(c)
  PROVE  SidebarTypeOK'
<1> DEFINE n == Len(runs) + 1
           row == Entry(c, me)
           started == [chat |-> c, of |-> owner[token], st |-> "running", old |-> FALSE]
<1>1. Sessions' = Sessions /\ Handler' = Handler
  BY SameSessions DEF RunStarts
<1>2. owner[token] \in Users
  BY UserOfSession DEF RunStarts, SidebarTypeOK
<1>3. row \in Row
  BY EntryRow DEF RunStarts, SidebarTypeOK, IsAuthenticated
<1>4. [row EXCEPT !.of = owner[token]] \in Row
  BY <1>2, <1>3 DEF Row
<1>5. runs' = Append(runs, started) /\ started \in ChatRun
  BY <1>2 DEF RunStarts, ChatRun
<1>6. runs' \in Seq(ChatRun) /\ DOMAIN runs \subseteq DOMAIN runs' /\ n \in DOMAIN runs'
  BY <1>5 DEF SidebarTypeOK
<1> HIDE DEF n, row, started
<1>7. /\ chats' = [chats EXCEPT ![c] = IF @ = Gone THEN [row EXCEPT !.of = owner[token]] ELSE @]
      /\ listed' = [listed EXCEPT ![c] = row]
      /\ stop' = [stop EXCEPT ![c] = n] /\ reading' = reading \cup {n}
      /\ UNCHANGED <<owner, valid, parent, edits, session, folders, lists, recents, opens, todo,
                     hidden, mixed>>
  BY DEF RunStarts, n, row
<1>8. chats' \in [ChatIds -> Row \cup {Gone}] /\ listed' \in [ChatIds -> Row \cup {Gone}]
  BY <1>3, <1>4, <1>7 DEF SidebarTypeOK
<1>9. stop' \in [ChatIds -> {0} \cup DOMAIN runs'] /\ reading' \subseteq DOMAIN runs'
  BY <1>6, <1>7 DEF SidebarTypeOK
<1>10. recents' \subseteq [ended : SUBSET DOMAIN runs'] /\ hidden' \subseteq DOMAIN runs'
  BY <1>6, <1>7 DEF SidebarTypeOK
<1> QED
  BY <1>1, <1>6, <1>7, <1>8, <1>9, <1>10 DEF SidebarTypeOK, session

LEMMA RunTypes ==
  ASSUME SidebarTypeOK,
         \/ \E c \in ChatIds : StopRun(c) \/ OpenChat(c)
         \/ \E r \in DOMAIN runs : RunAges(r) \/ StreamCompletes(r) \/ StreamEnds(r)
         \/ \E r \in DOMAIN runs, st \in {"running", "tripped", "ended"} : RunGoes(r, st)
         \/ \E o \in opens : OpenAnswers(o)
  PROVE  SidebarTypeOK'
<1>1. owner' = owner
  BY DEF StopRun, OpenChat, RunAges, StreamCompletes, StreamEnds, RunGoes, OpenAnswers, host
<1>2. Sessions' = Sessions /\ Handler' = Handler
  BY <1>1, SameSessions
<1>3. ASSUME NEW r \in DOMAIN runs, NEW st \in {"running", "tripped", "ended"},
             runs' = [runs EXCEPT ![r].st = st]
      PROVE  runs' \in Seq(ChatRun) /\ DOMAIN runs' = DOMAIN runs
  <2>1. runs \in Seq(ChatRun)
    BY DEF SidebarTypeOK
  <2>2. runs[r] \in ChatRun
    BY <2>1
  <2>3. [runs[r] EXCEPT !.st = st] \in ChatRun
    BY <2>2 DEF ChatRun
  <2>4. runs' = [runs EXCEPT ![r] = [runs[r] EXCEPT !.st = st]]
    BY <1>3
  <2> QED
    BY <2>1, <2>3, <2>4
<1>4. ASSUME NEW c \in ChatIds, StopRun(c) PROVE SidebarTypeOK'
  <2>1. stop[c] \in DOMAIN runs /\ runs' = [runs EXCEPT ![stop[c]].st = "ended"]
    BY <1>4 DEF StopRun, SidebarTypeOK
  <2>2. runs' \in Seq(ChatRun) /\ DOMAIN runs' = DOMAIN runs
    BY <1>3, <2>1
  <2> QED
    BY <1>2, <1>4, <2>2 DEF StopRun, SidebarTypeOK, session, screen
<1>5. ASSUME NEW c \in ChatIds, OpenChat(c) PROVE SidebarTypeOK'
  BY <1>2, <1>5 DEF OpenChat, OpenedChat, SidebarTypeOK, host, session
<1>6. ASSUME NEW r \in DOMAIN runs, StreamEnds(r) PROVE SidebarTypeOK'
  BY <1>2, <1>6 DEF StreamEnds, SidebarTypeOK, host, session
<1>7. ASSUME NEW r \in DOMAIN runs, NEW st \in {"running", "tripped", "ended"}, RunGoes(r, st)
      PROVE  SidebarTypeOK'
  BY <1>2, <1>3, <1>7 DEF RunGoes, SidebarTypeOK, session, screen
<1>8. ASSUME NEW o \in opens, OpenAnswers(o) PROVE SidebarTypeOK'
  BY <1>2, <1>8 DEF OpenAnswers, SidebarTypeOK, host, session
<1>9. ASSUME NEW r \in DOMAIN runs, RunAges(r) PROVE SidebarTypeOK'
  <2>1. runs \in Seq(ChatRun)
    BY DEF SidebarTypeOK
  <2>2. runs[r] \in ChatRun
    BY <2>1
  <2>3. [runs[r] EXCEPT !.old = TRUE] \in ChatRun
    BY <2>2 DEF ChatRun
  <2>4. runs' = [runs EXCEPT ![r] = [runs[r] EXCEPT !.old = TRUE]]
    BY <1>9 DEF RunAges
  <2>5. runs' \in Seq(ChatRun) /\ DOMAIN runs' = DOMAIN runs
    BY <2>1, <2>3, <2>4
  <2>6. edits' \in 0 .. MaxEdits
    BY <1>9, SidebarAssumption DEF RunAges, SidebarTypeOK
  <2> QED
    BY <1>2, <1>9, <2>5, <2>6 DEF RunAges, SidebarTypeOK, session, screen
<1>10. ASSUME NEW r \in DOMAIN runs, StreamCompletes(r) PROVE SidebarTypeOK'
  <2>1. runs[r].chat \in ChatIds /\ runs[r].of \in Users
    BY RunKnown
  <2>2. Entry(runs[r].chat, runs[r].of) \in Row
    BY <2>1, EntryRow
  <2>3. listed' \in [ChatIds -> Row \cup {Gone}]
    BY <1>10, <2>1, <2>2 DEF StreamCompletes, SidebarTypeOK
  <2> QED
    BY <1>2, <1>10, <2>3 DEF StreamCompletes, SidebarTypeOK, host, session
<1> QED
  BY <1>4, <1>5, <1>6, <1>7, <1>8, <1>9, <1>10

LEMMA AwaitsTypes ==
  ASSUME SidebarTypeOK, token \in valid, NEW again \in BOOLEAN,
         NEW do \in {"drop", "list", "folders"}, NEW c \in ChatIds \cup {Root}
  PROVE  [do |-> do, of |-> token, chat |-> c, reload |-> again] \in Handler
BY DEF SidebarTypeOK, Handler

LEMMA PatchTypes ==
  ASSUME SidebarTypeOK, NEW c \in ChatIds, NEW row, PatchChat(c, row),
         Own(owner[token], c) # Gone => row \in Row
  PROVE  SidebarTypeOK'
<1>1. Sessions' = Sessions /\ Handler' = Handler
  BY SameSessions DEF PatchChat
<1>2. chats' \in [ChatIds -> Row \cup {Gone}]
  BY DEF PatchChat, SidebarTypeOK
<1>3. edits' \in 0 .. MaxEdits /\ token \in valid
  BY SidebarAssumption DEF PatchChat, Edits, SidebarTypeOK
<1>4. todo' \subseteq Handler
  BY <1>3, AwaitsTypes DEF PatchChat, Awaits, SidebarTypeOK
<1> QED
  BY <1>1, <1>2, <1>3, <1>4 DEF PatchChat, KeepsView, SidebarTypeOK, session

LEMMA ChatEditTypes ==
  ASSUME SidebarTypeOK,
         \/ \E c \in ChatIds : DeleteChat(c) \/ MoveChat(c) \/ RenameChat(c) \/ Elsewhere(c)
         \/ \E c \in ChatIds, p \in Projects : CreateProjectChat(c, p)
  PROVE  SidebarTypeOK'
<1>1. token \in valid => owner[token] \in Users
  BY UserOfSession DEF SidebarTypeOK
<1>2. ASSUME NEW c \in ChatIds, DeleteChat(c) PROVE SidebarTypeOK'
  <2>1. Sessions' = Sessions /\ Handler' = Handler
    BY <1>2, SameSessions DEF DeleteChat
  <2>2. edits' \in 0 .. MaxEdits /\ token \in valid
    BY <1>2, SidebarAssumption DEF DeleteChat, Edits, SidebarTypeOK
  <2>3. todo' \subseteq Handler
    <3>1. PICK do \in {"drop", "list"}, again \in BOOLEAN : Awaits(do, c, again)
      BY <1>2 DEF DeleteChat
    <3> QED
      BY <2>2, <3>1, AwaitsTypes DEF Awaits, SidebarTypeOK
  <2>4. chats' \in [ChatIds -> Row \cup {Gone}]
    BY <1>2 DEF DeleteChat, SidebarTypeOK
  <2> QED
    BY <1>2, <2>1, <2>2, <2>3, <2>4 DEF DeleteChat, KeepsView, SidebarTypeOK, session
<1>3. ASSUME NEW c \in ChatIds, MoveChat(c) PROVE SidebarTypeOK'
  <2>1. PICK p \in Moves : PatchChat(c, [Own(owner[token], c) EXCEPT !.in = p])
    BY <1>3 DEF MoveChat
  <2>2. token \in valid /\ p \in Projects \cup {Root}
    BY <2>1 DEF PatchChat, Edits, Moves
  <2>3. Own(owner[token], c) # Gone => [Own(owner[token], c) EXCEPT !.in = p] \in Row
    BY <1>1, <2>2, OwnIsRow DEF Row
  <2> QED
    BY <2>1, <2>3, PatchTypes
<1>4. ASSUME NEW c \in ChatIds, RenameChat(c) PROVE SidebarTypeOK'
  <2>1. token \in valid
    BY <1>4 DEF RenameChat, PatchChat, Edits
  <2>2. Own(owner[token], c) # Gone => [Own(owner[token], c) EXCEPT !.name = "second"] \in Row
    BY <1>1, <2>1, OwnIsRow DEF Row
  <2> QED
    BY <1>4, <2>2, PatchTypes DEF RenameChat
<1>5. ASSUME NEW c \in ChatIds, Elsewhere(c) PROVE SidebarTypeOK'
  <2>1. Sessions' = Sessions /\ Handler' = Handler
    BY <1>5, SameSessions DEF Elsewhere
  <2>2. edits' \in 0 .. MaxEdits
    BY <1>5, SidebarAssumption DEF Elsewhere, SidebarTypeOK
  <2>3. chats[c] \in Row /\ chats \in [ChatIds -> Row \cup {Gone}]
    BY <1>5 DEF Elsewhere, SidebarTypeOK
  <2>4. chats' \in [ChatIds -> Row \cup {Gone}]
    <3> DEFINE second == [chats[c] EXCEPT !.name = "second"]
    <3>1. second \in Row
      BY <2>3 DEF Row
    <3>2. chats' = [chats EXCEPT ![c] = Gone] \/ chats' = [chats EXCEPT ![c] = second]
      BY <1>5 DEF Elsewhere
    <3> HIDE DEF second
    <3> QED
      BY <2>3, <3>1, <3>2
  <2>5. UNCHANGED <<owner, valid, parent, runs, token, me, leaving, asked, refreshed, listed, stop,
                    reading, folders, lists, recents, opens, todo, hidden, mixed>>
    BY <1>5 DEF Elsewhere, session, screen
  <2> QED
    BY <2>1, <2>2, <2>4, <2>5 DEF SidebarTypeOK
<1>6. ASSUME NEW c \in ChatIds, NEW p \in Projects, CreateProjectChat(c, p) PROVE SidebarTypeOK'
  <2>1. Sessions' = Sessions /\ Handler' = Handler
    BY <1>6, SameSessions DEF CreateProjectChat
  <2>2. edits' \in 0 .. MaxEdits /\ [of |-> me, in |-> p, name |-> "first"] \in Row
    BY <1>6, SidebarAssumption, NewRow DEF CreateProjectChat, Edits, IsAuthenticated, SidebarTypeOK
  <2> QED
    BY <1>6, <2>1, <2>2 DEF CreateProjectChat, SidebarTypeOK, session
<1> QED
  BY <1>2, <1>3, <1>4, <1>5, <1>6

LEMMA ProjectTypes ==
  ASSUME SidebarTypeOK, Edits, NEW again \in BOOLEAN, ProjectStep(again), parent' \in Forest,
         chats' \in [ChatIds -> Row \cup {Gone}]
  PROVE  SidebarTypeOK'
<1>1. Sessions' = Sessions /\ Handler' = Handler
  BY SameSessions DEF ProjectStep
<1>2. edits' \in 0 .. MaxEdits /\ token \in valid
  BY SidebarAssumption DEF Edits, SidebarTypeOK
<1>3. todo' \subseteq Handler
  BY <1>2, AwaitsTypes DEF ProjectStep, SidebarTypeOK
<1> QED
  BY <1>1, <1>2, <1>3 DEF ProjectStep, KeepsView, SidebarTypeOK, session

LEMMA ProjectEditTypes ==
  ASSUME SidebarTypeOK, NEW p \in Projects,
         CreateProject(p) \/ RenameProject(p) \/ MoveProject(p) \/ DeleteProject(p)
  PROVE  SidebarTypeOK'
<1>1. ASSUME NEW q \in Projects \cup {Root}, PatchProject(p, q) PROVE SidebarTypeOK'
  <2>1. parent' \in Forest /\ chats' \in [ChatIds -> Row \cup {Gone}]
    BY <1>1 DEF PatchProject, SidebarTypeOK, Forest
  <2> QED
    BY <1>1, <2>1, ProjectTypes DEF PatchProject
<1>2. CASE CreateProject(p)
  <2>1. parent' \in Forest /\ chats' \in [ChatIds -> Row \cup {Gone}]
    BY <1>2 DEF CreateProject, SidebarTypeOK, Forest
  <2> QED
    BY <1>2, <2>1, ProjectTypes DEF CreateProject
<1>3. CASE RenameProject(p)
  BY <1>1, <1>3 DEF RenameProject
<1>4. CASE MoveProject(p)
  BY <1>1, <1>4 DEF MoveProject, Moves
<1>5. CASE DeleteProject(p)
  <2>1. parent' \in Forest
    BY <1>5 DEF DeleteProject, SidebarTypeOK, Forest
  <2>2. chats' \in [ChatIds -> Row \cup {Gone}]
    BY <1>5 DEF DeleteProject, SidebarTypeOK, Row
  <2> QED
    BY <1>5, <2>1, <2>2, ProjectTypes DEF DeleteProject
<1> QED
  BY <1>2, <1>3, <1>4, <1>5

LEMMA HandlerTypes ==
  ASSUME SidebarTypeOK, NEW h \in todo, Continues(h) \/ HandlerFails(h)
  PROVE  SidebarTypeOK'
<1>1. owner' = owner
  BY DEF Continues, HandlerFails, host
<1>2. Sessions' = Sessions /\ Handler' = Handler /\ h \in Handler
  BY <1>1, SameSessions DEF SidebarTypeOK
<1>3. CASE HandlerFails(h)
  BY <1>2, <1>3 DEF HandlerFails, SidebarTypeOK, host, session
<1>4. CASE Continues(h)
  <2>1. h.reload \in BOOLEAN /\ (h.do = "projects" => h.tree \in Forest)
    BY <1>2 DEF Handler
  <2>2. listed' \in [ChatIds -> Row \cup {Gone}] /\ folders' \in Forest
    BY <1>4, <2>1 DEF Continues, Drops, ShowsTree, SidebarTypeOK
  <2>3. token \in valid => [Tree EXCEPT !.reload = h.reload] \in Handler
    BY <2>1 DEF Tree, Handler, SidebarTypeOK
  <2>4. todo' \subseteq Handler
    BY <1>4, <2>3 DEF Continues, SidebarTypeOK
  <2>5. lists' \subseteq [of : Users, rows : [ChatIds -> Row \cup {Gone}]]
    BY <1>4, AskChatsTypes DEF Continues, SidebarTypeOK
  <2> QED
    BY <1>2, <1>4, <2>2, <2>4, <2>5 DEF Continues, SidebarTypeOK, host, session
<1> QED
  BY <1>3, <1>4

(* Every request, answer and entry of the sidebar has its type.            *)
THEOREM SidebarTypes == SidebarSpec => []SidebarTypeOK
<1>1. SidebarInit => SidebarTypeOK
  BY InitTypes
<1>2. SidebarTypeOK /\ [SidebarNext]_sidebarVars => SidebarTypeOK'
  <2> SUFFICES ASSUME SidebarTypeOK, [SidebarNext]_sidebarVars PROVE SidebarTypeOK'
    OBVIOUS
  <2>1. CASE SessionStep
    BY <2>1, LoginTypes, SessionTypes, PageTypes DEF SessionStep
  <2>2. CASE Polls
    BY <2>2, PollTypes DEF Polls
  <2>3. CASE RunStep
    BY <2>3, PollTypes, RunStartsTypes, RunTypes DEF RunStep
  <2>4. CASE EditStep
    BY <2>4, ChatEditTypes, ProjectEditTypes DEF EditStep
  <2>5. CASE Handlers
    BY <2>5, HandlerTypes DEF Handlers
  <2>6. CASE UNCHANGED sidebarVars
    <3>1. Sessions' = Sessions /\ Handler' = Handler
      BY <2>6, SameSessions DEF sidebarVars, host
    <3> QED
      BY <2>6, <3>1 DEF sidebarVars, host, session, screen, SidebarTypeOK
  <2> QED
    BY <2>1, <2>2, <2>3, <2>4, <2>5, <2>6 DEF SidebarNext
<1> QED
  BY <1>1, <1>2, PTL DEF SidebarSpec

\* What the screen shows depends on the session, the lists and the answers on their way.
LEMMA SameSession ==
  ASSUME SessionInv, UNCHANGED <<owner, token, me, refreshed, listed, lists, todo, mixed>>,
         reading' \subseteq reading
  PROVE  SessionInv'
<1>1. \A s : UserOf(s)' = UserOf(s)
  BY DEF UserOf
<1>2. OneUserOnScreen'
  BY <1>1 DEF SessionInv, OneUserOnScreen
<1> QED
  BY <1>2 DEF SessionInv, PageIsEmpty, ListsOwn, NobodyListed, IsAuthenticated

LEMMA AskChatsOwn ==
  ASSUME SidebarTypeOK, ListsOwn, AskChats
  PROVE  ListsOwn'
BY ListOfUser DEF AskChats, Answers, ListsOwn

LEMMA SignedOutKeeps ==
  ASSUME SidebarTypeOK, SessionInv, Becomes(0, NoUser), mixed' = mixed
  PROVE  SessionInv'
<1>1. ~mixed => \A c \in ChatIds : listed'[c] = Gone
  BY DEF Becomes, SessionInv, NobodyListed
<1>2. lists' = lists /\ token' = 0 /\ me' = NoUser
  BY DEF Becomes
<1> QED
  BY <1>1, <1>2 DEF SessionInv, PageIsEmpty, ListsOwn, NobodyListed, OneUserOnScreen

LEMMA SignedInKeeps ==
  ASSUME SidebarTypeOK, SessionInv, NEW u \in Users, NEW s, s # 0, Becomes(s, u), mixed' = mixed,
         UserOf(s)' = u, IsAuthenticated => UserOf(token) = u
  PROVE  SessionInv'
<1>1. token' = s /\ me' = u /\ u # NoUser
  BY SidebarAssumption DEF Becomes
<1>2. PageIsEmpty' /\ NobodyListed'
  BY <1>1 DEF PageIsEmpty, NobodyListed, IsAuthenticated
<1>3. ListsOwn'
  BY <1>1, RowsAreOwn DEF Becomes, SessionInv, ListsOwn
<1>4. listed' = listed
  BY <1>1 DEF Becomes
<1>5. UserOf(token)' = u
  BY <1>1 DEF UserOf
<1>6. OneUserOnScreen'
  BY <1>1, <1>4, <1>5 DEF OneUserOnScreen, SessionInv, NobodyListed
<1> QED
  BY <1>2, <1>3, <1>6 DEF SessionInv

LEMMA SessionStepKeeps ==
  ASSUME SidebarTypeOK, SessionInv, SessionStep
  PROVE  SessionInv'
<1>1. ASSUME NEW u \in Users, Login(u) PROVE SessionInv'
  <2> PICK s : s = Len(owner) + 1
    OBVIOUS
  <2>1. s # 0 /\ owner' = Append(owner, u)
    BY <1>1 DEF Login, SidebarTypeOK
  <2>2. owner'[s] = u
    BY <2>1 DEF SidebarTypeOK
  <2>3. Becomes(s, u) /\ ~IsAuthenticated /\ mixed' = mixed
    BY <1>1 DEF Login
  <2>4. UserOf(s)' = u
    BY <2>1, <2>2 DEF UserOf
  <2> QED
    BY <2>1, <2>3, <2>4, SignedInKeeps
<1>2. ASSUME NEW s \in Sessions, UserAnswers(s) PROVE SessionInv'
  <2>1. owner' = owner /\ mixed' = mixed
    BY <1>2 DEF UserAnswers, host
  <2>2. CASE s = token
    <3>1. owner[s] \in Users /\ s # 0 /\ UserOf(s) = owner[s] /\ UserOf(s)' = owner[s]
      BY <2>1, UserOfSession, SameSessions
    <3>2. Becomes(s, owner[s])
      BY <1>2, <2>2 DEF UserAnswers
    <3> QED
      BY <2>1, <2>2, <3>1, <3>2, SignedInKeeps
  <2>3. CASE s # token
    BY <1>2, <2>3, SameSession DEF UserAnswers, host
  <2> QED
    BY <2>2, <2>3
<1>3. ASSUME NEW s \in Sessions, UserFails(s) \/ LogoutAnswers(s) PROVE SessionInv'
  BY <1>3, SignedOutKeeps DEF UserFails, LogoutAnswers
<1>4. ASSUME NEW s \in Sessions, RefreshAnswers(s) PROVE SessionInv'
  <2>1. /\ UNCHANGED <<owner, token, listed, lists, todo, reading>>
        /\ me' = owner[s] /\ mixed' = (mixed \/ s # token)
        /\ s \in refreshed /\ refreshed' = refreshed \ {s}
    BY <1>4 DEF RefreshAnswers, host, screen
  <2>2. owner[s] # NoUser /\ s # 0 /\ UserOf(s) = owner[s]
    BY UserOfSession
  <2>3. PageIsEmpty' /\ ListsOwn'
    BY <2>1, <2>2 DEF PageIsEmpty, ListsOwn, SessionInv
  <2>4. ~mixed' => s = token /\ ~mixed /\ me # NoUser
    BY <2>1, <2>2 DEF SessionInv, PageIsEmpty
  <2>5. UserOf(token)' = UserOf(token)
    BY <2>1 DEF UserOf
  <2>6. NobodyListed' /\ OneUserOnScreen'
    BY <2>1, <2>2, <2>4, <2>5 DEF SessionInv, NobodyListed, OneUserOnScreen, IsAuthenticated
  <2> QED
    BY <2>3, <2>6 DEF SessionInv
<1>5. ASSUME NEW s \in Sessions, RefreshFails(s) PROVE SessionInv'
  <2>1. UNCHANGED <<owner, token, me, listed, lists, todo, reading, mixed>> /\ refreshed' \subseteq refreshed
    BY <1>5 DEF RefreshFails, host, screen
  <2>2. UserOf(token)' = UserOf(token)
    BY <2>1 DEF UserOf
  <2> QED
    BY <2>1, <2>2
       DEF SessionInv, PageIsEmpty, ListsOwn, NobodyListed, OneUserOnScreen, IsAuthenticated
<1>6. ASSUME NEW s \in Sessions, SessionExpires(s) PROVE SessionInv'
  BY <1>6, SameSession DEF SessionExpires, session, screen
<1>7. CASE Refresh
  <2>1. UNCHANGED <<owner, token, me, listed, lists, todo, reading, mixed>> /\ me # NoUser
    BY <1>7 DEF Refresh, host, screen, IsAuthenticated
  <2>2. UserOf(token)' = UserOf(token)
    BY <2>1 DEF UserOf
  <2> QED
    BY <2>1, <2>2
       DEF SessionInv, PageIsEmpty, ListsOwn, NobodyListed, OneUserOnScreen, IsAuthenticated
<1>8. CASE Logout
  BY <1>8, SameSession DEF Logout, host, screen
<1>9. CASE ReloadPage
  <2>1. /\ me' = NoUser /\ lists' = {} /\ todo' = {} /\ refreshed' = {} /\ reading' = {}
        /\ \A c \in ChatIds : listed'[c] = Gone
    BY <1>9 DEF ReloadPage
  <2> QED
    BY <2>1 DEF SessionInv, PageIsEmpty, ListsOwn, NobodyListed, OneUserOnScreen
<1> QED
  BY <1>1, <1>2, <1>3, <1>4, <1>5, <1>6, <1>7, <1>8, <1>9 DEF SessionStep

LEMMA PollsKeep ==
  ASSUME SidebarTypeOK, SessionInv, Polls
  PROVE  SessionInv'
<1>1. /\ owner' = owner /\ token' = token /\ me' = me
      /\ refreshed' = refreshed /\ todo' = todo /\ reading' = reading
  BY DEF Polls, PollChats, ListAnswers, host, session
<1>2. \A s : UserOf(s)' = UserOf(s)
  BY <1>1, SameSessions
<1>3. CASE PollChats
  <2>1. ListsOwn' /\ listed' = listed /\ mixed' = mixed /\ IsAuthenticated
    BY <1>3, AskChatsOwn DEF PollChats, SessionInv
  <2> QED
    BY <1>1, <1>2, <2>1 DEF SessionInv, PageIsEmpty, NobodyListed, OneUserOnScreen, IsAuthenticated
<1>4. ASSUME NEW a \in lists, ListAnswers(a) PROVE SessionInv'
  <2>1. /\ lists' = lists \ {a} /\ listed' = a.rows
        /\ mixed' = (mixed \/ a.of # UserOf(token))
    BY <1>4 DEF ListAnswers
  <2>2. a.of \in Users /\ \A c \in ChatIds : a.rows[c] # Gone => a.rows[c].of = a.of
    BY DEF SidebarTypeOK, SessionInv, ListsOwn
  <2>3. ~mixed' => a.of = UserOf(token) /\ ~mixed
    BY <2>1
  <2>4. ~mixed' => IsAuthenticated
    BY <2>2, <2>3, SidebarAssumption DEF UserOf, IsAuthenticated, SessionInv, PageIsEmpty
  <2> QED
    BY <1>1, <1>2, <2>1, <2>2, <2>3, <2>4
       DEF SessionInv, PageIsEmpty, ListsOwn, NobodyListed, OneUserOnScreen, IsAuthenticated
<1> QED
  BY <1>3, <1>4 DEF Polls

LEMMA RunStepKeepsSession ==
  ASSUME SidebarTypeOK, SessionInv, RunStep
  PROVE  SessionInv'
<1>1. ASSUME NEW c \in ChatIds, RunStarts(c) PROVE SessionInv'
  <2> DEFINE row == Entry(c, me)
  <2>1. /\ UNCHANGED <<owner, token, me, refreshed, lists, todo, mixed>>
        /\ listed' = [listed EXCEPT ![c] = row] /\ IsAuthenticated
    BY <1>1 DEF RunStarts, session
  <2>2. ~mixed => row.of = UserOf(token)
    BY <2>1 DEF SessionInv, OneUserOnScreen, IsAuthenticated, Entry
  <2> HIDE DEF row
  <2>3. ~mixed => \A d \in ChatIds : listed'[d] # Gone => listed'[d].of = UserOf(token)
    BY <2>1, <2>2 DEF SidebarTypeOK, SessionInv, OneUserOnScreen
  <2>4. UserOf(token)' = UserOf(token)
    BY <2>1 DEF UserOf
  <2> QED
    BY <2>1, <2>3, <2>4
       DEF SessionInv, PageIsEmpty, ListsOwn, NobodyListed, OneUserOnScreen, IsAuthenticated
<1>2. ASSUME PollRuns \/ (\E a \in recents : RecentAnswers(a))
             \/ (\E c \in ChatIds : StopRun(c) \/ OpenChat(c))
             \/ (\E r \in DOMAIN runs : RunAges(r) \/ StreamEnds(r))
             \/ (\E r \in DOMAIN runs, st \in {"running", "tripped", "ended"} : RunGoes(r, st))
             \/ (\E o \in opens : OpenAnswers(o))
      PROVE  SessionInv'
  BY <1>2, SameSession
     DEF PollRuns, RecentAnswers, StopRun, OpenChat, RunAges, StreamEnds, RunGoes, OpenAnswers, host,
         session, screen
<1>3. ASSUME NEW r \in DOMAIN runs, StreamCompletes(r) PROVE SessionInv'
  <2> DEFINE c == runs[r].chat
             row == Entry(runs[r].chat, runs[r].of)
  <2>1. /\ UNCHANGED <<owner, token, me, refreshed, lists, todo>> /\ reading' \subseteq reading
        /\ r \in reading /\ listed' = [listed EXCEPT ![c] = row]
        /\ mixed' = (mixed \/ runs[r].of # UserOf(token))
    BY <1>3 DEF StreamCompletes, host, session
  <2>2. c \in ChatIds /\ runs[r].of \in Users
    BY RunKnown
  <2>3. ~mixed' => ~mixed /\ runs[r].of = UserOf(token)
    BY <2>1
  <2>4. ~mixed' => row.of = UserOf(token)
    BY <2>2, <2>3 DEF SessionInv, OneUserOnScreen, Entry
  <2>5. ~mixed' => IsAuthenticated
    BY <2>1, <2>2, <2>3, SidebarAssumption DEF UserOf, IsAuthenticated, SessionInv, PageIsEmpty
  <2> HIDE DEF c, row
  <2>6. ~mixed' => \A d \in ChatIds : listed'[d] # Gone => listed'[d].of = UserOf(token)
    BY <2>1, <2>2, <2>3, <2>4 DEF SidebarTypeOK, SessionInv, OneUserOnScreen
  <2>7. UserOf(token)' = UserOf(token)
    BY <2>1 DEF UserOf
  <2> QED
    BY <2>1, <2>3, <2>5, <2>6, <2>7
       DEF SessionInv, PageIsEmpty, ListsOwn, NobodyListed, OneUserOnScreen, IsAuthenticated
<1> QED
  BY <1>1, <1>2, <1>3 DEF RunStep

LEMMA EditStepKeepsSession ==
  ASSUME SidebarTypeOK, SessionInv, EditStep
  PROVE  SessionInv'
<1>1. ASSUME NEW c \in ChatIds, NEW p \in Projects, CreateProjectChat(c, p) PROVE SessionInv'
  <2> DEFINE row == [of |-> me, in |-> p, name |-> "first"]
  <2>1. /\ UNCHANGED <<owner, token, me, refreshed, lists, todo, mixed>>
        /\ listed' = [listed EXCEPT ![c] = row] /\ IsAuthenticated
    BY <1>1 DEF CreateProjectChat, Edits, session
  <2>2. ~mixed => row.of = UserOf(token)
    BY <2>1 DEF SessionInv, OneUserOnScreen, IsAuthenticated
  <2> HIDE DEF row
  <2>3. ~mixed => \A d \in ChatIds : listed'[d] # Gone => listed'[d].of = UserOf(token)
    BY <2>1, <2>2 DEF SidebarTypeOK, SessionInv, OneUserOnScreen
  <2>4. UserOf(token)' = UserOf(token)
    BY <2>1 DEF UserOf
  <2> QED
    BY <2>1, <2>3, <2>4
       DEF SessionInv, PageIsEmpty, ListsOwn, NobodyListed, OneUserOnScreen, IsAuthenticated
<1>2. ASSUME NEW c \in ChatIds, Elsewhere(c) PROVE SessionInv'
  BY <1>2, SameSession DEF Elsewhere, session, screen
<1>3. ASSUME IsAuthenticated, UNCHANGED <<owner, session, listed, lists, mixed>> PROVE SessionInv'
  <2>1. UserOf(token)' = UserOf(token)
    BY <1>3 DEF UserOf, session
  <2> QED
    BY <1>3, <2>1
       DEF SessionInv, PageIsEmpty, ListsOwn, NobodyListed, OneUserOnScreen, IsAuthenticated, session
<1>4. ASSUME NEW c \in ChatIds, DeleteChat(c) \/ MoveChat(c) \/ RenameChat(c) PROVE SessionInv'
  BY <1>3, <1>4 DEF DeleteChat, MoveChat, RenameChat, PatchChat, Edits, KeepsView
<1>5. ASSUME NEW p \in Projects,
             CreateProject(p) \/ RenameProject(p) \/ MoveProject(p) \/ DeleteProject(p)
      PROVE  SessionInv'
  BY <1>3, <1>5
     DEF CreateProject, RenameProject, MoveProject, DeleteProject, PatchProject, Edits, ProjectStep,
         KeepsView
<1> QED
  BY <1>1, <1>2, <1>4, <1>5 DEF EditStep

LEMMA HandlersKeepSession ==
  ASSUME SidebarTypeOK, SessionInv, NEW h \in todo, Continues(h) \/ HandlerFails(h)
  PROVE  SessionInv'
<1>1. /\ UNCHANGED <<owner, token, me, refreshed, reading, mixed>>
      /\ ~(token # 0 /\ me = NoUser)
      /\ \A c \in ChatIds : listed'[c] \in {listed[c], Gone}
  BY DEF Continues, HandlerFails, Drops, ShowsTree, host, session, SessionInv, PageIsEmpty,
         SidebarTypeOK
<1>2. ListsOwn'
  BY AskChatsOwn DEF Continues, HandlerFails, SessionInv, ListsOwn
<1>3. UserOf(token)' = UserOf(token)
  BY <1>1 DEF UserOf
<1> QED
  BY <1>1, <1>2, <1>3 DEF SessionInv, PageIsEmpty, NobodyListed, OneUserOnScreen, IsAuthenticated

(* However answers to refresh, to the polls and to /auth/me, and those of  *)
(* runs on their streams, arrive around a logout and a login, the name and *)
(* the chats on the screen are those of the session, unless one of them    *)
(* crossed a login.                                                        *)
THEOREM SidebarOfOneUser == SidebarSpec => []OneUserOnScreen
<1>1. SidebarInit => SessionInv
  BY DEF SidebarInit, SessionInv, PageIsEmpty, ListsOwn, NobodyListed, OneUserOnScreen
<1>2. SidebarTypeOK /\ SessionInv /\ [SidebarNext]_sidebarVars => SessionInv'
  <2> SUFFICES ASSUME SidebarTypeOK, SessionInv, [SidebarNext]_sidebarVars PROVE SessionInv'
    OBVIOUS
  <2>1. CASE UNCHANGED sidebarVars
    BY <2>1, SameSession DEF sidebarVars, host, session, screen
  <2> QED
    BY <2>1, SessionStepKeeps, PollsKeep, RunStepKeepsSession, EditStepKeepsSession,
       HandlersKeepSession DEF SidebarNext, Handlers
<1>3. SessionInv => OneUserOnScreen
  BY DEF SessionInv
<1> QED
  BY <1>1, <1>2, <1>3, SidebarTypes, PTL DEF SidebarSpec

\* Steps that leave the runs, their buttons and the answers about them alone.
LEMMA SameRuns ==
  ASSUME RunsInv, UNCHANGED <<runs, stop, recents, hidden>>
  PROVE  RunsInv'
BY DEF RunsInv, EndedKnown, StopButtonStays

LEMMA SessionStepKeepsRuns ==
  ASSUME RunsInv, SessionStep
  PROVE  RunsInv'
<1>1. CASE ReloadPage
  <2>1. recents' = {} /\ runs' = runs /\ hidden' = DOMAIN runs
    BY <1>1 DEF ReloadPage
  <2> QED
    BY <2>1 DEF RunsInv, EndedKnown, StopButtonStays
<1>2. CASE ~ReloadPage
  BY <1>2, SameRuns
     DEF SessionStep, Login, UserAnswers, UserFails, Refresh, RefreshAnswers, RefreshFails, Logout,
         LogoutAnswers, SessionExpires, host, screen
<1> QED
  BY <1>1, <1>2

LEMMA RunStartsKeeps ==
  ASSUME SidebarTypeOK, RunsInv, NEW c \in ChatIds, RunStarts(c)
  PROVE  RunsInv'
<1> DEFINE n == Len(runs) + 1
           started == [chat |-> c, of |-> owner[token], st |-> "running", old |-> FALSE]
<1>1. /\ runs' = Append(runs, started) /\ stop' = [stop EXCEPT ![c] = n]
      /\ recents' = recents /\ hidden' = hidden
      /\ \A r \in DOMAIN runs : runs[r].chat = c => runs[r].st = "ended"
  BY DEF RunStarts
<1>2. started.chat = c
  OBVIOUS
<1> HIDE DEF started
<1>3. runs \in Seq(ChatRun)
  BY DEF SidebarTypeOK
<1>4. /\ DOMAIN runs' = DOMAIN runs \cup {n} /\ runs'[n] = started
      /\ \A r \in DOMAIN runs : runs'[r] = runs[r]
  BY <1>1, <1>3
<1> HIDE DEF n
<1>5. EndedKnown'
  BY <1>1, <1>4 DEF RunsInv, EndedKnown, SidebarTypeOK
<1>6. \A r \in DOMAIN runs : runs[r].chat \in ChatIds
  BY RunKnown
<1>7. stop \in [ChatIds -> {0} \cup DOMAIN runs]
  BY DEF SidebarTypeOK
<1>8. ASSUME NEW r \in DOMAIN runs
      PROVE  runs'[r].st = "ended" \/ r \in hidden' \/ stop'[runs'[r].chat] = r
  BY <1>1, <1>4, <1>6, <1>7 DEF RunsInv, StopButtonStays
<1>9. stop'[runs'[n].chat] = n
  BY <1>1, <1>2, <1>4, <1>7
<1> QED
  BY <1>4, <1>5, <1>8, <1>9 DEF RunsInv, StopButtonStays

\* A run that changes and had not ended keeps its chat and its button.
LEMMA StateKeeps ==
  ASSUME SidebarTypeOK, RunsInv, NEW r \in DOMAIN runs, NEW now, now.chat = runs[r].chat,
         runs[r].st # "ended",
         runs' = [runs EXCEPT ![r] = now], UNCHANGED <<stop, recents, hidden>>
  PROVE  RunsInv'
<1>1. /\ DOMAIN runs' = DOMAIN runs
      /\ \A q \in DOMAIN runs : q # r => runs'[q] = runs[q]
      /\ runs'[r] = now
  OBVIOUS
<1>2. EndedKnown'
  <2>1. \A a \in recents : a.ended \subseteq DOMAIN runs
    BY DEF SidebarTypeOK
  <2> QED
    BY <1>1, <2>1 DEF RunsInv, EndedKnown
<1>3. StopButtonStays'
  BY <1>1 DEF RunsInv, StopButtonStays
<1> QED
  BY <1>2, <1>3 DEF RunsInv

LEMMA SameChat ==
  ASSUME SidebarTypeOK, NEW r \in DOMAIN runs, NEW st
  PROVE  /\ [runs[r] EXCEPT !.st = st].chat = runs[r].chat
         /\ [runs[r] EXCEPT !.old = TRUE].chat = runs[r].chat
BY RunKnown DEF ChatRun

LEMMA RunStepKeepsRuns ==
  ASSUME SidebarTypeOK, RunsInv, RunStep
  PROVE  RunsInv'
<1>1. CASE PollRuns
  <2>1. /\ runs' = runs /\ stop' = stop /\ recents' = recents \cup {Recent}
        /\ hidden' = hidden \cup {r \in DOMAIN runs : SeemsOver(r) /\ runs[r].st # "ended"}
    BY <1>1 DEF PollRuns, AskRecent, host
  <2>2. \A r \in Recent.ended : r \in DOMAIN runs /\ SeemsOver(r)
    BY DEF Recent
  <2>3. \A r \in Recent.ended : runs[r].st = "ended" \/ r \in hidden'
    BY <2>1, <2>2
  <2> QED
    BY <2>1, <2>3 DEF RunsInv, EndedKnown, StopButtonStays
<1>2. ASSUME NEW a \in recents, RecentAnswers(a) PROVE RunsInv'
  <2>1. /\ runs' = runs /\ recents' \subseteq recents /\ hidden' = hidden
        /\ stop' = WithoutEnded(a.ended)
    BY <1>2 DEF RecentAnswers, host
  <2>2. \A r \in DOMAIN runs : runs[r].chat \in ChatIds
    BY RunKnown
  <2>3. \A r \in a.ended : runs[r].st = "ended" \/ r \in hidden
    BY DEF RunsInv, EndedKnown
  <2> QED
    BY <2>1, <2>2, <2>3 DEF RunsInv, EndedKnown, StopButtonStays, WithoutEnded
<1>3. ASSUME NEW c \in ChatIds, StopRun(c) PROVE RunsInv'
  <2> DEFINE r == stop[c]
  <2>1. r \in DOMAIN runs /\ runs[r].st # "ended" /\ UNCHANGED <<stop, recents, hidden>>
    BY <1>3 DEF StopRun, SidebarTypeOK, screen
  <2>2. runs' = [runs EXCEPT ![r] = [runs[r] EXCEPT !.st = "ended"]]
    BY <1>3 DEF StopRun
  <2> HIDE DEF r
  <2> QED
    BY <2>1, <2>2, SameChat, StateKeeps
<1>4. ASSUME NEW c \in ChatIds, OpenChat(c) PROVE RunsInv'
  BY <1>4, SameRuns DEF OpenChat, host
<1>5. ASSUME NEW r \in DOMAIN runs, StreamEnds(r) PROVE RunsInv'
  <2>1. /\ runs' = runs /\ recents' = recents
        /\ stop[runs[r].chat] = r /\ stop' = [stop EXCEPT ![runs[r].chat] = 0]
        /\ hidden \subseteq hidden' /\ (runs[r].st = "ended" \/ r \in hidden')
    BY <1>5 DEF StreamEnds, host
  <2>2. stop \in [ChatIds -> {0} \cup DOMAIN runs]
    BY DEF SidebarTypeOK
  <2>3. \A q \in DOMAIN runs : runs[q].chat \in ChatIds
    BY RunKnown
  <2> QED
    BY <2>1, <2>2, <2>3 DEF RunsInv, EndedKnown, StopButtonStays
<1>6. ASSUME NEW r \in DOMAIN runs, NEW st \in {"running", "tripped", "ended"}, RunGoes(r, st)
      PROVE  RunsInv'
  <2>1. runs[r].st # "ended" /\ UNCHANGED <<stop, recents, hidden>>
    BY <1>6 DEF RunGoes, screen
  <2>2. runs' = [runs EXCEPT ![r] = [runs[r] EXCEPT !.st = st]]
    BY <1>6 DEF RunGoes
  <2> QED
    BY <2>1, <2>2, SameChat, StateKeeps
<1>7. ASSUME NEW o \in opens, OpenAnswers(o) PROVE RunsInv'
  <2>1. /\ runs' = runs /\ recents' = recents /\ hidden \subseteq hidden'
        /\ stop' = [stop EXCEPT ![o.chat] = IF o.run THEN @ ELSE 0]
        /\ o.run \/ stop[o.chat] = 0 \/ stop[o.chat] \in hidden'
    BY <1>7 DEF OpenAnswers, host
  <2>2. stop \in [ChatIds -> {0} \cup DOMAIN runs] /\ o.chat \in ChatIds
    BY DEF SidebarTypeOK
  <2>3. \A r \in DOMAIN runs : runs[r].chat \in ChatIds /\ r # 0
    BY RunKnown
  <2>4. EndedKnown'
    BY <2>1 DEF RunsInv, EndedKnown
  <2>5. StopButtonStays'
    BY <2>1, <2>2, <2>3 DEF RunsInv, StopButtonStays
  <2> QED
    BY <2>4, <2>5 DEF RunsInv
<1>8. ASSUME NEW r \in DOMAIN runs, RunAges(r) PROVE RunsInv'
  <2>1. runs[r].st # "ended" /\ UNCHANGED <<stop, recents, hidden>>
    BY <1>8 DEF RunAges, screen
  <2>2. runs' = [runs EXCEPT ![r] = [runs[r] EXCEPT !.old = TRUE]]
    BY <1>8 DEF RunAges
  <2> QED
    BY <2>1, <2>2, SameChat, StateKeeps
<1>9. ASSUME NEW r \in DOMAIN runs, StreamCompletes(r) PROVE RunsInv'
  BY <1>9, SameRuns DEF StreamCompletes, host
<1> QED
  BY <1>1, <1>2, <1>3, <1>4, <1>5, <1>6, <1>7, <1>8, <1>9, RunStartsKeeps DEF RunStep

(* A stop button goes with the run it is for: no answer about other runs,  *)
(* other chats or an earlier moment takes it away, but for the four ways   *)
(* that the history variable hidden records.                               *)
THEOREM SidebarStopButton == SidebarSpec => []StopButtonStays
<1>1. SidebarInit => RunsInv
  BY DEF SidebarInit, RunsInv, EndedKnown, StopButtonStays
<1>2. SidebarTypeOK /\ RunsInv /\ [SidebarNext]_sidebarVars => RunsInv'
  <2> SUFFICES ASSUME SidebarTypeOK, RunsInv, [SidebarNext]_sidebarVars PROVE RunsInv'
    OBVIOUS
  <2>1. CASE Polls
    BY <2>1, SameRuns DEF Polls, PollChats, ListAnswers, host
  <2>2. CASE EditStep
    BY <2>2, SameRuns
       DEF EditStep, DeleteChat, MoveChat, RenameChat, PatchChat, Elsewhere, CreateProjectChat,
           CreateProject, RenameProject, MoveProject, PatchProject, DeleteProject, ProjectStep,
           KeepsView, screen
  <2>3. CASE Handlers
    BY <2>3, SameRuns DEF Handlers, Continues, HandlerFails, host
  <2>4. CASE UNCHANGED sidebarVars
    BY <2>4, SameRuns DEF sidebarVars, host, screen
  <2> QED
    BY <2>1, <2>2, <2>3, <2>4, SessionStepKeepsRuns, RunStepKeepsRuns DEF SidebarNext
<1>3. RunsInv => StopButtonStays
  BY DEF RunsInv
<1> QED
  BY <1>1, <1>2, <1>3, SidebarTypes, PTL DEF SidebarSpec

=============================================================================
