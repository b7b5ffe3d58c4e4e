--------------------------- MODULE RunRouteProofs ---------------------------
(***************************************************************************)
(* Proofs about RunRoute for every set of clients, branches and call ids:  *)
(* no client misses an event, a run can be stopped while it executes, what *)
(* waits for an answer can get one or is released by the stop, and the     *)
(* stream state drains when the run is over.                               *)
(***************************************************************************)
EXTENDS RunRoute, TLAPS

(* What ties the stream state to the connections: a run that executes      *)
(* sends to every open connection, only open ones are sent to, the state   *)
(* is marked finished when the run is over, and only a chat run has one.   *)
Attached ==
  /\ \A c \in Clients : (~over /\ conn[c] = "open") => c \in state.streams
  /\ \A c \in state.streams : conn[c] = "open"
  /\ state.present => (state.finished <=> over)
  /\ chat \/ (~state.present /\ \A c \in Clients : conn[c] # "open")

StreamInv == TypeOK /\ Attached /\ FinishedStateHeld /\ FeedsAreComplete

ApprovalInv ==
  TypeOK /\ PendingIsAwaited /\ WaitingIsAnswerable /\ StopReleasesWaiters

-----------------------------------------------------------------------------
(* Dropping a connection keeps the shape of the stream state.              *)
LEMMA WithoutType ==
  ASSUME NEW st \in State, ~st.present => st.streams = {}, NEW c \in Clients
  PROVE  /\ Without(st, c) \in State
         /\ Without(st, c).streams = st.streams \ {c}
         /\ Without(st, c).finished = st.finished
         /\ Without(st, c).present = (st.present /\ ~(st.streams \ {c} = {} /\ st.finished))
         /\ ~Without(st, c).present => Without(st, c).streams = {}
  BY DEF Without, State

(* TypeOK holds initially and is preserved by every step.                  *)
LEMMA TypeInit == Init => TypeOK
<1>1. ASSUME Init PROVE TypeOK
  <2>1. state \in State /\ (~state.present => state.streams = {})
    BY <1>1, RouteAssumption DEF Init, State
  <2>2. log \in Seq(Message) /\ inbox \in [Clients -> Seq(Message)]
    BY <1>1 DEF Init
  <2>3. gone \in [Clients -> BOOLEAN] /\ heard \in [Clients -> BOOLEAN]
    BY <1>1 DEF Init
  <2>4. conn \in [Clients -> {"none", "auth", "open", "closed"}] /\ ended \in [Clients -> BOOLEAN]
    BY <1>1 DEF Init
  <2>5. waiting \in [Branches -> CallIds \cup {None}] /\ pending \in [CallIds -> Branches \cup {None}]
    BY <1>1 DEF Init
  <2> QED BY <1>1, <2>1, <2>2, <2>3, <2>4, <2>5 DEF Init, TypeOK
<1> QED BY <1>1

(* Every step keeps the shape of the variables.                            *)
LEMMA TypeStep == TypeOK /\ [Next]_vars => TypeOK'
<1> SUFFICES ASSUME TypeOK, [Next]_vars PROVE TypeOK'
  OBVIOUS
<1> USE RouteAssumption
<1>1. ASSUME Emit PROVE TypeOK'
  <2>1. Len(log) + 1 \in Message
    BY <1>1 DEF Emit, TypeOK, Message
  <2>2. log' \in Seq(Message) /\ inbox' \in [Clients -> Seq(Message)]
    BY <1>1, <2>1 DEF Emit, Publish, Push, TypeOK
  <2> QED BY <1>1, <2>2 DEF Emit, Run, Approvals, TypeOK
<1>2. ASSUME NEW c \in Clients, Request(c) PROVE TypeOK'
  BY <1>2 DEF Request, Run, Approvals, TypeOK
<1>3. ASSUME NEW c \in Clients, Attach(c) PROVE TypeOK'
  <2>1. Append(log, Fin) \in Seq(Message) /\ log \in Seq(Message)
    BY DEF TypeOK, Message, Fin
  <2>2. inbox' \in [Clients -> Seq(Message)]
    BY <1>3, <2>1 DEF Attach, Replay, TypeOK
  <2>3. state' \in State /\ (~state'.present => state'.streams = {})
    <3>1. CASE state' = state
      BY <3>1 DEF TypeOK
    <3>2. CASE state.present /\ state' = [state EXCEPT !.streams = @ \cup {c}]
      BY <3>2 DEF TypeOK, State
    <3> QED BY <1>3, <3>1, <3>2 DEF Attach
  <2>4. /\ conn' \in [Clients -> {"none", "auth", "open", "closed"}]
        /\ heard' \in [Clients -> BOOLEAN] /\ ended' \in [Clients -> BOOLEAN]
    BY <1>3 DEF Attach, TypeOK
  <2>5. UNCHANGED <<Run, log, gone, Approvals>>
    BY <1>3 DEF Attach
  <2> QED BY <2>2, <2>3, <2>4, <2>5 DEF Run, Approvals, TypeOK
<1>4. ASSUME NEW c \in Clients, HangUp(c) PROVE TypeOK'
  <2>1. state' \in State /\ (~state'.present => state'.streams = {})
    <3>1. CASE state' = state
      BY <3>1 DEF TypeOK
    <3>2. CASE state' = Without(state, c)
      BY <3>2, WithoutType DEF TypeOK
    <3> QED BY <1>4, <3>1, <3>2 DEF HangUp, OnClose
  <2> QED BY <1>4, <2>1 DEF HangUp, OnClose, Approvals, TypeOK
<1>5. ASSUME NEW c \in Clients, ResponseEnds(c) PROVE TypeOK'
  <2>1. state' \in State /\ (~state'.present => state'.streams = {})
    BY <1>5, WithoutType DEF ResponseEnds, OnClose, TypeOK
  <2> QED BY <1>5, <2>1 DEF ResponseEnds, OnClose, Approvals, TypeOK
<1>6. ASSUME NEW b \in Branches, NEW i \in CallIds, Ask(b, i) PROVE TypeOK'
  BY <1>6 DEF Ask, Run, Streams, TypeOK
<1>7. ASSUME NEW i \in CallIds, Answer(i) PROVE TypeOK'
  BY <1>7 DEF Answer, Forget, Run, Streams, TypeOK
<1>8. ASSUME Stop PROVE TypeOK'
  BY <1>8 DEF Stop, RejectWaiting, Streams, TypeOK
<1>9. ASSUME Settle PROVE TypeOK'
  <2>1. [state EXCEPT !.finished = TRUE] \in State
    BY DEF TypeOK, State
  <2>2. ~[state EXCEPT !.finished = TRUE].present => [state EXCEPT !.finished = TRUE].streams = {}
    BY DEF TypeOK, State
  <2>3. state' \in State /\ (~state'.present => state'.streams = {})
    <3>1. CASE state' = state
      BY <3>1 DEF TypeOK
    <3>2. CASE state' = Without([state EXCEPT !.finished = TRUE], Poster)
      BY <3>2, <2>1, <2>2, WithoutType
    <3> QED BY <1>9, <3>1, <3>2 DEF Settle, Finish
  <2>4. Fin \in Message
    BY DEF Fin, Message
  <2>5. inbox' \in [Clients -> Seq(Message)]
    <3>1. CASE inbox' = inbox
      BY <3>1 DEF TypeOK
    <3>2. CASE Push(state.streams, Fin)
      BY <3>2, <2>4 DEF Push, TypeOK
    <3> QED BY <1>9, <3>1, <3>2 DEF Settle
  <2>6. ended' \in [Clients -> BOOLEAN]
    BY <1>9 DEF Settle, TypeOK
  <2> QED BY <1>9, <2>3, <2>5, <2>6 DEF Settle, Approvals, TypeOK
<1>10. ASSUME UNCHANGED vars PROVE TypeOK'
  BY <1>10 DEF vars, TypeOK
<1> QED BY <1>1, <1>2, <1>3, <1>4, <1>5, <1>6, <1>7, <1>8, <1>9, <1>10 DEF Next

(* Every reachable state of the routes has the shape TypeOK describes.     *)
THEOREM RouteTypeCorrect == Spec => []TypeOK
  BY TypeInit, TypeStep, PTL DEF Spec

-----------------------------------------------------------------------------
(* Inside a step the stream invariant carries over if nothing it speaks of *)
(* changes.                                                                *)
StreamsAlone == <<chat, over, state, log, conn, heard, inbox>>

(* The stream parts of the invariant hold initially.                       *)
LEMMA StreamInit == Init => Attached /\ FinishedStateHeld /\ FeedsAreComplete
<1> SUFFICES ASSUME Init PROVE Attached /\ FinishedStateHeld /\ FeedsAreComplete
  OBVIOUS
<1>1. Attached
  BY RouteAssumption DEF Init, Attached
<1>2. FinishedStateHeld
  BY DEF Init, FinishedStateHeld
<1>3. FeedsAreComplete
  BY DEF Init, FeedsAreComplete
<1> QED BY <1>1, <1>2, <1>3

(* Closing the connection of c takes it out of the state and nothing else. *)
LEMMA CloseKeepsStreams ==
  ASSUME StreamInv, TypeOK', NEW c \in Clients, state' = Without(state, c),
         conn' = [conn EXCEPT ![c] = "closed"],
         UNCHANGED <<chat, over, log, heard, inbox>>
  PROVE  Attached' /\ FinishedStateHeld' /\ FeedsAreComplete'
<1> USE DEF StreamInv
<1>1. /\ state'.streams = state.streams \ {c}
      /\ state'.finished = state.finished
      /\ state'.present = (state.present /\ ~(state.streams \ {c} = {} /\ state.finished))
  BY WithoutType DEF TypeOK
<1>2. \A d \in Clients : conn'[d] = IF d = c THEN "closed" ELSE conn[d]
  BY DEF TypeOK
<1>3. Attached'
  BY <1>1, <1>2 DEF Attached, TypeOK, State
<1>4. FinishedStateHeld'
  BY <1>1 DEF FinishedStateHeld, Attached
<1>5. FeedsAreComplete'
  BY <1>1, <1>2 DEF FeedsAreComplete
<1> QED BY <1>3, <1>4, <1>5

(* Every step keeps the stream parts of the invariant.                     *)
LEMMA StreamStep ==
  StreamInv /\ TypeOK' /\ [Next]_vars => Attached' /\ FinishedStateHeld' /\ FeedsAreComplete'
<1> SUFFICES ASSUME StreamInv, TypeOK', [Next]_vars
             PROVE  Attached' /\ FinishedStateHeld' /\ FeedsAreComplete'
  OBVIOUS
<1> USE DEF StreamInv
<1>1. ASSUME UNCHANGED StreamsAlone PROVE Attached' /\ FinishedStateHeld' /\ FeedsAreComplete'
  BY <1>1 DEF StreamsAlone, Attached, FinishedStateHeld, FeedsAreComplete
<1>2. CASE Emit
  <2>1. Attached' /\ FinishedStateHeld'
    BY <1>2 DEF Emit, Run, Attached, FinishedStateHeld
  <2>2. FeedsAreComplete'
    <3>1. ASSUME NEW c \in Clients, conn[c] = "open"
          PROVE  inbox'[c] = log'
      <4>1. c \in state.streams /\ inbox[c] = log
        BY <1>2, <3>1 DEF Emit, Attached, FeedsAreComplete
      <4> QED BY <1>2, <4>1 DEF Emit, Publish, Push, TypeOK
    <3> QED BY <1>2, <3>1 DEF Emit, Run, FeedsAreComplete
  <2> QED BY <2>1, <2>2
<1>3. ASSUME NEW c \in Clients, Request(c)
      PROVE  Attached' /\ FinishedStateHeld' /\ FeedsAreComplete'
  <2>1. \A d \in Clients : conn'[d] = IF d = c THEN "auth" ELSE conn[d]
    BY <1>3 DEF Request, TypeOK
  <2>2. conn[c] = "none" /\ UNCHANGED <<chat, over, state, log, heard, inbox>>
    BY <1>3 DEF Request, Run
  <2>3. Attached'
    BY <2>1, <2>2 DEF Attached, TypeOK, State
  <2>4. FinishedStateHeld'
    BY <2>2 DEF FinishedStateHeld
  <2>5. FeedsAreComplete'
    BY <2>1, <2>2 DEF FeedsAreComplete
  <2> QED BY <2>3, <2>4, <2>5
<1>4. ASSUME NEW c \in Clients, Attach(c)
      PROVE  Attached' /\ FinishedStateHeld' /\ FeedsAreComplete'
  <2>1. UNCHANGED <<chat, over, log>> /\ conn[c] = "auth"
    BY <1>4 DEF Attach, Run
  <2>2. CASE ~state.present
    <3>1. UNCHANGED <<state, heard, inbox>> /\ conn' = [conn EXCEPT ![c] = "closed"]
      BY <1>4, <2>2 DEF Attach
    <3>2. \A d \in Clients : conn'[d] = IF d = c THEN "closed" ELSE conn[d]
      BY <3>1 DEF TypeOK
    <3>3. Attached'
      BY <2>1, <3>1, <3>2 DEF Attached, TypeOK, State
    <3>4. FinishedStateHeld' /\ FeedsAreComplete'
      BY <2>1, <3>1, <3>2 DEF FinishedStateHeld, FeedsAreComplete
    <3> QED BY <3>3, <3>4
  <2>3. CASE state.present /\ state.finished
    <3>1. UNCHANGED state /\ over
      BY <1>4, <2>3 DEF Attach, Attached
    <3>2. /\ \A d \in Clients : conn'[d] = IF d = c THEN "open" ELSE conn[d]
          /\ \A d \in Clients : inbox'[d] = IF d = c THEN Append(log, Fin) ELSE inbox[d]
          /\ \A d \in Clients : d # c => heard'[d] = heard[d]
      BY <1>4, <2>3 DEF Attach, Replay, TypeOK
    <3>3. Attached' /\ FinishedStateHeld'
      BY <2>1, <2>3, <3>1, <3>2 DEF Attached, FinishedStateHeld, TypeOK, State
    <3>4. FeedsAreComplete'
      BY <2>1, <3>1, <3>2 DEF FeedsAreComplete
    <3> QED BY <3>3, <3>4
  <2>4. CASE state.present /\ ~state.finished
    <3>1. ~over /\ state' = [state EXCEPT !.streams = @ \cup {c}]
      BY <1>4, <2>4 DEF Attach, Attached
    <3>2. /\ \A d \in Clients : conn'[d] = IF d = c THEN "open" ELSE conn[d]
          /\ \A d \in Clients : inbox'[d] = IF d = c THEN log ELSE inbox[d]
          /\ \A d \in Clients : d # c => heard'[d] = heard[d]
      BY <1>4, <2>4 DEF Attach, Replay, TypeOK
    <3>3. /\ state'.streams = state.streams \cup {c}
          /\ state'.present /\ ~state'.finished
      BY <2>4, <3>1 DEF TypeOK, State
    <3>4. Attached' /\ FinishedStateHeld'
      BY <2>1, <3>1, <3>2, <3>3 DEF Attached, FinishedStateHeld, TypeOK, State
    <3>5. FeedsAreComplete'
      BY <2>1, <3>1, <3>2, <3>3 DEF FeedsAreComplete
    <3> QED BY <3>4, <3>5
  <2> QED BY <2>2, <2>3, <2>4
<1>5. ASSUME NEW c \in Clients, HangUp(c)
      PROVE  Attached' /\ FinishedStateHeld' /\ FeedsAreComplete'
  <2>1. CASE heard[c]
    BY <1>5, <2>1, CloseKeepsStreams DEF HangUp, OnClose
  <2>2. CASE ~heard[c]
    BY <1>5, <2>2, <1>1 DEF HangUp, StreamsAlone
  <2> QED BY <2>1, <2>2
<1>6. ASSUME NEW c \in Clients, ResponseEnds(c)
      PROVE  Attached' /\ FinishedStateHeld' /\ FeedsAreComplete'
  BY <1>6, CloseKeepsStreams DEF ResponseEnds, OnClose
<1>7. CASE Settle /\ ~chat
  <2>1. UNCHANGED <<chat, state, log, conn, heard, inbox>>
    BY <1>7 DEF Settle
  <2>2. ~state.present /\ state.streams = {} /\ \A c \in Clients : conn[c] # "open"
    BY <1>7 DEF Attached, TypeOK
  <2> QED BY <1>7, <2>1, <2>2 DEF Attached, FinishedStateHeld, FeedsAreComplete, TypeOK
<1>8. CASE Settle /\ chat
  <2> DEFINE st == [state EXCEPT !.finished = TRUE]
  <2>1. /\ ~over /\ over' /\ UNCHANGED <<chat, log, conn, heard>>
        /\ Push(state.streams, Fin) /\ state' = Without(st, Poster)
    BY <1>8 DEF Settle, Finish
  <2>2. st \in State /\ st.streams = state.streams /\ st.finished
        /\ st.present = state.present /\ (~st.present => st.streams = {})
    BY DEF TypeOK, State
  <2> HIDE DEF st
  <2>3. /\ state'.streams = state.streams \ {Poster}
        /\ state'.finished
        /\ state'.present = (state.present /\ ~(state.streams \ {Poster} = {}))
    BY <2>1, <2>2, WithoutType, RouteAssumption
  <2>4. Attached' /\ FinishedStateHeld'
    BY <1>8, <2>1, <2>3 DEF Attached, FinishedStateHeld
  <2>5. ASSUME NEW c \in Clients, conn[c] = "open" PROVE inbox'[c] = Append(log, Fin)
    <3>1. c \in state.streams /\ inbox[c] = log
      BY <2>1, <2>5 DEF Attached, FeedsAreComplete
    <3> QED BY <2>1, <3>1 DEF Push, TypeOK
  <2>6. FeedsAreComplete'
    BY <2>1, <2>5 DEF FeedsAreComplete
  <2> QED BY <2>4, <2>6
<1>9. ASSUME NEW b \in Branches, NEW i \in CallIds, Ask(b, i) PROVE UNCHANGED StreamsAlone
  BY <1>9 DEF Ask, Run, Streams, StreamsAlone
<1>10. ASSUME NEW i \in CallIds, Answer(i) PROVE UNCHANGED StreamsAlone
  BY <1>10 DEF Answer, Run, Streams, StreamsAlone
<1>11. CASE Stop
  BY <1>11, <1>1 DEF Stop, Streams, StreamsAlone
<1>12. CASE UNCHANGED vars
  BY <1>12, <1>1 DEF vars, StreamsAlone
<1> QED BY <1>1, <1>2, <1>3, <1>4, <1>5, <1>6, <1>7, <1>8, <1>9, <1>10, <1>11, <1>12 DEF Next

(* Whenever a client attached, it misses no event and gets none twice.     *)
THEOREM RouteFeedsComplete == Spec => []FeedsAreComplete
<1>1. Init => StreamInv
  BY TypeInit, StreamInit DEF StreamInv
<1>2. StreamInv /\ [Next]_vars => StreamInv'
  BY TypeStep, StreamStep DEF StreamInv
<1>3. StreamInv => FeedsAreComplete
  BY DEF StreamInv
<1> QED BY <1>1, <1>2, <1>3, PTL DEF Spec

(* The stream state of a run outlives it only as long as a stream is left  *)
(* whose close frees it.                                                   *)
THEOREM RouteFinishedStateHeld == Spec => []FinishedStateHeld
<1>1. Init => StreamInv
  BY TypeInit, StreamInit DEF StreamInv
<1>2. StreamInv /\ [Next]_vars => StreamInv'
  BY TypeStep, StreamStep DEF StreamInv
<1>3. StreamInv => FinishedStateHeld
  BY DEF StreamInv
<1> QED BY <1>1, <1>2, <1>3, PTL DEF Spec

-----------------------------------------------------------------------------
(* What is left to do once the run is over: a client in the stream state   *)
(* is one whose close listener hears it and who is there, or one who hung  *)
(* up before it was attached, and when the run is over its stream is ended.*)
Leaving ==
  \A c \in state.streams : (heard[c] <=> ~gone[c]) /\ (over => ended[c])

DrainInv == StreamInv /\ Leaving

Drains ==
  over /\ ~LeftEarly =>
    \A c \in state.streams : conn[c] = "open" /\ ended[c] /\ heard[c] /\ ~gone[c]

OnlyDrains ==
  over => /\ state'.streams \subseteq state.streams
          /\ state'.present => state'.streams # {}

(* At the start only the poster is attached, heard unless it has hung up.  *)
LEMMA LeavingInit == Init => Leaving
<1> SUFFICES ASSUME Init, NEW c \in state.streams PROVE (heard[c] <=> ~gone[c]) /\ ~over
  BY DEF Leaving
<1>1. chat /\ c = Poster /\ c \in Clients /\ ~over
  BY RouteAssumption DEF Init
<1>2. heard[c] = ~gone[c]
  BY <1>1 DEF Init
<1> QED BY <1>1, <1>2

(* Every step keeps it: a client attaches with its listener unless it has  *)
(* hung up, one that is heard leaves when it hangs up, and the end of the  *)
(* run ends every stream.                                                  *)
LEMMA LeavingStep == DrainInv /\ TypeOK' /\ [Next]_vars => Leaving'
<1> SUFFICES ASSUME DrainInv, TypeOK', [Next]_vars PROVE Leaving'
  OBVIOUS
<1> USE DEF DrainInv, StreamInv
<1>1. ASSUME UNCHANGED <<over, state, gone, heard, ended>> PROVE Leaving'
  BY <1>1 DEF Leaving
<1>2. ASSUME NEW c \in Clients, Attach(c) PROVE Leaving'
  <2>1. c \notin state.streams /\ UNCHANGED <<over, gone>>
    BY <1>2 DEF Attach, Attached, Run
  <2>2. CASE ~state.present
    BY <1>2, <2>1, <2>2, <1>1 DEF Attach
  <2>3. CASE state.present /\ state.finished
    <3>1. /\ state' = state
          /\ heard' = [heard EXCEPT ![c] = ~gone[c]] /\ ended' = [ended EXCEPT ![c] = TRUE]
      BY <1>2, <2>3 DEF Attach
    <3>2. \A d \in state.streams : heard'[d] = heard[d] /\ ended'[d] = ended[d]
      BY <2>1, <3>1 DEF TypeOK, State
    <3> QED BY <2>1, <3>1, <3>2 DEF Leaving
  <2>4. CASE state.present /\ ~state.finished
    <3>1. /\ state' = [state EXCEPT !.streams = @ \cup {c}]
          /\ heard' = [heard EXCEPT ![c] = ~gone[c]] /\ ~over
      BY <1>2, <2>4 DEF Attach, Attached
    <3>2. state'.streams = state.streams \cup {c}
      BY <3>1 DEF TypeOK, State
    <3>3. /\ heard'[c] = ~gone[c]
          /\ \A d \in state.streams : heard'[d] = heard[d]
      BY <2>1, <3>1 DEF TypeOK, State
    <3> QED BY <2>1, <3>1, <3>2, <3>3 DEF Leaving
  <2> QED BY <2>2, <2>3, <2>4
<1>3. ASSUME NEW c \in Clients, HangUp(c) PROVE Leaving'
  <2>1. /\ ~gone[c] /\ UNCHANGED <<over, heard>>
        /\ gone' = [gone EXCEPT ![c] = TRUE]
    BY <1>3 DEF HangUp
  <2>2. CASE heard[c]
    <3>1. /\ state' = Without(state, c)
          /\ ended' = [ended EXCEPT ![c] = @ \/ c # Poster]
      BY <1>3, <2>2 DEF HangUp, OnClose
    <3>2. state'.streams = state.streams \ {c}
      BY <3>1, WithoutType DEF TypeOK
    <3>3. \A d \in state.streams \ {c} : gone'[d] = gone[d] /\ ended'[d] = ended[d]
      BY <2>1, <3>1 DEF TypeOK, State
    <3> QED BY <2>1, <3>2, <3>3 DEF Leaving
  <2>3. CASE ~heard[c]
    <3>1. c \notin state.streams /\ UNCHANGED <<state, ended>>
      BY <1>3, <2>1, <2>3 DEF HangUp, Leaving
    <3>2. \A d \in state.streams : gone'[d] = gone[d]
      BY <2>1, <3>1 DEF TypeOK, State
    <3> QED BY <2>1, <3>1, <3>2 DEF Leaving
  <2> QED BY <2>2, <2>3
<1>4. ASSUME NEW c \in Clients, ResponseEnds(c) PROVE Leaving'
  <2>1. state' = Without(state, c) /\ UNCHANGED <<over, gone, heard, ended>>
    BY <1>4 DEF ResponseEnds, OnClose
  <2>2. state'.streams = state.streams \ {c}
    BY <2>1, WithoutType DEF TypeOK
  <2> QED BY <2>1, <2>2 DEF Leaving
<1>5. CASE Settle /\ ~chat
  <2>1. state.streams = {} /\ state' = state
    BY <1>5 DEF Settle, Attached, TypeOK
  <2> QED BY <2>1 DEF Leaving
<1>6. CASE Settle /\ chat
  <2> DEFINE st == [state EXCEPT !.finished = TRUE]
  <2>1. /\ state' = Without(st, Poster) /\ UNCHANGED <<gone, heard>>
        /\ ended' = [c \in Clients |-> ended[c] \/ c \in state.streams]
    BY <1>6 DEF Settle, Finish
  <2>2. st \in State /\ st.streams = state.streams /\ (~st.present => st.streams = {})
    BY DEF TypeOK, State
  <2> HIDE DEF st
  <2>3. state'.streams = state.streams \ {Poster}
    BY <2>1, <2>2, WithoutType, RouteAssumption
  <2>4. \A c \in state.streams : ended'[c]
    BY <2>1 DEF TypeOK, State
  <2> QED BY <2>1, <2>3, <2>4 DEF Leaving
<1>7. CASE Emit
  BY <1>7, <1>1 DEF Emit, Run
<1>8. ASSUME NEW c \in Clients, Request(c) PROVE Leaving'
  BY <1>8, <1>1 DEF Request, Run
<1>9. CASE Stop
  BY <1>9, <1>1 DEF Stop, Streams
<1>10. ASSUME NEW b \in Branches, NEW i \in CallIds, Ask(b, i) PROVE Leaving'
  BY <1>10, <1>1 DEF Ask, Run, Streams
<1>11. ASSUME NEW i \in CallIds, Answer(i) PROVE Leaving'
  BY <1>11, <1>1 DEF Answer, Run, Streams
<1>12. CASE UNCHANGED vars
  BY <1>12, <1>1 DEF vars
<1> QED BY <1>2, <1>3, <1>4, <1>5, <1>6, <1>7, <1>8, <1>9, <1>10, <1>11, <1>12 DEF Next

(* After the end of the run nobody joins its stream state any more, and a  *)
(* state that stays has a stream left.                                     *)
LEMMA DrainStep == DrainInv /\ DrainInv' /\ [Next]_vars => OnlyDrains
<1> SUFFICES ASSUME DrainInv, DrainInv', [Next]_vars, over
             PROVE  /\ state'.streams \subseteq state.streams
                    /\ state'.present => state'.streams # {}
  BY DEF OnlyDrains
<1> USE DEF DrainInv, StreamInv
<1>1. over'
  BY DEF Next, vars, Run, Emit, Stop, Request, Attach, HangUp, OnClose, ResponseEnds, Ask,
         Answer, Settle
<1>2. state'.present => state'.streams # {}
  BY <1>1 DEF FinishedStateHeld
<1>3. state' = state \/ \E c \in Clients : state' = Without(state, c)
  <2>1. ASSUME NEW c \in Clients, Attach(c) PROVE state' = state
    BY <2>1 DEF Attach, Attached
  <2>2. ASSUME NEW c \in Clients, HangUp(c) PROVE state' = state \/ state' = Without(state, c)
    BY <2>2 DEF HangUp, OnClose
  <2>3. ASSUME NEW c \in Clients, ResponseEnds(c) PROVE state' = Without(state, c)
    BY <2>3 DEF ResponseEnds, OnClose
  <2>4. ASSUME NEW c \in Clients, Request(c) PROVE state' = state
    BY <2>4 DEF Request
  <2>5. Emit \/ Stop => state' = state
    BY DEF Emit, Stop, Streams
  <2>6. ~Settle
    BY DEF Settle
  <2>7. ASSUME NEW b \in Branches, NEW i \in CallIds, Ask(b, i) PROVE state' = state
    BY <2>7 DEF Ask, Streams
  <2>8. ASSUME NEW i \in CallIds, Answer(i) PROVE state' = state
    BY <2>8 DEF Answer, Streams
  <2>9. UNCHANGED vars => state' = state
    BY DEF vars
  <2> QED BY <2>1, <2>2, <2>3, <2>4, <2>5, <2>6, <2>7, <2>8, <2>9 DEF Next
<1>4. state'.streams \subseteq state.streams
  BY <1>3, WithoutType DEF TypeOK
<1> QED BY <1>2, <1>4

(* The state of a run that is over drains: unless a client hung up before  *)
(* its close listener was attached, the response of every stream in it may *)
(* end at once, no stream is added, and with the last one it is freed. It  *)
(* is what StateIsFreed rests on, without the fairness.                    *)
THEOREM RouteStateDrains == Spec => []Drains /\ [][OnlyDrains]_vars
<1>1. Init => DrainInv
  BY TypeInit, StreamInit, LeavingInit DEF DrainInv, StreamInv
<1>2. DrainInv /\ [Next]_vars => DrainInv'
  BY TypeStep, StreamStep, LeavingStep DEF DrainInv, StreamInv
<1>3. DrainInv => Drains
  BY DEF DrainInv, StreamInv, Attached, Leaving, LeftEarly, Drains
<1>4. DrainInv /\ DrainInv' /\ [Next]_vars => [OnlyDrains]_vars
  BY DrainStep
<1> QED BY <1>1, <1>2, <1>3, <1>4, PTL DEF Spec

-----------------------------------------------------------------------------
(* A run that executes is registered: every step that ends it also drops   *)
(* the registration, and no other step does.                               *)
THEOREM RouteRunningIsStoppable == Spec => []RunningIsStoppable
<1>1. Init => RunningIsStoppable
  BY DEF Init, RunningIsStoppable
<1>2. RunningIsStoppable /\ [Next]_vars => RunningIsStoppable'
  <2> SUFFICES ASSUME RunningIsStoppable, [Next]_vars PROVE RunningIsStoppable'
    OBVIOUS
  <2>1. CASE Settle
    BY <2>1 DEF Settle, RunningIsStoppable
  <2>2. CASE UNCHANGED <<registered, over>>
    BY <2>2 DEF RunningIsStoppable
  <2>3. Settle \/ UNCHANGED <<registered, over>>
    BY DEF Next, vars, Run, Emit, Stop, Request, Attach, HangUp, OnClose, ResponseEnds, Ask,
           Answer
  <2> QED BY <2>1, <2>2, <2>3
<1> QED BY <1>1, <1>2, PTL DEF Spec

-----------------------------------------------------------------------------
(* Nobody waits and nothing is pending initially.                          *)
LEMMA ApprovalInit == Init => PendingIsAwaited /\ WaitingIsAnswerable /\ StopReleasesWaiters
  BY DEF Init, PendingIsAwaited, WaitingIsAnswerable, StopReleasesWaiters

(* Every step keeps waiting branches and pending entries in step.          *)
LEMMA ApprovalStep ==
  ApprovalInv /\ [Next]_vars
  => PendingIsAwaited' /\ WaitingIsAnswerable' /\ StopReleasesWaiters'
<1> SUFFICES ASSUME ApprovalInv, [Next]_vars
             PROVE  PendingIsAwaited' /\ WaitingIsAnswerable' /\ StopReleasesWaiters'
  OBVIOUS
<1> USE RouteAssumption DEF ApprovalInv
<1>1. CASE UNCHANGED <<aborted, Approvals>>
  BY <1>1 DEF Approvals, PendingIsAwaited, WaitingIsAnswerable, StopReleasesWaiters
<1>2. ASSUME NEW b \in Branches, NEW i \in CallIds, Ask(b, i)
      PROVE  PendingIsAwaited' /\ WaitingIsAnswerable' /\ StopReleasesWaiters'
  <2>1. /\ \A a \in Branches : waiting'[a] = IF a = b THEN i ELSE waiting[a]
        /\ \A j \in CallIds : pending'[j] = IF j = i THEN b ELSE pending[j]
        /\ waiting[b] = None /\ aborted' = aborted /\ (aborted => b \in Blind)
    BY <1>2 DEF Ask, Run, TypeOK
  <2>2. \A j \in CallIds : pending[j] # b
    BY <2>1 DEF PendingIsAwaited
  <2>3. PendingIsAwaited'
    BY <2>1, <2>2 DEF PendingIsAwaited, TypeOK
  <2>4. \A a \in Branches : (a # b /\ waiting[a] = i) => i \in clashed'
    BY <1>2 DEF Ask
  <2>5. clashed \subseteq clashed'
    BY <1>2 DEF Ask
  <2>6. WaitingIsAnswerable'
    BY <2>1, <2>4, <2>5 DEF WaitingIsAnswerable, TypeOK
  <2>7. StopReleasesWaiters'
    BY <2>1 DEF StopReleasesWaiters
  <2> QED BY <2>3, <2>6, <2>7
<1>3. ASSUME NEW i \in CallIds, Answer(i)
      PROVE  PendingIsAwaited' /\ WaitingIsAnswerable' /\ StopReleasesWaiters'
  <2>1. PICK b \in Branches : pending[i] = b
    BY <1>3 DEF Answer, TypeOK
  <2>2. /\ \A a \in Branches : waiting'[a] = IF a = b THEN None ELSE waiting[a]
        /\ \A j \in CallIds : pending'[j] = IF j = i THEN None ELSE pending[j]
        /\ UNCHANGED <<aborted, clashed>>
    BY <1>3, <2>1 DEF Answer, Forget, Run, TypeOK
  <2>3. waiting[b] = i
    BY <2>1 DEF PendingIsAwaited
  <2>4. \A j \in CallIds : j # i => pending[j] # b
    BY <2>3 DEF PendingIsAwaited
  <2>5. PendingIsAwaited'
    BY <2>2, <2>4 DEF PendingIsAwaited, TypeOK
  <2>6. \A a \in Branches : (a # b /\ waiting[a] = i) => i \in clashed
    BY <2>1 DEF WaitingIsAnswerable
  <2>7. WaitingIsAnswerable'
    BY <2>2, <2>6 DEF WaitingIsAnswerable, TypeOK
  <2>8. StopReleasesWaiters'
    BY <2>2 DEF StopReleasesWaiters
  <2> QED BY <2>5, <2>7, <2>8
<1>4. CASE Stop
  <2>1. /\ \A a \in Branches : waiting'[a] = None
        /\ \A j \in CallIds : pending'[j] =
              IF \E a \in Branches : waiting[a] = j THEN None ELSE pending[j]
    BY <1>4 DEF Stop, RejectWaiting
  <2>2. \A j \in CallIds : pending'[j] = None
    BY <2>1 DEF PendingIsAwaited, TypeOK
  <2> QED BY <2>1, <2>2 DEF PendingIsAwaited, WaitingIsAnswerable, StopReleasesWaiters
<1>5. \/ Stop \/ UNCHANGED <<aborted, Approvals>>
      \/ \E b \in Branches, i \in CallIds : Ask(b, i)
      \/ \E i \in CallIds : Answer(i)
  BY DEF Next, vars, Run, Approvals, Emit, Request, Attach, HangUp, ResponseEnds, Settle
<1> QED BY <1>1, <1>2, <1>3, <1>4, <1>5

(* Hence the approval parts of the invariant always hold.                  *)
LEMMA ApprovalInductive == Spec => []ApprovalInv
<1>1. Init => ApprovalInv
  BY TypeInit, ApprovalInit DEF ApprovalInv
<1>2. ApprovalInv /\ [Next]_vars => ApprovalInv'
  BY TypeStep, ApprovalStep DEF ApprovalInv
<1> QED BY <1>1, <1>2, PTL DEF Spec

(* An answer always reaches a branch that waits for it.                    *)
THEOREM RoutePendingIsAwaited == Spec => []PendingIsAwaited
<1>1. ApprovalInv => PendingIsAwaited
  BY DEF ApprovalInv
<1> QED BY <1>1, ApprovalInductive, PTL

(* A branch that waits under an id of its own can be answered.             *)
THEOREM RouteWaitingIsAnswerable == Spec => []WaitingIsAnswerable
<1>1. ApprovalInv => WaitingIsAnswerable
  BY DEF ApprovalInv
<1> QED BY <1>1, ApprovalInductive, PTL

(* The stop leaves no branch waiting that was given the signal.            *)
THEOREM RouteStopReleasesWaiters == Spec => []StopReleasesWaiters
<1>1. ApprovalInv => StopReleasesWaiters
  BY DEF ApprovalInv
<1> QED BY <1>1, ApprovalInductive, PTL
=============================================================================
