--------------------------- MODULE ToolLoopProofs ---------------------------
(***************************************************************************)
(* Proofs about the tool loop of a run and about the host of the MCP       *)
(* servers its tools live in.                                              *)
(*                                                                         *)
(* The tool loop, for any tools and any number of calls: each call of a    *)
(* reply is answered before the next request, a tool runs by consent, a    *)
(* failure is never sealed as a success, nothing waits for an approval     *)
(* after a stop, and from then on each step leads nearer to the end.  Inv  *)
(* is inductive: InStep ties the results to the call the loop is at, and   *)
(* Sealed says that the outcome is written once, as the loop ends.         *)
(*                                                                         *)
(* The host, for any servers, requests and bounds: LinksInv is inductive.  *)
(* KindsInv and HandsInv say what the maps and the requests in progress    *)
(* hold, RacesInv and KillsInv that whatever may overwrite an entry of a   *)
(* map belongs to a name that has been raced; so a living server is lost   *)
(* by a race only, and a cached list belongs to the connection it was      *)
(* asked of.  RowsInv says what a row will say once its one update under   *)
(* way is applied.                                                         *)
(***************************************************************************)
EXTENDS ToolLoop, Orchestrator, TLAPS

InStep ==
  /\ Len(results) = next - 1 /\ next <= reply.calls + 1
  /\ \A i \in 1 .. Len(results) : results[i] = i
  /\ pc \in {"top", "fetching"} => next = reply.calls + 1
  /\ pc = "counting" => reply.calls > 0 \/ (runner = "openai" /\ reply.form = "block")
  /\ pc \in {"asking", "calling"} => next <= reply.calls /\ tool \in Tools

Unsealed == [failed |-> FALSE, sealed |-> "none", stoppedFirst |-> FALSE]

Sealed == pc # "ended" => outcome = Unsealed /\ repeats <= 3

Consented == perms \subseteq consents

Inv == TypeOK /\ InStep /\ Sealed /\ Consented /\ SuccessIsEarned /\ NoWaitAfterStop

-----------------------------------------------------------------------------
LEMMA InitInv == Init => Inv
<1> SUFFICES ASSUME Init PROVE Inv
  OBVIOUS
<1>1. reply \in Reply /\ reply.calls = 0
  BY LoopAssumption DEF Init, NoReply, Reply
<1>2. TypeOK
  <2>1. outcome \in Outcome
    BY DEF Init, Outcome
  <2>2. next \in 1 .. CallsPerReply + 1 /\ counted \in 0 .. MaxToolCalls + 1
    BY LoopAssumption DEF Init
  <2>3. results \in Seq(Nat) /\ Len(results) <= reply.calls
    BY <1>1 DEF Init
  <2>4. perms \in SUBSET Tools /\ consents \in SUBSET Tools /\ tool \in Tools \cup {NoTool}
    BY DEF Init
  <2>5. repeats \in 0 .. 4
    BY DEF Init
  <2>6. subwait \in BOOLEAN /\ aborted \in BOOLEAN /\ late \in BOOLEAN
    BY Zenon DEF Init
  <2>7. runner \in Runners /\ mode \in Modes /\ attended \in BOOLEAN /\ pc = "top"
    BY DEF Init
  <2> QED
    BY <1>1, <2>1, <2>2, <2>3, <2>4, <2>5, <2>6, <2>7 DEF TypeOK
<1>3. InStep /\ Sealed /\ Consented
  BY <1>1 DEF Init, InStep, Sealed, Unsealed, Consented
<1>4. SuccessIsEarned /\ NoWaitAfterStop
  BY DEF Init, SuccessIsEarned, NoWaitAfterStop
<1> QED
  BY <1>2, <1>3, <1>4 DEF Inv

\* The end of a run, by an error event or a complete event.
LEMMA EndsTypes ==
  ASSUME TypeOK, Sealed, pc # "ended", NEW failed \in BOOLEAN,
         NEW sealed \in {"none", "success", "error"}, Ends(failed, sealed)
  PROVE  /\ pc' = "ended" /\ subwait' = FALSE /\ consents' = consents
         /\ outcome' \in Outcome
         /\ outcome'.failed = failed /\ outcome'.sealed = sealed /\ outcome'.stoppedFirst = aborted
BY DEF Ends, TypeOK, Sealed, Unsealed, Outcome

LEMMA AnsweredStep ==
  ASSUME TypeOK, InStep, next <= reply.calls, UNCHANGED reply, Answered(next)
  PROVE  /\ next' \in 1 .. CallsPerReply + 1 /\ results' \in Seq(Nat)
         /\ Len(results') = next' - 1 /\ next' <= reply.calls + 1 /\ pc' = "calls"
         /\ \A i \in 1 .. Len(results') : results'[i] = i
<1>1. results \in Seq(Nat) /\ next \in Nat /\ reply.calls \in 0 .. CallsPerReply /\ next >= 1
  BY LoopAssumption DEF TypeOK, Reply
<1>2. results' = Append(results, next) /\ next' = next + 1 /\ pc' = "calls"
  BY DEF Answered
<1>3. results' \in Seq(Nat) /\ Len(results') = Len(results) + 1
  BY <1>1, <1>2
<1>4. \A i \in 1 .. Len(results') : results'[i] = i
  BY <1>1, <1>2, <1>3 DEF InStep
<1> QED
  BY <1>1, <1>2, <1>3, <1>4, LoopAssumption DEF InStep

-----------------------------------------------------------------------------
(* Steps of the loop, by what they do *)

\* Steps that end the loop with an error event.
LEMMA FailingStep ==
  ASSUME Inv, pc # "ended", NEW sealed \in {"none", "error"}, Ends(TRUE, sealed),
         UNCHANGED <<runner, mode, attended, perms, aborted, late>>,
         reply' \in Reply, tool' \in Tools \cup {NoTool}, counted' \in 0 .. MaxToolCalls + 1,
         repeats' \in 0 .. 4, \/ UNCHANGED Progress
                              \/ next' = 1 /\ results' = <<>>
  PROVE  Inv'
<1>1. /\ pc' = "ended" /\ subwait' = FALSE /\ consents' = consents
      /\ outcome' \in Outcome
      /\ outcome'.failed = TRUE /\ outcome'.sealed = sealed
  BY EndsTypes DEF Inv
<1>2. /\ next' \in 1 .. CallsPerReply + 1 /\ results' \in Seq(Nat) /\ Len(results') = next' - 1
      /\ next' <= reply'.calls + 1 /\ \A i \in 1 .. Len(results') : results'[i] = i
  <2>1. CASE UNCHANGED Progress
    BY <2>1 DEF Progress, Inv, TypeOK, InStep
  <2>2. CASE next' = 1 /\ results' = <<>>
    BY <2>2, LoopAssumption DEF Reply
  <2> QED
    BY <2>1, <2>2
<1>3. TypeOK'
  <2>1. Len(results') <= reply'.calls
    BY <1>2 DEF Reply
  <2> QED
    BY <1>1, <1>2, <2>1 DEF Inv, TypeOK
<1>4. InStep' /\ Sealed' /\ Consented'
  BY <1>1, <1>2 DEF Inv, InStep, Sealed, Consented
<1>5. SuccessIsEarned' /\ NoWaitAfterStop'
  BY <1>1 DEF SuccessIsEarned, NoWaitAfterStop
<1> QED
  BY <1>3, <1>4, <1>5 DEF Inv

\* Steps that move on, pass the deadline, or wait in a delegated run.
LEMMA MovingStep ==
  ASSUME Inv, Dispatch \/ CallsDone \/ DeadlinePasses \/ SubrunAsks \/ UserAnswersSubrun
  PROVE  Inv'
<1>1. TypeOK'
  BY DEF Inv, TypeOK, Dispatch, CallsDone, DeadlinePasses, SubrunAsks, UserAnswersSubrun, Settings,
         Progress, History
<1>2. InStep'
  BY DEF Inv, TypeOK, Reply, InStep, Dispatch, CallsDone, DeadlinePasses, SubrunAsks, UserAnswersSubrun,
         Settings, Progress, History
<1>3. Sealed' /\ Consented' /\ SuccessIsEarned'
  BY DEF Inv, Sealed, Consented, SuccessIsEarned, Dispatch, CallsDone, DeadlinePasses, SubrunAsks,
         UserAnswersSubrun, Settings, Progress, History
<1>4. NoWaitAfterStop'
  BY DEF Inv, NoWaitAfterStop, PassesSignal, SharesHandler, SubrunGoesOn, Dispatch, CallsDone,
         DeadlinePasses, SubrunAsks, UserAnswersSubrun, Settings
<1> QED
  BY <1>1, <1>2, <1>3, <1>4 DEF Inv

\* Steps that ask for, or start, the call in hand.
LEMMA CallStep ==
  ASSUME Inv, NEW t \in Tools, CallAsks(t) \/ CallStarts(t)
  PROVE  Inv'
<1>1. /\ pc = "calls" /\ next <= reply.calls /\ ~aborted /\ counted < MaxToolCalls
      /\ counted' = counted + 1 /\ tool' = t /\ pc' \in {"asking", "calling"}
      /\ UNCHANGED <<Settings, perms, aborted, late, Progress, repeats, subwait, History>>
  BY DEF CallAsks, CallStarts, Cleared, TakesCall, MayGoOn, Interrupted
<1>2. TypeOK'
  BY <1>1, LoopAssumption DEF Inv, TypeOK, Settings, Progress, History
<1>3. InStep' /\ Sealed' /\ Consented'
  BY <1>1 DEF Inv, InStep, Sealed, Consented, Settings, Progress, History
<1>4. SuccessIsEarned' /\ NoWaitAfterStop'
  BY <1>1 DEF Inv, SuccessIsEarned, NoWaitAfterStop, Settings, Progress, History
<1> QED
  BY <1>2, <1>3, <1>4 DEF Inv

\* Steps that put the result of the call in hand into the conversation.
LEMMA ResultStep ==
  ASSUME Inv, pc \in {"calls", "asking", "calling"}, next <= reply.calls, Answered(next),
         UNCHANGED <<Settings, late, reply, repeats, outcome>>,
         tool' \in Tools \cup {NoTool}, counted' \in 0 .. MaxToolCalls + 1,
         perms' \in SUBSET Tools, consents' \in SUBSET Tools, perms' \subseteq consents',
         aborted' \in BOOLEAN, subwait' \in BOOLEAN, (aborted /\ PassesSignal => ~subwait)'
  PROVE  Inv'
<1>1. /\ next' \in 1 .. CallsPerReply + 1 /\ results' \in Seq(Nat)
      /\ Len(results') = next' - 1 /\ next' <= reply.calls + 1 /\ pc' = "calls"
      /\ \A i \in 1 .. Len(results') : results'[i] = i
  BY AnsweredStep DEF Inv
<1>2. TypeOK'
  BY <1>1 DEF Inv, TypeOK, Reply, Settings
<1>3. InStep' /\ Sealed' /\ Consented'
  BY <1>1 DEF Inv, InStep, Sealed, Consented, Settings
<1>4. SuccessIsEarned' /\ NoWaitAfterStop'
  BY <1>1 DEF Inv, SuccessIsEarned, NoWaitAfterStop, Settings
<1> QED
  BY <1>2, <1>3, <1>4 DEF Inv

-----------------------------------------------------------------------------
LEMMA AnswersStep == ASSUME Inv, NEW a \in Answers, UserAnswers(a) PROVE Inv'
<1>1. /\ pc = "asking" /\ tool \in Tools /\ next <= reply.calls /\ tool' = tool
      /\ perms \subseteq consents /\ perms \in SUBSET Tools /\ consents \in SUBSET Tools
  BY DEF Inv, InStep, TypeOK, Consented, UserAnswers, Refuse
<1>2. /\ perms' = (IF a = "always" THEN perms \cup {tool} ELSE perms)
      /\ consents' = (IF a = "always" THEN consents \cup {tool} ELSE consents)
      /\ UNCHANGED <<Settings, aborted, late, reply, counted, repeats, subwait, outcome>>
  BY DEF UserAnswers, Remembers
<1>3. perms' \subseteq consents' /\ perms' \in SUBSET Tools /\ consents' \in SUBSET Tools
  BY <1>1, <1>2
<1>4. (aborted /\ PassesSignal => ~subwait)'
  BY <1>2 DEF Inv, NoWaitAfterStop, PassesSignal, SharesHandler, Settings
<1>5. CASE Answered(next)
  BY <1>1, <1>2, <1>3, <1>4, <1>5, ResultStep DEF Inv, TypeOK
<1>6. CASE pc' = "calling" /\ UNCHANGED <<next, results, tool>>
  <2>1. TypeOK'
    BY <1>2, <1>3, <1>6 DEF Inv, TypeOK, Settings
  <2>2. InStep' /\ Sealed' /\ Consented'
    BY <1>1, <1>2, <1>3, <1>6 DEF Inv, InStep, Sealed, Consented, Settings
  <2>3. SuccessIsEarned' /\ NoWaitAfterStop'
    BY <1>2, <1>4, <1>6 DEF Inv, SuccessIsEarned, NoWaitAfterStop, Settings
  <2> QED
    BY <2>1, <2>2, <2>3 DEF Inv
<1> QED
  BY <1>5, <1>6 DEF UserAnswers, Refuse

LEMMA StopStep == ASSUME Inv, Stop PROVE Inv'
<1>1. /\ pc # "ended" /\ aborted' = TRUE /\ subwait' = FALSE
      /\ UNCHANGED <<Settings, perms, late, reply, counted, repeats, History>>
  BY DEF Stop, StopRejectsApprovals
<1>2. CASE pc = "asking"
  <2>1. Answered(next) /\ tool' = tool
    BY <1>2 DEF Stop, StopRejectsApprovals, Refuse
  <2>2. next <= reply.calls
    BY <1>2 DEF Inv, InStep
  <2> QED
    BY <1>1, <1>2, <2>1, <2>2, ResultStep DEF Inv, TypeOK, Consented, History
<1>3. CASE pc # "asking"
  <2>1. UNCHANGED <<pc, next, results, tool>>
    BY <1>3 DEF Stop, StopRejectsApprovals
  <2>2. TypeOK'
    BY <1>1, <2>1 DEF Inv, TypeOK, Settings, History
  <2>3. InStep' /\ Sealed' /\ Consented'
    BY <1>1, <2>1 DEF Inv, InStep, Sealed, Consented, Settings, History
  <2>4. SuccessIsEarned' /\ NoWaitAfterStop'
    BY <1>1, <1>3, <2>1 DEF Inv, SuccessIsEarned, NoWaitAfterStop, Settings, History
  <2> QED
    BY <2>2, <2>3, <2>4 DEF Inv
<1> QED
  BY <1>2, <1>3

LEMMA ToolStep == ASSUME Inv, ToolReturns \/ ToolThrows PROVE Inv'
<1>1. /\ pc = "calling" /\ next <= reply.calls /\ ~subwait
      /\ UNCHANGED <<Settings, perms, aborted, late, reply, tool, counted, repeats>>
  BY DEF Inv, InStep, ToolReturns, ToolThrows
<1>2. CASE Answered(next) /\ UNCHANGED <<subwait, History>>
  BY <1>1, <1>2, ResultStep DEF Inv, TypeOK, Consented, History
<1>3. CASE GivesUp /\ UNCHANGED <<next, results>>
  <2>1. PICK sealed \in {"none", "error"} : Ends(TRUE, sealed)
    BY <1>3 DEF GivesUp
  <2> QED
    BY <1>1, <1>3, <2>1, FailingStep DEF Inv, TypeOK, Settings, Progress
<1> QED
  BY <1>2, <1>3 DEF ToolReturns, ToolThrows

\* Steps that end the loop, and refuse a call, before the next await.
LEMMA GivingUp ==
  ASSUME Inv, TopStops \/ FetchAborted \/ FetchFails \/ CallGivesUp
  PROVE  Inv'
<1>1. PICK sealed \in {"none", "error"} : Ends(TRUE, sealed)
  BY DEF TopStops, FetchAborted, FetchFails, CallGivesUp, Fails, GivesUp
<1>2. /\ pc # "ended" /\ counted' \in 0 .. MaxToolCalls + 1 /\ tool' \in Tools \cup {NoTool}
      /\ UNCHANGED <<Settings, perms, aborted, late, Progress, repeats>>
  BY LoopAssumption DEF Inv, TypeOK, TopStops, FetchAborted, FetchFails, CallGivesUp, TakesCall
<1> QED
  BY <1>1, <1>2, FailingStep DEF Inv, TypeOK, Settings, Progress

LEMMA Refusing ==
  ASSUME Inv, CallUnparsable \/ \E t \in Tools : CallRefused(t)
  PROVE  Inv'
<1>1. /\ pc = "calls" /\ next <= reply.calls /\ counted' \in 0 .. MaxToolCalls + 1
      /\ UNCHANGED <<Settings, perms, aborted, late, reply, repeats>>
  BY LoopAssumption DEF Inv, TypeOK, CallUnparsable, CallRefused, TakesCall, MayGoOn
<1>2. ASSUME NEW t \in Tools \cup {NoTool}, Refuse(t), UNCHANGED <<subwait, History>> PROVE Inv'
  <2>1. Answered(next) /\ tool' = t
    BY <1>2 DEF Refuse
  <2>2. (aborted /\ PassesSignal => ~subwait)'
    BY <1>1, <1>2 DEF Inv, NoWaitAfterStop, PassesSignal, SharesHandler, Settings
  <2> QED
    BY <1>1, <1>2, <2>1, <2>2, ResultStep DEF Inv, TypeOK, Consented, History
<1>3. ASSUME Fails, UNCHANGED <<tool, next, results>> PROVE Inv'
  BY <1>1, <1>3, FailingStep DEF Fails, Inv, TypeOK, Settings, Progress
<1> QED
  BY <1>2, <1>3 DEF CallUnparsable, CallRefused

\* Steps that complete the run, or come to the calls of a reply.
LEMMA SucceedingStep ==
  ASSUME Inv, pc # "ended", Succeeds,
         UNCHANGED <<Settings, perms, aborted, late, counted>>,
         reply' \in Reply, tool' \in Tools \cup {NoTool}, repeats' \in 0 .. 4,
         aborted => runner = "cli" \/ (runner = "openai" /\ reply'.form = "block"),
         UNCHANGED Progress \/ (next' = 1 /\ results' = <<>>)
  PROVE  Inv'
<1>1. /\ pc' = "ended" /\ subwait' = FALSE /\ consents' = consents /\ outcome' \in Outcome
      /\ outcome'.failed = FALSE /\ outcome'.sealed = "success" /\ outcome'.stoppedFirst = aborted
  BY EndsTypes DEF Inv, Succeeds
<1>2. /\ next' \in 1 .. CallsPerReply + 1 /\ results' \in Seq(Nat) /\ Len(results') = next' - 1
      /\ next' <= reply'.calls + 1 /\ \A i \in 1 .. Len(results') : results'[i] = i
  <2>1. CASE UNCHANGED Progress
    BY <2>1 DEF Progress, Inv, TypeOK, InStep
  <2>2. CASE next' = 1 /\ results' = <<>>
    BY <2>2, LoopAssumption DEF Reply
  <2> QED
    BY <2>1, <2>2
<1>3. TypeOK'
  <2>1. Len(results') <= reply'.calls
    BY <1>2 DEF Reply
  <2> QED
    BY <1>1, <1>2, <2>1 DEF Inv, TypeOK, Settings
<1>4. InStep' /\ Sealed' /\ Consented'
  BY <1>1, <1>2 DEF Inv, InStep, Sealed, Consented
<1>5. SuccessIsEarned' /\ NoWaitAfterStop'
  BY <1>1 DEF SuccessIsEarned, NoWaitAfterStop, Settings
<1> QED
  BY <1>3, <1>4, <1>5 DEF Inv

LEMMA CountedStep == ASSUME Inv, Counted PROVE Inv'
<1>1. /\ pc = "counting" /\ (reply.calls > 0 \/ (runner = "openai" /\ reply.form = "block"))
      /\ UNCHANGED <<Settings, perms, aborted, late, Progress, tool, counted, repeats>>
  BY DEF Inv, InStep, Counted
<1>2. CASE reply.calls = 0
  <2>1. Succeeds
    BY <1>2 DEF Counted
  <2> QED
    BY <1>1, <1>2, <2>1, SucceedingStep DEF Inv, TypeOK, Progress
<1>3. CASE reply.calls # 0
  <2>1. pc' = "calls" /\ UNCHANGED <<subwait, History>>
    BY <1>3 DEF Counted
  <2>2. TypeOK'
    BY <1>1, <2>1 DEF Inv, TypeOK, Settings, Progress, History
  <2>3. InStep' /\ Sealed' /\ Consented'
    BY <1>1, <2>1 DEF Inv, InStep, Sealed, Consented, Settings, Progress, History
  <2>4. SuccessIsEarned' /\ NoWaitAfterStop'
    <3>1. outcome = Unsealed /\ outcome' = outcome
      BY <1>1, <2>1 DEF Inv, Sealed, History
    <3> QED
      BY <1>1, <2>1, <3>1 DEF Inv, SuccessIsEarned, NoWaitAfterStop, PassesSignal, SharesHandler,
         Settings, Unsealed
  <2> QED
    BY <2>2, <2>3, <2>4 DEF Inv
<1> QED
  BY <1>2, <1>3

LEMMA ReplyStep == ASSUME Inv, Replies PROVE Inv'
<1>1. PICK r \in Reply, again \in BOOLEAN :
        /\ runner = "cli" => r.form = "block"
        /\ reply' = r
        /\ repeats' = IF runner = "openai" /\ r.form = "block" /\ r.calls > 0 /\ again
                      THEN repeats + 1 ELSE repeats
        /\ IF LoopDetected(r, again) THEN Fails ELSE NextAfter(r)
  BY DEF Replies
<1>2. /\ pc = "fetching" /\ (aborted => runner = "cli") /\ next' = 1 /\ results' = <<>> /\ tool' = NoTool
      /\ UNCHANGED <<Settings, perms, aborted, late, counted>>
  BY DEF Replies, Interruptible
<1>3. repeats' \in 0 .. 4 /\ (repeats' > 3 => LoopDetected(r, again))
  BY <1>1, <1>2 DEF Inv, TypeOK, Sealed, LoopDetected
<1>4. CASE LoopDetected(r, again)
  BY <1>1, <1>2, <1>3, <1>4, FailingStep DEF Fails, Inv, TypeOK, Settings
<1>5. CASE ~LoopDetected(r, again) /\ Succeeds
  BY <1>1, <1>2, <1>3, <1>5, SucceedingStep DEF Inv, TypeOK
<1>6. CASE /\ ~LoopDetected(r, again)
           /\ r.calls > 0 \/ (runner = "openai" /\ r.form = "block")
           /\ pc' = (IF SharesHandler THEN "counting" ELSE "calls")
           /\ UNCHANGED <<subwait, History>>
  <2>1. r.calls \in Nat /\ pc' \in {"counting", "calls"}
    BY <1>6, LoopAssumption DEF Reply
  <2>2. TypeOK'
    BY <1>1, <1>2, <1>3, <1>6, <2>1, LoopAssumption DEF Inv, TypeOK, Settings, History
  <2>3. InStep' /\ Sealed' /\ Consented'
    BY <1>1, <1>2, <1>3, <1>6, <2>1 DEF Inv, TypeOK, InStep, Sealed, Consented, Settings, History
  <2>4. SuccessIsEarned' /\ NoWaitAfterStop'
    <3>1. outcome = Unsealed /\ outcome' = outcome
      BY <1>2, <1>6 DEF Inv, Sealed, History
    <3> QED
      BY <1>2, <1>6, <2>1, <3>1 DEF Inv, SuccessIsEarned, NoWaitAfterStop, PassesSignal,
         SharesHandler, Settings, Unsealed
  <2> QED
    BY <2>2, <2>3, <2>4 DEF Inv
<1> QED
  BY <1>1, <1>4, <1>5, <1>6 DEF NextAfter

LEMMA StepInv == Inv /\ [Next]_vars => Inv'
<1> SUFFICES ASSUME Inv, [Next]_vars PROVE Inv'
  OBVIOUS
<1>1. CASE UNCHANGED vars
  BY <1>1 DEF vars, Inv, TypeOK, InStep, Sealed, Consented, SuccessIsEarned, NoWaitAfterStop,
              PassesSignal, SharesHandler
<1>2. CASE LoopStep
  BY <1>2, MovingStep, GivingUp, CountedStep, Refusing, CallStep DEF LoopStep
<1> QED
  BY <1>1, <1>2, MovingStep, GivingUp, ReplyStep, AnswersStep, StopStep, ToolStep DEF Next, Finished

LEMMA SpecInv == Spec => []Inv
BY InitInv, StepInv, PTL DEF Spec

(* Every variable keeps its shape, and a reply never has more results      *)
(* than calls, whatever the tools, the limits and the runner.              *)
THEOREM LoopTypes == Spec => []TypeOK
<1>1. Inv => TypeOK
  BY DEF Inv
<1> QED
  BY SpecInv, <1>1, PTL

(* At every request each call of the last reply has exactly one result     *)
(* in the conversation, on all paths of a call in all four runners.        *)
THEOREM LoopCallsAnswered == Spec => []EveryCallAnswered
<1>1. Inv => EveryCallAnswered
  BY DEF Inv, TypeOK, Reply, InStep, EveryCallAnswered
<1> QED
  BY SpecInv, <1>1, PTL

(* An error event of the loop is never followed by a success, and only a   *)
(* reply that was there before the stop completes a stopped run.           *)
THEOREM LoopSuccessEarned == Spec => []SuccessIsEarned
<1>1. Inv => SuccessIsEarned
  BY DEF Inv
<1> QED
  BY SpecInv, <1>1, PTL

(* No approval, of the run or of one it delegated to, is pending after the *)
(* stop of a run whose runner passes its signal on: the listeners of       *)
(* waitForToolApproval leave none, and none is asked for later.            *)
THEOREM LoopNoWaitAfterStop == Spec => []NoWaitAfterStop
<1>1. Inv => NoWaitAfterStop
  BY DEF Inv
<1> QED
  BY SpecInv, <1>1, PTL

(* A tool runs unasked only in mode "granted" or after an "always" of the  *)
(* user: the permissions never grow beyond those consents.                 *)
THEOREM LoopRunsByConsent == Spec => ToolsRunByConsent
<1> DEFINE Consent == (pc # "calling" /\ pc' = "calling" /\ pc # "asking")
                      => (mode = "granted" \/ tool' \in consents)
<1>1. ASSUME Inv, [Next]_vars PROVE [Consent]_vars
  <2> SUFFICES ASSUME pc # "calling", pc' = "calling", pc # "asking"
               PROVE  mode = "granted" \/ tool' \in consents
    OBVIOUS
  <2>1. PICK t \in Tools : CallStarts(t)
    BY <1>1 DEF Next, LoopStep, Dispatch, TopStops, Counted, CallsDone, CallGivesUp, CallUnparsable,
       CallRefused, CallAsks, FetchAborted, FetchFails, Replies, NextAfter, UserAnswers, Stop,
       StopRejectsApprovals, DeadlinePasses, ToolReturns, ToolThrows, SubrunAsks, UserAnswersSubrun,
       Finished, vars, Fails, GivesUp, Succeeds, Ends, Refuse, Answered
  <2> QED
    BY <1>1, <2>1 DEF CallStarts, AlwaysAllowed, Inv, Consented
<1> QED
  BY SpecInv, <1>1, PTL DEF Spec, ToolsRunByConsent

(* How far a stopped loop is from its end.                                 *)
Rank(p) ==
  CASE p = "ended" -> 0
    [] p = "top" -> 1
    [] p = "calls" -> 2
    [] p \in {"counting", "calling"} -> 3
    [] p = "fetching" -> 4
    [] p = "asking" -> 5

\* Only the deadline may pass meanwhile.
DeadlineOnly ==
  /\ late' # late
  /\ UNCHANGED <<runner, mode, attended, perms, aborted, pc, reply, next, results, tool,
                 counted, repeats, subwait, outcome, consents>>

StopCountsDown == [][aborted /\ PassesSignal => Rank(pc') < Rank(pc) \/ DeadlineOnly]_vars

(* The ranks of the places a step of a stopped loop leads from and to.     *)
LEMMA RankFacts ==
  /\ Rank("ended") = 0 /\ Rank("top") = 1 /\ Rank("calls") = 2
  /\ Rank("counting") = 3 /\ Rank("calling") = 3 /\ Rank("fetching") = 4
  BY DEF Rank

(* A stopped loop asks nobody, starts no request and no tool: each step    *)
(* takes it nearer to its end.                                             *)
LEMMA StoppedMoves ==
  ASSUME Inv, Next, aborted, PassesSignal
  PROVE  Rank(pc') < Rank(pc) \/ DeadlineOnly \/ UNCHANGED vars
<1>1. pc # "asking" /\ ~subwait /\ SharesHandler
  BY DEF Inv, NoWaitAfterStop, PassesSignal
<1>2. ~MayGoOn
  BY DEF MayGoOn, Interrupted
<1> USE RankFacts
<1>3. CASE LoopStep
  <2>1. CASE TopStops
    <3>1. pc = "top" /\ pc' = "ended"
      BY <2>1, Zenon DEF TopStops, Fails, Ends
    <3> QED BY <3>1
  <2>2. CASE Counted
    <3>1. pc = "counting" /\ pc' \in {"ended", "calls"}
      BY <2>2 DEF Counted, Succeeds, Ends
    <3> QED BY <3>1
  <2>3. CASE CallsDone
    BY <2>3 DEF CallsDone
  <2>4. CASE CallGivesUp
    <3>1. pc = "calls" /\ pc' = "ended"
      BY <2>4, Zenon DEF CallGivesUp, TakesCall, GivesUp, Ends
    <3> QED BY <3>1
  <2>5. ~Dispatch /\ ~CallUnparsable
    BY <1>2 DEF Dispatch, CallUnparsable
  <2>6. \A t \in Tools : ~CallRefused(t) /\ ~CallAsks(t) /\ ~CallStarts(t)
    BY <1>2 DEF CallRefused, CallAsks, CallStarts, Cleared
  <2> QED BY <1>3, <2>1, <2>2, <2>3, <2>4, <2>5, <2>6 DEF LoopStep
<1>4. CASE FetchAborted \/ FetchFails
  <2>1. pc = "fetching" /\ pc' = "ended"
    BY <1>4, Zenon DEF FetchAborted, FetchFails, Fails, Ends
  <2> QED BY <2>1
<1>5. CASE Replies
  <2>1. PICK r \in Reply, again \in BOOLEAN :
          IF LoopDetected(r, again) THEN Fails ELSE NextAfter(r)
    BY <1>5 DEF Replies
  <2>2. pc = "fetching" /\ pc' \in {"ended", "counting"}
    BY <1>1, <1>5, <2>1 DEF Replies, Fails, NextAfter, Succeeds, Ends
  <2> QED BY <2>2
<1>6. CASE ToolReturns \/ ToolThrows
  <2>1. pc = "calling" /\ pc' \in {"ended", "calls"}
    BY <1>6 DEF ToolReturns, ToolThrows, Answered, GivesUp, Ends
  <2> QED BY <2>1
<1>7. CASE DeadlinePasses
  BY <1>7 DEF DeadlinePasses, DeadlineOnly, Settings, Progress, History, Inv, TypeOK
<1>8. CASE Finished
  BY <1>8 DEF Finished
<1>9. ~Stop /\ ~SubrunAsks /\ ~UserAnswersSubrun /\ \A a \in Answers : ~UserAnswers(a)
  BY <1>1 DEF Stop, SubrunAsks, SubrunGoesOn, UserAnswersSubrun, UserAnswers
<1> QED
  BY <1>3, <1>4, <1>5, <1>6, <1>7, <1>8, <1>9 DEF Next

(* After the stop of a loop whose runner passes its signal on, every step  *)
(* but the passing of its deadline takes it nearer to its end: at most     *)
(* four are left, and none of them starts a request or a tool or asks. It  *)
(* is what StopEndsLoop rests on, without the fairness.                    *)
THEOREM LoopStopCountsDown == Spec => StopCountsDown
<1> DEFINE Nearer == aborted /\ PassesSignal => Rank(pc') < Rank(pc) \/ DeadlineOnly
<1>1. Inv /\ [Next]_vars => [Nearer]_vars
  BY StoppedMoves
<1> QED
  BY SpecInv, <1>1, PTL DEF Spec, StopCountsDown

-----------------------------------------------------------------------------
(***************************************************************************)
(* The host of the MCP servers.                                            *)
(***************************************************************************)

RowTypes ==
  status \in [Servers -> Statuses] /\ writes \subseteq Write /\ smudged \subseteq Servers
MapTypes ==
  /\ clients \in [Servers -> Links \cup {None}]
  /\ cache \in [Servers -> Links \cup {None}]
  /\ procs \in [Servers -> Links \cup {None}]
KillTypes == doomed \in [Requests -> SUBSET Links] /\ forced \in [Requests -> SUBSET Links]

LEMMA LinkNumbers == None \notin Links /\ AnyServer \in Servers
BY ServersAssumption, BoundsAssumption DEF None, Links, AnyServer

LEMMA IdleRequest == Idle \in Request
BY LinkNumbers DEF Idle, Request

LEMMA RecordTypes ==
  ASSUME RowTypes, NEW n \in Servers, NEW st \in Statuses, NEW by \in Requests \cup {Host},
         Record(n, st, by)
  PROVE  RowTypes'
<1>1. [server |-> n, status |-> st, by |-> by] \in Write
  BY DEF Write
<1> QED
  BY <1>1 DEF Record, RowTypes

LEMMA TellTypes ==
  ASSUME RowTypes, req \in [Requests -> Request], NEW h \in Requests, NEW st \in Statuses, Tell(h, st)
  PROVE  RowTypes'
<1>1. req[h].name \in Servers
  BY DEF Request
<1>2. CASE req[h].dry
  BY <1>2 DEF Tell, rows, RowTypes
<1>3. CASE ~req[h].dry
  BY <1>1, <1>3, RecordTypes DEF Tell
<1> QED
  BY <1>2, <1>3

\* What Goes, Asked and the assignments to one link change.
LEMMA GoesFacts ==
  ASSUME req \in [Requests -> Request], NEW h \in Requests,
         NEW at \in {"next", "judge", "network", "connect", "closing", "closed", "killing", "list"},
         NEW l \in Links \cup {None}, Goes(h, at, l)
  PROVE  /\ req' \in [Requests -> Request]
         /\ \A o \in Requests :
              /\ req'[o].op = req[o].op /\ req'[o].name = req[o].name
              /\ o # h => req'[o] = req[o]
         /\ req'[h].at = at /\ req'[h].link = l
<1>1. req[h] \in Request
  OBVIOUS
<1>2. [req[h] EXCEPT !.at = at, !.link = l] \in Request
  BY <1>1 DEF Request
<1>3. req' = [req EXCEPT ![h] = [req[h] EXCEPT !.at = at, !.link = l]]
  BY DEF Goes
<1>4. req' \in [Requests -> Request]
  BY <1>2, <1>3
<1>5. req'[h] = [req[h] EXCEPT !.at = at, !.link = l] /\ \A o \in Requests : o # h => req'[o] = req[o]
  BY <1>3
<1>6. /\ req'[h].op = req[h].op /\ req'[h].name = req[h].name
      /\ req'[h].at = at /\ req'[h].link = l
  BY <1>1, <1>5 DEF Request
<1> QED
  BY <1>4, <1>5, <1>6

LEMMA AskedFacts ==
  ASSUME req \in [Requests -> Request], NEW h \in Requests, NEW op \in {"stop", "stopAll", "list"},
         NEW n \in Servers, NEW todo \in SUBSET Servers,
         NEW at \in {"closing", "closed", "killing", "list"},
         NEW l \in Links \cup {None}, Asked(h, op, n, todo, at, l)
  PROVE  /\ req' \in [Requests -> Request]
         /\ \A o \in Requests : o # h => req'[o] = req[o]
         /\ req'[h] = [op |-> op, dry |-> FALSE, todo |-> todo, name |-> n, at |-> at, link |-> l]
<1>1. [op |-> op, dry |-> FALSE, todo |-> todo, name |-> n, at |-> at, link |-> l] \in Request
  BY DEF Request
<1> QED
  BY <1>1 DEF Asked

LEMMA LifeFacts ==
  ASSUME link \in [Links -> Link], NEW l \in Links,
         NEW v \in {"opening", "up", "closing", "killed", "down"},
         link' = [link EXCEPT ![l].life = v]
  PROVE  /\ link' \in [Links -> Link]
         /\ \A k \in Links :
              /\ link'[k].server = link[k].server /\ link'[k].via = link[k].via
              /\ link'[k].noted = link[k].noted
              /\ link'[k].life = IF k = l THEN v ELSE link[k].life
<1>1. link[l] \in Link
  OBVIOUS
<1>2. [link[l] EXCEPT !.life = v] \in Link
  BY <1>1 DEF Link
<1>3. link' = [link EXCEPT ![l] = [link[l] EXCEPT !.life = v]]
  OBVIOUS
<1>4. link' \in [Links -> Link]
  BY <1>2, <1>3
<1>5. link'[l] = [link[l] EXCEPT !.life = v] /\ \A k \in Links : k # l => link'[k] = link[k]
  BY <1>3
<1>6. /\ link'[l].server = link[l].server /\ link'[l].via = link[l].via
      /\ link'[l].noted = link[l].noted /\ link'[l].life = v
  BY <1>1, <1>5 DEF Link
<1> QED
  BY <1>4, <1>5, <1>6

LEMMA NotedFacts ==
  ASSUME link \in [Links -> Link], NEW l \in Links, NEW v \in {"running", "exited", "failed"},
         link' = [link EXCEPT ![l].noted = v]
  PROVE  /\ link' \in [Links -> Link]
         /\ \A k \in Links :
              /\ link'[k].server = link[k].server /\ link'[k].via = link[k].via
              /\ link'[k].life = link[k].life
              /\ link'[k].noted = IF k = l THEN v ELSE link[k].noted
<1>1. link[l] \in Link
  OBVIOUS
<1>2. [link[l] EXCEPT !.noted = v] \in Link
  BY <1>1 DEF Link
<1>3. link' = [link EXCEPT ![l] = [link[l] EXCEPT !.noted = v]]
  OBVIOUS
<1>4. link' \in [Links -> Link]
  BY <1>2, <1>3
<1>5. link'[l] = [link[l] EXCEPT !.noted = v] /\ \A k \in Links : k # l => link'[k] = link[k]
  BY <1>3
<1>6. /\ link'[l].server = link[l].server /\ link'[l].via = link[l].via
      /\ link'[l].life = link[l].life /\ link'[l].noted = v
  BY <1>1, <1>5 DEF Link
<1> QED
  BY <1>4, <1>5, <1>6

LEMMA LifeNotedFacts ==
  ASSUME link \in [Links -> Link], NEW l \in Links, NEW v \in {"up", "down"},
         NEW w \in {"running", "exited", "failed"},
         link' = [link EXCEPT ![l].life = v, ![l].noted = w]
  PROVE  /\ link' \in [Links -> Link]
         /\ \A k \in Links : k # l => link'[k] = link[k]
         /\ link'[l].server = link[l].server /\ link'[l].via = link[l].via
         /\ link'[l].life = v /\ link'[l].noted = w
<1>1. link[l] \in Link
  OBVIOUS
<1>2. [link[l] EXCEPT !.life = v, !.noted = w] \in Link
  BY <1>1 DEF Link
<1>3. link' = [link EXCEPT ![l] = [link[l] EXCEPT !.life = v, !.noted = w]]
  OBVIOUS
<1>4. link' \in [Links -> Link]
  BY <1>2, <1>3
<1>5. link'[l] = [link[l] EXCEPT !.life = v, !.noted = w]
      /\ \A k \in Links : k # l => link'[k] = link[k]
  BY <1>3
<1>6. /\ link'[l].server = link[l].server /\ link'[l].via = link[l].via
      /\ link'[l].life = v /\ link'[l].noted = w
  BY <1>1, <1>5 DEF Link
<1> QED
  BY <1>4, <1>5, <1>6

LEMMA OpenFacts ==
  ASSUME link \in [Links -> Link], NEW l \in Links, NEW n \in Servers,
         NEW via \in {"client", "runner"}, Open(l, n, via)
  PROVE  /\ link' \in [Links -> Link]
         /\ \A k \in Links : k # l => link'[k] = link[k]
         /\ link'[l].server = n /\ link'[l].via = via
         /\ link'[l].life = "opening" /\ link'[l].noted = "starting"
<1>1. [server |-> n, via |-> via, life |-> "opening", noted |-> "starting"] \in Link
  BY DEF Link
<1> QED
  BY <1>1 DEF Open

LEMMA StartTypes ==
  ASSUME HostTypeOK, NEW h \in Requests,
         \/ MissesSecrets(h) \/ IsRefused(h) \/ AsksNetwork(h) \/ NetworkMissing(h)
         \/ AlreadyConnected(h) \/ CannotConnect(h) \/ AlreadyRunning(h)
         \/ ListAnswers(h) \/ ListFails(h)
  PROVE  HostTypeOK'
<1>1. RowTypes'
  <2>1. RowTypes /\ req \in [Requests -> Request]
    BY DEF HostTypeOK, RowTypes
  <2>2. Tell(h, "failed") \/ Tell(h, "running") \/ UNCHANGED rows
    BY DEF MissesSecrets, IsRefused, AsksNetwork, NetworkMissing, AlreadyConnected, CannotConnect,
           AlreadyRunning, ListAnswers, ListFails
  <2>3. CASE UNCHANGED rows
    BY <2>1, <2>3 DEF rows, RowTypes
  <2> QED
    BY <2>1, <2>2, <2>3, TellTypes DEF Statuses
<1>2. req' \in [Requests -> Request]
  <2>1. Goes(h, "next", None) \/ Goes(h, "network", None)
    BY DEF MissesSecrets, IsRefused, AsksNetwork, NetworkMissing, AlreadyConnected, CannotConnect,
           AlreadyRunning, ListAnswers, ListFails
  <2> QED
    BY <2>1, GoesFacts DEF HostTypeOK
<1>3. UNCHANGED <<link, clients, procs, kills, asked, raced>>
  BY DEF MissesSecrets, IsRefused, AsksNetwork, NetworkMissing, AlreadyConnected, CannotConnect,
         AlreadyRunning, ListAnswers, ListFails, maps
<1>4. network' \in {"unchecked", "checking", "ready", "rejected"}
  BY DEF MissesSecrets, IsRefused, AsksNetwork, NetworkMissing, AlreadyConnected, CannotConnect,
         AlreadyRunning, ListAnswers, ListFails, HostTypeOK
<1>5. cache' \in [Servers -> Links \cup {None}]
  <2>1. CASE ListAnswers(h)
    <3>1. req[h] \in Request
      BY DEF HostTypeOK
    <3>2. req[h].link \in Links \cup {None}
      BY <3>1 DEF Request
    <3> QED
      BY <2>1, <3>2 DEF ListAnswers, HostTypeOK
  <2>2. CASE UNCHANGED maps
    BY <2>2 DEF HostTypeOK, maps
  <2> QED
    BY <2>1, <2>2 DEF MissesSecrets, IsRefused, AsksNetwork, NetworkMissing, AlreadyConnected,
                      CannotConnect, AlreadyRunning, ListFails
<1> QED
  BY <1>1, <1>2, <1>3, <1>4, <1>5 DEF HostTypeOK, RowTypes, kills

LEMMA ConnectTypes ==
  ASSUME HostTypeOK, NEW h \in Requests, Connects(h) \/ Connected(h) \/ ConnectFails(h) \/ Closed(h)
  PROVE  HostTypeOK'
<1>1. req[h] \in Request /\ RowTypes /\ req \in [Requests -> Request] /\ link \in [Links -> Link]
  BY DEF HostTypeOK, RowTypes
<1>2. req[h].name \in Servers /\ req[h].link \in Links \cup {None}
  BY <1>1 DEF Request
<1>3. CASE Connects(h)
  <2>1. PICK l \in Links : Open(l, req[h].name, "client") /\ Goes(h, "connect", l)
    BY <1>3 DEF Connects
  <2>2. link' \in [Links -> Link] /\ req' \in [Requests -> Request]
    BY <1>1, <1>2, <2>1, OpenFacts, GoesFacts
  <2>3. raced' \subseteq Servers
    BY <1>2, <1>3 DEF Connects, HostTypeOK
  <2> QED
    BY <1>3, <2>2, <2>3 DEF Connects, HostTypeOK, maps, rows, kills
<1>4. CASE Connected(h)
  <2>1. link' \in [Links -> Link]
    <3>1. CASE req[h].link \in Links
      BY <1>1, <1>4, <3>1, LifeFacts DEF Connected
    <3>2. CASE req[h].link \notin Links
      <4>1. link' = link
        BY <1>1, <1>4, <3>2 DEF Connected
      <4> QED
        BY <1>1, <4>1
    <3> QED
      BY <3>1, <3>2
  <2>2. RowTypes' /\ req' \in [Requests -> Request]
    BY <1>1, <1>4, TellTypes, GoesFacts DEF Connected, Statuses
  <2>3. clients' \in [Servers -> Links \cup {None}] /\ cache' \in [Servers -> Links \cup {None}]
    BY <1>2, <1>4 DEF Connected, Forgotten, HostTypeOK
  <2> QED
    BY <1>4, <2>1, <2>2, <2>3 DEF Connected, HostTypeOK, RowTypes, kills
<1>5. CASE ConnectFails(h)
  <2>1. link' \in [Links -> Link]
    <3>1. CASE req[h].link \in Links
      BY <1>1, <1>5, <3>1, LifeFacts DEF ConnectFails
    <3>2. CASE req[h].link \notin Links
      <4>1. link' = link
        BY <1>1, <1>5, <3>2 DEF ConnectFails
      <4> QED
        BY <1>1, <4>1
    <3> QED
      BY <3>1, <3>2
  <2>2. RowTypes' /\ req' \in [Requests -> Request]
    BY <1>1, <1>5, TellTypes, GoesFacts DEF ConnectFails, Statuses
  <2> QED
    BY <1>5, <2>1, <2>2 DEF ConnectFails, HostTypeOK, RowTypes, maps, kills
<1>6. CASE Closed(h)
  <2>1. RowTypes' /\ req' \in [Requests -> Request]
    BY <1>1, <1>2, <1>6, RecordTypes, GoesFacts DEF Closed, StopRecorded, Statuses
  <2>2. clients' \in [Servers -> Links \cup {None}] /\ cache' \in [Servers -> Links \cup {None}]
    BY <1>2, <1>6 DEF Closed, Forgotten, HostTypeOK
  <2> QED
    BY <1>6, <2>1, <2>2 DEF Closed, HostTypeOK, RowTypes, kills
<1> QED
  BY <1>3, <1>4, <1>5, <1>6

LEMMA RequestTypes ==
  ASSUME HostTypeOK, NEW h \in Requests,
         StartRequest(h) \/ TakesServer(h) \/ Returns(h) \/ ListRequest(h)
  PROVE  HostTypeOK'
<1>1. req[h] \in Request /\ RowTypes /\ req \in [Requests -> Request] /\ Idle \in Request
  BY IdleRequest DEF HostTypeOK, RowTypes
<1>2. CASE StartRequest(h)
  <2>1. PICK todo \in (SUBSET Servers) \ {{}}, dry \in BOOLEAN :
          req' = [req EXCEPT ![h] = [Idle EXCEPT !.op = "start", !.todo = todo, !.dry = dry]]
    BY <1>2 DEF StartRequest
  <2>2. [Idle EXCEPT !.op = "start", !.todo = todo, !.dry = dry] \in Request
    BY <1>1 DEF Request
  <2>3. req' \in [Requests -> Request]
    BY <1>1, <2>1, <2>2
  <2>4. asked' \in 0 .. MaxRequests
    <3>1. Arrives(h)
      BY <1>2 DEF StartRequest
    <3> QED
      BY <3>1, BoundsAssumption DEF Arrives, HostTypeOK
  <2> QED
    BY <1>2, <2>3, <2>4 DEF StartRequest, HostTypeOK, maps, rows, kills
<1>3. CASE TakesServer(h)
  <2>1. PICK n \in req[h].todo :
          /\ req' = [req EXCEPT ![h].todo = @ \ {n}, ![h].name = n, ![h].at = "judge"]
          /\ IF req[h].dry THEN UNCHANGED rows ELSE Record(n, "pending", h)
    BY <1>3 DEF TakesServer
  <2>2. n \in Servers /\ req[h].todo \subseteq Servers
    BY <1>1 DEF Request
  <2>3. [req[h] EXCEPT !.todo = req[h].todo \ {n}, !.name = n, !.at = "judge"] \in Request
    BY <1>1, <2>2 DEF Request
  <2>4. req' \in [Requests -> Request]
    BY <1>1, <2>1, <2>3
  <2>5. RowTypes'
    <3>1. CASE req[h].dry
      BY <1>1, <2>1, <3>1 DEF rows, RowTypes
    <3>2. CASE ~req[h].dry
      BY <1>1, <2>1, <2>2, <3>2, RecordTypes DEF Statuses
    <3> QED
      BY <3>1, <3>2
  <2> QED
    BY <1>3, <2>4, <2>5 DEF TakesServer, HostTypeOK, RowTypes, maps, kills
<1>4. CASE Returns(h)
  BY <1>1, <1>4 DEF Returns, HostTypeOK, maps, rows, kills
<1>5. CASE ListRequest(h)
  <2>1. PICK n \in Servers : HasClient(n) /\ Asked(h, "list", n, {}, "list", clients[n])
    BY <1>5 DEF ListRequest
  <2>2. req' \in [Requests -> Request]
    BY <1>1, <2>1, AskedFacts DEF HostTypeOK
  <2>3. asked' \in 0 .. MaxRequests
    <3>1. Arrives(h)
      BY <1>5 DEF ListRequest
    <3> QED
      BY <3>1, BoundsAssumption DEF Arrives, HostTypeOK
  <2> QED
    BY <1>5, <2>2, <2>3 DEF ListRequest, HostTypeOK, maps, rows, kills
<1> QED
  BY <1>2, <1>3, <1>4, <1>5

LEMMA RunnerTypes ==
  ASSUME HostTypeOK,
         \/ \E h \in Requests : Spawns(h) \/ \E l \in Links : PollSees(h, l) \/ Kills(h, l) \/ Killed(h, l)
         \/ \E l \in Links : Spawned(l) \/ ChildEnds(l) \/ ServerDies(l) \/ Closes(l)
  PROVE  HostTypeOK'
<1>1. RowTypes /\ req \in [Requests -> Request] /\ link \in [Links -> Link]
  BY DEF HostTypeOK, RowTypes
<1>2. ASSUME NEW l \in Links PROVE link[l].server \in Servers
  <2>1. link[l] \in Link
    BY <1>1
  <2> QED
    BY <2>1 DEF Link
<1>3. ASSUME NEW h \in Requests, Spawns(h) PROVE HostTypeOK'
  <2>1. PICK l \in Links :
          Open(l, req[h].name, "runner") /\ procs' = [procs EXCEPT ![req[h].name] = l]
    BY <1>3 DEF Spawns
  <2>2. req[h] \in Request
    BY <1>1
  <2>3. req[h].name \in Servers
    BY <2>2 DEF Request
  <2>4. link' \in [Links -> Link] /\ req' \in [Requests -> Request]
    BY <1>1, <1>3, <2>1, <2>3, OpenFacts, GoesFacts DEF Spawns
  <2>5. procs' \in [Servers -> Links \cup {None}] /\ raced' \subseteq Servers
    BY <1>3, <2>1, <2>3 DEF Spawns, HostTypeOK
  <2> QED
    BY <1>3, <2>4, <2>5 DEF Spawns, HostTypeOK, rows, kills
<1>4. ASSUME NEW h \in Requests, NEW l \in Links, PollSees(h, l) PROVE HostTypeOK'
  <2>1. link' \in [Links -> Link]
    BY <1>1, <1>4, NotedFacts DEF PollSees
  <2>2. procs' \in [Servers -> Links \cup {None}] /\ doomed' \in [Requests -> SUBSET Links]
    BY <1>2, <1>4 DEF PollSees, HostTypeOK
  <2> QED
    BY <1>4, <2>1, <2>2 DEF PollSees, HostTypeOK, rows
<1>5. ASSUME NEW h \in Requests, NEW l \in Links, Kills(h, l) PROVE HostTypeOK'
  <2>1. link' \in [Links -> Link]
    BY <1>1, <1>5, LifeFacts DEF Kills
  <2>2. doomed' \in [Requests -> SUBSET Links] /\ forced' \in [Requests -> SUBSET Links]
    BY <1>5 DEF Kills, HostTypeOK
  <2> QED
    BY <1>5, <2>1, <2>2 DEF Kills, HostTypeOK, maps, rows
<1>6. ASSUME NEW h \in Requests, NEW l \in Links, Killed(h, l) PROVE HostTypeOK'
  <2>1. link' \in [Links -> Link]
    BY <1>1, <1>6, NotedFacts DEF Killed
  <2>2. procs' \in [Servers -> Links \cup {None}] /\ forced' \in [Requests -> SUBSET Links]
    BY <1>2, <1>6 DEF Killed, HostTypeOK
  <2> QED
    BY <1>6, <2>1, <2>2 DEF Killed, HostTypeOK, rows
<1>7. ASSUME NEW l \in Links, Spawned(l) PROVE HostTypeOK'
  <2>1. link' \in [Links -> Link]
    BY <1>1, <1>7, LifeNotedFacts DEF Spawned
  <2>2. RowTypes'
    BY <1>1, <1>2, <1>7, RecordTypes DEF Spawned, Statuses
  <2> QED
    BY <1>7, <2>1, <2>2 DEF Spawned, HostTypeOK, RowTypes, maps, kills
<1>8. ASSUME NEW l \in Links, ChildEnds(l) PROVE HostTypeOK'
  <2>1. PICK noted \in {"exited", "failed"} :
          /\ link' = [link EXCEPT ![l].life = "down", ![l].noted = noted]
          /\ Record(link[l].server, Exit(noted), Host)
    BY <1>8 DEF ChildEnds
  <2>2. link' \in [Links -> Link]
    BY <1>1, <2>1, LifeNotedFacts
  <2>3. RowTypes'
    BY <1>1, <1>2, <2>1, RecordTypes DEF Exit, Statuses
  <2>4. procs' \in [Servers -> Links \cup {None}]
    BY <1>2, <1>8 DEF ChildEnds, HostTypeOK
  <2> QED
    BY <1>8, <2>2, <2>3, <2>4 DEF ChildEnds, HostTypeOK, RowTypes, kills
<1>9. ASSUME NEW l \in Links, ServerDies(l) \/ Closes(l) PROVE HostTypeOK'
  <2>1. link' \in [Links -> Link]
    BY <1>1, <1>9, LifeFacts DEF ServerDies, Closes
  <2> QED
    BY <1>9, <2>1 DEF ServerDies, Closes, HostTypeOK, maps, rows, kills
<1> QED
  BY <1>3, <1>4, <1>5, <1>6, <1>7, <1>8, <1>9

\* A stop of one name, or of the runner: a client of n is shut, or the children of the
\* names ns are sent SIGTERM.
ShutsClient(h, op, n, todo) ==
  /\ HasClient(n)
  /\ link' = IF link[clients[n]].life = "up"
             THEN [link EXCEPT ![clients[n]].life = "closing"] ELSE link
  /\ Asked(h, op, n, todo, IF link[clients[n]].life = "up" THEN "closing" ELSE "closed", clients[n])
  /\ UNCHANGED <<procs, doomed>>

SendsTerm(h, op, n, todo, ns) == RunnerStops(h, ns) /\ Asked(h, op, n, todo, "killing", None)

StopBegins(h) ==
  \E n \in Servers, op \in {"stop", "stopAll"}, todo \in SUBSET Servers :
     \/ ShutsClient(h, op, n, todo)
     \/ \E ns \in SUBSET Servers : SendsTerm(h, op, n, todo, ns)

LEMMA StopSteps ==
  ASSUME HostTypeOK, NEW h \in Requests,
         StopRequest(h) \/ StopAllRequest(h) \/ StopAllGoesOn(h)
  PROVE  /\ StopBegins(h) /\ UNCHANGED <<clients, cache, network, rows, forced, raced>>
         /\ asked' \in 0 .. MaxRequests
         /\ req[h].op = "none" \/ Rests(h)
<1>1. ASSUME NEW n \in Servers, NEW op \in {"stop", "stopAll"}, NEW todo \in SUBSET Servers,
             StopsName(h, op, n, todo)
      PROVE  StopBegins(h)
  <2>1. CASE HasClient(n)
    <3>1. ShutsClient(h, op, n, todo)
      BY <1>1, <2>1 DEF StopsName, ShutsClient, HasClient
    <3> QED
      BY <3>1 DEF StopBegins
  <2>2. CASE ~HasClient(n)
    <3>1. SendsTerm(h, op, n, todo, {n})
      BY <1>1, <2>2 DEF StopsName, SendsTerm, HasClient
    <3>2. {n} \in SUBSET Servers
      OBVIOUS
    <3> QED
      BY <3>1, <3>2 DEF StopBegins
  <2> QED
    BY <2>1, <2>2
<1>2. req[h].name \in Servers /\ req[h].todo \subseteq Servers
  <2>1. req[h] \in Request
    BY DEF HostTypeOK
  <2> QED
    BY <2>1 DEF Request
<1>3. asked' \in 0 .. MaxRequests
  <2>1. Arrives(h) \/ asked' = asked
    BY DEF StopRequest, StopAllRequest, StopAllGoesOn
  <2> QED
    BY <2>1, BoundsAssumption DEF Arrives, HostTypeOK
<1>4. CASE StopRequest(h)
  <2>1. StopBegins(h)
    BY <1>1, <1>4 DEF StopRequest
  <2> QED
    BY <1>3, <1>4, <2>1 DEF StopRequest, Arrives
<1>5. CASE StopAllRequest(h)
  <2>1. StopBegins(h)
    <3> DEFINE mapped == {n \in Servers : HasClient(n)}
    <3>1. CASE mapped = {}
      <4>1. SendsTerm(h, "stop", AnyServer, {}, Servers)
        BY <1>5, <3>1 DEF StopAllRequest, SendsTerm
      <4> QED
        BY <4>1, LinkNumbers DEF StopBegins
    <3>2. CASE mapped # {}
      <4>1. PICK n \in mapped : StopsName(h, "stopAll", n, mapped \ {n})
        BY <1>5, <3>2 DEF StopAllRequest
      <4> QED
        BY <1>1, <4>1
    <3> QED
      BY <3>1, <3>2
  <2> QED
    BY <1>3, <1>5, <2>1 DEF StopAllRequest, Arrives
<1>6. CASE StopAllGoesOn(h)
  <2>1. StopBegins(h)
    <3>1. CASE req[h].todo = {}
      <4>1. SendsTerm(h, "stop", req[h].name, {}, Servers)
        BY <1>6, <3>1 DEF StopAllGoesOn, SendsTerm
      <4> QED
        BY <4>1, <1>2 DEF StopBegins
    <3>2. CASE req[h].todo # {}
      <4>1. PICK n \in req[h].todo : StopsName(h, "stopAll", n, req[h].todo \ {n})
        BY <1>6, <3>2 DEF StopAllGoesOn
      <4> QED
        BY <1>1, <1>2, <4>1
    <3> QED
      BY <3>1, <3>2
  <2> QED
    BY <1>3, <1>6, <2>1 DEF StopAllGoesOn
<1> QED
  BY <1>4, <1>5, <1>6

\* What a stop of the runner leaves in the maps.
LEMMA TermFacts ==
  ASSUME HostTypeOK, NEW h \in Requests, NEW ns \in SUBSET Servers, RunnerStops(h, ns)
  PROVE  /\ procs' \in [Servers -> Links \cup {None}] /\ doomed' \in [Requests -> SUBSET Links]
         /\ \A n \in Servers : procs'[n] # procs[n] =>
              procs[n] # None /\ ~HasProcess(n) /\ procs'[n] = None
         /\ \A o \in Requests : o # h => doomed'[o] = doomed[o]
         /\ \A l \in doomed'[h] : \E n \in Servers : HasProcess(n) /\ procs[n] = l
         /\ link' = link
<1> DEFINE killed == {procs[n] : n \in {m \in ns : HasProcess(m)}}
<1>1. killed \in SUBSET Links
  BY DEF HasProcess, HostTypeOK
<1>2. doomed' = [doomed EXCEPT ![h] = killed]
  BY DEF RunnerStops
<1>3. \A l \in killed : \E n \in Servers : HasProcess(n) /\ procs[n] = l
  OBVIOUS
<1> HIDE DEF killed
<1>4. doomed' \in [Requests -> SUBSET Links] /\ doomed'[h] = killed
      /\ \A o \in Requests : o # h => doomed'[o] = doomed[o]
  BY <1>1, <1>2 DEF HostTypeOK
<1>5. procs' = [n \in Servers |->
                  IF n \in ns /\ procs[n] # None /\ ~HasProcess(n) THEN None ELSE procs[n]]
  BY DEF RunnerStops
<1>6. /\ procs' \in [Servers -> Links \cup {None}]
      /\ \A n \in Servers : procs'[n] # procs[n] =>
           procs[n] # None /\ ~HasProcess(n) /\ procs'[n] = None
  BY <1>5 DEF HostTypeOK
<1> QED
  BY <1>3, <1>4, <1>6 DEF RunnerStops

LEMMA ShutsFacts ==
  ASSUME HostTypeOK, NEW h \in Requests, NEW n \in Servers, NEW op \in {"stop", "stopAll"},
         NEW todo \in SUBSET Servers, ShutsClient(h, op, n, todo)
  PROVE  /\ clients[n] \in Links
         /\ link' \in [Links -> Link] /\ req' \in [Requests -> Request]
         /\ \A k \in Links :
              /\ link'[k].server = link[k].server /\ link'[k].via = link[k].via
              /\ link'[k].noted = link[k].noted
              /\ link'[k].life = IF k = clients[n] /\ link[k].life = "up"
                                 THEN "closing" ELSE link[k].life
         /\ \A o \in Requests : o # h => req'[o] = req[o]
         /\ req'[h].op = op /\ req'[h].name = n /\ req'[h].link = clients[n]
         /\ req'[h].at = IF link[clients[n]].life = "up" THEN "closing" ELSE "closed"
<1>1. clients[n] \in Links /\ link \in [Links -> Link] /\ req \in [Requests -> Request]
  BY DEF ShutsClient, HasClient, HostTypeOK
<1>2. CASE link[clients[n]].life = "up"
  <2>1. link' = [link EXCEPT ![clients[n]].life = "closing"]
        /\ Asked(h, op, n, todo, "closing", clients[n])
    BY <1>2 DEF ShutsClient
  <2>2. /\ req' \in [Requests -> Request]
        /\ \A o \in Requests : o # h => req'[o] = req[o]
        /\ req'[h] = [op |-> op, dry |-> FALSE, todo |-> todo, name |-> n, at |-> "closing",
                      link |-> clients[n]]
    <3>1. [op |-> op, dry |-> FALSE, todo |-> todo, name |-> n, at |-> "closing",
           link |-> clients[n]] \in Request
      BY <1>1 DEF Request
    <3> QED
      BY <1>1, <2>1, <3>1 DEF Asked
  <2>3. /\ link' \in [Links -> Link]
        /\ \A k \in Links :
              /\ link'[k].server = link[k].server /\ link'[k].via = link[k].via
              /\ link'[k].noted = link[k].noted
              /\ link'[k].life = IF k = clients[n] THEN "closing" ELSE link[k].life
    BY <1>1, <2>1, LifeFacts
  <2> QED
    BY <1>1, <1>2, <2>2, <2>3
<1>3. CASE link[clients[n]].life # "up"
  <2>1. link' = link /\ Asked(h, op, n, todo, "closed", clients[n])
    BY <1>3 DEF ShutsClient
  <2>2. /\ req' \in [Requests -> Request]
        /\ \A o \in Requests : o # h => req'[o] = req[o]
        /\ req'[h] = [op |-> op, dry |-> FALSE, todo |-> todo, name |-> n, at |-> "closed",
                      link |-> clients[n]]
    <3>1. [op |-> op, dry |-> FALSE, todo |-> todo, name |-> n, at |-> "closed",
           link |-> clients[n]] \in Request
      BY <1>1 DEF Request
    <3> QED
      BY <1>1, <2>1, <3>1 DEF Asked
  <2> QED
    BY <1>1, <1>3, <2>1, <2>2
<1> QED
  BY <1>2, <1>3

LEMMA StopTypes ==
  ASSUME HostTypeOK, NEW h \in Requests,
         StopRequest(h) \/ StopAllRequest(h) \/ StopAllGoesOn(h)
  PROVE  HostTypeOK'
<1>1. /\ StopBegins(h) /\ UNCHANGED <<clients, cache, network, rows, forced, raced>>
      /\ asked' \in 0 .. MaxRequests
  BY StopSteps
<1>2. PICK n \in Servers, op \in {"stop", "stopAll"}, todo \in SUBSET Servers :
        ShutsClient(h, op, n, todo) \/ \E ns \in SUBSET Servers : SendsTerm(h, op, n, todo, ns)
  BY <1>1 DEF StopBegins
<1>3. CASE ShutsClient(h, op, n, todo)
  <2>1. link' \in [Links -> Link] /\ req' \in [Requests -> Request]
    BY <1>3, ShutsFacts
  <2> QED
    BY <1>1, <1>3, <2>1 DEF ShutsClient, HostTypeOK, rows
<1>4. ASSUME NEW ns \in SUBSET Servers, SendsTerm(h, op, n, todo, ns) PROVE HostTypeOK'
  <2>1. req \in [Requests -> Request]
    BY DEF HostTypeOK
  <2>2. req' \in [Requests -> Request]
    BY <1>4, <2>1, AskedFacts DEF SendsTerm
  <2>3. /\ procs' \in [Servers -> Links \cup {None}] /\ doomed' \in [Requests -> SUBSET Links]
        /\ link' = link
    BY <1>4, TermFacts DEF SendsTerm
  <2> QED
    BY <1>1, <2>2, <2>3 DEF HostTypeOK, rows
<1> QED
  BY <1>2, <1>3, <1>4

\* The steps of HostNext, one by one.
LEMMA HostSteps ==
  ASSUME HostNext
  PROVE  \/ \E w \in writes : Lands(w) \/ IsLost(w)
         \/ NetworkAnswers
         \/ \E l \in Links : Spawned(l) \/ Closes(l) \/ ServerDies(l) \/ ChildEnds(l)
         \/ \E h \in Requests :
              \/ MissesSecrets(h) \/ IsRefused(h) \/ AsksNetwork(h) \/ NetworkMissing(h)
              \/ AlreadyConnected(h) \/ CannotConnect(h) \/ AlreadyRunning(h)
              \/ ListAnswers(h) \/ ListFails(h)
              \/ StartRequest(h) \/ TakesServer(h) \/ Returns(h) \/ ListRequest(h)
              \/ Connects(h) \/ Connected(h) \/ ConnectFails(h) \/ Closed(h) \/ Spawns(h)
              \/ StopRequest(h) \/ StopAllRequest(h) \/ StopAllGoesOn(h)
              \/ \E l \in Links : PollSees(h, l) \/ Kills(h, l) \/ Killed(h, l)
BY DEF HostNext, HostIsAnswered, Dies, Ask, Serves, Starts, Stops

LEMMA HostTypesNext == ASSUME HostTypeOK, [HostNext]_hostVars PROVE HostTypeOK'
<1>1. ASSUME NEW w \in writes, Lands(w) \/ IsLost(w) PROVE HostTypeOK'
  <2>1. w.status \in Statuses /\ w.server \in Servers /\ w \in Write
    BY DEF HostTypeOK, Write
  <2>2. status' \in [Servers -> Statuses] /\ writes' \subseteq Write /\ smudged' \subseteq Servers
    BY <1>1, <2>1 DEF Lands, IsLost, HostTypeOK
  <2> QED
    BY <1>1, <2>2 DEF Lands, IsLost, HostTypeOK, maps, kills
<1>2. CASE NetworkAnswers
  BY <1>2 DEF NetworkAnswers, HostTypeOK, maps, rows, kills
<1>3. CASE UNCHANGED hostVars
  BY <1>3 DEF hostVars, HostTypeOK
<1> QED
  BY <1>1, <1>2, <1>3, HostSteps, StartTypes, ConnectTypes, RequestTypes, RunnerTypes, StopTypes

LEMMA HostTypesInit == HostInit => HostTypeOK
<1> SUFFICES ASSUME HostInit PROVE HostTypeOK
  OBVIOUS
<1>1. link \in [Links -> Link]
  BY LinkNumbers DEF HostInit, Link
<1>2. req \in [Requests -> Request]
  BY IdleRequest DEF HostInit
<1>3. asked \in 0 .. MaxRequests
  BY BoundsAssumption DEF HostInit
<1>4. RowTypes /\ MapTypes /\ KillTypes
  BY DEF HostInit, RowTypes, MapTypes, KillTypes, Statuses
<1> QED
  BY <1>1, <1>2, <1>3, <1>4 DEF HostInit, HostTypeOK, RowTypes, MapTypes, KillTypes

(* Every variable of the host keeps its type: a link a map names is a link *)
(* that was made, and a request waits where the code can wait.            *)
THEOREM HostTypes == HostSpec => []HostTypeOK
<1> QED
  BY HostTypesInit, HostTypesNext, PTL DEF HostSpec

-----------------------------------------------------------------------------
Opens(h) == req[h].at = "connect"
Shuts(h) == req[h].at \in {"closing", "closed"}
Child(l) == link[l].via = "runner"
There(l) == Born(l) /\ ~Gone(l)
Doomed(h) == doomed[h] \cup forced[h]

\* The maps name links of their own kind, and the runner's note tells a living child
\* from one that has ended.
KindsInv ==
  /\ \A n \in Servers : HasClient(n) =>
       /\ link[clients[n]].server = n /\ ~Child(clients[n])
       /\ link[clients[n]].life \in {"up", "closing", "down"}
  /\ \A n \in Servers : procs[n] # None =>
       link[procs[n]].server = n /\ Child(procs[n]) /\ Born(procs[n])
  /\ \A l \in Links : Child(l) =>
       /\ link[l].life # "closing"
       /\ Alive(l) => link[l].noted \in {"starting", "running"}
       /\ Gone(l) => link[l].noted \in {"exited", "failed"}

\* What a request has in hand: a connection of its server, in the state it waits for.
HandsInv ==
  /\ \A h \in Requests : req[h].op = "none" => req[h].at = "next"
  /\ \A h \in Requests : Opens(h) \/ Shuts(h) \/ req[h].at = "list" =>
       /\ req[h].link # None /\ ~Child(req[h].link)
       /\ link[req[h].link].server = req[h].name
       /\ link[req[h].link].life \in
            (IF Opens(h) THEN {"opening"}
             ELSE IF Shuts(h) THEN {"closing", "down"} ELSE {"up", "closing", "down"})
  /\ \A h, o \in Requests : Opens(h) /\ Opens(o) /\ req[h].link = req[o].link => h = o
  /\ \A l \in Links : link[l].life = "closing" =>
       \E h \in Requests : req[h].at = "closing" /\ req[h].link = l

\* A name with two connections in the making, or with one besides the one that is
\* being closed, is raced.
RacesInv ==
  /\ \A h, o \in Requests :
       h # o /\ Opens(h) /\ (Opens(o) \/ Shuts(o)) /\ req[h].name = req[o].name
         => req[h].name \in raced
  /\ \A h \in Requests : Opens(h) /\ HasClient(req[h].name) => req[h].name \in raced
  /\ \A h \in Requests :
       Shuts(h) /\ clients[req[h].name] \notin {None, req[h].link} => req[h].name \in raced

\* So is a name with two children, or with one besides the one that is being stopped.
KillsInv ==
  /\ \A h \in Requests : req[h].at # "killing" => Doomed(h) = {}
  /\ \A h \in Requests : \A l \in Doomed(h) : Child(l) /\ Born(l)
  /\ \A h \in Requests : \A l \in forced[h] : link[l].life \in {"killed", "down"}
  /\ \A l, k \in Links :
       /\ l # k /\ link[l].server = link[k].server /\ Child(l) /\ Child(k) /\ There(l)
       /\ There(k) \/ \E h \in Requests : k \in Doomed(h)
       => link[l].server \in raced

LinksInv == HostTypeOK /\ KindsInv /\ HandsInv /\ RacesInv /\ KillsInv /\ OnlyRacesOrphan

LEMMA LinksTypes ==
  ASSUME LinksInv
  PROVE  /\ HostTypeOK /\ link \in [Links -> Link] /\ req \in [Requests -> Request]
         /\ \A h \in Requests : req[h].name \in Servers /\ req[h].link \in Links \cup {None}
         /\ \A l \in Links : link[l].server \in Servers
         /\ \A n \in Servers : clients[n] \in Links \cup {None} /\ procs[n] \in Links \cup {None}
         /\ None \notin Links
<1>1. HostTypeOK
  BY DEF LinksInv
<1>2. \A h \in Requests : req[h].name \in Servers /\ req[h].link \in Links \cup {None}
  <2>1. \A h \in Requests : req[h] \in Request
    BY <1>1 DEF HostTypeOK
  <2> QED
    BY <2>1 DEF Request
<1>3. \A l \in Links : link[l].server \in Servers
  <2>1. \A l \in Links : link[l] \in Link
    BY <1>1 DEF HostTypeOK
  <2> QED
    BY <2>1 DEF Link
<1> QED
  BY <1>1, <1>2, <1>3, LinkNumbers DEF HostTypeOK

\* A step that leaves the links, the maps and what is in hand alone.
Steady ==
  /\ UNCHANGED <<link, clients, procs, kills, raced>>
  /\ \A h \in Requests :
       /\ Opens(h) \/ Shuts(h) \/ (Opens(h) \/ Shuts(h))' => req'[h] = req[h]
       /\ req'[h].at = "list" =>
            \/ req'[h] = req[h]
            \/ /\ req'[h].name \in Servers /\ HasClient(req'[h].name)
               /\ req'[h].link = clients[req'[h].name]
       /\ req'[h].at # "killing" => Doomed(h) = {}
       /\ req'[h].op = "none" => req'[h].at = "next"

LEMMA SteadyKeeps ==
  ASSUME LinksInv, Steady
  PROVE  (KindsInv /\ HandsInv /\ RacesInv /\ KillsInv /\ OnlyRacesOrphan)'
<1>1. KindsInv'
  BY DEF LinksInv, Steady, KindsInv, HasClient, Child, Born, Alive, Gone
<1>2. HandsInv'
  <2>1. \A h \in Requests : (Opens(h) \/ Shuts(h) \/ req[h].at = "list")' =>
       /\ req'[h].link # None /\ ~Child(req'[h].link)
       /\ link[req'[h].link].server = req'[h].name
       /\ link[req'[h].link].life \in
            (IF Opens(h)' THEN {"opening"}
             ELSE IF Shuts(h)' THEN {"closing", "down"} ELSE {"up", "closing", "down"})
    BY DEF LinksInv, Steady, HandsInv, KindsInv, Opens, Shuts, HasClient
  <2>2. /\ \A h \in Requests : req'[h].op = "none" => req'[h].at = "next"
        /\ \A h, o \in Requests : Opens(h)' /\ Opens(o)' /\ req'[h].link = req'[o].link => h = o
        /\ \A l \in Links : link[l].life = "closing" =>
             \E h \in Requests : req'[h].at = "closing" /\ req'[h].link = l
    BY DEF LinksInv, Steady, HandsInv, Opens, Shuts
  <2> QED
    BY <2>1, <2>2 DEF Steady, HandsInv, Opens, Shuts, Child
<1>3. RacesInv'
  BY DEF LinksInv, Steady, RacesInv, Opens, Shuts, HasClient
<1>4. KillsInv'
  BY DEF LinksInv, Steady, KillsInv, Doomed, kills, Child, There, Born, Gone
<1>5. OnlyRacesOrphan'
  BY DEF LinksInv, Steady, OnlyRacesOrphan, Opens, Shuts, Held, Alive, kills
<1> QED
  BY <1>1, <1>2, <1>3, <1>4, <1>5

LEMMA GoesIsSteady ==
  ASSUME LinksInv, NEW h \in Requests, NEW at \in {"next", "network"}, Goes(h, at, None),
         req[h].op # "none", req[h].at \notin {"connect", "closing", "closed", "killing"},
         UNCHANGED <<link, clients, procs, kills, raced>>
  PROVE  Steady
<1>1. /\ \A o \in Requests :
           /\ req'[o].op = req[o].op /\ req'[o].name = req[o].name
           /\ o # h => req'[o] = req[o]
      /\ req'[h].at = at
  BY LinksTypes, GoesFacts
<1> QED
  BY <1>1 DEF Steady, LinksInv, HandsInv, KillsInv, Opens, Shuts

LEMMA QuietSteps ==
  ASSUME LinksInv, NEW h \in Requests,
         \/ MissesSecrets(h) \/ IsRefused(h) \/ AsksNetwork(h) \/ NetworkMissing(h)
         \/ AlreadyConnected(h) \/ CannotConnect(h) \/ AlreadyRunning(h)
         \/ ListAnswers(h) \/ ListFails(h)
         \/ StartRequest(h) \/ TakesServer(h) \/ Returns(h) \/ ListRequest(h)
  PROVE  Steady
<1>1. ASSUME \/ MissesSecrets(h) \/ IsRefused(h) \/ AsksNetwork(h) \/ NetworkMissing(h)
             \/ AlreadyConnected(h) \/ CannotConnect(h) \/ AlreadyRunning(h)
             \/ ListAnswers(h) \/ ListFails(h)
      PROVE  Steady
  <2>1. Goes(h, "next", None) \/ Goes(h, "network", None)
    BY <1>1 DEF MissesSecrets, IsRefused, AsksNetwork, NetworkMissing, AlreadyConnected,
                CannotConnect, AlreadyRunning, ListAnswers, ListFails
  <2>2. UNCHANGED <<link, clients, procs, kills, raced>>
    BY <1>1 DEF MissesSecrets, IsRefused, AsksNetwork, NetworkMissing, AlreadyConnected,
                CannotConnect, AlreadyRunning, ListAnswers, ListFails, maps
  <2>3. req[h].at \in {"judge", "network", "list"}
    BY <1>1 DEF MissesSecrets, IsRefused, AsksNetwork, NetworkMissing, AlreadyConnected,
                CannotConnect, AlreadyRunning, ListAnswers, ListFails, Connecting, Judging
  <2>4. req[h].op # "none"
    BY <2>3 DEF LinksInv, HandsInv
  <2> QED
    BY <2>1, <2>2, <2>3, <2>4, GoesIsSteady
<1>2. req \in [Requests -> Request]
  BY LinksTypes
<1>3. CASE StartRequest(h)
  <2>1. \A o \in Requests : o # h => req'[o] = req[o]
    BY <1>2, <1>3 DEF StartRequest
  <2>2. req'[h].op = "start" /\ req'[h].at = "next"
    BY <1>2, <1>3 DEF StartRequest, Idle
  <2>3. req[h].at = "next"
    BY <1>3 DEF StartRequest, Arrives, LinksInv, HandsInv
  <2>5. UNCHANGED <<link, clients, procs, kills, raced>>
    BY <1>3 DEF StartRequest, maps
  <2> QED
    BY <2>1, <2>2, <2>3, <2>5 DEF Steady, LinksInv, HandsInv, KillsInv, Opens, Shuts
<1>4. CASE TakesServer(h)
  <2>1. PICK n \in req[h].todo :
          req' = [req EXCEPT ![h].todo = @ \ {n}, ![h].name = n, ![h].at = "judge"]
    BY <1>4 DEF TakesServer
  <2>2. req[h] \in Request
    BY <1>2
  <2>3. /\ \A o \in Requests : o # h => req'[o] = req[o]
        /\ req'[h].at = "judge" /\ req'[h].op = req[h].op
    BY <1>2, <2>1, <2>2 DEF Request
  <2>4. req[h].at = "next" /\ req[h].op = "start"
    BY <1>4 DEF TakesServer
  <2>5. UNCHANGED <<link, clients, procs, kills, raced>>
    BY <1>4 DEF TakesServer, maps
  <2> QED
    BY <2>3, <2>4, <2>5 DEF Steady, LinksInv, HandsInv, KillsInv, Opens, Shuts
<1>5. CASE Returns(h)
  <2>1. /\ \A o \in Requests : o # h => req'[o] = req[o]
        /\ req'[h].at = "next" /\ req'[h].op = "none"
    BY <1>2, <1>5 DEF Returns, Idle
  <2>2. req[h].at \in {"next", "killing"} /\ Doomed(h) = {}
    BY <1>5 DEF Returns, Rests, Doomed
  <2>5. UNCHANGED <<link, clients, procs, kills, raced>>
    BY <1>5 DEF Returns, maps
  <2> QED
    BY <2>1, <2>2, <2>5 DEF Steady, LinksInv, HandsInv, KillsInv, Opens, Shuts
<1>6. CASE ListRequest(h)
  <2>1. PICK n \in Servers : HasClient(n) /\ Asked(h, "list", n, {}, "list", clients[n])
    BY <1>6 DEF ListRequest
  <2>2. /\ \A o \in Requests : o # h => req'[o] = req[o]
        /\ req'[h].at = "list" /\ req'[h].op = "list" /\ req'[h].name = n
        /\ req'[h].link = clients[n]
    BY <1>2, <2>1 DEF Asked
  <2>3. req[h].at = "next"
    BY <1>6 DEF ListRequest, Arrives, LinksInv, HandsInv
  <2>4. UNCHANGED <<link, clients, procs, kills, raced>>
    BY <1>6 DEF ListRequest, maps
  <2> QED
    BY <2>1, <2>2, <2>3, <2>4 DEF Steady, LinksInv, HandsInv, KillsInv, Opens, Shuts
<1> QED
  BY <1>1, <1>3, <1>4, <1>5, <1>6

\* The steps that open and close connections leave the children alone.
LEMMA ClientsOnly ==
  ASSUME LinksInv, UNCHANGED <<doomed, forced>>, raced \subseteq raced',
         \A h \in Requests : req'[h].at # "killing" => req[h].at # "killing" \/ Doomed(h) = {},
         \A l \in Links : /\ Child(l) /\ Born(l) <=> Child(l)' /\ Born(l)'
                          /\ Child(l) /\ Born(l) => /\ link'[l].life = link[l].life
                                                    /\ link'[l].server = link[l].server
  PROVE  KillsInv'
<1>1. \A h \in Requests : req'[h].at # "killing" => Doomed(h)' = {}
  BY DEF LinksInv, KillsInv, Doomed
<1>2. \A h \in Requests : \A l \in Doomed(h)' : l \in Links /\ Child(l)' /\ Born(l)'
  BY DEF LinksInv, KillsInv, Doomed, HostTypeOK
<1>3. \A h \in Requests : \A l \in forced'[h] : link'[l].life \in {"killed", "down"}
  <2> SUFFICES ASSUME NEW h \in Requests, NEW l \in forced'[h]
               PROVE  link'[l].life \in {"killed", "down"}
    OBVIOUS
  <2>1. l \in Links /\ l \in Doomed(h) /\ link[l].life \in {"killed", "down"}
    BY DEF LinksInv, KillsInv, Doomed, HostTypeOK
  <2>2. Child(l) /\ Born(l)
    BY <2>1 DEF LinksInv, KillsInv
  <2> QED
    BY <2>1, <2>2
<1>4. ASSUME NEW l \in Links, NEW k \in Links, l # k, link'[l].server = link'[k].server,
             Child(l)', Child(k)', There(l)', There(k)' \/ \E h \in Requests : k \in Doomed(h)'
      PROVE  link'[l].server \in raced'
  <2>1. Child(l) /\ There(l) /\ link'[l].server = link[l].server
    BY <1>4 DEF There, Born, Gone
  <2>2. Child(k) /\ link'[k].server = link[k].server
        /\ (There(k) \/ \E h \in Requests : k \in Doomed(h))
    BY <1>2, <1>4 DEF There, Born, Gone, Doomed
  <2>3. link[l].server \in raced
    BY <1>4, <2>1, <2>2 DEF LinksInv, KillsInv
  <2> QED
    BY <2>1, <2>3
<1> QED
  BY <1>1, <1>2, <1>3, <1>4 DEF KillsInv

\* The steps that open, close or kill links, one by one.
LEMMA ConnectsKeeps ==
  ASSUME LinksInv, NEW h \in Requests, Connects(h)
  PROVE  (KindsInv /\ HandsInv /\ RacesInv /\ KillsInv /\ OnlyRacesOrphan)'
<1>1. PICK l \in Links : Fresh(l) /\ Open(l, req[h].name, "client") /\ Goes(h, "connect", l)
  BY DEF Connects
<1>2. /\ \A k \in Links : k # l => link'[k] = link[k]
      /\ link'[l].server = req[h].name /\ link'[l].via = "client"
      /\ link'[l].life = "opening" /\ link'[l].noted = "starting"
  BY <1>1, LinksTypes, OpenFacts
<1>3. /\ \A o \in Requests :
           /\ req'[o].op = req[o].op /\ req'[o].name = req[o].name
           /\ o # h => req'[o] = req[o]
      /\ req'[h].at = "connect" /\ req'[h].link = l
  BY <1>1, LinksTypes, GoesFacts
<1>4. /\ link[l].life = "unborn" /\ req[h].at \in {"judge", "network"}
      /\ clients[req[h].name] = None
      /\ clients' = clients /\ procs' = procs /\ doomed' = doomed /\ forced' = forced
  BY <1>1 DEF Connects, Connecting, Judging, Fresh, Born, HasClient, maps, kills
<1>5. raced \subseteq raced' /\ (Contested(h, req[h].name) => req[h].name \in raced')
  BY DEF Connects
<1>6. KindsInv'
  BY <1>2, <1>4, LinksTypes DEF LinksInv, KindsInv, HasClient, Child, Born, Alive, Gone
<1>7. HandsInv'
  BY <1>2, <1>3, <1>4, LinksTypes DEF LinksInv, HandsInv, Opens, Shuts, Child
<1>8. RacesInv'
  BY <1>3, <1>4, <1>5 DEF LinksInv, RacesInv, Opens, Shuts, HasClient, Contested
<1>9. KillsInv'
  BY <1>2, <1>3, <1>4, <1>5, ClientsOnly DEF Child, Born
<1>10. OnlyRacesOrphan'
  BY <1>2, <1>3, <1>4, <1>5, LinksTypes DEF LinksInv, OnlyRacesOrphan, Held, Alive
<1> QED
  BY <1>6, <1>7, <1>8, <1>9, <1>10

LEMMA ConnectedKeeps ==
  ASSUME LinksInv, NEW h \in Requests, Connected(h)
  PROVE  (KindsInv /\ HandsInv /\ RacesInv /\ KillsInv /\ OnlyRacesOrphan)'
<1>1. PICK l : l = req[h].link
  OBVIOUS
<1>2. /\ l \in Links /\ req[h].at = "connect" /\ link[l].life = "opening" /\ link[l].via # "runner"
      /\ link[l].server = req[h].name
  BY <1>1, LinksTypes DEF Connected, LinksInv, HandsInv, Opens, Child
<1>3. \A k \in Links :
        /\ link'[k].server = link[k].server /\ link'[k].via = link[k].via
        /\ link'[k].noted = link[k].noted
        /\ link'[k].life = IF k = l THEN "up" ELSE link[k].life
  BY <1>1, <1>2, LinksTypes, LifeFacts DEF Connected
<1>4. /\ \A o \in Requests :
           /\ req'[o].op = req[o].op /\ req'[o].name = req[o].name
           /\ o # h => req'[o] = req[o]
      /\ req'[h].at = "next" /\ req'[h].link = None
  BY LinksTypes, GoesFacts DEF Connected
<1>5. /\ clients' = [clients EXCEPT ![req[h].name] = l]
      /\ procs' = procs /\ doomed' = doomed /\ forced' = forced /\ raced' = raced
  BY <1>1 DEF Connected, kills
<1>6. /\ clients'[req[h].name] = l
      /\ \A m \in Servers : m # req[h].name => clients'[m] = clients[m]
  BY <1>5, LinksTypes DEF HostTypeOK
<1>7. KindsInv'
  BY <1>2, <1>3, <1>5, <1>6, LinksTypes DEF LinksInv, KindsInv, HasClient, Child, Born, Alive, Gone
<1>8. HandsInv'
  <2>1. \A o \in Requests : req'[o].op = "none" => req'[o].at = "next"
    BY <1>4 DEF LinksInv, HandsInv
  <2>2. ASSUME NEW o \in Requests, Opens(o)' \/ Shuts(o)' \/ req'[o].at = "list"
        PROVE  /\ o # h /\ req'[o] = req[o] /\ Opens(o)' = Opens(o) /\ Shuts(o)' = Shuts(o)
               /\ req[o].link \in Links /\ (Opens(o) => req[o].link # l)
    BY <1>1, <1>2, <1>4, <2>2, LinksTypes DEF LinksInv, HandsInv, Opens, Shuts
  <2>3. ASSUME NEW o \in Requests, Opens(o)' \/ Shuts(o)' \/ req'[o].at = "list"
        PROVE  /\ req'[o].link # None /\ ~Child(req[o].link)'
               /\ link'[req'[o].link].server = req'[o].name
               /\ link'[req'[o].link].life \in
                    (IF Opens(o)' THEN {"opening"}
                     ELSE IF Shuts(o)' THEN {"closing", "down"} ELSE {"up", "closing", "down"})
    BY <1>2, <1>3, <2>2, <2>3 DEF LinksInv, HandsInv, Opens, Shuts, Child
  <2>4. \A a, o \in Requests : Opens(a)' /\ Opens(o)' /\ req'[a].link = req'[o].link => a = o
    BY <2>2 DEF LinksInv, HandsInv, Opens
  <2>5. ASSUME NEW k \in Links, link'[k].life = "closing"
        PROVE  \E o \in Requests : req'[o].at = "closing" /\ req'[o].link = k
    <3>1. link[k].life = "closing"
      BY <1>3, <2>5
    <3>2. PICK o \in Requests : req[o].at = "closing" /\ req[o].link = k
      BY <3>1 DEF LinksInv, HandsInv
    <3> QED BY <1>2, <1>4, <3>2
  <2> QED BY <2>1, <2>3, <2>4, <2>5 DEF HandsInv
<1>9. RacesInv'
  BY <1>1, <1>2, <1>4, <1>5, <1>6, LinksTypes DEF LinksInv, RacesInv, Opens, Shuts, HasClient
<1>10. KillsInv'
  BY <1>2, <1>3, <1>4, <1>5, ClientsOnly DEF Child, Born
<1>11. OnlyRacesOrphan'
  BY <1>1, <1>2, <1>3, <1>4, <1>5, <1>6, LinksTypes
     DEF LinksInv, OnlyRacesOrphan, RacesInv, Held, Alive, Opens, HasClient
<1> QED
  BY <1>7, <1>8, <1>9, <1>10, <1>11

LEMMA ConnectFailsKeeps ==
  ASSUME LinksInv, NEW h \in Requests, ConnectFails(h)
  PROVE  (KindsInv /\ HandsInv /\ RacesInv /\ KillsInv /\ OnlyRacesOrphan)'
<1>1. PICK l : l = req[h].link
  OBVIOUS
<1>2. /\ l \in Links /\ req[h].at = "connect" /\ link[l].life = "opening" /\ link[l].via # "runner"
  BY <1>1, LinksTypes DEF ConnectFails, LinksInv, HandsInv, Opens, Child
<1>3. \A k \in Links :
        /\ link'[k].server = link[k].server /\ link'[k].via = link[k].via
        /\ link'[k].noted = link[k].noted
        /\ link'[k].life = IF k = l THEN "down" ELSE link[k].life
  BY <1>1, <1>2, LinksTypes, LifeFacts DEF ConnectFails
<1>4. /\ \A o \in Requests :
           /\ req'[o].op = req[o].op /\ req'[o].name = req[o].name
           /\ o # h => req'[o] = req[o]
      /\ req'[h].at = "next" /\ req'[h].link = None
  BY LinksTypes, GoesFacts DEF ConnectFails
<1>5. UNCHANGED <<clients, procs, doomed, forced, raced>>
  BY DEF ConnectFails, maps, kills
<1>6. KindsInv'
  BY <1>2, <1>3, <1>5, LinksTypes DEF LinksInv, KindsInv, HasClient, Child, Born, Alive, Gone
<1>7. HandsInv'
  BY <1>1, <1>2, <1>3, <1>4, LinksTypes DEF LinksInv, HandsInv, Opens, Shuts, Child
<1>8. RacesInv'
  BY <1>4, <1>5 DEF LinksInv, RacesInv, Opens, Shuts, HasClient
<1>9. KillsInv'
  BY <1>2, <1>3, <1>4, <1>5, ClientsOnly DEF Child, Born
<1>10. OnlyRacesOrphan'
  BY <1>1, <1>2, <1>3, <1>4, <1>5, LinksTypes DEF LinksInv, OnlyRacesOrphan, Held, Alive
<1> QED
  BY <1>6, <1>7, <1>8, <1>9, <1>10

LEMMA ClosedKeeps ==
  ASSUME LinksInv, NEW h \in Requests, Closed(h)
  PROVE  (KindsInv /\ HandsInv /\ RacesInv /\ KillsInv /\ OnlyRacesOrphan)'
<1>1. /\ req[h].at \in {"closing", "closed"}
      /\ req[h].at = "closing" => link[req[h].link].life = "down"
  BY DEF Closed
<1>2. /\ \A o \in Requests :
           /\ req'[o].op = req[o].op /\ req'[o].name = req[o].name
           /\ o # h => req'[o] = req[o]
      /\ req'[h].at = "next" /\ req'[h].link = None
  BY LinksTypes, GoesFacts DEF Closed
<1>3. /\ clients' = [clients EXCEPT ![req[h].name] = None]
      /\ UNCHANGED <<link, procs, doomed, forced, raced>>
  BY DEF Closed, kills
<1>4. /\ clients'[req[h].name] = None
      /\ \A m \in Servers : m # req[h].name => clients'[m] = clients[m]
  BY <1>3, LinksTypes DEF HostTypeOK
<1>5. KindsInv'
  BY <1>3, <1>4, LinksTypes DEF LinksInv, KindsInv, HasClient, Child, Born, Alive, Gone
<1>6. HandsInv'
  BY <1>1, <1>2, <1>3, LinksTypes DEF LinksInv, HandsInv, Opens, Shuts, Child
<1>7. RacesInv'
  BY <1>2, <1>3, <1>4, LinksTypes DEF LinksInv, RacesInv, Opens, Shuts, HasClient
<1>8. KillsInv'
  BY <1>1, <1>2, <1>3, LinksTypes DEF LinksInv, KillsInv, Doomed, Child, There, Born, Gone
<1>9. ASSUME NEW l \in Links, Alive(l)', link[l].server \notin raced PROVE Held(l)'
  <2>1. Alive(l) /\ Held(l)
    BY <1>3, <1>9 DEF Alive, LinksInv, OnlyRacesOrphan
  <2>2. CASE clients[link[l].server] = l
    <3>1. CASE link[l].server # req[h].name
      BY <1>4, <2>2, <3>1, <1>3, LinksTypes DEF Held
    <3>2. CASE link[l].server = req[h].name
      <4>1. l = req[h].link
        BY <1>1, <1>9, <2>2, <3>2, LinksTypes DEF LinksInv, RacesInv, Shuts
      <4>2. link[l].life = "closing"
        BY <1>1, <2>1, <4>1 DEF Alive, LinksInv, HandsInv, Shuts, Opens
      <4>3. PICK o \in Requests : req[o].at = "closing" /\ req[o].link = l
        BY <4>2 DEF LinksInv, HandsInv
      <4>4. o # h
        BY <1>1, <4>1, <4>2, <4>3
      <4> QED
        BY <1>2, <4>3, <4>4 DEF Held
    <3> QED
      BY <3>1, <3>2
  <2>3. CASE procs[link[l].server] = l
    BY <1>3, <2>3 DEF Held
  <2>4. CASE \E o \in Requests : req[o].link = l /\ req[o].at \in {"connect", "closing"}
    <3>1. PICK o \in Requests : req[o].link = l /\ req[o].at \in {"connect", "closing"}
      BY <2>4
    <3>2. o # h
      BY <1>1, <2>1, <3>1 DEF Alive
    <3> QED
      BY <1>2, <3>1, <3>2 DEF Held
  <2>5. CASE \E o \in Requests : l \in doomed[o] \cup forced[o]
    BY <1>3, <2>5 DEF Held
  <2> QED
    BY <2>1, <2>2, <2>3, <2>4, <2>5 DEF Held
<1>10. OnlyRacesOrphan'
  BY <1>3, <1>9 DEF OnlyRacesOrphan
<1> QED
  BY <1>5, <1>6, <1>7, <1>8, <1>10

LEMMA DownKeeps ==
  ASSUME LinksInv, NEW l \in Links, ServerDies(l) \/ Closes(l)
  PROVE  (KindsInv /\ HandsInv /\ RacesInv /\ KillsInv /\ OnlyRacesOrphan)'
<1>1. ~Child(l) /\ link[l].life \in {"up", "closing"}
  BY DEF ServerDies, Closes, Child, LinksInv, KindsInv
<1>2. \A k \in Links :
        /\ link'[k].server = link[k].server /\ link'[k].via = link[k].via
        /\ link'[k].noted = link[k].noted
        /\ link'[k].life = IF k = l THEN "down" ELSE link[k].life
  BY LinksTypes, LifeFacts DEF ServerDies, Closes
<1>3. UNCHANGED <<clients, procs, req, doomed, forced, raced>>
  BY DEF ServerDies, Closes, maps, kills
<1>4. KindsInv'
  BY <1>1, <1>2, <1>3, LinksTypes DEF LinksInv, KindsInv, HasClient, Child, Born, Alive, Gone
<1>5. HandsInv'
  BY <1>1, <1>2, <1>3, LinksTypes DEF LinksInv, HandsInv, Opens, Shuts, Child
<1>6. RacesInv'
  BY <1>3 DEF LinksInv, RacesInv, Opens, Shuts, HasClient
<1>7. KillsInv'
  BY <1>1, <1>2, <1>3, ClientsOnly DEF Child, Born
<1>8. OnlyRacesOrphan'
  BY <1>2, <1>3, LinksTypes DEF LinksInv, OnlyRacesOrphan, Held, Alive
<1> QED
  BY <1>4, <1>5, <1>6, <1>7, <1>8

\* The steps of the runner leave the connections alone.
LEMMA ChildrenOnly ==
  ASSUME LinksInv, KindsInv', UNCHANGED clients, raced \subseteq raced',
         \A h \in Requests :
           /\ Opens(h) \/ Shuts(h) \/ (Opens(h) \/ Shuts(h))' \/ req'[h].at = "list"
                => req'[h] = req[h]
           /\ req'[h].op = "none" => req'[h].at = "next",
         \A l \in Links : /\ ~Child(l)' => ~Child(l) /\ link'[l].life = link[l].life
                          /\ ~Child(l) /\ Born(l) => ~Child(l)' /\ link'[l].server = link[l].server
  PROVE  HandsInv' /\ RacesInv'
<1>1. ASSUME NEW h \in Requests, Opens(h)' \/ Shuts(h)' \/ req'[h].at = "list"
      PROVE  /\ req'[h].link # None /\ link'[req'[h].link].via # "runner"
             /\ link'[req'[h].link].server = req'[h].name
             /\ link'[req'[h].link].life \in
                  (IF Opens(h)' THEN {"opening"}
                   ELSE IF Shuts(h)' THEN {"closing", "down"} ELSE {"up", "closing", "down"})
  <2>1. req'[h] = req[h]
    BY <1>1
  <2>2. Opens(h) \/ Shuts(h) \/ req[h].at = "list"
    BY <1>1, <2>1 DEF Opens, Shuts
  <2>3. /\ req[h].link # None /\ ~Child(req[h].link)
        /\ link[req[h].link].server = req[h].name
        /\ link[req[h].link].life \in
             (IF Opens(h) THEN {"opening"}
              ELSE IF Shuts(h) THEN {"closing", "down"} ELSE {"up", "closing", "down"})
    BY <2>2 DEF LinksInv, HandsInv
  <2>4. req[h].link \in Links
    BY <2>3, LinksTypes
  <2>5. Born(req[h].link)
    BY <2>3 DEF Born
  <2>6. /\ ~Child(req[h].link)' /\ link'[req[h].link].server = link[req[h].link].server
        /\ link'[req[h].link].life = link[req[h].link].life
    BY <2>1, <2>3, <2>4, <2>5 DEF Child
  <2>7. CASE Opens(h)
    BY <2>1, <2>3, <2>6, <2>7 DEF Opens, Child
  <2>8. CASE ~Opens(h) /\ Shuts(h)
    BY <2>1, <2>3, <2>6, <2>8 DEF Opens, Shuts, Child
  <2>9. CASE ~Opens(h) /\ ~Shuts(h)
    BY <2>1, <2>3, <2>6, <2>9 DEF Opens, Shuts, Child
  <2> QED
    BY <2>7, <2>8, <2>9
<1>2. \A h, o \in Requests : Opens(h)' /\ Opens(o)' /\ req'[h].link = req'[o].link => h = o
  BY DEF LinksInv, HandsInv, Opens
<1>3. ASSUME NEW l \in Links, link'[l].life = "closing"
      PROVE  \E h \in Requests : req'[h].at = "closing" /\ req'[h].link = l
  <2>1. link[l].life = "closing"
    BY <1>3 DEF KindsInv, Child
  <2>2. PICK h \in Requests : req[h].at = "closing" /\ req[h].link = l
    BY <2>1 DEF LinksInv, HandsInv
  <2> QED
    BY <2>2 DEF Shuts
<1>4. HandsInv'
  BY <1>1, <1>2, <1>3 DEF HandsInv, Opens, Shuts, Child
<1>5. RacesInv'
  BY DEF LinksInv, RacesInv, Opens, Shuts, HasClient
<1> QED
  BY <1>4, <1>5

LEMMA SpawnsKeeps ==
  ASSUME LinksInv, NEW h \in Requests, Spawns(h)
  PROVE  (KindsInv /\ HandsInv /\ RacesInv /\ KillsInv /\ OnlyRacesOrphan)'
<1>1. PICK l \in Links : /\ Fresh(l) /\ Open(l, req[h].name, "runner")
                         /\ procs' = [procs EXCEPT ![req[h].name] = l]
  BY DEF Spawns
<1>2. /\ \A k \in Links : k # l => link'[k] = link[k]
      /\ link'[l].server = req[h].name /\ link'[l].via = "runner"
      /\ link'[l].life = "opening" /\ link'[l].noted = "starting"
  BY <1>1, LinksTypes, OpenFacts
<1>3. /\ \A o \in Requests :
           /\ req'[o].op = req[o].op /\ req'[o].name = req[o].name
           /\ o # h => req'[o] = req[o]
      /\ req'[h].at = "next" /\ req'[h].link = None
  BY LinksTypes, GoesFacts DEF Spawns
<1>4. /\ link[l].life = "unborn" /\ req[h].at = "judge"
      /\ clients' = clients /\ doomed' = doomed /\ forced' = forced
  BY <1>1 DEF Spawns, Judging, Fresh, Born, kills
<1>5. raced \subseteq raced' /\ (Unfinished(req[h].name) => req[h].name \in raced')
  BY DEF Spawns
<1>6. /\ procs'[req[h].name] = l
      /\ \A m \in Servers : m # req[h].name => procs'[m] = procs[m]
  BY <1>1, LinksTypes DEF HostTypeOK
<1>7. KindsInv'
  BY <1>2, <1>4, <1>6, LinksTypes DEF LinksInv, KindsInv, HasClient, Child, Born, Alive, Gone
<1>8. HandsInv' /\ RacesInv'
  <2>1. \A k \in Links : /\ ~Child(k)' => ~Child(k) /\ link'[k].life = link[k].life
                         /\ ~Child(k) /\ Born(k) => ~Child(k)' /\ link'[k].server = link[k].server
    BY <1>2, <1>4 DEF Child, Born
  <2>2. \A o \in Requests :
          /\ Opens(o) \/ Shuts(o) \/ (Opens(o) \/ Shuts(o))' \/ req'[o].at = "list"
               => req'[o] = req[o]
          /\ req'[o].op = "none" => req'[o].at = "next"
    BY <1>3, <1>4 DEF Opens, Shuts, LinksInv, HandsInv
  <2> QED
    BY <1>4, <1>5, <1>7, <2>1, <2>2, ChildrenOnly
<1>9. KillsInv'
  <2>1. \A k \in Links : k # l =>
          /\ Child(k)' <=> Child(k)
          /\ Born(k)' <=> Born(k)
          /\ There(k)' <=> There(k)
          /\ link'[k].server = link[k].server /\ link'[k].life = link[k].life
    BY <1>2 DEF Child, Born, There, Gone
  <2>2. \A o \in Requests : Doomed(o)' = Doomed(o) /\ l \notin Doomed(o)
                            /\ Doomed(o) \subseteq Links /\ forced'[o] = forced[o]
    BY <1>4 DEF Doomed, LinksInv, KillsInv, Born, HostTypeOK
  <2>3. \A o \in Requests : req'[o].at # "killing" => Doomed(o)' = {}
    BY <1>3, <1>4, <2>2 DEF LinksInv, KillsInv
  <2>4. \A o \in Requests : \A k \in Doomed(o)' : Child(k)' /\ Born(k)'
    BY <2>1, <2>2 DEF LinksInv, KillsInv
  <2>5. \A o \in Requests : \A k \in forced'[o] : link'[k].life \in {"killed", "down"}
    BY <2>1, <2>2 DEF LinksInv, KillsInv, Doomed
  <2>6. ASSUME NEW k \in Links, k # l, link'[k].server = req[h].name, Child(k)',
               There(k)' \/ \E o \in Requests : k \in Doomed(o)'
        PROVE  req[h].name \in raced'
    BY <1>5, <2>1, <2>2, <2>6 DEF Unfinished, There, Child, Doomed
  <2>7. ASSUME NEW i \in Links, NEW k \in Links, i # k, link'[i].server = link'[k].server,
               Child(i)', Child(k)', There(i)', There(k)' \/ \E o \in Requests : k \in Doomed(o)'
        PROVE  link'[i].server \in raced'
    <3>1. CASE i = l
      BY <1>2, <2>6, <2>7, <3>1
    <3>2. CASE k = l
      BY <1>2, <2>6, <2>7, <3>2
    <3>3. CASE i # l /\ k # l
      <4>1. /\ link[i].server = link[k].server /\ Child(i) /\ Child(k) /\ There(i)
            /\ There(k) \/ \E o \in Requests : k \in Doomed(o)
        BY <2>1, <2>2, <2>7, <3>3
      <4>2. link[i].server \in raced
        BY <2>7, <4>1 DEF LinksInv, KillsInv
      <4> QED
        BY <1>5, <2>1, <3>3, <4>2
    <3> QED
      BY <3>1, <3>2, <3>3
  <2> QED
    BY <2>3, <2>4, <2>5, <2>7 DEF KillsInv
<1>10. OnlyRacesOrphan'
  <2> SUFFICES ASSUME NEW k \in Links, Alive(k)' PROVE Held(k)' \/ link'[k].server \in raced'
    BY DEF OnlyRacesOrphan
  <2>1. CASE k = l
    BY <1>2, <1>6, <2>1 DEF Held
  <2>2. CASE k # l
    <3>1. Alive(k) /\ link'[k] = link[k]
      BY <1>2, <2>2 DEF Alive
    <3>2. Held(k) \/ link[k].server \in raced
      BY <3>1 DEF LinksInv, OnlyRacesOrphan
    <3>3. CASE procs[link[k].server] = k /\ link[k].server = req[h].name
      <4>1. Child(k) /\ Born(k) /\ ~Gone(k)
        BY <3>1, <3>3, LinksTypes DEF LinksInv, KindsInv, Alive, Gone, Born
      <4>2. Unfinished(req[h].name)
        BY <3>3, <4>1 DEF Unfinished, Child
      <4> QED
        BY <1>5, <3>1, <3>3, <4>2
    <3>4. CASE procs[link[k].server] = k /\ link[k].server # req[h].name
      BY <1>6, <3>1, <3>4, LinksTypes DEF Held
    <3>5. CASE procs[link[k].server] # k
      BY <1>3, <1>4, <1>5, <3>1, <3>2, <3>5 DEF Held
    <3> QED
      BY <3>3, <3>4, <3>5
  <2> QED
    BY <2>1, <2>2
<1> QED
  BY <1>7, <1>8, <1>9, <1>10

\* The steps of one child: it comes up, ends, is killed, or a poll looks at it.
LEMMA ChildFacts ==
  ASSUME LinksInv, NEW l \in Links,
         \/ Spawned(l) \/ ChildEnds(l)
         \/ \E h \in Requests : PollSees(h, l) \/ Kills(h, l) \/ Killed(h, l)
  PROVE  /\ UNCHANGED <<clients, req, raced>> /\ Child(l) /\ Born(l)
         /\ \A k \in Links :
              /\ link'[k].server = link[k].server /\ link'[k].via = link[k].via
              /\ k # l => link'[k].life = link[k].life /\ link'[k].noted = link[k].noted
         /\ \/ /\ link[l].life = "opening" /\ link'[l].life = "up" /\ link'[l].noted = "running"
               /\ UNCHANGED <<procs, doomed, forced>>
            \/ /\ ChildEnds(l) /\ link[l].life # "down" /\ link'[l].life = "down"
               /\ link'[l].noted \in {"exited", "failed"}
            \/ /\ link[l].life \in {"up", "killed"} /\ \E h \in Requests : l \in doomed[h]
               /\ link'[l].life = "killed" /\ link'[l].noted = link[l].noted
            \/ /\ \E h \in Requests : l \in Doomed(h)
               /\ link[l].life \in {"killed", "down"} /\ link'[l].life = link[l].life
               /\ link'[l].noted \in {"exited", "failed"}
         /\ procs' = procs \/ (procs' = [procs EXCEPT ![link[l].server] = l]
                               /\ (There(l) \/ \E h \in Requests : l \in Doomed(h)))
         /\ \A h \in Requests : /\ doomed'[h] \ {l} = doomed[h] \ {l}
                                /\ forced'[h] \ {l} = forced[h] \ {l}
                                /\ Doomed(h)' \subseteq Doomed(h)
                                /\ l \in forced'[h] => l \in forced[h] \/ link'[l].life = "killed"
<1>0. link \in [Links -> Link] /\ doomed \in [Requests -> SUBSET Links]
      /\ forced \in [Requests -> SUBSET Links]
  BY LinksTypes DEF HostTypeOK
<1>1. CASE Spawned(l)
  <2>1. link' = [link EXCEPT ![l].life = "up", ![l].noted = "running"]
        /\ link[l].via = "runner" /\ link[l].life = "opening"
        /\ UNCHANGED <<clients, procs, req, doomed, forced, raced>>
    BY <1>1 DEF Spawned, maps, kills
  <2>2. /\ \A k \in Links : k # l => link'[k] = link[k]
        /\ link'[l].server = link[l].server /\ link'[l].via = link[l].via
        /\ link'[l].life = "up" /\ link'[l].noted = "running"
    BY <1>0, <2>1, LifeNotedFacts
  <2>3. \A h \in Requests : doomed'[h] = doomed[h] /\ forced'[h] = forced[h]
    BY <2>1
  <2>4. Child(l) /\ Born(l)
    BY <2>1 DEF Child, Born
  <2>5. UNCHANGED <<clients, procs, req, doomed, forced, raced>> /\ link[l].life = "opening"
    BY <2>1
  <2>6. \A h \in Requests : /\ doomed'[h] \ {l} = doomed[h] \ {l}
                             /\ forced'[h] \ {l} = forced[h] \ {l}
                             /\ Doomed(h)' \subseteq Doomed(h)
                             /\ l \in forced'[h] => l \in forced[h] \/ link'[l].life = "killed"
    BY <2>3 DEF Doomed
  <2> QED
    BY <2>2, <2>4, <2>5, <2>6 DEF Doomed
<1>2. CASE ChildEnds(l)
  <2>1. PICK noted \in {"exited", "failed"} :
          /\ link[l].life \in {"up", "killed", "opening"}
          /\ link' = [link EXCEPT ![l].life = "down", ![l].noted = noted]
    BY <1>2 DEF ChildEnds
  <2>2. link[l].via = "runner" /\ procs' = [procs EXCEPT ![link[l].server] = l]
        /\ UNCHANGED <<clients, req, doomed, forced, raced>>
    BY <1>2 DEF ChildEnds, kills
  <2>3. /\ \A k \in Links : k # l => link'[k] = link[k]
        /\ link'[l].server = link[l].server /\ link'[l].via = link[l].via
        /\ link'[l].life = "down" /\ link'[l].noted = noted
    BY <1>0, <2>1, LifeNotedFacts
  <2>4. \A h \in Requests : doomed'[h] = doomed[h] /\ forced'[h] = forced[h]
    BY <2>2
  <2>5. Child(l) /\ Born(l) /\ There(l) /\ link[l].life # "down"
    BY <2>1, <2>2 DEF Child, Born, There, Gone
  <2>6. \A h \in Requests : /\ doomed'[h] \ {l} = doomed[h] \ {l}
                             /\ forced'[h] \ {l} = forced[h] \ {l}
                             /\ Doomed(h)' \subseteq Doomed(h)
                             /\ l \in forced'[h] => l \in forced[h] \/ link'[l].life = "killed"
    BY <2>4 DEF Doomed
  <2> QED
    BY <1>2, <2>2, <2>3, <2>5, <2>6 DEF Doomed
<1>3. ASSUME NEW h \in Requests, l \in Doomed(h) PROVE Child(l) /\ Born(l)
  BY <1>3 DEF LinksInv, KillsInv
<1>4. CASE \E h \in Requests : PollSees(h, l)
  <2>1. PICK h \in Requests : PollSees(h, l)
    BY <1>4
  <2>2. l \in doomed[h] /\ link[l].life = "down" /\ link' = [link EXCEPT ![l].noted = "exited"]
        /\ procs' = [procs EXCEPT ![link[l].server] = l]
        /\ doomed' = [doomed EXCEPT ![h] = doomed[h] \ {l}]
        /\ UNCHANGED <<clients, req, forced, raced>>
    BY <2>1 DEF PollSees
  <2>3. \A k \in Links :
          /\ link'[k].server = link[k].server /\ link'[k].via = link[k].via
          /\ link'[k].life = link[k].life
          /\ link'[k].noted = IF k = l THEN "exited" ELSE link[k].noted
    BY <1>0, <2>2, NotedFacts
  <2>4. \A o \in Requests : doomed'[o] = IF o = h THEN doomed[o] \ {l} ELSE doomed[o]
    BY <1>0, <2>2
  <2>5. l \in Doomed(h)
    BY <2>2 DEF Doomed
  <2> QED
    BY <1>3, <2>2, <2>3, <2>4, <2>5 DEF Doomed
<1>5. CASE \E h \in Requests : Kills(h, l)
  <2>1. PICK h \in Requests : Kills(h, l)
    BY <1>5
  <2>2. l \in doomed[h] /\ link' = [link EXCEPT ![l].life = "killed"]
        /\ link[l].life \in {"up", "killed"}
        /\ doomed' = [doomed EXCEPT ![h] = doomed[h] \ {l}]
        /\ forced' = [forced EXCEPT ![h] = forced[h] \cup {l}]
        /\ UNCHANGED <<clients, procs, req, raced>>
    BY <2>1 DEF Kills, maps
  <2>3. \A k \in Links :
          /\ link'[k].server = link[k].server /\ link'[k].via = link[k].via
          /\ link'[k].noted = link[k].noted
          /\ link'[k].life = IF k = l THEN "killed" ELSE link[k].life
    BY <1>0, <2>2, LifeFacts
  <2>4. \A o \in Requests : /\ doomed'[o] = IF o = h THEN doomed[o] \ {l} ELSE doomed[o]
                            /\ forced'[o] = IF o = h THEN forced[o] \cup {l} ELSE forced[o]
    BY <1>0, <2>2
  <2>5. l \in Doomed(h)
    BY <2>2 DEF Doomed
  <2> QED
    BY <1>3, <2>2, <2>3, <2>4, <2>5 DEF Doomed
<1>6. CASE \E h \in Requests : Killed(h, l)
  <2>1. PICK h \in Requests : Killed(h, l)
    BY <1>6
  <2>2. l \in forced[h] /\ link' = [link EXCEPT ![l].noted = "failed"]
        /\ procs' = [procs EXCEPT ![link[l].server] = l]
        /\ forced' = [forced EXCEPT ![h] = forced[h] \ {l}]
        /\ UNCHANGED <<clients, req, doomed, raced>>
    BY <2>1 DEF Killed
  <2>3. \A k \in Links :
          /\ link'[k].server = link[k].server /\ link'[k].via = link[k].via
          /\ link'[k].life = link[k].life
          /\ link'[k].noted = IF k = l THEN "failed" ELSE link[k].noted
    BY <1>0, <2>2, NotedFacts
  <2>4. \A o \in Requests : forced'[o] = IF o = h THEN forced[o] \ {l} ELSE forced[o]
    BY <1>0, <2>2
  <2>5. l \in Doomed(h) /\ link[l].life \in {"killed", "down"}
    BY <2>2 DEF Doomed, LinksInv, KillsInv
  <2> QED
    BY <1>3, <2>2, <2>3, <2>4, <2>5 DEF Doomed
<1> QED
  BY <1>1, <1>2, <1>4, <1>5, <1>6

LEMMA ChildKeeps ==
  ASSUME LinksInv, NEW l \in Links,
         \/ Spawned(l) \/ ChildEnds(l)
         \/ \E h \in Requests : PollSees(h, l) \/ Kills(h, l) \/ Killed(h, l)
  PROVE  (KindsInv /\ HandsInv /\ RacesInv /\ KillsInv /\ OnlyRacesOrphan)'
<1>1. /\ UNCHANGED <<clients, req, raced>> /\ Child(l) /\ Born(l)
      /\ \A k \in Links :
           /\ link'[k].server = link[k].server /\ link'[k].via = link[k].via
           /\ k # l => link'[k].life = link[k].life /\ link'[k].noted = link[k].noted
  BY ChildFacts
<1>2. \/ /\ link[l].life = "opening" /\ link'[l].life = "up" /\ link'[l].noted = "running"
         /\ UNCHANGED <<procs, doomed, forced>>
      \/ /\ link[l].life # "down" /\ link'[l].life = "down"
         /\ link'[l].noted \in {"exited", "failed"}
      \/ /\ link[l].life \in {"up", "killed"} /\ \E h \in Requests : l \in doomed[h]
         /\ link'[l].life = "killed" /\ link'[l].noted = link[l].noted
      \/ /\ \E h \in Requests : l \in Doomed(h)
         /\ link[l].life \in {"killed", "down"} /\ link'[l].life = link[l].life
         /\ link'[l].noted \in {"exited", "failed"}
  BY ChildFacts
<1>3. procs' = procs \/ (procs' = [procs EXCEPT ![link[l].server] = l]
                         /\ (There(l) \/ \E h \in Requests : l \in Doomed(h)))
  BY ChildFacts
<1>4. \A h \in Requests : /\ doomed'[h] \ {l} = doomed[h] \ {l}
                          /\ forced'[h] \ {l} = forced[h] \ {l}
                          /\ Doomed(h)' \subseteq Doomed(h)
                          /\ l \in forced'[h] => l \in forced[h] \/ link'[l].life = "killed"
  BY ChildFacts
<1>5. \A m \in Servers : procs'[m] = procs[m] \/ (m = link[l].server /\ procs'[m] = l)
  BY <1>3, LinksTypes DEF HostTypeOK
<1>6. KindsInv'
  BY <1>1, <1>2, <1>5, LinksTypes DEF LinksInv, KindsInv, HasClient, Child, Born, Alive, Gone
<1>7. HandsInv' /\ RacesInv'
  <2>1. \A k \in Links : /\ ~Child(k)' => ~Child(k) /\ link'[k].life = link[k].life
                         /\ ~Child(k) /\ Born(k) => ~Child(k)' /\ link'[k].server = link[k].server
    BY <1>1 DEF Child, Born
  <2>2. \A o \in Requests :
          /\ Opens(o) \/ Shuts(o) \/ (Opens(o) \/ Shuts(o))' \/ req'[o].at = "list"
               => req'[o] = req[o]
          /\ req'[o].op = "none" => req'[o].at = "next"
    BY <1>1 DEF LinksInv, HandsInv
  <2> QED
    BY <1>1, <1>6, <2>1, <2>2, ChildrenOnly
<1>8. KillsInv'
  <2>1. \A k \in Links : /\ Child(k)' <=> Child(k)
                         /\ Born(k)' <=> Born(k)
                         /\ There(k)' => There(k)
    BY <1>1, <1>2 DEF Child, Born, There, Gone
  <2>2. \A h \in Requests : /\ req'[h].at # "killing" => Doomed(h)' = {}
                            /\ \A k \in Doomed(h)' : k \in Links /\ Child(k)' /\ Born(k)'
    BY <1>1, <1>4, <2>1 DEF LinksInv, KillsInv, Doomed, HostTypeOK
  <2>3. ASSUME NEW h \in Requests, NEW k \in forced'[h] PROVE link'[k].life \in {"killed", "down"}
    <3>1. CASE k # l
      <4>1. k \in forced[h] /\ k \in Links
        BY <1>4, <2>2, <2>3, <3>1 DEF Doomed
      <4> QED
        BY <1>1, <3>1, <4>1 DEF LinksInv, KillsInv
    <3>2. CASE k = l
      <4>1. l \in forced[h] => link[l].life \in {"killed", "down"}
        BY DEF LinksInv, KillsInv
      <4> QED
        BY <1>2, <1>4, <2>3, <3>2, <4>1
    <3> QED
      BY <3>1, <3>2
  <2>4. ASSUME NEW i \in Links, NEW k \in Links, i # k, link'[i].server = link'[k].server,
               Child(i)', Child(k)', There(i)', There(k)' \/ \E h \in Requests : k \in Doomed(h)'
        PROVE  link'[i].server \in raced'
    <3>1. /\ link[i].server = link[k].server /\ Child(i) /\ Child(k) /\ There(i)
          /\ There(k) \/ \E h \in Requests : k \in Doomed(h)
      BY <1>1, <1>4, <2>1, <2>4
    <3>2. link[i].server \in raced
      BY <2>4, <3>1 DEF LinksInv, KillsInv
    <3> QED
      BY <1>1, <3>2
  <2> QED
    BY <2>2, <2>3, <2>4 DEF KillsInv
<1>9. OnlyRacesOrphan'
  <2> SUFFICES ASSUME NEW k \in Links, Alive(k)', link[k].server \notin raced PROVE Held(k)'
    BY <1>1 DEF OnlyRacesOrphan
  <2>1. Alive(k)
    BY <1>1, <1>2 DEF Alive
  <2>2. Held(k)
    BY <2>1 DEF LinksInv, OnlyRacesOrphan
  <2>3. CASE k = l
    <3>1. UNCHANGED <<procs, doomed, forced>>
      BY <1>2, <2>1, <2>3 DEF Alive
    <3> QED
      BY <1>1, <2>2, <3>1 DEF Held
  <2>4. CASE k # l /\ procs[link[k].server] = k
    <3>1. CASE link[k].server = link[l].server /\ procs' # procs
      <4>1. Child(k) /\ There(k)
        BY <2>1, <2>4, LinksTypes DEF LinksInv, KindsInv, Alive, Gone, Born, There
      <4>2. There(l) \/ \E h \in Requests : l \in Doomed(h)
        BY <1>3, <3>1
      <4>3. link[k].server \in raced
        BY <1>1, <2>4, <3>1, <4>1, <4>2 DEF LinksInv, KillsInv
      <4> QED
        BY <4>3
    <3>2. CASE link[k].server # link[l].server \/ procs' = procs
      BY <1>1, <1>5, <2>4, <3>2, LinksTypes DEF Held
    <3> QED
      BY <3>1, <3>2
  <2>5. CASE clients[link[k].server] = k \/ \E h \in Requests :
               req[h].link = k /\ req[h].at \in {"connect", "closing"}
    BY <1>1, <2>5 DEF Held
  <2>6. CASE k # l /\ \E h \in Requests : k \in doomed[h] \cup forced[h]
    BY <1>4, <2>6 DEF Held
  <2> QED
    BY <2>2, <2>3, <2>4, <2>5, <2>6 DEF Held
<1> QED
  BY <1>6, <1>7, <1>8, <1>9

LEMMA StopsFrom ==
  ASSUME LinksInv, NEW h \in Requests, StopRequest(h) \/ StopAllRequest(h) \/ StopAllGoesOn(h)
  PROVE  /\ StopBegins(h) /\ UNCHANGED <<clients, cache, network, rows, forced, raced>>
         /\ req[h].at \in {"next", "killing"} /\ Doomed(h) = {} /\ doomed[h] = {} /\ forced[h] = {}
<1>1. /\ StopBegins(h) /\ UNCHANGED <<clients, cache, network, rows, forced, raced>>
      /\ req[h].op = "none" \/ Rests(h)
  BY StopSteps, LinksTypes
<1>2. req[h].at \in {"next", "killing"} /\ Doomed(h) = {}
  BY <1>1 DEF Rests, Doomed, LinksInv, HandsInv, KillsInv
<1> QED
  BY <1>1, <1>2 DEF Doomed

LEMMA ShutsKeeps ==
  ASSUME LinksInv, NEW h \in Requests, NEW n \in Servers, NEW op \in {"stop", "stopAll"},
         NEW todo \in SUBSET Servers, ShutsClient(h, op, n, todo),
         UNCHANGED <<clients, forced, raced>>, req[h].at \in {"next", "killing"}, Doomed(h) = {}
  PROVE  (KindsInv /\ HandsInv /\ RacesInv /\ KillsInv /\ OnlyRacesOrphan)'
<1>1. PICK l : l = clients[n]
  OBVIOUS
<1>2. /\ l \in Links
      /\ \A k \in Links :
           /\ link'[k].server = link[k].server /\ link'[k].via = link[k].via
           /\ link'[k].noted = link[k].noted
           /\ link'[k].life = IF k = l /\ link[k].life = "up" THEN "closing" ELSE link[k].life
      /\ \A o \in Requests : o # h => req'[o] = req[o]
      /\ req'[h].op = op /\ req'[h].name = n /\ req'[h].link = l
      /\ req'[h].at = IF link[l].life = "up" THEN "closing" ELSE "closed"
  BY <1>1, LinksTypes, ShutsFacts
<1>3. /\ link[l].server = n /\ ~Child(l) /\ link[l].life \in {"up", "closing", "down"}
      /\ HasClient(n)
  BY <1>1, LinksTypes DEF ShutsClient, LinksInv, KindsInv
<1>4. UNCHANGED <<procs, doomed>>
  BY DEF ShutsClient
<1>5. KindsInv'
  BY <1>2, <1>3, <1>4, LinksTypes DEF LinksInv, KindsInv, HasClient, Child, Born, Alive, Gone
<1>6. HandsInv'
  <2>1. \A o \in Requests : o # h /\ (Opens(o)' \/ Shuts(o)' \/ req'[o].at = "list") =>
          /\ req'[o].link # None /\ link'[req'[o].link].via # "runner"
          /\ link'[req'[o].link].server = req'[o].name
          /\ link'[req'[o].link].life \in
               (IF Opens(o)' THEN {"opening"}
                ELSE IF Shuts(o)' THEN {"closing", "down"} ELSE {"up", "closing", "down"})
    BY <1>2, LinksTypes DEF LinksInv, HandsInv, Opens, Shuts, Child
  <2>2. /\ req'[h].link # None /\ link'[req'[h].link].via # "runner"
        /\ link'[req'[h].link].server = req'[h].name
        /\ link'[req'[h].link].life \in {"closing", "down"} /\ Shuts(h)' /\ ~Opens(h)'
    BY <1>2, <1>3, LinksTypes DEF Child, Shuts, Opens
  <2>3. \A o, p \in Requests : Opens(o)' /\ Opens(p)' /\ req'[o].link = req'[p].link => o = p
    BY <1>2, <2>2 DEF LinksInv, HandsInv, Opens
  <2>4. ASSUME NEW k \in Links, link'[k].life = "closing"
        PROVE  \E o \in Requests : req'[o].at = "closing" /\ req'[o].link = k
    <3>1. CASE k = l /\ link[k].life = "up"
      BY <1>2, <3>1
    <3>2. CASE link[k].life = "closing"
      <4>1. PICK o \in Requests : req[o].at = "closing" /\ req[o].link = k
        BY <3>2 DEF LinksInv, HandsInv
      <4> QED
        BY <1>2, <4>1
    <3> QED
      BY <1>2, <2>4, <3>1, <3>2
  <2>5. \A o \in Requests : req'[o].op = "none" => req'[o].at = "next"
    BY <1>2 DEF LinksInv, HandsInv
  <2> QED
    BY <2>1, <2>2, <2>3, <2>4, <2>5 DEF HandsInv, Opens, Shuts, Child
<1>7. RacesInv'
  BY <1>1, <1>2, <1>3 DEF LinksInv, RacesInv, Opens, Shuts, HasClient
<1>8. KillsInv'
  BY <1>2, <1>3, <1>4, ClientsOnly DEF Child, Born
<1>9. OnlyRacesOrphan'
  <2>1. \A k \in Links : Alive(k)' => Alive(k)
    BY <1>2 DEF Alive
  <2>2. \A o \in Requests : req[o].at \in {"connect", "closing"} => req'[o] = req[o]
    BY <1>2
  <2> QED
    BY <1>2, <1>4, <2>1, <2>2 DEF LinksInv, OnlyRacesOrphan, Held
<1> QED
  BY <1>5, <1>6, <1>7, <1>8, <1>9

LEMMA SendsKeeps ==
  ASSUME LinksInv, NEW h \in Requests, NEW n \in Servers, NEW op \in {"stop", "stopAll"},
         NEW todo \in SUBSET Servers, NEW ns \in SUBSET Servers, SendsTerm(h, op, n, todo, ns),
         UNCHANGED <<clients, forced, raced>>, req[h].at \in {"next", "killing"},
         doomed[h] = {}, forced[h] = {}
  PROVE  (KindsInv /\ HandsInv /\ RacesInv /\ KillsInv /\ OnlyRacesOrphan)'
<1>1. /\ \A m \in Servers : procs'[m] # procs[m] =>
           procs[m] # None /\ ~HasProcess(m) /\ procs'[m] = None
      /\ \A o \in Requests : o # h => doomed'[o] = doomed[o]
      /\ \A l \in doomed'[h] : \E m \in Servers : HasProcess(m) /\ procs[m] = l
      /\ link' = link
  BY LinksTypes, TermFacts DEF SendsTerm
<1>2. /\ \A o \in Requests : o # h => req'[o] = req[o]
      /\ req'[h].op = op /\ req'[h].at = "killing"
  <2>1. Asked(h, op, n, todo, "killing", None)
    BY DEF SendsTerm
  <2>2. /\ \A o \in Requests : o # h => req'[o] = req[o]
        /\ req'[h] = [op |-> op, dry |-> FALSE, todo |-> todo, name |-> n, at |-> "killing",
                      link |-> None]
    BY <2>1, LinksTypes DEF Asked
  <2> QED
    BY <2>2
<1>3. \A l \in doomed'[h] : l \in Links /\ Child(l) /\ There(l)
  <2> SUFFICES ASSUME NEW l \in doomed'[h] PROVE l \in Links /\ Child(l) /\ There(l)
    OBVIOUS
  <2>1. PICK m \in Servers : HasProcess(m) /\ procs[m] = l
    BY <1>1
  <2>2. l \in Links /\ link[l].noted \in {"starting", "running"}
    BY <2>1, LinksTypes DEF HasProcess
  <2> QED
    BY <2>1, <2>2 DEF HasProcess, LinksInv, KindsInv, There
<1>4. KindsInv'
  <2>1. \A m \in Servers : procs'[m] # None => procs'[m] = procs[m]
    BY <1>1
  <2> QED
    BY <1>1, <2>1 DEF LinksInv, KindsInv, HasClient, Child, Born, Alive, Gone
<1>5. HandsInv' /\ RacesInv'
  <2>1. \A k \in Links : /\ ~Child(k)' => ~Child(k) /\ link'[k].life = link[k].life
                         /\ ~Child(k) /\ Born(k) => ~Child(k)' /\ link'[k].server = link[k].server
    BY <1>1 DEF Child, Born
  <2>2. \A o \in Requests :
          /\ Opens(o) \/ Shuts(o) \/ (Opens(o) \/ Shuts(o))' \/ req'[o].at = "list"
               => req'[o] = req[o]
          /\ req'[o].op = "none" => req'[o].at = "next"
    BY <1>2 DEF Opens, Shuts, LinksInv, HandsInv
  <2> QED
    BY <1>4, <2>1, <2>2, ChildrenOnly
<1>6. KillsInv'
  <2>1. \A o \in Requests : req'[o].at # "killing" => Doomed(o)' = {}
    BY <1>1, <1>2 DEF LinksInv, KillsInv, Doomed
  <2>2. \A o \in Requests : \A l \in Doomed(o)' :
          /\ l \in Links /\ Child(l) /\ Born(l)
          /\ There(l) \/ l \in Doomed(o)
    BY <1>1, <1>3 DEF LinksInv, KillsInv, Doomed, HostTypeOK, There
  <2>3. \A o \in Requests : \A l \in forced[o] : link[l].life \in {"killed", "down"}
    BY DEF LinksInv, KillsInv
  <2>4. ASSUME NEW l \in Links, NEW k \in Links, l # k, link[l].server = link[k].server,
               Child(l), Child(k), There(l), There(k) \/ \E o \in Requests : k \in Doomed(o)'
        PROVE  link[l].server \in raced
    <3>1. There(k) \/ \E o \in Requests : k \in Doomed(o)
      BY <2>2, <2>4 DEF Doomed
    <3> QED
      BY <2>4, <3>1 DEF LinksInv, KillsInv
  <2> QED
    BY <1>1, <2>1, <2>2, <2>3, <2>4 DEF KillsInv, Doomed, Child, Born, There, Gone
<1>7. OnlyRacesOrphan'
  <2> SUFFICES ASSUME NEW l \in Links, Alive(l), link[l].server \notin raced PROVE Held(l)'
    BY <1>1 DEF OnlyRacesOrphan, Alive
  <2>1. Held(l)
    BY DEF LinksInv, OnlyRacesOrphan
  <2>2. CASE procs[link[l].server] = l
    <3>1. HasProcess(link[l].server)
      BY <2>2, LinksTypes DEF HasProcess, LinksInv, KindsInv
    <3> QED
      BY <1>1, <2>2, <3>1, LinksTypes DEF Held
  <2>3. CASE clients[link[l].server] = l
    BY <1>1, <2>3 DEF Held
  <2>4. CASE \E o \in Requests : req[o].link = l /\ req[o].at \in {"connect", "closing"}
    BY <1>2, <2>4 DEF Held
  <2>5. CASE \E o \in Requests : l \in doomed[o] \cup forced[o]
    BY <1>1, <2>5 DEF Held
  <2> QED
    BY <2>1, <2>2, <2>3, <2>4, <2>5 DEF Held
<1> QED
  BY <1>4, <1>5, <1>6, <1>7

LEMMA StopsKeep ==
  ASSUME LinksInv, NEW h \in Requests, StopRequest(h) \/ StopAllRequest(h) \/ StopAllGoesOn(h)
  PROVE  (KindsInv /\ HandsInv /\ RacesInv /\ KillsInv /\ OnlyRacesOrphan)'
<1>1. /\ StopBegins(h) /\ UNCHANGED <<clients, forced, raced>>
      /\ req[h].at \in {"next", "killing"} /\ Doomed(h) = {} /\ doomed[h] = {} /\ forced[h] = {}
  BY StopsFrom
<1>2. PICK n \in Servers, op \in {"stop", "stopAll"}, todo \in SUBSET Servers :
        ShutsClient(h, op, n, todo) \/ \E ns \in SUBSET Servers : SendsTerm(h, op, n, todo, ns)
  BY <1>1 DEF StopBegins
<1>3. CASE ShutsClient(h, op, n, todo)
  BY <1>1, <1>3, ShutsKeeps
<1>4. ASSUME NEW ns \in SUBSET Servers, SendsTerm(h, op, n, todo, ns)
      PROVE  (KindsInv /\ HandsInv /\ RacesInv /\ KillsInv /\ OnlyRacesOrphan)'
  BY <1>1, <1>4, SendsKeeps
<1> QED
  BY <1>2, <1>3, <1>4

LEMMA LinksInvNext == ASSUME LinksInv, [HostNext]_hostVars PROVE LinksInv'
<1>1. HostTypeOK'
  BY HostTypesNext DEF LinksInv
<1>2. CASE Steady
  BY <1>1, <1>2, SteadyKeeps DEF LinksInv
<1>3. ASSUME UNCHANGED <<link, clients, procs, kills, raced, req>> PROVE Steady
  BY <1>3 DEF Steady, LinksInv, KillsInv, HandsInv
<1>4. CASE UNCHANGED hostVars
  BY <1>2, <1>3, <1>4 DEF hostVars, kills
<1>5. ASSUME NetworkAnswers \/ \E w \in writes : Lands(w) \/ IsLost(w) PROVE Steady
  BY <1>3, <1>5 DEF NetworkAnswers, Lands, IsLost, maps
<1>6. CASE HostNext
  BY <1>1, <1>2, <1>5, <1>6, HostSteps, QuietSteps, ConnectsKeeps, ConnectedKeeps,
     ConnectFailsKeeps, ClosedKeeps, DownKeeps, SpawnsKeeps, ChildKeeps, StopsKeep
     DEF LinksInv
<1> QED
  BY <1>4, <1>6

LEMMA LinksInvInit == HostInit => LinksInv
<1> SUFFICES ASSUME HostInit PROVE LinksInv
  OBVIOUS
<1>1. \A l \in Links : link[l].life = "unborn" /\ link[l].via = "client"
  BY DEF HostInit
<1>2. \A n \in Servers : clients[n] = None /\ procs[n] = None
  BY DEF HostInit
<1>3. \A h \in Requests : req[h].at = "next" /\ doomed[h] = {} /\ forced[h] = {}
  BY DEF HostInit, Idle
<1>4. KindsInv /\ HandsInv /\ RacesInv
  BY <1>1, <1>2, <1>3 DEF KindsInv, HandsInv, RacesInv, HasClient, Opens, Shuts, Child, Alive, Gone
<1>5. KillsInv /\ OnlyRacesOrphan
  BY <1>1, <1>3 DEF KillsInv, OnlyRacesOrphan, Doomed, Child, Alive
<1> QED
  BY <1>4, <1>5, HostTypesInit DEF LinksInv

LEMMA SpecLinksInv == HostSpec => []LinksInv
<1> QED
  BY LinksInvInit, LinksInvNext, PTL DEF HostSpec

(* A server process that lives and that neither a map nor a request knows  *)
(* has a name that was opened again while an earlier start or stop of it   *)
(* was unfinished: the host loses processes by overlapping requests only.  *)
THEOREM HostLosesByRaces == HostSpec => []OnlyRacesOrphan
<1>1. LinksInv => OnlyRacesOrphan
  BY DEF LinksInv
<1> QED
  BY SpecLinksInv, <1>1, PTL

-----------------------------------------------------------------------------
\* A list is answered for the connection of its server, or the name is raced.
LEMMA ListIsCurrent ==
  ASSUME LinksInv, NEW h \in Requests, req[h].at = "list", Alive(req[h].link),
         HasClient(req[h].name), req[h].name \notin raced
  PROVE  req[h].link = clients[req[h].name]
<1>1. PICK l : l = req[h].link
  OBVIOUS
<1>2. /\ l \in Links /\ ~Child(l) /\ link[l].server = req[h].name
      /\ link[l].life \in {"up", "closing", "down"}
  BY <1>1, LinksTypes DEF LinksInv, HandsInv, Opens, Shuts
<1>3. Held(l)
  BY <1>1, <1>2 DEF LinksInv, OnlyRacesOrphan
<1>4. procs[link[l].server] # l /\ \A o \in Requests : l \notin doomed[o] \cup forced[o]
  BY <1>2, LinksTypes DEF LinksInv, KindsInv, KillsInv, Doomed
<1>5. ASSUME NEW o \in Requests, req[o].link = l, req[o].at = "closing"
      PROVE  clients[req[h].name] = l
  BY <1>2, <1>5, LinksTypes DEF LinksInv, HandsInv, RacesInv, Shuts, HasClient
<1>6. \A o \in Requests : req[o].link = l => req[o].at # "connect"
  BY <1>2 DEF LinksInv, HandsInv, Opens
<1> QED
  BY <1>1, <1>2, <1>3, <1>4, <1>5, <1>6 DEF Held

LEMMA CacheNext ==
  ASSUME LinksInv, CacheIsCurrent, [HostNext]_hostVars
  PROVE  CacheIsCurrent'
<1>1. ASSUME UNCHANGED <<clients, cache>>, raced \subseteq raced' PROVE CacheIsCurrent'
  BY <1>1 DEF CacheIsCurrent, HasClient
<1>2. ASSUME NEW h \in Requests, Connected(h) \/ Closed(h) PROVE CacheIsCurrent'
  <2>1. /\ cache' = [cache EXCEPT ![req[h].name] = None] /\ raced' = raced
        /\ \E l : clients' = [clients EXCEPT ![req[h].name] = l]
    BY <1>2 DEF Connected, Closed, Forgotten
  <2>2. /\ cache'[req[h].name] = None
        /\ \A n \in Servers : n # req[h].name => cache'[n] = cache[n] /\ clients'[n] = clients[n]
    BY <2>1, LinksTypes DEF HostTypeOK
  <2> QED
    BY <2>1, <2>2 DEF CacheIsCurrent, HasClient
<1>3. ASSUME NEW h \in Requests, ListAnswers(h) PROVE CacheIsCurrent'
  <2>1. /\ cache' = [cache EXCEPT ![req[h].name] = req[h].link] /\ UNCHANGED <<clients, raced>>
        /\ req[h].at = "list" /\ Alive(req[h].link)
    BY <1>3 DEF ListAnswers
  <2>2. /\ cache'[req[h].name] = req[h].link
        /\ \A n \in Servers : n # req[h].name => cache'[n] = cache[n]
    BY <2>1, LinksTypes DEF HostTypeOK
  <2> QED
    BY <2>1, <2>2, ListIsCurrent DEF CacheIsCurrent, HasClient
<1>4. ASSUME NEW h \in Requests, Connects(h) \/ Spawns(h) PROVE CacheIsCurrent'
  <2>1. UNCHANGED <<clients, cache>> /\ raced \subseteq raced'
    BY <1>4 DEF Connects, Spawns, maps
  <2> QED
    BY <1>1, <2>1
<1>5. ASSUME NEW h \in Requests,
             \/ MissesSecrets(h) \/ IsRefused(h) \/ AsksNetwork(h) \/ NetworkMissing(h)
             \/ AlreadyConnected(h) \/ CannotConnect(h) \/ AlreadyRunning(h) \/ ListFails(h)
             \/ StartRequest(h) \/ TakesServer(h) \/ Returns(h) \/ ListRequest(h)
             \/ ConnectFails(h) \/ StopRequest(h) \/ StopAllRequest(h) \/ StopAllGoesOn(h)
      PROVE  CacheIsCurrent'
  <2>1. UNCHANGED <<clients, cache, raced>>
    BY <1>5 DEF MissesSecrets, IsRefused, AsksNetwork, NetworkMissing, AlreadyConnected,
                CannotConnect, AlreadyRunning, ListFails, StartRequest, TakesServer, Returns,
                ListRequest, ConnectFails, StopRequest, StopAllRequest, StopAllGoesOn, maps
  <2> QED
    BY <1>1, <2>1
<1>6. ASSUME NEW l \in Links, NEW h,
             \/ Spawned(l) \/ Closes(l) \/ ServerDies(l) \/ ChildEnds(l)
             \/ PollSees(h, l) \/ Kills(h, l) \/ Killed(h, l)
      PROVE  CacheIsCurrent'
  <2>1. UNCHANGED <<clients, cache, raced>>
    BY <1>6 DEF Spawned, Closes, ServerDies, ChildEnds, PollSees, Kills, Killed, maps
  <2> QED
    BY <1>1, <2>1
<1>7. ASSUME \/ UNCHANGED hostVars \/ NetworkAnswers \/ \E w \in writes : Lands(w) \/ IsLost(w)
      PROVE  CacheIsCurrent'
  <2>1. UNCHANGED <<clients, cache, raced>>
    BY <1>7 DEF hostVars, NetworkAnswers, Lands, IsLost, maps
  <2> QED
    BY <1>1, <2>1
<1> QED
  BY <1>2, <1>3, <1>4, <1>5, <1>6, <1>7, HostSteps

(* The tools cached for a connected server were listed by the connection   *)
(* it has now, unless its name was raced: a late list outlives no server.  *)
THEOREM HostCacheIsCurrent == HostSpec => []CacheIsCurrent
<1>1. HostInit => CacheIsCurrent
  BY DEF HostInit, CacheIsCurrent, HasClient
<1> QED
  BY <1>1, SpecLinksInv, CacheNext, PTL DEF HostSpec

-----------------------------------------------------------------------------
Had(n) ==
  \/ HasClient(n)
  \/ \E l \in Links : link[l].server = n /\ Child(l) /\ There(l)

\* What a row says, or will say once the one update of it that is under way is applied.
RowsInv ==
  \A n \in Servers \ smudged :
    /\ \A v, w \in writes : v.server = n /\ w.server = n => v = w
    /\ \A w \in writes : w.server = n /\ w.status = "running" => Had(n)
    /\ status[n] = "running" /\ (\A w \in writes : w.server # n) => Had(n)

LEMMA RowsStay ==
  ASSUME RowsInv, UNCHANGED rows, \A n \in Servers : Had(n) => Had(n)'
  PROVE  RowsInv'
<1>1. UNCHANGED <<status, writes, smudged>>
  BY DEF rows
<1>2. ASSUME NEW n \in Servers, n \notin smudged
      PROVE  /\ \A v, w \in writes : v.server = n /\ w.server = n => v = w
             /\ \A w \in writes : w.server = n /\ w.status = "running" => Had(n)'
             /\ status[n] = "running" /\ (\A w \in writes : w.server # n) => Had(n)'
  BY <1>2 DEF RowsInv
<1> QED
  BY <1>1, <1>2 DEF RowsInv

LEMMA RowsRecorded ==
  ASSUME RowsInv, NEW n \in Servers, NEW st, NEW by, Record(n, st, by),
         \A m \in Servers : m # n /\ Had(m) => Had(m)', st = "running" => Had(n)'
  PROVE  RowsInv'
<1>1. PICK new : new = [server |-> n, status |-> st, by |-> by]
  OBVIOUS
<1>2. /\ writes' = writes \cup {new} /\ new.server = n /\ new.status = st /\ status' = status
      /\ smudged' = IF \E w \in writes : w.server = n THEN smudged \cup {n} ELSE smudged
  BY <1>1 DEF Record
<1>3. ASSUME NEW m \in Servers, m \notin smudged'
      PROVE  /\ \A v, w \in writes' : v.server = m /\ w.server = m => v = w
             /\ \A w \in writes' : w.server = m /\ w.status = "running" => Had(m)'
             /\ status'[m] = "running" /\ (\A w \in writes' : w.server # m) => Had(m)'
  <2>1. CASE m # n
    <3>1. m \notin smudged
      BY <1>2, <1>3
    <3>2. /\ \A v, w \in writes : v.server = m /\ w.server = m => v = w
          /\ \A w \in writes : w.server = m /\ w.status = "running" => Had(m)
          /\ status[m] = "running" /\ (\A w \in writes : w.server # m) => Had(m)
      BY <3>1 DEF RowsInv
    <3>3. Had(m) => Had(m)'
      BY <2>1
    <3> QED
      BY <1>2, <2>1, <3>2, <3>3
  <2>2. CASE m = n
    <3>1. \A w \in writes : w.server # n
      BY <1>2, <1>3, <2>2
    <3>2. st = "running" => Had(m)'
      BY <2>2
    <3> QED
      BY <1>2, <2>2, <3>1, <3>2
  <2> QED
    BY <2>1, <2>2
<1> QED
  BY <1>3 DEF RowsInv

LEMMA RowsApplied ==
  ASSUME HostTypeOK, RowsInv, NEW w \in writes, Lands(w) \/ IsLost(w)
  PROVE  RowsInv'
<1>1. \A n \in Servers : Had(n)' <=> Had(n)
  BY DEF Lands, IsLost, maps, Had, HasClient, Child, There, Born, Gone
<1>2. writes' = writes \ {w} /\ w.server \in Servers
  BY DEF Lands, IsLost, HostTypeOK, Write
<1>3. CASE Lands(w)
  <2>1. smudged' = smudged /\ status' = [status EXCEPT ![w.server] = w.status]
    BY <1>3 DEF Lands
  <2>2. ASSUME NEW n \in Servers, n \notin smudged
        PROVE  /\ \A u, v \in writes' : u.server = n /\ v.server = n => u = v
               /\ \A v \in writes' : v.server = n /\ v.status = "running" => Had(n)'
               /\ status'[n] = "running" /\ (\A v \in writes' : v.server # n) => Had(n)'
    <3>1. /\ \A u, v \in writes : u.server = n /\ v.server = n => u = v
          /\ \A v \in writes : v.server = n /\ v.status = "running" => Had(n)
          /\ status[n] = "running" /\ (\A v \in writes : v.server # n) => Had(n)
      BY <2>2 DEF RowsInv
    <3>2. Had(n)' <=> Had(n)
      BY <1>1
    <3>3. status'[n] = IF n = w.server THEN w.status ELSE status[n]
      BY <2>1 DEF HostTypeOK
    <3> QED
      BY <1>2, <3>1, <3>2, <3>3
  <2> QED
    BY <2>1, <2>2 DEF RowsInv
<1>4. CASE IsLost(w)
  <2>1. smudged' = smudged \cup {w.server} /\ status' = status
    BY <1>4 DEF IsLost
  <2>2. ASSUME NEW n \in Servers, n \notin smudged'
        PROVE  /\ \A u, v \in writes' : u.server = n /\ v.server = n => u = v
               /\ \A v \in writes' : v.server = n /\ v.status = "running" => Had(n)'
               /\ status'[n] = "running" /\ (\A v \in writes' : v.server # n) => Had(n)'
    <3>1. n # w.server /\ n \notin smudged
      BY <2>1, <2>2
    <3>2. /\ \A u, v \in writes : u.server = n /\ v.server = n => u = v
          /\ \A v \in writes : v.server = n /\ v.status = "running" => Had(n)
          /\ status[n] = "running" /\ (\A v \in writes : v.server # n) => Had(n)
      BY <3>1 DEF RowsInv
    <3>3. Had(n)' <=> Had(n)
      BY <1>1
    <3> QED
      BY <1>2, <2>1, <3>1, <3>2, <3>3
  <2> QED
    BY <2>2 DEF RowsInv
<1> QED
  BY <1>3, <1>4

\* Only the end of a stop and the end of a child take a server from the host.
LEMMA HadStays ==
  ASSUME LinksInv, [HostNext]_hostVars, NEW n \in Servers, Had(n),
         \A h \in Requests : Closed(h) => req[h].name # n,
         \A l \in Links : ChildEnds(l) => link[l].server # n
  PROVE  Had(n)'
<1>1. ASSUME NEW l \in Links, link[l].server = n, Child(l), There(l),
             link'[l].server = n, link'[l].via = link[l].via, There(l)'
      PROVE  Had(n)'
  BY <1>1 DEF Had, Child
<1>2. ASSUME UNCHANGED <<link, clients>> PROVE Had(n)'
  BY <1>2 DEF Had, HasClient, Child, There, Born, Gone
<1>3. ASSUME UNCHANGED clients,
             \A l \in Links : Child(l) /\ There(l) =>
               link'[l].server = link[l].server /\ link'[l].via = link[l].via /\ There(l)'
      PROVE  Had(n)'
  BY <1>1, <1>3 DEF Had, HasClient
<1>4. ASSUME UNCHANGED clients, NEW l \in Links, ~Child(l) \/ ~Born(l),
             \A k \in Links : k # l => link'[k] = link[k]
      PROVE  Had(n)'
  BY <1>3, <1>4 DEF There, Born, Gone
<1>5. ASSUME UNCHANGED clients, NEW l \in Links, ~Child(l),
             \A k \in Links : /\ link'[k].server = link[k].server /\ link'[k].via = link[k].via
                              /\ k # l => link'[k].life = link[k].life
      PROVE  Had(n)'
  BY <1>3, <1>5 DEF There, Born, Gone
<1>6. ASSUME NEW h \in Requests, Connects(h) \/ Spawns(h) PROVE Had(n)'
  <2>1. PICK l \in Links, via \in {"client", "runner"} : Fresh(l) /\ Open(l, req[h].name, via)
    BY <1>6 DEF Connects, Spawns
  <2>2. UNCHANGED clients /\ ~Born(l)
    BY <1>6, <2>1 DEF Connects, Spawns, maps, Fresh
  <2>3. \A k \in Links : k # l => link'[k] = link[k]
    BY <2>1, LinksTypes, OpenFacts
  <2> QED
    BY <1>4, <2>2, <2>3
<1>7. ASSUME NEW h \in Requests, Connected(h) \/ ConnectFails(h) PROVE Had(n)'
  <2>1. PICK l \in Links : l = req[h].link /\ ~Child(l)
    BY <1>7, LinksTypes DEF Connected, ConnectFails, LinksInv, HandsInv, Opens
  <2>2. \A k \in Links : /\ link'[k].server = link[k].server /\ link'[k].via = link[k].via
                         /\ k # l => link'[k].life = link[k].life
    BY <1>7, <2>1, LinksTypes, LifeFacts DEF Connected, ConnectFails
  <2>3. CASE UNCHANGED clients
    BY <1>5, <2>1, <2>2, <2>3
  <2>4. CASE Connected(h)
    <3>1. clients' = [clients EXCEPT ![req[h].name] = l]
      BY <2>1, <2>4 DEF Connected
    <3>2. HasClient(n) => HasClient(n)'
      BY <3>1, LinksTypes DEF HasClient, HostTypeOK
    <3>3. \A k \in Links : Child(k) /\ There(k) => There(k)'
      BY <2>1, <2>2 DEF There, Born, Gone
    <3> QED
      BY <1>1, <2>2, <3>2, <3>3 DEF Had
  <2> QED
    BY <1>7, <2>3, <2>4 DEF ConnectFails, maps
<1>8. ASSUME NEW l \in Links, ServerDies(l) \/ Closes(l) PROVE Had(n)'
  <2>1. ~Child(l) /\ UNCHANGED clients
    BY <1>8 DEF ServerDies, Closes, Child, LinksInv, KindsInv, maps
  <2>2. \A k \in Links : /\ link'[k].server = link[k].server /\ link'[k].via = link[k].via
                         /\ k # l => link'[k].life = link[k].life
    BY <1>8, LinksTypes, LifeFacts DEF ServerDies, Closes
  <2> QED
    BY <1>5, <2>1, <2>2
<1>9. ASSUME NEW l \in Links,
             \/ Spawned(l) \/ ChildEnds(l)
             \/ \E h \in Requests : PollSees(h, l) \/ Kills(h, l) \/ Killed(h, l)
      PROVE  Had(n)'
  <2>1. /\ UNCHANGED clients /\ Child(l)
        /\ \A k \in Links :
             /\ link'[k].server = link[k].server /\ link'[k].via = link[k].via
             /\ k # l => link'[k].life = link[k].life
    BY <1>9, ChildFacts
  <2>2. ChildEnds(l) \/ link'[l].life \in {"up", "killed"} \/ link'[l].life = link[l].life
    BY <1>9, ChildFacts
  <2>3. CASE HasClient(n)
    BY <2>1, <2>3 DEF Had, HasClient
  <2>4. CASE ~HasClient(n)
    <3>1. PICK k \in Links : link[k].server = n /\ Child(k) /\ There(k)
      BY <2>4 DEF Had
    <3>2. There(k)'
      BY <2>1, <2>2, <3>1 DEF There, Born, Gone
    <3> QED
      BY <1>1, <2>1, <3>1, <3>2
  <2> QED
    BY <2>3, <2>4
<1>10. ASSUME NEW h \in Requests, StopRequest(h) \/ StopAllRequest(h) \/ StopAllGoesOn(h)
       PROVE  Had(n)'
  <2>1. StopBegins(h) /\ UNCHANGED clients
    BY <1>10, StopsFrom
  <2>2. PICK m \in Servers, op \in {"stop", "stopAll"}, todo \in SUBSET Servers :
          ShutsClient(h, op, m, todo) \/ \E ns \in SUBSET Servers : SendsTerm(h, op, m, todo, ns)
    BY <2>1 DEF StopBegins
  <2>3. CASE ShutsClient(h, op, m, todo)
    <3>1. PICK l : l = clients[m]
      OBVIOUS
    <3>2. l \in Links /\ ~Child(l)
      BY <2>3, <3>1, LinksTypes DEF ShutsClient, LinksInv, KindsInv, HasClient
    <3>3. \A k \in Links : /\ link'[k].server = link[k].server /\ link'[k].via = link[k].via
                           /\ k # l => link'[k].life = link[k].life
      BY <2>3, <3>1, LinksTypes, ShutsFacts
    <3> QED
      BY <1>5, <2>1, <3>2, <3>3
  <2>4. ASSUME NEW ns \in SUBSET Servers, SendsTerm(h, op, m, todo, ns) PROVE Had(n)'
    BY <1>2, <2>1, <2>4 DEF SendsTerm, RunnerStops
  <2> QED
    BY <2>2, <2>3, <2>4
<1>11. ASSUME NEW h \in Requests, Closed(h) PROVE Had(n)'
  <2>1. clients' = [clients EXCEPT ![req[h].name] = None] /\ UNCHANGED link /\ req[h].name # n
    BY <1>11 DEF Closed
  <2>2. clients'[n] = clients[n]
    BY <2>1, LinksTypes DEF HostTypeOK
  <2> QED
    BY <2>1, <2>2 DEF Had, HasClient, Child, There, Born, Gone
<1>12. ASSUME Steady \/ UNCHANGED hostVars \/ NetworkAnswers \/ \E w \in writes : Lands(w) \/ IsLost(w)
       PROVE  Had(n)'
  <2>1. UNCHANGED <<link, clients>>
    BY <1>12 DEF Steady, hostVars, NetworkAnswers, Lands, IsLost, maps
  <2> QED
    BY <1>2, <2>1
<1> QED
  BY <1>6, <1>7, <1>8, <1>9, <1>10, <1>11, <1>12, HostSteps, QuietSteps

LEMMA TellKeepsRows ==
  ASSUME LinksInv, RowsInv, NEW h \in Requests, NEW st, Tell(h, st),
         \A n \in Servers : Had(n) \/ (n = req[h].name /\ st = "running") => Had(n)'
  PROVE  RowsInv'
<1>1. CASE UNCHANGED rows
  BY <1>1, RowsStay
<1>2. CASE Record(req[h].name, st, h)
  <2>1. PICK n \in Servers : n = req[h].name
    BY LinksTypes
  <2>2. Record(n, st, h) /\ (st = "running" => Had(n)')
    BY <1>2, <2>1
  <2> QED
    BY <2>2, RowsRecorded
<1> QED
  BY <1>1, <1>2 DEF Tell

LEMMA RowsNext ==
  ASSUME LinksInv, RowsInv, [HostNext]_hostVars
  PROVE  RowsInv'
<1>1. ASSUME \A h \in Requests : ~Closed(h), \A l \in Links : ~ChildEnds(l)
      PROVE  \A n \in Servers : Had(n) => Had(n)'
  BY <1>1, HadStays
<1>2. ASSUME NEW h \in Requests, Closed(h) PROVE RowsInv'
  <2>1. Record(req[h].name, "stopped", h) /\ req[h].name \in Servers
    BY <1>2, LinksTypes DEF Closed, StopRecorded
  <2>2. \A n \in Servers : n # req[h].name /\ Had(n) => Had(n)'
    <3>1. /\ link' = link
          /\ \A n \in Servers : n # req[h].name => clients'[n] = clients[n]
      BY <1>2, LinksTypes DEF Closed, HostTypeOK
    <3> QED
      BY <3>1 DEF Had, HasClient, Child, There, Born, Gone
  <2> QED
    BY <2>1, <2>2, RowsRecorded
<1>3. ASSUME NEW l \in Links, ChildEnds(l) PROVE RowsInv'
  <2>1. PICK noted \in {"exited", "failed"} : Record(link[l].server, Exit(noted), Host)
    BY <1>3 DEF ChildEnds
  <2>2. link[l].server \in Servers /\ Exit(noted) # "running"
    BY LinksTypes DEF Exit
  <2>3. /\ UNCHANGED clients
        /\ \A k \in Links :
             /\ link'[k].server = link[k].server /\ link'[k].via = link[k].via
             /\ k # l => link'[k].life = link[k].life
    BY <1>3, ChildFacts
  <2>4. \A n \in Servers : n # link[l].server /\ Had(n) => Had(n)'
    BY <2>3 DEF Had, HasClient, Child, There, Born, Gone
  <2> QED
    BY <2>1, <2>2, <2>4, RowsRecorded
<1> SUFFICES ASSUME \A h \in Requests : ~Closed(h), \A l \in Links : ~ChildEnds(l)
             PROVE  RowsInv'
  BY <1>2, <1>3
<1>4. \A n \in Servers : Had(n) => Had(n)'
  BY <1>1
<1>5. CASE UNCHANGED rows
  BY <1>4, <1>5, RowsStay
<1>6. ASSUME NEW w \in writes, Lands(w) \/ IsLost(w) PROVE RowsInv'
  BY <1>6, LinksTypes, RowsApplied
<1>7. ASSUME NEW h \in Requests, MissesSecrets(h) \/ CannotConnect(h) \/ ConnectFails(h) PROVE RowsInv'
  BY <1>4, <1>7, TellKeepsRows DEF MissesSecrets, CannotConnect, ConnectFails
<1>8. ASSUME NEW h \in Requests, AlreadyRunning(h) PROVE RowsInv'
  <2>1. \A n \in Servers : n = req[h].name => Had(n)
    <3>1. PICK l \in Links : l = procs[req[h].name] /\ link[l].noted \in {"starting", "running"}
      BY <1>8, LinksTypes DEF AlreadyRunning, HasProcess
    <3>2. link[l].server = req[h].name /\ Child(l) /\ There(l)
      BY <3>1, LinksTypes DEF LinksInv, KindsInv, There
    <3> QED
      BY <3>2 DEF Had
  <2>2. Tell(h, "running") /\ req[h].name \in Servers
    BY <1>8, LinksTypes DEF AlreadyRunning
  <2> QED
    BY <1>4, <2>1, <2>2, TellKeepsRows
<1>9. ASSUME NEW h \in Requests, Connected(h) PROVE RowsInv'
  <2>1. clients' = [clients EXCEPT ![req[h].name] = req[h].link] /\ req[h].link # None
    BY <1>9 DEF Connected, LinksInv, HandsInv, Opens
  <2>2. clients'[req[h].name] # None
    BY <2>1, LinksTypes DEF HostTypeOK
  <2>3. \A n \in Servers : n = req[h].name => Had(n)'
    BY <2>2 DEF Had, HasClient
  <2> QED
    BY <1>4, <1>9, <2>3, TellKeepsRows DEF Connected
<1>10. ASSUME NEW h \in Requests, TakesServer(h) PROVE RowsInv'
  <2>1. PICK n \in req[h].todo : IF req[h].dry THEN UNCHANGED rows ELSE Record(n, "pending", h)
    BY <1>10 DEF TakesServer
  <2>2. req[h] \in Request
    BY LinksTypes
  <2>3. n \in Servers
    BY <2>2 DEF Request
  <2>4. CASE Record(n, "pending", h)
    BY <1>4, <2>3, <2>4, RowsRecorded
  <2> QED
    BY <1>5, <2>1, <2>4
<1>11. ASSUME NEW l \in Links, Spawned(l) PROVE RowsInv'
  <2>1. PICK n \in Servers : n = link[l].server /\ Record(n, "running", Host)
    BY <1>11, LinksTypes DEF Spawned
  <2>2. /\ Child(l) /\ link'[l].server = link[l].server /\ link'[l].via = link[l].via
        /\ link'[l].life = "up"
    <3>1. link' = [link EXCEPT ![l].life = "up", ![l].noted = "running"] /\ link[l].via = "runner"
      BY <1>11 DEF Spawned
    <3> QED
      BY <3>1, LinksTypes, LifeNotedFacts DEF Child
  <2>3. Had(n)'
    BY <2>1, <2>2 DEF Had, Child, There, Born, Gone
  <2> QED
    BY <1>4, <2>1, <2>3, RowsRecorded
<1>12. ASSUME NEW h \in Requests,
              \/ IsRefused(h) \/ AsksNetwork(h) \/ NetworkMissing(h) \/ AlreadyConnected(h)
              \/ ListAnswers(h) \/ ListFails(h) \/ StartRequest(h) \/ Returns(h) \/ ListRequest(h)
              \/ Connects(h) \/ Spawns(h) \/ StopRequest(h) \/ StopAllRequest(h) \/ StopAllGoesOn(h)
       PROVE  RowsInv'
  <2>1. UNCHANGED rows
    BY <1>12 DEF IsRefused, AsksNetwork, NetworkMissing, AlreadyConnected, ListAnswers, ListFails,
                 StartRequest, Returns, ListRequest, Connects, Spawns, StopRequest,
                 StopAllRequest, StopAllGoesOn, rows
  <2> QED
    BY <1>5, <2>1
<1>13. ASSUME NEW l \in Links, NEW h,
              Closes(l) \/ ServerDies(l) \/ PollSees(h, l) \/ Kills(h, l) \/ Killed(h, l)
       PROVE  RowsInv'
  <2>1. UNCHANGED rows
    BY <1>13 DEF Closes, ServerDies, PollSees, Kills, Killed, rows
  <2> QED
    BY <1>5, <2>1
<1>14. ASSUME UNCHANGED hostVars \/ NetworkAnswers PROVE RowsInv'
  <2>1. UNCHANGED rows
    BY <1>14 DEF hostVars, NetworkAnswers, rows
  <2> QED
    BY <1>5, <2>1
<1> QED
  BY <1>6, <1>7, <1>8, <1>9, <1>10, <1>11, <1>12, <1>13, <1>14, HostSteps

(* A row that says running, once no update of it is under way and none was *)
(* lost or overtaken, is a server the host has: every end of a server is   *)
(* recorded, however starts and stops of it interleave.                    *)
THEOREM HostRowsAreTrue == HostSpec => []RunningIsHad
<1>1. HostInit => RowsInv
  BY DEF HostInit, RowsInv
<1>2. RowsInv => RunningIsHad
  BY DEF RowsInv, RunningIsHad, Had, Child, There
<1> QED
  BY <1>1, <1>2, SpecLinksInv, RowsNext, PTL DEF HostSpec

=============================================================================
