------------------------------ MODULE ToolLoop ------------------------------
(***************************************************************************)
(* The completion loop of one run: dispatch a request to the provider,     *)
(* work through the tool calls of its reply, dispatch again.  Four         *)
(* functions implement it: runOpenAiCompletion with consumeEventStream and *)
(* handleOpenAiToolCalls ("openai"), runCliLoop, which shares              *)
(* handleOpenAiToolCalls ("cli"), runAnthropicCompletion ("anthropic") and *)
(* runResponsesCompletion ("responses").  They agree on the loop and       *)
(* differ in the details named by the predicates below.                    *)
(*                                                                         *)
(* A request, a tool call and the wait for an approval are awaited: the    *)
(* user's stop and the clock interleave there.  What the code does between *)
(* two awaits is one action, one for each call of a reply.                 *)
(***************************************************************************)
EXTENDS Naturals, Sequences

CONSTANTS Runners,        \* the implementations of the loop to consider
          Tools,          \* keys (server::tool) of the run's toolset
          Delegates,      \* the tools whose handler runs another agent
          NoTool,         \* a name the model made up
          MaxToolCalls,   \* the max_tool_calls setting
          CallsPerReply   \* bound: tool calls of a reply

ASSUME LoopAssumption ==
  /\ Runners \subseteq {"openai", "cli", "anthropic", "responses"}
  /\ Delegates \subseteq Tools
  /\ NoTool \notin Tools
  /\ MaxToolCalls \in Nat \ {0}
  /\ CallsPerReply \in Nat

VARIABLES
  runner,    \* which of the four loops the run uses
  mode,      \* toolApprovalMode
  attended,  \* the run was given a waitForToolApproval
  perms,     \* toolPermissions: the tools with permission "always"
  aborted,   \* signal.aborted
  late,      \* the deadline of the tool loop has passed
  pc,        \* where the loop stands
  reply,     \* the reply in hand: its form, how many calls it asks for
  next,      \* the call of this reply the loop is at
  results,   \* the calls of this reply with a result in the conversation
  tool,      \* the tool of the call in hand
  counted,   \* totalToolCalls
  repeats,   \* how often one watched set of calls came in a block reply
  subwait,   \* a delegated run waits for an approval
  outcome,   \* history: events that tell how the run ended
  consents   \* history: tools the user allowed for the rest of the run

vars == <<runner, mode, attended, perms, aborted, late, pc, reply, next, results, tool,
          counted, repeats, subwait, outcome, consents>>

Progress == <<reply, next, results>>

-----------------------------------------------------------------------------
Modes   == {"prompt", "granted", "denied"}
Answers == {"once", "always", "deny"}
Reply   == [form : {"stream", "block"}, calls : 0 .. CallsPerReply]
NoReply == [form |-> "block", calls |-> 0]
Outcome == [failed : BOOLEAN, sealed : {"none", "success", "error"}, stoppedFirst : BOOLEAN]

SharesHandler  == runner \in {"openai", "cli"}   \* uses handleOpenAiToolCalls
PassesSignal   == SharesHandler                  \* callTool is given the signal
Interruptible  == runner # "cli"                 \* the request is given the signal
BlocksDenied   == runner = "openai"              \* toolAccessBlocked

Settings == <<runner, mode, attended>>
History  == <<outcome, consents>>

AlwaysAllowed(t) == mode = "granted" \/ t \in perms

-----------------------------------------------------------------------------
Init ==
  /\ runner \in Runners
  /\ mode \in Modes
  /\ attended \in BOOLEAN
  /\ perms \in SUBSET Tools
  /\ aborted = FALSE
  /\ late = FALSE
  /\ pc = "top"
  /\ reply = NoReply
  /\ next = 1
  /\ results = <<>>
  /\ tool = NoTool
  /\ counted = 0
  /\ repeats = 0
  /\ subwait = FALSE
  /\ outcome = [failed |-> FALSE, sealed |-> "none", stoppedFirst |-> FALSE]
  /\ consents = perms

-----------------------------------------------------------------------------
(* How a run ends: an error event, a complete event, or both.              *)

Ends(failed, sealed) ==
  /\ pc' = "ended"
  /\ outcome' = [failed |-> outcome.failed \/ failed, sealed |-> sealed,
                 stoppedFirst |-> aborted]
  /\ subwait' = FALSE
  /\ UNCHANGED consents

Fails == Ends(TRUE, "none")

\* Mutant: a stream whose tool loop gave up falls through to complete success.
GivesUpAsSuccess == Ends(TRUE, IF runner = "openai" THEN "success" ELSE "none")

(* The tool loop gives up: handleOpenAiToolCalls returns "abort" after its *)
(* error event, and runOpenAiCompletion completes with status error.       *)
GivesUp == Ends(TRUE, IF runner = "openai" THEN "error" ELSE "none")

Succeeds == Ends(FALSE, "success")

(* The result of call n enters the conversation; on with the next call.    *)
Answered(n) ==
  /\ results' = Append(results, n)
  /\ next' = n + 1
  /\ pc' = "calls"

-----------------------------------------------------------------------------
(* while (true): the checks, then the request.                             *)

Dispatch ==
  /\ pc = "top" /\ ~aborted /\ ~late
  /\ pc' = "fetching"
  /\ UNCHANGED <<Settings, perms, aborted, late, Progress, tool, counted, repeats,
                 subwait, History>>

TopStops ==
  /\ pc = "top" /\ (aborted \/ late)
  /\ Fails
  /\ UNCHANGED <<Settings, perms, aborted, late, Progress, tool, counted, repeats>>

(* The stop reaches the request, the body or the pause of fetchWithRetry.  *)
FetchAborted ==
  /\ pc = "fetching" /\ aborted /\ Interruptible
  /\ Fails
  /\ UNCHANGED <<Settings, perms, aborted, late, Progress, tool, counted, repeats>>

(* The provider cannot be reached, answers with an error, or with a prompt *)
(* count above MAX_PROMPT_TOKENS.                                          *)
FetchFails ==
  /\ pc = "fetching" /\ (aborted => ~Interruptible)
  /\ Fails
  /\ UNCHANGED <<Settings, perms, aborted, late, Progress, tool, counted, repeats>>

(* A reply without a tool call is the answer. The shared handler first     *)
(* awaits getSystemNumber, for a block reply even if there is no call.     *)
NextAfter(r) ==
  IF r.calls > 0 \/ (runner = "openai" /\ r.form = "block")
  THEN pc' = (IF SharesHandler THEN "counting" ELSE "calls") /\ UNCHANGED <<subwait,
                                                                            History>>
  ELSE Succeeds

(* A block reply with the same calls for the fourth time is a loop.        *)
LoopDetected(r, again) ==
  runner = "openai" /\ r.form = "block" /\ r.calls > 0 /\ again /\ repeats >= 3

Replies ==
  /\ pc = "fetching" /\ (aborted => ~Interruptible)
  /\ \E r \in Reply, again \in BOOLEAN :
       /\ runner = "cli" => r.form = "block"
       /\ reply' = r
       /\ repeats' = IF runner = "openai" /\ r.form = "block" /\ r.calls > 0 /\ again
                     THEN repeats + 1 ELSE repeats
       /\ IF LoopDetected(r, again) THEN Fails ELSE NextAfter(r)
  /\ next' = 1
  /\ results' = <<>>
  /\ tool' = NoTool
  /\ UNCHANGED <<Settings, perms, aborted, late, counted>>

(* handleOpenAiToolCalls has read max_tool_calls.                          *)
Counted ==
  /\ pc = "counting"
  /\ IF reply.calls = 0
     THEN Succeeds
     ELSE pc' = "calls" /\ UNCHANGED <<subwait, History>>
  /\ UNCHANGED <<Settings, perms, aborted, late, Progress, tool, counted, repeats>>

-----------------------------------------------------------------------------
(* for (const call of calls): the next call, up to its first await.        *)

TakesCall == pc = "calls" /\ next <= reply.calls

Interrupted == aborted \/ (late /\ SharesHandler)

MayGoOn == ~Interrupted /\ counted < MaxToolCalls

\* Mutant: a rejected call leaves no result in the conversation.
RefuseSilently(t) ==
  /\ tool' = t
  /\ next' = next + 1
  /\ pc' = "calls"
  /\ UNCHANGED results

(* The call is not executed: an error event of the call and its result.    *)
Refuse(t) ==
  /\ tool' = t
  /\ Answered(next)

(* The checks before a call fail, or its tool does not exist.              *)
CallGivesUp ==
  /\ TakesCall
  /\ \/ Interrupted /\ UNCHANGED <<counted, tool>>
     \/ /\ ~Interrupted /\ counted' = counted + 1
        /\ \/ counted = MaxToolCalls /\ UNCHANGED tool
           \/ counted < MaxToolCalls /\ tool' = NoTool
  /\ GivesUp
  /\ UNCHANGED <<Settings, perms, aborted, late, Progress, repeats>>

(* The arguments are not JSON: the OpenAI loop throws, responses tells the *)
(* model; the Anthropic SDK and the CLI runner have parsed them already.   *)
CallUnparsable ==
  /\ TakesCall /\ MayGoOn /\ runner \in {"openai", "responses"}
  /\ counted' = counted + 1
  /\ IF runner = "openai"
     THEN Fails /\ UNCHANGED <<tool, next, results>>
     ELSE Refuse(NoTool) /\ UNCHANGED <<subwait, History>>
  /\ UNCHANGED <<Settings, perms, aborted, late, reply, repeats>>

(* The arguments break the tool's schema (shared handler), the mode blocks *)
(* the call, or nobody can be asked.                                       *)
CallRefused(t) ==
  /\ TakesCall /\ MayGoOn
  /\ \/ SharesHandler
     \/ BlocksDenied /\ mode = "denied"
     \/ ~AlwaysAllowed(t) /\ ~attended
  /\ counted' = counted + 1
  /\ Refuse(t)
  /\ UNCHANGED <<Settings, perms, aborted, late, reply, repeats, subwait, History>>

Cleared == TakesCall /\ MayGoOn /\ ~(BlocksDenied /\ mode = "denied")

CallAsks(t) ==
  /\ Cleared /\ ~AlwaysAllowed(t) /\ attended
  /\ counted' = counted + 1
  /\ tool' = t
  /\ pc' = "asking"
  /\ UNCHANGED <<Settings, perms, aborted, late, Progress, repeats, subwait,
                 History>>

CallStarts(t) ==
  /\ Cleared /\ AlwaysAllowed(t)
  /\ counted' = counted + 1
  /\ tool' = t
  /\ pc' = "calling"
  /\ UNCHANGED <<Settings, perms, aborted, late, Progress, repeats, subwait,
                 History>>

CallsDone ==
  /\ pc = "calls" /\ next > reply.calls
  /\ pc' = "top"
  /\ UNCHANGED <<Settings, perms, aborted, late, Progress, tool, counted, repeats,
                 subwait, History>>

-----------------------------------------------------------------------------
(* The approval: POST /runs/:id/tool-approval, or the stop's rejection.    *)

\* Mutant: every answer but "deny" is remembered for the rest of the run.
RemembersOnce(a) == perms' = IF a # "deny" THEN perms \cup {tool} ELSE perms

Remembers(a) == perms' = IF a = "always" THEN perms \cup {tool} ELSE perms

UserAnswers(a) ==
  /\ pc = "asking"
  /\ Remembers(a)
  /\ consents' = IF a = "always" THEN consents \cup {tool} ELSE consents
  /\ IF a = "deny"
     THEN Refuse(tool)
     ELSE pc' = "calling" /\ UNCHANGED <<next, results, tool>>
  /\ UNCHANGED <<Settings, aborted, late, reply, counted, repeats, subwait, outcome>>

\* Mutant: the abort signal has no listener that rejects a pending approval.
StopLeavesApprovals == UNCHANGED <<pc, next, results, tool, subwait>>

(* The listeners of waitForToolApproval reject the approvals pending now;  *)
(* a rejected approval counts as a denial.                                 *)
StopRejectsApprovals ==
  /\ subwait' = FALSE
  /\ IF pc = "asking" THEN Refuse(tool) ELSE UNCHANGED <<pc, next, results, tool>>

Stop ==
  /\ pc # "ended" /\ ~aborted
  /\ aborted' = TRUE
  /\ StopRejectsApprovals
  /\ UNCHANGED <<Settings, perms, late, reply, counted, repeats, History>>

(* Date.now() passes timeoutAt. *)
DeadlinePasses ==
  /\ pc # "ended" /\ ~late
  /\ late' = TRUE
  /\ UNCHANGED <<Settings, perms, aborted, pc, Progress, tool, counted, repeats, subwait,
                 History>>

-----------------------------------------------------------------------------
(* The awaited tool call.                                                  *)

ToolReturns ==
  /\ pc = "calling" /\ ~subwait
  /\ Answered(next)
  /\ UNCHANGED <<Settings, perms, aborted, late, reply, tool, counted, repeats,
                 subwait, History>>

(* callTool rejects: the tool failed, or lost the race against the stop.   *)
(* Only the shared handler then looks at the signal.                       *)
ToolThrows ==
  /\ pc = "calling" /\ ~subwait
  /\ IF SharesHandler /\ aborted
     THEN GivesUp /\ UNCHANGED <<next, results>>
     ELSE Answered(next) /\ UNCHANGED <<subwait, History>>
  /\ UNCHANGED <<Settings, perms, aborted, late, reply, tool, counted, repeats>>

(* Whether the delegated run goes on: it sees the stop only if it was      *)
(* given the signal.                                                       *)
SubrunGoesOn == PassesSignal => ~aborted

(* A delegated run comes to a tool call of its own that needs an approval. *)
SubrunAsks ==
  /\ pc = "calling" /\ tool \in Delegates /\ attended /\ mode # "granted"
  /\ ~subwait /\ SubrunGoesOn
  /\ subwait' = TRUE
  /\ UNCHANGED <<Settings, perms, aborted, late, pc, Progress, tool, counted, repeats,
                 History>>

UserAnswersSubrun ==
  /\ subwait
  /\ subwait' = FALSE
  /\ UNCHANGED <<Settings, perms, aborted, late, pc, Progress, tool, counted, repeats,
                 History>>

Finished == pc = "ended" /\ UNCHANGED vars

LoopStep ==
  \/ Dispatch \/ TopStops \/ Counted \/ CallsDone
  \/ CallGivesUp \/ CallUnparsable
  \/ \E t \in Tools : CallRefused(t) \/ CallAsks(t) \/ CallStarts(t)

Next ==
  \/ LoopStep
  \/ FetchAborted \/ FetchFails \/ Replies
  \/ (\E a \in Answers : UserAnswers(a)) \/ Stop \/ DeadlinePasses
  \/ ToolReturns \/ ToolThrows
  \/ SubrunAsks \/ UserAnswersSubrun
  \/ Finished

(* The code between two awaits runs; a stopped request rejects; a CLI      *)
(* process is killed after its timeout; a stopped tool call settles: the   *)
(* race against the signal rejects, an MCP request times out, and a        *)
(* delegated run that waits for nobody ends. No answer of the provider or  *)
(* of the user is assumed.                                                 *)
Fairness ==
  /\ WF_vars(LoopStep)
  /\ WF_vars(FetchAborted)
  /\ WF_vars(runner = "cli" /\ (Replies \/ FetchFails))
  /\ WF_vars(aborted /\ (ToolReturns \/ ToolThrows))

Spec == Init /\ [][Next]_vars

FairSpec == Spec /\ Fairness

-----------------------------------------------------------------------------
(* Every variable keeps its shape; a reply never has more results than     *)
(* calls.                                                                  *)
TypeOK ==
  /\ runner \in Runners
  /\ mode \in Modes
  /\ attended \in BOOLEAN
  /\ perms \in SUBSET Tools
  /\ aborted \in BOOLEAN
  /\ late \in BOOLEAN
  /\ pc \in {"top", "fetching", "counting", "calls", "asking", "calling", "ended"}
  /\ reply \in Reply
  /\ next \in 1 .. CallsPerReply + 1
  /\ results \in Seq(Nat) /\ Len(results) <= reply.calls
  /\ tool \in Tools \cup {NoTool}
  /\ counted \in 0 .. MaxToolCalls + 1
  /\ repeats \in 0 .. 4
  /\ subwait \in BOOLEAN
  /\ outcome \in Outcome
  /\ consents \in SUBSET Tools

(* A provider rejects a conversation in which a tool call has no result:   *)
(* whichever way the calls of a reply went, at the next request each of    *)
(* them has exactly one result, in the order of the calls.                 *)
EveryCallAnswered ==
  pc = "fetching" => /\ Len(results) = reply.calls
                     /\ \A i \in 1 .. Len(results) : results[i] = i

(* A tool runs only if the mode grants it, the user allowed it for the     *)
(* rest of the run, or allowed this call: a change to "calling" without    *)
(* one of the first two comes from the user's answer.                      *)
ToolsRunByConsent ==
  [][(pc # "calling" /\ pc' = "calling" /\ pc # "asking")
     => (mode = "granted" \/ tool' \in consents)]_vars

(* A loop that ended with an error event is never sealed as a success      *)
(* (comment at the "abort" branch of consumeEventStream), nor is a run     *)
(* whose streamed or SDK reply was stopped first. A block reply or a CLI   *)
(* answer that is already there when the stop arrives may still be.        *)
SuccessIsEarned ==
  outcome.sealed = "success" =>
    /\ ~outcome.failed
    /\ outcome.stoppedFirst =>
          runner = "cli" \/ (runner = "openai" /\ reply.form = "block")

(* No approval is pending once the run is stopped, if the runner passes    *)
(* its signal on: nobody would ever answer it.                             *)
NoWaitAfterStop == aborted /\ PassesSignal => ~subwait /\ pc # "asking"

(* A stop ends the loop even if the provider, the tool and the user never  *)
(* answer again, for the runners that pass the signal on.                  *)
StopEndsLoop == (aborted /\ PassesSignal) ~> (pc = "ended")
=============================================================================
