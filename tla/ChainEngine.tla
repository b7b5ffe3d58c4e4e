---------------------------- MODULE ChainEngine ----------------------------
(***************************************************************************)
(* The chain engine (runtime/chain-runner.ts), with the transaction that   *)
(* RunService runs a chain in and the report that delegation makes of one. *)
(*                                                                         *)
(* A chain is a tree of steps.  One activation of runStep is a frame; the  *)
(* frames of one asynchronous call chain are a thread (a stack, top        *)
(* first).  A parallel step starts one thread per child and waits in       *)
(* Promise.all, which settles with the first failure and leaves the other  *)
(* threads to themselves.  The event loop is not preemptive: an answer, a  *)
(* timer or the stop request is taken only when every thread awaits one.   *)
(***************************************************************************)
EXTENDS Naturals, Sequences

CONSTANTS ChainSpecs,  \* the chain specifications a run may be given
          MaxThreads   \* bound: threads alive at once

(* A chain: main, the top-level steps; kind[s], the type of step s;        *)
(* bodies[s], the step lists under s (the cases of a branch, one list for  *)
(* the other blocks, the sub-chain of an agent that has one); count[s],    *)
(* the iterations or attempts; level[s], how deep s stands in the          *)
(* document; guarded, the steps with a "when"; judged, the retry steps     *)
(* with a success_when.  A step is its id: no two steps share one.         *)
Sync   == {"transform", "unknown"}
Blocks == {"branch", "parallel", "loop", "retry", "agent_chain"}
Leaves == {"llm", "agent", "tool", "asking_tool", "rest_call", "delay",
           "memory_write", "memory_search"}
OnClient == {"memory_write", "memory_search", "agent"}

Root == "root"

Steps(list) == {list[i] : i \in DOMAIN list}
Under(c, s) == UNION {Steps(c.bodies[s][i]) : i \in DOMAIN c.bodies[s]}

\* A chain is a document: a step stands in one place of it.
Tree(c) ==
  LET S == DOMAIN c.kind IN
  /\ \A i, j \in DOMAIN c.main : c.main[i] = c.main[j] => i = j
  /\ \A s \in S : Under(c, s) \cap Steps(c.main) = {}
  /\ \A s, x \in S : s # x => Under(c, s) \cap Under(c, x) = {}
  /\ \A s \in S : \A i, j \in DOMAIN c.bodies[s] :
       \A k \in DOMAIN c.bodies[s][i] : \A l \in DOMAIN c.bodies[s][j] :
         c.bodies[s][i][k] = c.bodies[s][j][l] => i = j /\ k = l
  /\ \A s \in S : \A x \in Under(c, s) : c.level[x] > c.level[s]

WellFormed(c) ==
  LET S == DOMAIN c.kind IN
  /\ Root \notin S
  /\ \A s \in S : c.kind[s] \in Sync \cup Blocks \cup Leaves
  /\ c.main \in Seq(S)
  /\ c.bodies \in [S -> Seq(Seq(S))]
  /\ \A s \in S : c.kind[s] \in Blocks \ {"branch"} => Len(c.bodies[s]) = 1
  /\ c.count \in [S -> Nat \ {0}] /\ c.level \in [S -> Nat]
  /\ c.guarded \subseteq S /\ c.judged \subseteq S
  /\ Tree(c)

ASSUME ChainAssumption == MaxThreads \in Nat \ {0} /\ \A c \in ChainSpecs : WellFormed(c)

VARIABLES
  chain,      \* spec
  ctx,        \* chainContext.steps of each runner: what a step has left
  flag,       \* isInsideRetry of each runner; 1 is that of the run
  thr,        \* the threads
  aborted,    \* abortSignal.aborted
  over,       \* how run() settled: "no", "returned", "thrown"
  tx,         \* the transaction of the chain's client
  pending,    \* memory_write steps whose rows wait for the commit
  stored,     \* those whose rows are committed
  reported,   \* those that emitted memory_write
  sour        \* history: runner and step, of the steps that have ended in an error
              \* since they were last called

engineVars == <<chain, ctx, flag, thr, aborted, over, tx, pending, stored, reported, sour>>
Db         == <<tx, pending, stored, reported>>
Still      == <<chain, aborted, over>>

-----------------------------------------------------------------------------
(* Frames and threads *)

\* s, the step; todo, the steps of its body still to be called; r, the runner; n,
\* the rounds done; was, what a retry found in the flag.
StepIds == DOMAIN chain.kind
Kids(s) == Under(chain, s)
Frame(s, todo, r) == [s |-> s, todo |-> todo, r |-> r, n |-> 0, was |-> FALSE]
Thread(stack, pc, up) == [stack |-> stack, pc |-> pc, up |-> up]

Top(t)    == Head(thr[t].stack)
Kind(t)   == IF Top(t).s = Root THEN Root ELSE chain.kind[Top(t).s]
Runner(t) == Top(t).r
Runners   == DOMAIN flag
Live      == DOMAIN thr

Awaiting == {"leaf", "ask", "sleep", "join"}
Quiet    == \A t \in Live : thr[t].pc \in Awaiting

\* The thread goes on at pc with the given stack.
At(t, stack, pc) == [thr EXCEPT ![t].stack = stack, ![t].pc = pc]
Pop(t)           == Tail(thr[t].stack)
WithTop(t, f)    == <<f>> \o Pop(t)

\* An empty context.
Blank == [s \in StepIds |-> [out |-> FALSE, st |-> "none"]]

\* Promise.all that has settled no longer waits for anyone.
Forsaken(threads, p) == [u \in DOMAIN threads |->
  IF threads[u].up = p THEN [threads[u] EXCEPT !.up = 0] ELSE threads[u]]
Drop(threads, t) == [u \in DOMAIN threads \ {t} |-> threads[u]]

EngineInit ==
  /\ chain \in ChainSpecs
  /\ ctx = <<Blank>>
  /\ flag = <<FALSE>>
  /\ thr = [t \in {1} |-> Thread(<<Frame(Root, chain.main, 1)>>, "body", 0)]
  /\ aborted = FALSE
  /\ over = "no"
  /\ tx = "open"
  /\ pending = {} /\ stored = {} /\ reported = {}
  /\ sour = {}

-----------------------------------------------------------------------------
(* A step: runStep and the handlers *)

\* Mutant: runStep starts without looking at the signal.
RefusedNever == FALSE

\* checkAbort before anything else, outside the try of runStep.
Refused == aborted

\* Threads that are not taken, the first ones, in the order of the children.
FirstFree(n, id) ==
  /\ \A i, j \in 1 .. n : i < j => id[i] < id[j]
  /\ \A u \in 1 .. MaxThreads : \A i \in 1 .. n :
       u \notin Live /\ u < id[i] => \E j \in 1 .. n : id[j] = u

ParallelStarts(t, s) ==
  LET kids == chain.bodies[s][1]
      n    == Len(kids)
      Branch(x) == Thread(<<Frame(x, <<>>, Runner(t))>>, "enter", t)
  IN /\ \E id \in [1 .. n -> 1 .. MaxThreads \ Live] :
          /\ FirstFree(n, id)
          /\ thr' = [u \in Live \cup {id[i] : i \in 1 .. n} |->
                       IF u \in Live
                       THEN At(t, thr[t].stack, IF n = 0 THEN "body" ELSE "join")[u]
                       ELSE Branch(kids[CHOOSE i \in 1 .. n : id[i] = u])]
     /\ UNCHANGED <<ctx, flag>>

\* The first case whose condition holds, or the default, or neither.
BranchStarts(t, s) ==
  /\ \/ \E i \in DOMAIN chain.bodies[s] :
          thr' = At(t, WithTop(t, [Top(t) EXCEPT !.todo = chain.bodies[s][i]]), "body")
     \/ thr' = At(t, thr[t].stack, "body")
  /\ UNCHANGED <<ctx, flag>>

\* An agent with a chain: a runner of its own, with an empty context. That its profile is
\* loaded first, and what happens when it cannot be, is left out.
SubChainStarts(t, s) ==
  /\ thr' = At(t, <<Frame(Root, chain.bodies[s][1], Len(flag) + 1)>> \o thr[t].stack, "body")
  /\ ctx' = Append(ctx, Blank)
  /\ flag' = Append(flag, FALSE)

RoundsStart(t, s) ==
  /\ thr' = At(t, WithTop(t, [Top(t) EXCEPT !.todo = chain.bodies[s][1],
                                             !.was = flag[Runner(t)]]), "body")
  /\ flag' = [flag EXCEPT ![Runner(t)] = @ \/ chain.kind[s] = "retry"]
  /\ UNCHANGED ctx

StartBlock(t, s) ==
  CASE chain.kind[s] = "parallel"    -> ParallelStarts(t, s)
    [] chain.kind[s] = "branch"      -> BranchStarts(t, s)
    [] chain.kind[s] = "agent_chain" -> SubChainStarts(t, s)
    [] OTHER                         -> RoundsStart(t, s)

\* The handler is called: a leaf goes to its await, a block to its body, and a
\* transform is done before anything else can happen.
Enter(t) ==
  LET s == Top(t).s IN
  /\ thr[t].pc = "enter"
  /\ IF Refused
     THEN thr' = At(t, Pop(t), "raise") /\ UNCHANGED <<ctx, flag, sour>>
     ELSE /\ sour' = sour \ {<<Runner(t), s>>}
          /\ \/ /\ s \in chain.guarded
                /\ thr' = At(t, Pop(t), "body")
                /\ UNCHANGED <<ctx, flag>>
             \/ /\ chain.kind[s] \in Sync
                /\ ctx' = [ctx EXCEPT ![Runner(t)][s].out = @ \/ chain.kind[s] = "transform"]
                /\ thr' = At(t, Pop(t), "body")
                /\ UNCHANGED flag
             \/ /\ chain.kind[s] \in Leaves
                /\ thr' = At(t, thr[t].stack, IF chain.kind[s] = "asking_tool" THEN "ask" ELSE "leaf")
                /\ UNCHANGED <<ctx, flag>>
             \/ chain.kind[s] \in Blocks /\ StartBlock(t, s)
  /\ UNCHANGED <<Still, Db>>

-----------------------------------------------------------------------------
(* How a step ends *)

\* Mutant: a failure is thrown on wherever it happens.
RethrownAlways(fl, r) == TRUE

\* The catch of runStep: the failure is noted in the context; inside a retry, and
\* after a stop, it is thrown on.
Rethrown(fl, r) == fl[r] \/ aborted

StepFails(t, s, fl) ==
  /\ ctx' = [ctx EXCEPT ![Runner(t)][s].st = "failed"]
  /\ sour' = sour \cup {<<Runner(t), s>>}
  /\ flag' = fl
  /\ thr' = At(t, Pop(t), IF Rethrown(fl, Runner(t)) THEN "raise" ELSE "body")

\* A handler returns: it sets the fields it has, an agent step its status too,
\* and leaves the others as an earlier activation left them.
StepReturns(t, s, status) ==
  /\ ctx' = [ctx EXCEPT ![Runner(t)][s] = [out |-> TRUE, st |-> IF status = "keep" THEN @.st ELSE status]]
  /\ sour' = IF status = "error" THEN sour \cup {<<Runner(t), s>>} ELSE sour \ {<<Runner(t), s>>}
  /\ thr' = At(t, Pop(t), "body")

BlockReturns(t, s) ==
  StepReturns(t, s, IF chain.kind[s] = "agent_chain" THEN "success" ELSE "keep")

-----------------------------------------------------------------------------
(* Blocks *)

Calls(t) ==
  /\ thr[t].pc = "body" /\ thr[t].stack # <<>> /\ Top(t).todo # <<>>
  /\ LET f == Top(t) IN
     thr' = At(t, <<Frame(Head(f.todo), <<>>, f.r), [f EXCEPT !.todo = Tail(@)]>> \o Pop(t), "enter")
  /\ UNCHANGED <<Still, Db, ctx, flag, sour>>

BodyDone(t) == thr[t].pc = "body" /\ thr[t].stack # <<>> /\ Top(t).todo = <<>>

\* Every round begins with checkAbort.
RoundBegins == IF Refused THEN "raise" ELSE "body"

NextRound(t, pc) ==
  LET f == Top(t) IN
  thr' = At(t, WithTop(t, [f EXCEPT !.todo = chain.bodies[f.s][1], !.n = @ + 1]), pc)

\* Mutant: one round too many.
MoreRoundsByOne(t) == Top(t).n + 1 <= chain.count[Top(t).s]

MoreRounds(t) == Top(t).n + 1 < chain.count[Top(t).s]

LoopGoesOn(t) ==
  /\ BodyDone(t) /\ Kind(t) = "loop" /\ MoreRounds(t)
  /\ NextRound(t, RoundBegins)
  /\ UNCHANGED <<Still, Db, ctx, flag, sour>>

BlockDone(t) ==
  /\ BodyDone(t) /\ Kind(t) \in {"loop", "branch", "parallel", "agent_chain"}
  /\ Kind(t) = "loop" => ~MoreRounds(t)
  /\ BlockReturns(t, Top(t).s)
  /\ UNCHANGED <<Still, Db, flag>>

\* Mutant: the flag is cleared, as if no retry were around this one.
FlagCleared(t) == [flag EXCEPT ![Runner(t)] = FALSE]

FlagRestored(t) == [flag EXCEPT ![Runner(t)] = Top(t).was]

RetryDone(t) ==
  /\ BodyDone(t) /\ Kind(t) = "retry"
  /\ flag' = FlagRestored(t)
  /\ StepReturns(t, Top(t).s, "keep")
  /\ UNCHANGED <<Still, Db>>

\* The attempt has failed: another one after the delay, or the retry fails.  An
\* abort leaves the block at once and the flag as it is.
AttemptFails(t) ==
  IF ~aborted /\ MoreRounds(t)
  THEN NextRound(t, "sleep") /\ UNCHANGED <<ctx, flag, sour>>
  ELSE StepFails(t, Top(t).s, IF aborted THEN flag ELSE FlagRestored(t))

\* success_when is not met.
RetryJudged(t) ==
  /\ BodyDone(t) /\ Kind(t) = "retry" /\ Top(t).s \in chain.judged
  /\ AttemptFails(t)
  /\ UNCHANGED <<Still, Db>>

\* A child of the block on top has thrown.
Raised(t) ==
  /\ thr[t].pc = "raise" /\ thr[t].stack # <<>> /\ Kind(t) # Root
  /\ IF Kind(t) = "retry" THEN AttemptFails(t) ELSE StepFails(t, Top(t).s, flag)
  /\ UNCHANGED <<Still, Db>>

\* The last step of a sub-chain has returned, or one has thrown: the agent step goes on.
SubChainEnds(t) ==
  /\ thr[t].stack # <<>> /\ Len(thr[t].stack) > 1 /\ Kind(t) = Root
  /\ thr[t].pc = "raise" \/ BodyDone(t)
  /\ thr' = At(t, Pop(t), thr[t].pc)
  /\ UNCHANGED <<Still, Db, ctx, flag, sour>>

\* Mutant: the error of a branch is swallowed and its promise stays pending.
BranchSettlesUnlessThrown(t) ==
  LET p    == thr[t].up
      rest == Drop(thr, t)
      last == \A u \in DOMAIN rest : rest[u].up # p
  IN /\ thr[t].stack = <<>> /\ thr[t].pc \in {"body", "raise"}
     /\ thr' = IF p # 0 /\ thr[t].pc = "body" /\ last THEN [rest EXCEPT ![p].pc = "body"]
                                                       ELSE rest
     /\ UNCHANGED <<Still, Db, ctx, flag, sour>>

\* The promise of one branch settles.
BranchSettles(t) ==
  LET p    == thr[t].up
      rest == Drop(thr, t)
      last == \A u \in DOMAIN rest : rest[u].up # p
  IN /\ thr[t].stack = <<>> /\ thr[t].pc \in {"body", "raise"}
     /\ thr' = CASE p = 0                -> rest
                 [] p # 0 /\ thr[t].pc = "raise" ->
                      [Forsaken(rest, p) EXCEPT ![p].pc = "raise"]
                 [] p # 0 /\ thr[t].pc = "body" ->
                      IF last THEN [rest EXCEPT ![p].pc = "body"] ELSE rest
     /\ UNCHANGED <<Still, Db, ctx, flag, sour>>

\* run() settles, and with it the transaction: COMMIT of a transaction in which a
\* statement has failed is a ROLLBACK, without an error.
RunSettles(t) ==
  /\ thr[t].stack # <<>> /\ Len(thr[t].stack) = 1 /\ Kind(t) = Root
  /\ thr[t].pc = "raise" \/ BodyDone(t)
  /\ over' = IF thr[t].pc = "raise" THEN "thrown" ELSE "returned"
  /\ tx' = IF thr[t].pc = "body" /\ tx = "open" THEN "committed" ELSE "rolled back"
  /\ stored' = IF tx' = "committed" THEN pending ELSE {}
  /\ thr' = Drop(thr, t)
  /\ UNCHANGED <<chain, aborted, ctx, flag, sour, pending, reported>>

-----------------------------------------------------------------------------
(* What a step waits for *)

Answerable(t) == Quiet /\ thr[t].pc = "leaf"

\* The client still belongs to the run and its transaction still takes statements.
Usable == over = "no" /\ tx = "open"

\* A result; of a step on the client only while that can be used, or from the
\* session the client was handed to. The several awaits of an agent step, between which
\* nothing looks at the signal, are one.
LeafAnswers(t) ==
  LET s == Top(t).s IN
  /\ Answerable(t)
  /\ Kind(t) \in OnClient => Usable \/ over # "no"
  /\ StepReturns(t, s, IF Kind(t) = "agent" THEN "success" ELSE "keep")
  /\ IF Kind(t) = "memory_write"
     THEN /\ reported' = reported \cup {s}
          /\ pending' = IF over = "no" THEN pending \cup {s} ELSE pending
     ELSE UNCHANGED <<reported, pending>>
  /\ UNCHANGED <<Still, flag, tx, stored>>

\* A provider error of a task agent is a status of the step, not an exception.
AgentErrs(t) ==
  /\ Answerable(t) /\ Kind(t) = "agent"
  /\ Usable \/ over # "no"
  /\ StepReturns(t, Top(t).s, "error")
  /\ UNCHANGED <<Still, Db, flag>>

\* An exception of the handler; a failed statement spoils the transaction.
LeafThrows(t) ==
  /\ Answerable(t)
  /\ Kind(t) = "delay" => aborted
  /\ StepFails(t, Top(t).s, flag)
  /\ tx' \in IF Kind(t) \in OnClient /\ tx = "open" THEN {tx, "poisoned"} ELSE {tx}
  /\ UNCHANGED <<Still, pending, stored, reported>>

\* A statement fails whose error is caught and passed over: the audit row of a
\* memory step, the agent row of an llm step, the memory context of an agent step.
StatementFails(t) ==
  /\ Answerable(t) /\ Kind(t) \in OnClient \cup {"llm"} /\ Usable
  /\ StepReturns(t, Top(t).s, IF Kind(t) = "agent" THEN "success" ELSE "keep")
  /\ tx' = "poisoned"
  /\ reported' = IF Kind(t) = "memory_write" THEN reported \cup {Top(t).s} ELSE reported
  /\ pending' = IF Kind(t) = "memory_write" THEN pending \cup {Top(t).s} ELSE pending
  /\ UNCHANGED <<Still, flag, stored>>

\* Approved: callTool is called in the same turn of the event loop.
Approved(t) ==
  /\ Quiet /\ thr[t].pc = "ask" /\ ~aborted
  /\ thr' = At(t, thr[t].stack, "leaf")
  /\ UNCHANGED <<Still, Db, ctx, flag, sour>>

\* Mutant: a stop leaves the question open.
DeniableByUser == ~aborted

\* The user denies, or the waiter rejects with the stop, which is a denial here.
Deniable == TRUE

Denied(t) ==
  /\ Quiet /\ thr[t].pc = "ask" /\ Deniable
  /\ StepFails(t, Top(t).s, flag)
  /\ UNCHANGED <<Still, Db>>

\* The pause between two attempts is over; the pause itself does not look at the
\* signal.
Wakes(t) ==
  /\ Quiet /\ thr[t].pc = "sleep"
  /\ thr' = At(t, thr[t].stack, RoundBegins)
  /\ UNCHANGED <<Still, Db, ctx, flag, sour>>

Stop ==
  /\ Quiet /\ over = "no" /\ ~aborted
  /\ aborted' = TRUE
  /\ UNCHANGED <<chain, over, Db, ctx, flag, thr, sour>>

-----------------------------------------------------------------------------
Runs(t) == \/ Enter(t) \/ Calls(t) \/ LoopGoesOn(t) \/ BlockDone(t) \/ RetryDone(t)
           \/ RetryJudged(t) \/ Raised(t) \/ SubChainEnds(t) \/ BranchSettles(t)
           \/ RunSettles(t)

Answers(t) == \/ LeafAnswers(t) \/ AgentErrs(t) \/ LeafThrows(t) \/ StatementFails(t)
              \/ Wakes(t)

User(t) == Approved(t) \/ Denied(t)

EngineNext == \/ \E t \in Live : Runs(t) \/ Answers(t) \/ User(t)
        \/ Stop

EngineSpec == EngineInit /\ [][EngineNext]_engineVars

\* The event loop runs what can run, timers fire, and providers, tools and the
\* database answer; a user answers nothing, only a stop settles the question.
Fairness == /\ WF_engineVars(\E t \in Live : Runs(t))
            /\ WF_engineVars(\E t \in Live : Answers(t))
            /\ WF_engineVars(\E t \in Live : aborted /\ Denied(t))

FairSpec == EngineSpec /\ Fairness

-----------------------------------------------------------------------------
(* Shapes of chains *)

\* What stands below a parallel step, however deep, and in sub-chains: the steps
\* in every set that holds the children of the parallel steps and of its own.
Beneath ==
  {x \in StepIds : \A D \in SUBSET StepIds :
     (\A s \in StepIds : s \in D \/ chain.kind[s] = "parallel" => Kids(s) \subseteq D) => x \in D}

RetryInParallel == \E x \in Beneath : chain.kind[x] = "retry"

-----------------------------------------------------------------------------
(* Properties *)

\* The variables have their types, and no block runs a round more than its count.
Frames  == [s : StepIds \cup {Root}, todo : Seq(StepIds), r : Runners, n : Nat, was : BOOLEAN]
Threads == [stack : Seq(Frames), pc : Awaiting \cup {"enter", "body", "raise"}, up : 0 .. MaxThreads]
Results == [out : BOOLEAN, st : {"none", "success", "error", "failed"}]

EngineTypeOK ==
  /\ chain \in ChainSpecs
  /\ flag \in Seq(BOOLEAN) /\ 1 \in Runners
  /\ ctx \in [Runners -> [StepIds -> Results]]
  /\ Live \subseteq 1 .. MaxThreads /\ thr \in [Live -> Threads]
  /\ \A t \in Live : \A i \in DOMAIN thr[t].stack :
       LET f == thr[t].stack[i] IN f.s # Root => f.n < chain.count[f.s]
  /\ aborted \in BOOLEAN
  /\ over \in {"no", "returned", "thrown"}
  /\ tx \in {"open", "poisoned", "committed", "rolled back"}
  /\ stored \subseteq pending /\ pending \subseteq reported
  /\ reported \subseteq StepIds /\ sour \subseteq Runners \X StepIds

\* A failing step never takes the chain down: outside a retry its failure is noted
\* and the next step runs, and a retry that has used its attempts is itself such a
\* step.  Only a stop makes run() throw.  The one flag of the runner ties this to
\* the shape: a retry below a parallel step turns its siblings' failures into the
\* chain's.
OnlyAStopThrows == over = "thrown" => aborted \/ RetryInParallel

\* A retry that is about to report its completion has no failed step in its last
\* attempt.  Nested retries and loops, branches and parallel steps inside it must all
\* pass the exception up for this; an agent step does not throw.
RetryRepeatsOnErrors ==
  ~RetryInParallel =>
    \A t \in Live : BodyDone(t) /\ Kind(t) = "retry" =>
      \A x \in Kids(Top(t).s) : <<Runner(t), x>> \in sour => chain.kind[x] = "agent"

\* Once the stop is in, no step is dispatched any more to a provider, a tool, a
\* server or the memory, whatever was running, asking or waiting for its next
\* attempt then. (A step under way may still list tools or search the memory.)
NothingDispatchedAfterStop ==
  [][aborted => \A t \in DOMAIN thr' :
                  thr'[t].pc = "leaf" => t \in Live /\ thr[t].pc = "leaf"]_engineVars

\* Whoever waits for branches waits in the end for one that does not wait itself: no
\* activations wait only for one another, whatever branches have failed before.
NobodyWaitsInVain ==
  \A T \in SUBSET Live :
    T # {} /\ (\A t \in T, u \in Live : thr[u].up = t => u \in T) => \E t \in T : thr[t].pc # "join"

\* A stop ends the run, whatever it waits for.
StopSettles == aborted ~> over # "no"

-----------------------------------------------------------------------------
(* What the documentation says and the code does not do *)

\* Violated: a step that memory_write reports is stored when the chain returns.
ReportedWritesAreStored == over = "returned" /\ Live = {} => reported \subseteq stored
=============================================================================
