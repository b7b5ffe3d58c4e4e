--------------------------- MODULE MCChainEngine ---------------------------
(* The chains of the runs of ChainEngine: one per shape that matters.      *)
EXTENDS ChainEngine

\* A chain from its steps; what is not given is empty or one.
Made(main, kind, bodies, count, guarded, judged) ==
  LET body == [s \in DOMAIN kind |-> IF s \in DOMAIN bodies THEN bodies[s] ELSE <<>>]
      level[s \in DOMAIN kind] ==
        LET above == {x \in DOMAIN kind : s \in Under([bodies |-> body], x)}
        IN IF above = {} THEN 0 ELSE level[CHOOSE x \in above : TRUE] + 1
  IN [main |-> main, kind |-> kind, bodies |-> body, level |-> level,
      count |-> [s \in DOMAIN kind |-> IF s \in DOMAIN count THEN count[s] ELSE 1],
      guarded |-> guarded, judged |-> judged]

None == [s \in {} |-> <<>>]
Once == [s \in {} |-> 1]

\* A retry with a nested one, then a write.
Nested ==
  Made(<<"outer", "write">>,
       [outer |-> "retry", inner |-> "retry", call |-> "tool", rest |-> "rest_call", write |-> "memory_write"],
       [outer |-> <<<<"inner", "rest">>>>, inner |-> <<<<"call">>>>],
       [outer |-> 2, inner |-> 2], {"rest"}, {"outer"})

\* Parallel branches inside a retry: a loop and a write go on after a sibling failed.
Orphans ==
  Made(<<"again", "last">>,
       [again |-> "retry", both |-> "parallel", ask |-> "asking_tool", loop |-> "loop",
        write |-> "memory_write", last |-> "llm"],
       [again |-> <<<<"both">>>>, both |-> <<<<"ask", "loop">>>>, loop |-> <<<<"write">>>>],
       [again |-> 2, loop |-> 2], {}, {})

\* A retry and plain steps side by side.
Beside ==
  Made(<<"both", "last">>,
       [both |-> "parallel", again |-> "retry", call |-> "tool", plain |-> "llm", last |-> "agent"],
       [both |-> <<<<"again", "plain">>>>, again |-> <<<<"call">>>>],
       [again |-> 2], {}, {})

\* An agent with a chain of its own, in a retry of its caller.
SubChain ==
  Made(<<"again", "text">>,
       [again |-> "retry", sub |-> "agent_chain", find |-> "memory_search", deep |-> "retry",
        call |-> "tool", text |-> "transform", agent |-> "agent"],
       [again |-> <<<<"sub", "agent">>>>, sub |-> <<<<"find", "deep">>>>, deep |-> <<<<"call">>>>],
       [again |-> 2, deep |-> 2], {}, {})

\* A branch over a parallel step of a question and a loop.
Cases ==
  Made(<<"choose", "write">>,
       [choose |-> "branch", both |-> "parallel", ask |-> "asking_tool", loop |-> "loop",
        wait |-> "delay", pause |-> "delay", router |-> "unknown", write |-> "memory_write"],
       [choose |-> <<<<"both">>, <<"router", "wait">>>>, both |-> <<<<"ask", "loop">>>>,
        loop |-> <<<<"pause">>>>],
       [loop |-> 2], {"write"}, {})

\* The chain of a delegation.
Delegated == Made(<<"delegate">>, [delegate |-> "agent"], None, Once, {}, {})

\* Two agents with chains side by side, one with an agent that has one too, and both
\* begun again while the first two may still be under way.
Team ==
  Made(<<"again">>,
       [again |-> "retry", pair |-> "parallel", left |-> "agent_chain", right |-> "agent_chain",
        deep |-> "agent_chain", find |-> "memory_search", call |-> "tool"],
       [again |-> <<<<"pair">>>>, pair |-> <<<<"left", "right">>>>, left |-> <<<<"deep">>>>,
        deep |-> <<<<"find">>>>, right |-> <<<<"call">>>>],
       [again |-> 2], {"left"}, {"again"})

\* A loop over a retry that may be skipped.
Skipped ==
  Made(<<"days">>,
       [days |-> "loop", again |-> "retry", call |-> "tool", agent |-> "agent", rest |-> "rest_call"],
       [days |-> <<<<"again", "rest">>>>, again |-> <<<<"call", "agent">>>>],
       [days |-> 3, again |-> 2], {"again", "call"}, {"again"})

AllChains == {Team, Skipped, Nested, Orphans, Beside, SubChain, Cases, Delegated}
=============================================================================
