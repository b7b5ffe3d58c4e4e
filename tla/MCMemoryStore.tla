---------------------------- MODULE MCMemoryStore ----------------------------
(***************************************************************************)
(* What an agent is told of earlier runs: the entries of the long-term     *)
(* memory (MemoryStore) and the summary of the chat (RollingSummary).      *)
(* Neither reads the other's rows, so each is checked in a scene of its    *)
(* own, with the other at rest.                                            *)
(***************************************************************************)
EXTENDS MemoryStore, RollingSummary

VARIABLE scene

InEntries == scene = "entries" /\ UNCHANGED <<scene, summaryVars>>
InChat    == scene = "chat" /\ UNCHANGED <<scene, vars>>

MCInit == scene \in {"entries", "chat"} /\ Init /\ SummaryInit

MCNext ==
  \/ \E c \in Clients : InEntries /\ StartWrite(c)
  \/ \E c \in Clients : InEntries /\ FinishWrite(c)
  \/ \E c \in Clients : InEntries /\ RunSearches(c)
  \/ \E c \in Clients : InEntries /\ RunStores(c)
  \/ \E c \in Clients : InEntries /\ StartStatus(c)
  \/ \E c \in Clients : InEntries /\ FinishStatus(c)
  \/ \E c \in Clients : InEntries /\ StartUpdate(c)
  \/ \E c \in Clients : InEntries /\ FinishUpdate(c)
  \/ \E c \in Clients : InEntries /\ IngestReplaces(c)
  \/ \E c \in Clients : InEntries /\ IngestStores(c)
  \/ \E c \in Clients : InEntries /\ GivesUp(c)
  \/ InEntries /\ Delete
  \/ InEntries /\ DeleteNamespace
  \/ InEntries /\ CleanupExpired
  \/ InEntries /\ CleanupDuplicates
  \/ \E r \in Runs : InChat /\ RunBegins(r)
  \/ \E r \in Runs : InChat /\ Loads(r)
  \/ \E r \in Runs : InChat /\ Compresses(r)
  \/ \E r \in Runs : InChat /\ FailsToCompress(r)
  \/ \E r \in Runs : InChat /\ RunEnds(r)

MCSpec == MCInit /\ [][MCNext]_<<vars, summaryVars, scene>>
=============================================================================
