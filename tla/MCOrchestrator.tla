---------------------------- MODULE MCOrchestrator ----------------------------
(* Orchestrator for TLC: the slots requests are served in are interchangeable, and *)
(* the run checks invariants only.                                                *)
EXTENDS Orchestrator, TLC

Slots == Permutations(Requests)
=============================================================================
