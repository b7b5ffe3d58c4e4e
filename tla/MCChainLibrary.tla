--------------------------- MODULE MCChainLibrary ---------------------------
(***************************************************************************)
(* ChainLibrary in two scenes, each too large to be crossed with the       *)
(* other.  In the first, one designer does all it can while another saves  *)
(* and deletes; in the second, both save and delete while clients activate *)
(* versions, and nobody looks at another chain.                            *)
(***************************************************************************)
EXTENDS ChainLibrary, TLC

CONSTANT Browsing   \* the designers of the first scene that browse

VARIABLE scene

MCInit ==
  /\ Init
  /\ scene \in {"designer", "routes"}
  /\ scene = "routes" => exists = Chains /\ \A d, e \in Consoles : sel[d] = sel[e]

In(s) == scene = s /\ UNCHANGED scene

MCNext ==
  \/ \E d \in Browsing, c \in Chains : In("designer") /\ Select(d, c)
  \/ \E d \in Browsing, c \in Chains : In("designer") /\ Create(d, c)
  \/ \E d \in Browsing : In("designer") /\ \E i \in 1 .. Len(loads[d]) : LoadAnswers(d, i)
  \/ \E d \in Browsing : In("designer") /\ \E i \in 1 .. Len(loads[d]) : LoadFails(d, i)
  \/ \E d \in Browsing : In("designer") /\ Refilter(d)
  \/ \E d \in Browsing : In("designer") /\ Refresh(d)
  \/ \E d \in Browsing : In("designer") /\ Edit(d)
  \/ \E d \in Browsing : In("designer") /\ RemoveStep(d)
  \/ \E d \in Consoles : In(scene) /\ Delete(d)
  \/ \E d \in Consoles : In(scene) /\ DeleteAnswers(d)
  \/ \E d \in Consoles : In(scene) /\ SaveSpec(d)
  \/ \E d \in Consoles : In(scene) /\ SaveLists(d)
  \/ \E d \in Consoles : In(scene) /\ Inserts(d)
  \/ \E d \in Consoles : In(scene) /\ SweepStarts(d)
  \/ \E d \in Consoles : In(scene) /\ SweepCommits(d)
  \/ \E d \in Consoles : In(scene) /\ SaveFails(d)
  \/ \E a \in Callers, c \in Chains, n \in Numbers : In("routes") /\ ActivateStarts(a, c, n)
  \/ \E a \in Callers : In("routes") /\ ActivateClears(a)
  \/ \E a \in Callers : In("routes") /\ ActivateCommits(a)
  \/ \E a \in Callers : In("routes") /\ ActivateFails(a)

MCSpec == MCInit /\ [][MCNext]_<<vars, scene>>

Symmetry == Permutations(Chains)
=============================================================================
