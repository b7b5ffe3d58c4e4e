-------------------------- MODULE MCArtifactStore --------------------------
(***************************************************************************)
(* ArtifactStore with four texts: one, the same without its last newline,  *)
(* the same with CRLF for its line ends, and another, which is long.       *)
(***************************************************************************)
EXTENDS ArtifactStore

CONSTANTS A, Bare, Crlf

MCEnded == [t \in Texts |-> IF t = Bare THEN A ELSE t]
MCUnix == [t \in Texts |-> IF t = Crlf THEN A ELSE t]
=============================================================================
