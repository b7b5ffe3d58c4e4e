----------------------------- MODULE MCChatView -----------------------------
(* ChatView with interchangeable chats.                                    *)
EXTENDS ChatView, TLC

Symmetry == Permutations(Chats)
=============================================================================
