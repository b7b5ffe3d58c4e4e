--------------------------- MODULE TurnTranscript ---------------------------
(***************************************************************************)
(* What the per-turn persistence of an agent answer promises, without the  *)
(* bookkeeping that keeps the promise: the answer is a series of turns,    *)
(* each with a text that only grows, and for each turn at most one stored  *)
(* copy that is always an earlier stage of the text of that same turn.     *)
(***************************************************************************)
EXTENDS Naturals

CONSTANTS Turns,   \* the turns a run may open, 1 .. n
          Tokens   \* the pieces of text a run may produce

VARIABLES said,    \* said[t]: the text turn t has produced so far
          saved    \* saved[t]: the stored text of turn t, {} before it is stored

avars == <<said, saved>>

AInit == /\ said  = [t \in Turns |-> {}]
         /\ saved = [t \in Turns |-> {}]

(* A turn gains a piece of text. *)
Speak(t) == /\ \E tok \in Tokens : said' = [said EXCEPT ![t] = @ \cup {tok}]
            /\ UNCHANGED saved

(* The stored copy of a turn catches up with the turn, and never falls back. *)
Save(t) == /\ \E content \in SUBSET said[t] :
                 /\ saved[t] \subseteq content
                 /\ saved' = [saved EXCEPT ![t] = content]
           /\ UNCHANGED said

ANext == \E t \in Turns : Speak(t) \/ Save(t)

ASpec == AInit /\ [][ANext]_avars
=============================================================================
