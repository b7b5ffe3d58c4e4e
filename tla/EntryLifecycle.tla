-------------------------- MODULE EntryLifecycle --------------------------
(***************************************************************************)
(* What the memory store promises about one entry, whoever works on it: a  *)
(* confirmation belongs to a wording, a deleted entry comes back only when *)
(* a restore was asked for, and a superseded one only by a restore or      *)
(* because its successor is removed from the database.                     *)
(***************************************************************************)
CONSTANTS Entries, Wordings, Nobody

VARIABLES entry,   \* of each entry: Unborn, Gone or its state
          asked    \* entries somebody has asked to restore

Unborn == [phase |-> "unborn"]
Gone   == [phase |-> "gone"]
Phases == {"unconfirmed", "confirmed", "superseded"}
States == [phase: Phases, by: Entries \cup {Nobody}, deleted: BOOLEAN, wording: Wordings]
State(p, s, d, w) == [phase |-> p, by |-> s, deleted |-> d, wording |-> w]

Exists(e) == entry[e] \in States
Live(e)   == Exists(e) /\ ~entry[e].deleted

Born(e) ==
  /\ entry[e] = Unborn
  /\ \E w \in Wordings : entry'[e] = State("unconfirmed", Nobody, FALSE, w)

\* The user's toggle, on an entry that is live and current.
Judged(e) ==
  /\ Live(e) /\ entry[e].by = Nobody
  /\ \E p \in {"unconfirmed", "confirmed"} :
       entry'[e] = State(p, Nobody, FALSE, entry[e].wording)

\* A confirmation does not carry over to another wording.
Reworded(e) ==
  /\ Exists(e)
  /\ \E w \in Wordings \ {entry[e].wording}, p \in Phases \ {"confirmed"} :
       /\ p = entry[e].phase \/ (entry[e].phase = "confirmed" /\ p = "unconfirmed")
       /\ entry'[e] = State(p, entry[e].by, entry[e].deleted, w)

Replaced(e) ==
  /\ Live(e)
  /\ \E s \in Entries \ {e} : entry'[e] = State("superseded", s, FALSE, entry[e].wording)

Released(e) ==
  /\ Exists(e) /\ entry[e].by # Nobody /\ entry'[entry[e].by] = Gone
  /\ entry'[e] = State("unconfirmed", Nobody, entry[e].deleted, entry[e].wording)

Deleted(e) ==
  /\ Live(e)
  /\ entry'[e] = State(entry[e].phase, entry[e].by, TRUE, entry[e].wording)

Restored(e) ==
  /\ Exists(e) /\ e \in asked
  /\ \E w \in Wordings : entry'[e] = State("unconfirmed", Nobody, FALSE, w)

Removed(e) == Exists(e) /\ entry'[e] = Gone

Init == entry = [e \in Entries |-> Unborn] /\ asked = {}

Next == \A e \in Entries :
  \/ entry'[e] = entry[e]
  \/ Born(e) \/ Judged(e) \/ Reworded(e) \/ Replaced(e) \/ Released(e)
  \/ Deleted(e) \/ Restored(e) \/ Removed(e)

Spec == Init /\ [][Next]_entry
=============================================================================
