-------------------------- MODULE CronServiceProofs --------------------------
(***************************************************************************)
(* What holds of the scheduler of CronService for any number of jobs,      *)
(* reschedules, executions and restarts. One inductive invariant,          *)
(* in parts, carries the results: which calls of rescheduleAll know the    *)
(* current rows, what the tables hold, which executions carry a mark.      *)
(***************************************************************************)
EXTENDS CronService, TLAPS

(* The bound leaves room for every rescheduleAll that is due.              *)
RoomInv == begun + commits <= MaxLoads

(* Rows an open poll has updated are still due; a deleted row is gone.     *)
RowInv ==
  /\ claiming \subseteq Due
  /\ \A j \in stops \cup orphans : row[j].is = "gone"

(* A run_at job that may fire has not fired since it was set.              *)
Armed(j) == Here(j) /\ row[j].set.active /\ row[j].set.form # "cron"

FireInv == \A j \in Jobs : fired[j] <= 1 /\ (Armed(j) => fired[j] = 0)

(* A job that is not crowded executes once at most.                        *)
CrowdInv ==
  /\ MarksFollowRuns
  /\ \A j \in Jobs : j \notin crowded => ticks[j] + manuals[j] <= 1

(* With every change followed by its reschedule, the latest of these reads *)
(* or has read the rows as they are.                                       *)
FreshInv ==
  commits = 0 =>
    /\ \A l \in loads : Latest(l) /\ l.snap # None
         => \A j \in Jobs : Ticking(j) => l.snap[j] = row[j].set.prevent
    /\ (~failed /\ \A l \in loads : ~Latest(l))
         => \A j \in Jobs : Ticking(j) => row[j].set.prevent \in Live(j)

(* Without a race there is one reschedule at a time, which finds the table *)
(* empty, and leaves it in step with the rows.                             *)
SerialInv ==
  ~raced =>
    /\ \A j \in Jobs : leaked[j] = {}
    /\ \A l, m \in loads : l = m
    /\ \A l \in loads : Latest(l)
    /\ loads # {} => scheduled = NoTasks
    /\ commits = 0 => \A l \in loads : l.snap # None
         => \A j \in Jobs \ (orphans \cup stops) : l.snap[j] = ActiveRows[j]
    /\ (commits = 0 /\ loads = {} /\ ~failed)
         => \A j \in Jobs \ (orphans \cup stops) : scheduled[j] = ActiveRows[j]

-----------------------------------------------------------------------------
(* The shape of a row that is there.                                       *)
LEMMA HereRow ==
  ASSUME TypeOK, NEW j \in Jobs, Here(j)
  PROVE  /\ row[j] = [is |-> "here", set |-> row[j].set]
         /\ row[j].set \in Settings
  BY DEF TypeOK, Row, Here

(* A row of the table, with any settings.                                  *)
LEMMA ARow ==
  ASSUME NEW s \in Settings
  PROVE  [is |-> "here", set |-> s] \in Row
  BY DEF Row

(* What rescheduleAll reads is a snapshot.                                 *)
LEMMA RowsSnapshot == TypeOK => ActiveRows \in Snapshot
<1> SUFFICES ASSUME TypeOK PROVE ActiveRows \in Snapshot
  OBVIOUS
<1>1. ASSUME NEW j \in Jobs PROVE ActiveRows[j] \in Task \cup {None}
  <2>1. CASE Ticking(j)
    <3>1. row[j].set \in Settings
      BY <2>1, HereRow DEF Ticking
    <3>2. row[j].set.prevent \in Task
      BY <3>1 DEF Settings, Task
    <3> QED BY <2>1, <3>2 DEF ActiveRows
  <2>2. CASE ~Ticking(j)
    BY <2>2 DEF ActiveRows
  <2> QED BY <2>1, <2>2
<1> QED BY <1>1 DEF ActiveRows, Snapshot

(* An empty table is a snapshot, no executions are counts of executions.   *)
LEMMA Empty == NoTasks \in Snapshot /\ NoRuns \in [Jobs -> 0 .. MaxRuns] /\ NoRuns \in [Jobs -> 0 .. 2]
  BY CronAssumption DEF NoTasks, NoRuns, Snapshot

(* A call of rescheduleAll that has not read anything.                     *)
LEMMA NewLoad == \A n \in 1 .. MaxLoads : [n |-> n, snap |-> None] \in Load
  BY DEF Load

-----------------------------------------------------------------------------
(* TypeOK holds initially and is preserved by every step.                  *)
LEMMA TypeInit == Init => TypeOK /\ RoomInv
<1> SUFFICES ASSUME Init PROVE TypeOK /\ RoomInv
  OBVIOUS
<1>1. row \in [Jobs -> Row]
  <2>1. [is : {"new"}] \cup [is : {"here"}, set : Settings] \subseteq Row
    BY DEF Row
  <2> QED BY <2>1 DEF Init
<1>2. loads \in SUBSET Load /\ \A l \in loads : l.n <= begun
  BY CronAssumption, NewLoad DEF Init
<1>3. begun \in 1 .. MaxLoads /\ commits \in 0 .. MaxLoads /\ crashes \in 0 .. MaxCrashes
  BY CronAssumption DEF Init
<1>4. RoomInv
  BY CronAssumption DEF Init, RoomInv
<1> QED BY <1>1, <1>2, <1>3, <1>4, Empty DEF Init, TypeOK

(* A changed row is a row.                                                 *)
LEMMA ChangedRow ==
  ASSUME TypeOK, NEW j \in Jobs, NEW to \in Row
  PROVE  [row EXCEPT ![j] = to] \in [Jobs -> Row]
  BY DEF TypeOK

(* Changing the settings of a row that is there gives a row that is there. *)
LEMMA SetRow ==
  ASSUME TypeOK, NEW j \in Jobs, Here(j), NEW s \in Settings
  PROVE  /\ [row EXCEPT ![j].set = s] = [row EXCEPT ![j] = [is |-> "here", set |-> s]]
         /\ [row EXCEPT ![j].set = s] \in [Jobs -> Row]
<1>1. row[j] = [is |-> "here", set |-> row[j].set]
  BY HereRow
<1>2. [row[j] EXCEPT !.set = s] = [is |-> "here", set |-> s]
  BY <1>1
<1>3. [is |-> "here", set |-> s] \in Row
  BY ARow
<1> QED BY <1>2, <1>3, ChangedRow

(* Deactivating a row that is there, or letting its run_at pass.           *)
LEMMA FieldRow ==
  ASSUME TypeOK, NEW j \in Jobs, Here(j)
  PROVE  /\ [row[j] EXCEPT !.set.active = FALSE]
              = [is |-> "here", set |-> [row[j].set EXCEPT !.active = FALSE]]
         /\ [row[j].set EXCEPT !.active = FALSE] \in Settings
         /\ [row[j] EXCEPT !.set.form = "due"]
              = [is |-> "here", set |-> [row[j].set EXCEPT !.form = "due"]]
         /\ [row[j].set EXCEPT !.form = "due"] \in Settings
<1>1. row[j] = [is |-> "here", set |-> row[j].set] /\ row[j].set \in Settings
  BY HereRow
<1>2. [row[j].set EXCEPT !.active = FALSE] \in Settings /\ [row[j].set EXCEPT !.form = "due"] \in Settings
  BY <1>1 DEF Settings
<1>3. [row[j] EXCEPT !.set.active = FALSE] = [is |-> "here", set |-> [row[j].set EXCEPT !.active = FALSE]]
  <2>1. [row[j] EXCEPT !.set.active = FALSE] = [row[j] EXCEPT !.set = [row[j].set EXCEPT !.active = FALSE]]
    OBVIOUS
  <2>2. \A t : [row[j] EXCEPT !.set = t] = [is |-> "here", set |-> t]
    BY <1>1
  <2> QED BY <2>1, <2>2
<1>4. [row[j] EXCEPT !.set.form = "due"] = [is |-> "here", set |-> [row[j].set EXCEPT !.form = "due"]]
  BY <1>1
<1> QED BY <1>2, <1>3, <1>4

(* Either leaves a row of the table.                                       *)
LEMMA EditedRow ==
  ASSUME TypeOK, NEW j \in Jobs, Here(j)
  PROVE  /\ [row[j] EXCEPT !.set.active = FALSE] \in Row
         /\ [row[j] EXCEPT !.set.form = "due"] \in Row
<1>1. \A s \in Settings : [is |-> "here", set |-> s] \in Row
  BY ARow
<1>2. [row[j] EXCEPT !.set.active = FALSE] \in Row
  <2> DEFINE s == [row[j].set EXCEPT !.active = FALSE]
             r == [row[j] EXCEPT !.set.active = FALSE]
  <2>1. s \in Settings /\ r = [is |-> "here", set |-> s]
    BY FieldRow
  <2> HIDE DEF s, r
  <2>2. r \in Row
    BY <2>1, <1>1
  <2> QED BY <2>2 DEF r
<1>3. [row[j] EXCEPT !.set.form = "due"] \in Row
  <2> DEFINE s == [row[j].set EXCEPT !.form = "due"]
             r == [row[j] EXCEPT !.set.form = "due"]
  <2>1. s \in Settings /\ r = [is |-> "here", set |-> s]
    BY FieldRow
  <2> HIDE DEF s, r
  <2>2. r \in Row
    BY <2>1, <1>1
  <2> QED BY <2>2 DEF r
<1> QED BY <1>2, <1>3

(* What a committed poll leaves in the table.                              *)
LEMMA DeactivatedRows ==
  ASSUME TypeOK, RowInv
  PROVE  /\ Deactivated(claiming) \in [Jobs -> Row]
         /\ \A j \in Jobs \ claiming : Deactivated(claiming)[j] = row[j]
         /\ \A j \in claiming : /\ Deactivated(claiming)[j].is = "here"
                                /\ ~Deactivated(claiming)[j].set.active
                                /\ Deactivated(claiming)[j].set.form = "due"
<1>1. ASSUME NEW j \in Jobs PROVE Deactivated(claiming)[j] \in Row
  <2>1. CASE j \in claiming
    <3>1. Here(j)
      BY <2>1 DEF RowInv, Due
    <3> QED BY <2>1, <3>1, EditedRow DEF Deactivated
  <2>2. CASE j \notin claiming
    BY <2>2 DEF Deactivated, TypeOK
  <2> QED BY <2>1, <2>2
<1>2. ASSUME NEW j \in claiming
      PROVE  /\ Deactivated(claiming)[j].is = "here"
             /\ ~Deactivated(claiming)[j].set.active
             /\ Deactivated(claiming)[j].set.form = "due"
  <2>1. j \in Jobs /\ Here(j) /\ row[j].set.form = "due"
    BY DEF RowInv, Due, TypeOK
  <2>2. row[j].set \in Settings
    BY <2>1, HereRow
  <2>3. Deactivated(claiming)[j] = [is |-> "here", set |-> [row[j].set EXCEPT !.active = FALSE]]
    BY <2>1, FieldRow DEF Deactivated
  <2> QED BY <2>1, <2>2, <2>3 DEF Settings
<1>3. Deactivated(claiming) = [j \in Jobs |-> Deactivated(claiming)[j]]
  BY DEF Deactivated
<1> QED BY <1>1, <1>2, <1>3 DEF Deactivated

(* The table after any step, and what every step but a change of settings  *)
(* leaves of the schedules in it.                                          *)
LEMMA RowStep ==
  ASSUME TypeOK, RowInv, [Next]_vars
  PROVE  row' \in [Jobs -> Row]
<1>0. CASE UNCHANGED row
  BY <1>0 DEF TypeOK
<1>1. ASSUME NEW j \in Jobs, Create(j) PROVE row' \in [Jobs -> Row]
  BY <1>1, ARow, ChangedRow DEF Create, Changes
<1>2. ASSUME NEW j \in Jobs, Update(j) PROVE row' \in [Jobs -> Row]
  BY <1>2, SetRow DEF Update
<1>3. ASSUME NEW j \in Jobs, row' = [row EXCEPT ![j] = [is |-> "gone"]] PROVE row' \in [Jobs -> Row]
  <2>1. [is |-> "gone"] \in Row
    BY DEF Row
  <2> QED BY <1>3, <2>1, ChangedRow
<1>4. ASSUME NEW j \in Jobs, AgentCreates(j) PROVE row' \in [Jobs -> Row]
  <2>1. \A form \in {"cron", "once"} : [form |-> form, active |-> TRUE, prevent |-> TRUE] \in Settings
    BY DEF Settings
  <2>2. PICK form \in {"cron", "once"} :
          Changes(j, [is |-> "here", set |-> [form |-> form, active |-> TRUE, prevent |-> TRUE]])
    BY <1>4 DEF AgentCreates
  <2>3. [is |-> "here", set |-> [form |-> form, active |-> TRUE, prevent |-> TRUE]] \in Row
    BY <2>1, ARow
  <2> QED BY <2>2, <2>3, ChangedRow DEF Changes
<1>5. ASSUME NEW j \in Jobs, AgentCancels(j) PROVE row' \in [Jobs -> Row]
  <2>1. row' = [row EXCEPT ![j] = [row[j] EXCEPT !.set.active = FALSE]]
    BY <1>5 DEF AgentCancels
  <2>2. Here(j)
    BY <1>5 DEF AgentCancels
  <2>3. [row[j] EXCEPT !.set.active = FALSE] \in Row
    BY <2>2, EditedRow
  <2> QED BY <2>1, <2>3, ChangedRow
<1>6. ASSUME NEW j \in Jobs, RunAtPasses(j) PROVE row' \in [Jobs -> Row]
  <2>1. row' = [row EXCEPT ![j] = [row[j] EXCEPT !.set.form = "due"]]
    BY <1>6 DEF RunAtPasses
  <2>2. Here(j)
    BY <1>6 DEF RunAtPasses
  <2>3. [row[j] EXCEPT !.set.form = "due"] \in Row
    BY <2>2, EditedRow
  <2> QED BY <2>1, <2>3, ChangedRow
<1>7. CASE row' = Deactivated(claiming)
  BY <1>7, DeactivatedRows
<1>8. ASSUME NEW j \in Jobs, Delete(j) \/ OwnerDeleted(j) PROVE row' = [row EXCEPT ![j] = [is |-> "gone"]]
  BY <1>8 DEF Delete, OwnerDeleted, Changes
<1>9. CASE PollCommits \/ PollFails \/ Crash
  BY <1>0, <1>7, <1>9 DEF PollCommits, PollFails, Crash
<1>10. CASE \E j \in Jobs : \/ DeleteStops(j) \/ TickEnds(j) \/ TriggerManually(j) \/ ManualEnds(j)
                            \/ \E p \in Task : Tick(j, p)
  BY <1>0, <1>10 DEF DeleteStops, TickEnds, TriggerManually, ManualEnds, Tick, Rows
<1>11. CASE \/ \E l \in loads : LoadReads(l) \/ LoadInstalls(l) \/ LoadFails(l)
            \/ AdminSettings \/ BeginLoad \/ PollClaims \/ PollIdle \/ UNCHANGED vars
  BY <1>0, <1>11 DEF LoadReads, LoadInstalls, LoadFails, AdminSettings, BeginLoad, PollClaims,
                     PollIdle, Rows, vars
<1> QED BY <1>1, <1>2, <1>3, <1>4, <1>5, <1>6, <1>8, <1>9, <1>10, <1>11 DEF Next

(* The five things a step can do to the row of a job: nothing, an edit     *)
(* that a reschedule will follow, a deletion, the passing of its run_at,   *)
(* and the deactivation by a poll.                                         *)
Edited(j)   == commits' = commits + 1 /\ j \notin claiming /\ row[j].is # "gone" /\ row'[j].is = "here"
Removed(j)  == j \notin claiming /\ Here(j) /\ row'[j].is = "gone"
Reached(j)  == /\ Here(j) /\ row[j].set.form = "once"
               /\ row'[j].is = "here" /\ row'[j].set.form = "due"
               /\ row'[j].set.active = row[j].set.active
Polled(j)   == /\ j \in claiming /\ claiming' = {}
               /\ row'[j].is = "here" /\ row'[j].set.form = "due" /\ ~row'[j].set.active

(* Every step does one of these five things to each row.                   *)
LEMMA RowChange ==
  ASSUME TypeOK, RowInv, [Next]_vars, NEW j \in Jobs
  PROVE  row'[j] = row[j] \/ Edited(j) \/ Removed(j) \/ Reached(j) \/ Polled(j)
<1>0. CASE UNCHANGED row
  BY <1>0
<1> USE DEF TypeOK
<1>1. ASSUME NEW k \in Jobs, Create(k) \/ AgentCreates(k) PROVE row'[j] = row[j] \/ Edited(j)
  <2>1. row[k].is = "new" /\ k \notin claiming /\ commits' = commits + 1
    BY <1>1 DEF Create, AgentCreates, Served, Reschedules
  <2>2. PICK s : row' = [row EXCEPT ![k] = [is |-> "here", set |-> s]]
    BY <1>1 DEF Create, AgentCreates, Changes
  <2> QED BY <2>1, <2>2 DEF Edited
<1>2. ASSUME NEW k \in Jobs, Update(k) PROVE row'[j] = row[j] \/ Edited(j)
  <2>1. Here(k) /\ k \notin claiming /\ commits' = commits + 1
    BY <1>2 DEF Update, Served, Reschedules
  <2>2. PICK s \in Settings : row' = [row EXCEPT ![k] = [is |-> "here", set |-> s]]
    BY <1>2, SetRow DEF Update
  <2> QED BY <2>1, <2>2 DEF Edited, Here
<1>3. ASSUME NEW k \in Jobs, AgentCancels(k) PROVE row'[j] = row[j] \/ Edited(j)
  <2>1. Here(k) /\ k \notin claiming /\ commits' = commits + 1
    BY <1>3 DEF AgentCancels, Served, Reschedules
  <2>2. row' = [row EXCEPT ![k] = [row[k] EXCEPT !.set.active = FALSE]]
    BY <1>3 DEF AgentCancels
  <2>3. row' = [row EXCEPT ![k] = [is |-> "here", set |-> [row[k].set EXCEPT !.active = FALSE]]]
    BY <2>1, <2>2, FieldRow
  <2> QED BY <2>1, <2>3 DEF Edited, Here
<1>4. ASSUME NEW k \in Jobs, Delete(k) \/ OwnerDeleted(k) PROVE row'[j] = row[j] \/ Removed(j)
  BY <1>4 DEF Delete, OwnerDeleted, Changes, Served, Removed
<1>5. ASSUME NEW k \in Jobs, RunAtPasses(k) PROVE row'[j] = row[j] \/ Reached(j)
  <2>1. Here(k) /\ row[k].set.form = "once" /\ row[k].set \in Settings
    BY <1>5, HereRow DEF RunAtPasses
  <2>2. row' = [row EXCEPT ![k] = [row[k] EXCEPT !.set.form = "due"]]
    BY <1>5 DEF RunAtPasses
  <2>3. row' = [row EXCEPT ![k] = [is |-> "here", set |-> [row[k].set EXCEPT !.form = "due"]]]
    BY <2>1, <2>2, FieldRow
  <2>4. [row[k].set EXCEPT !.form = "due"].form = "due"
         /\ [row[k].set EXCEPT !.form = "due"].active = row[k].set.active
    BY <2>1 DEF Settings
  <2> QED BY <2>1, <2>3, <2>4 DEF Reached
<1>6. CASE row' = Deactivated(claiming) /\ claiming' = {}
  BY <1>6, DeactivatedRows DEF Polled
<1>7. CASE PollCommits \/ PollFails \/ Crash
  BY <1>0, <1>6, <1>7 DEF PollCommits, PollFails, Crash, RollsBack
<1>8. CASE \E k \in Jobs : \/ DeleteStops(k) \/ TickEnds(k) \/ TriggerManually(k) \/ ManualEnds(k)
                           \/ \E p \in Task : Tick(k, p)
  BY <1>0, <1>8 DEF DeleteStops, TickEnds, TriggerManually, ManualEnds, Tick, Rows
<1>9. CASE \/ \E l \in loads : LoadReads(l) \/ LoadInstalls(l) \/ LoadFails(l)
           \/ AdminSettings \/ BeginLoad \/ PollClaims \/ PollIdle \/ UNCHANGED vars
  BY <1>0, <1>9 DEF LoadReads, LoadInstalls, LoadFails, AdminSettings, BeginLoad, PollClaims,
                     PollIdle, Rows, vars
<1> QED BY <1>1, <1>2, <1>3, <1>4, <1>5, <1>7, <1>8, <1>9 DEF Next

(* What follows for the schedules: a step that is no edit neither makes a  *)
(* job tick nor changes one that does.                                     *)
LEMMA ScheduleChange ==
  ASSUME TypeOK, RowInv, [Next]_vars, commits' # commits + 1, NEW j \in Jobs
  PROVE  /\ Ticking(j)' => Ticking(j) /\ row'[j] = row[j]
         /\ row'[j].is # "gone" => (Ticking(j)' <=> Ticking(j)) /\ (Ticking(j) => row'[j] = row[j])
         /\ row[j].is = "gone" => row'[j] = row[j]
<1>1. row'[j] = row[j] \/ Removed(j) \/ Reached(j) \/ Polled(j)
  BY RowChange DEF Edited
<1>2. j \in claiming => Here(j) /\ row[j].set.form = "due"
  BY DEF RowInv, Due
<1> QED BY <1>1, <1>2 DEF Removed, Reached, Polled, Ticking, Here

-----------------------------------------------------------------------------
(* The other variables keep their shape, and the bound leaves room.        *)
LEMMA LoadsStep ==
  ASSUME TypeOK, RoomInv, [Next]_vars
  PROVE  /\ loads' \in SUBSET Load /\ \A l \in loads' : l.n <= begun'
         /\ begun' \in 1 .. MaxLoads /\ commits' \in 0 .. MaxLoads /\ RoomInv'
<1> USE CronAssumption DEF TypeOK, RoomInv
<1>0. CASE UNCHANGED <<Loading, commits>>
  BY <1>0 DEF Loading
<1>1. CASE Reschedules /\ UNCHANGED Loading
  BY <1>1 DEF Reschedules, Loading
<1>2. CASE BeginLoad
  <2>1. begun + 1 \in 1 .. MaxLoads
    BY <1>2 DEF BeginLoad
  <2>2. [n |-> begun + 1, snap |-> None] \in Load
    BY <2>1, NewLoad
  <2>3. loads' = loads \cup {[n |-> begun + 1, snap |-> None]} /\ begun' = begun + 1 /\ commits' = commits - 1
        /\ commits > 0
    BY <1>2 DEF BeginLoad
  <2>4. \A l \in loads : l.n \in Nat /\ l.n <= begun
    BY DEF Load
  <2>5. \A l \in loads' : l.n <= begun'
    BY <2>3, <2>4
  <2>6. begun' \in 1 .. MaxLoads /\ commits' \in 0 .. MaxLoads /\ begun' + commits' <= MaxLoads
    BY <2>1, <2>3
  <2> QED BY <2>2, <2>3, <2>5, <2>6
<1>3. CASE Crash
  <2>1. begun + 1 \in 1 .. MaxLoads
    BY <1>3 DEF Crash
  <2>2. [n |-> begun + 1, snap |-> None] \in Load
    BY <2>1, NewLoad
  <2>3. loads' = {[n |-> begun + 1, snap |-> None]} /\ begun' = begun + 1 /\ commits' = 0
    BY <1>3 DEF Crash
  <2> QED BY <2>1, <2>2, <2>3
<1>4. ASSUME NEW l \in loads, LoadReads(l) PROVE loads' \in SUBSET Load /\ \A m \in loads' : m.n <= begun
  <2>1. [l EXCEPT !.snap = ActiveRows] \in Load /\ [l EXCEPT !.snap = ActiveRows].n = l.n
    BY RowsSnapshot DEF Load
  <2> QED BY <1>4, <2>1 DEF LoadReads
<1>5. ASSUME NEW l \in loads, LoadReads(l) \/ LoadInstalls(l) \/ LoadFails(l)
      PROVE  /\ loads' \in SUBSET Load /\ \A m \in loads' : m.n <= begun
             /\ UNCHANGED <<begun, commits>>
  BY <1>4, <1>5 DEF LoadReads, LoadInstalls, LoadFails, Handlers
<1>6. CASE \E j \in Jobs : Create(j) \/ Update(j) \/ AgentCreates(j) \/ AgentCancels(j) \/ AdminSettings
  BY <1>1, <1>6 DEF Create, Update, AgentCreates, AgentCancels, AdminSettings
<1>7. CASE \E j \in Jobs : Delete(j) \/ OwnerDeleted(j) \/ RunAtPasses(j) \/ DeleteStops(j)
  BY <1>0, <1>7 DEF Delete, OwnerDeleted, RunAtPasses, DeleteStops, Handlers
<1>8. CASE \E j \in Jobs : \/ TickEnds(j) \/ TriggerManually(j) \/ ManualEnds(j)
                           \/ \E p \in Task : Tick(j, p)
  BY <1>0, <1>8 DEF TickEnds, TriggerManually, ManualEnds, Tick, Handlers
<1>9. CASE PollClaims \/ PollIdle \/ PollCommits \/ PollFails \/ UNCHANGED vars
  BY <1>0, <1>9 DEF PollClaims, PollIdle, PollCommits, PollFails, Handlers, Loading, vars
<1>10. CASE AdminSettings
  BY <1>1, <1>10 DEF AdminSettings
<1> QED BY <1>2, <1>3, <1>5, <1>6, <1>7, <1>8, <1>9, <1>10 DEF Next

(* The tables of tasks keep their shape.                                   *)
LEMMA TasksStep ==
  ASSUME TypeOK, [Next]_vars
  PROVE  scheduled' \in Snapshot /\ leaked' \in [Jobs -> SUBSET Task]
<1> USE DEF TypeOK
<1>0. CASE UNCHANGED Tasks
  BY <1>0 DEF Tasks
<1>1. ASSUME NEW j \in Jobs, DeleteStops(j) \/ TickEnds(j) PROVE scheduled' \in Snapshot /\ leaked' = leaked
  BY <1>1 DEF DeleteStops, TickEnds, StopsJob, Snapshot
<1>2. CASE BeginLoad
  BY <1>2, Empty DEF BeginLoad, StopsTasks
<1>3. ASSUME NEW l \in loads, LoadInstalls(l)
      PROVE scheduled' \in Snapshot /\ leaked' \in [Jobs -> SUBSET Task]
  <2>1. l.snap \in Snapshot
    BY <1>3 DEF LoadInstalls, Load
  <2>2. \A j \in Jobs : Live(j) \in SUBSET Task
    BY DEF Live, Snapshot
  <2> QED BY <1>3, <2>1, <2>2 DEF LoadInstalls, Installs, Snapshot
<1>4. CASE Crash
  BY <1>4, Empty DEF Crash
<1>5. CASE \E j \in Jobs : \/ Create(j) \/ Update(j) \/ Delete(j) \/ AgentCreates(j) \/ AgentCancels(j)
                           \/ OwnerDeleted(j) \/ RunAtPasses(j)
  BY <1>0, <1>5 DEF Create, Update, Delete, AgentCreates, AgentCancels, OwnerDeleted, RunAtPasses
<1>6. CASE \E j \in Jobs : TriggerManually(j) \/ ManualEnds(j) \/ \E p \in Task : Tick(j, p)
  BY <1>0, <1>6 DEF TriggerManually, ManualEnds, Tick
<1>7. CASE \/ \E l \in loads : LoadReads(l) \/ LoadFails(l)
           \/ AdminSettings \/ PollClaims \/ PollIdle \/ PollCommits \/ PollFails \/ UNCHANGED vars
  BY <1>0, <1>7 DEF LoadReads, LoadFails, AdminSettings, PollClaims, PollIdle, PollCommits, PollFails,
                    Tasks, vars
<1> QED BY <1>1, <1>2, <1>3, <1>4, <1>5, <1>6, <1>7 DEF Next

(* A step starts an execution, ends one, drops them all, or leaves them    *)
(* alone.                                                                  *)
Starts(j) ==
  /\ marks' = marks \cup {j}
  /\ crowded' = IF Busy(j) THEN crowded \cup {j} ELSE crowded
  /\ \/ ticks[j] < MaxRuns /\ ticks' = [ticks EXCEPT ![j] = @ + 1] /\ UNCHANGED manuals
     \/ manuals[j] < MaxRuns /\ manuals' = [manuals EXCEPT ![j] = @ + 1] /\ UNCHANGED ticks

Stops(j) ==
  /\ marks' = marks \ {j}
  /\ crowded' = IF ticks[j] + manuals[j] = 1 THEN crowded \ {j} ELSE crowded
  /\ \/ ticks[j] > 0 /\ ticks' = [ticks EXCEPT ![j] = @ - 1] /\ UNCHANGED manuals
     \/ manuals[j] > 0 /\ manuals' = [manuals EXCEPT ![j] = @ - 1] /\ UNCHANGED ticks

(* Every step is of one of these kinds.                                    *)
LEMMA ExecutionStep ==
  ASSUME [Next]_vars
  PROVE  \/ UNCHANGED Executions
         \/ \E j \in Jobs : Starts(j) \/ Stops(j)
         \/ marks' = {} /\ ticks' = NoRuns /\ manuals' = NoRuns /\ crowded' = {}
<1>1. ASSUME NEW j \in Jobs, NEW p \in Task, Tick(j, p) PROVE UNCHANGED Executions \/ Starts(j)
  BY <1>1 DEF Tick, Skips, Marks, Starts
<1>2. ASSUME NEW j \in Jobs, TriggerManually(j) PROVE Starts(j)
  BY <1>2 DEF TriggerManually, Marks, Starts
<1>3. ASSUME NEW j \in Jobs, TickEnds(j) \/ ManualEnds(j) PROVE Stops(j)
  BY <1>3 DEF TickEnds, ManualEnds, Unmarks, LeavesCrowd, Stops
<1>4. CASE Crash
  BY <1>4 DEF Crash
<1>5. CASE \E j \in Jobs : \/ Create(j) \/ Update(j) \/ Delete(j) \/ AgentCreates(j) \/ AgentCancels(j)
                           \/ OwnerDeleted(j) \/ RunAtPasses(j) \/ DeleteStops(j)
  BY <1>5 DEF Create, Update, Delete, AgentCreates, AgentCancels, OwnerDeleted, RunAtPasses, DeleteStops
<1>6. CASE \/ \E l \in loads : LoadReads(l) \/ LoadInstalls(l) \/ LoadFails(l)
           \/ AdminSettings \/ BeginLoad \/ PollClaims \/ PollIdle \/ PollCommits \/ PollFails
           \/ UNCHANGED vars
  BY <1>6 DEF LoadReads, LoadInstalls, LoadFails, AdminSettings, BeginLoad, PollClaims, PollIdle,
              PollCommits, PollFails, Executions, vars
<1> QED BY <1>1, <1>2, <1>3, <1>4, <1>5, <1>6 DEF Next

(* Marks and counts of executions keep their shape.                        *)
LEMMA CountsStep ==
  ASSUME TypeOK, [Next]_vars
  PROVE  /\ marks' \in SUBSET Jobs /\ crowded' \in SUBSET Jobs
         /\ ticks' \in [Jobs -> 0 .. MaxRuns] /\ manuals' \in [Jobs -> 0 .. MaxRuns]
<1> USE CronAssumption DEF TypeOK
<1>1. CASE UNCHANGED Executions
  BY <1>1 DEF Executions
<1>2. ASSUME NEW j \in Jobs, Starts(j)
      PROVE  /\ marks' \in SUBSET Jobs /\ crowded' \in SUBSET Jobs
             /\ ticks' \in [Jobs -> 0 .. MaxRuns] /\ manuals' \in [Jobs -> 0 .. MaxRuns]
  BY <1>2 DEF Starts
<1>3. ASSUME NEW j \in Jobs, Stops(j)
      PROVE  /\ marks' \in SUBSET Jobs /\ crowded' \in SUBSET Jobs
             /\ ticks' \in [Jobs -> 0 .. MaxRuns] /\ manuals' \in [Jobs -> 0 .. MaxRuns]
  BY <1>3 DEF Stops
<1>4. CASE marks' = {} /\ ticks' = NoRuns /\ manuals' = NoRuns /\ crowded' = {}
  BY <1>4, Empty
<1> QED BY <1>1, <1>2, <1>3, <1>4, ExecutionStep

(* The history of firings keeps its shape.                                 *)
LEMMA FiredStep ==
  ASSUME TypeOK, [Next]_vars
  PROVE  fired' \in [Jobs -> 0 .. 2]
<1> USE DEF TypeOK
<1>0. CASE UNCHANGED fired
  BY <1>0
<1>1. ASSUME NEW j \in Jobs, fired' = [fired EXCEPT ![j] = 0] PROVE fired' \in [Jobs -> 0 .. 2]
  BY <1>1
<1>2. CASE PollCommits
  BY <1>2 DEF PollCommits, Fires
<1>3. CASE \E j \in Jobs : \/ Create(j) \/ Update(j) \/ Delete(j) \/ AgentCreates(j) \/ AgentCancels(j)
                           \/ OwnerDeleted(j) \/ RunAtPasses(j) \/ DeleteStops(j)
  BY <1>0, <1>1, <1>3 DEF Create, Update, Delete, AgentCreates, AgentCancels, OwnerDeleted, RunAtPasses,
                    DeleteStops, Changes, Rows
<1>4. CASE \E j \in Jobs : \/ TickEnds(j) \/ TriggerManually(j) \/ ManualEnds(j)
                           \/ \E p \in Task : Tick(j, p)
  BY <1>0, <1>4 DEF TickEnds, TriggerManually, ManualEnds, Tick, Rows
<1>5. CASE \/ \E l \in loads : LoadReads(l) \/ LoadInstalls(l) \/ LoadFails(l)
           \/ AdminSettings \/ BeginLoad \/ PollClaims \/ PollIdle \/ PollFails \/ Crash \/ UNCHANGED vars
  BY <1>0, <1>5 DEF LoadReads, LoadInstalls, LoadFails, AdminSettings, BeginLoad, PollClaims, PollIdle,
                    PollFails, RollsBack, Crash, Rows, vars
<1> QED BY <1>2, <1>3, <1>4, <1>5 DEF Next

(* Flags and sets of jobs.                                                 *)
LEMMA FlagsStep ==
  ASSUME TypeOK, [Next]_vars
  PROVE  /\ orphans' \in SUBSET Jobs /\ stops' \in SUBSET Jobs /\ claiming' \in SUBSET Jobs
         /\ up' \in BOOLEAN /\ failed' \in BOOLEAN /\ raced' \in BOOLEAN
         /\ crashes' \in 0 .. MaxCrashes
<1> USE CronAssumption DEF TypeOK
<1>1. CASE \E j \in Jobs : \/ Create(j) \/ Update(j) \/ AgentCreates(j) \/ AgentCancels(j)
                           \/ RunAtPasses(j) \/ AdminSettings
  BY <1>1 DEF Create, Update, AgentCreates, AgentCancels, RunAtPasses, AdminSettings, Changes,
              Reschedules, Rows, Loading, Handlers, Process
<1>2. CASE \E j \in Jobs : \/ Delete(j) \/ OwnerDeleted(j) \/ DeleteStops(j)
  BY <1>2 DEF Delete, OwnerDeleted, DeleteStops, Changes, Rows, Loading, Handlers, Process
<1>3. CASE \E j \in Jobs : \/ TickEnds(j) \/ TriggerManually(j) \/ ManualEnds(j)
                           \/ \E p \in Task : Tick(j, p)
  BY <1>3 DEF TickEnds, TriggerManually, ManualEnds, Tick, Rows, Loading, Handlers, Process
<1>4. CASE \E l \in loads : LoadReads(l) \/ LoadInstalls(l) \/ LoadFails(l)
  BY <1>4 DEF LoadReads, LoadInstalls, LoadFails, Rows, Handlers, Process
<1>5. CASE AdminSettings \/ BeginLoad
  BY <1>5 DEF AdminSettings, BeginLoad, Reschedules, Rows, Loading, Handlers, Process
<1>6. CASE PollClaims \/ PollIdle \/ PollCommits \/ PollFails \/ UNCHANGED vars
  BY <1>6 DEF PollClaims, PollIdle, PollCommits, PollFails, RollsBack, Due, Rows, Loading, Handlers,
              Process, vars
<1>7. CASE Crash
  <2>1. /\ orphans' = orphans /\ stops' = {} /\ claiming' = {}
        /\ up' = FALSE /\ failed' = FALSE /\ raced' = FALSE
        /\ crashes < MaxCrashes /\ crashes' = crashes + 1
    BY <1>7 DEF Crash
  <2>2. crashes \in Nat /\ MaxCrashes \in Nat
    OBVIOUS
  <2>3. crashes' \in 0 .. MaxCrashes
    <3> HIDE DEF TypeOK
    <3> QED BY <2>1, <2>2
  <2>4. orphans' \in SUBSET Jobs
    BY <2>1
  <2> HIDE DEF TypeOK
  <2> QED BY <2>1, <2>3, <2>4
<1> QED BY <1>1, <1>2, <1>3, <1>4, <1>5, <1>6, <1>7 DEF Next

(* What the open poll has locked is still due, and what is gone stays gone. *)
LEMMA RowInvStep ==
  ASSUME TypeOK, RowInv, [Next]_vars
  PROVE  RowInv'
<1> USE DEF TypeOK
<1>1. claiming' = claiming \/ claiming' = {} \/ (claiming' = Due /\ UNCHANGED row)
  <2>1. CASE \E j \in Jobs : \/ Create(j) \/ Update(j) \/ Delete(j) \/ AgentCreates(j) \/ AgentCancels(j)
                             \/ OwnerDeleted(j) \/ RunAtPasses(j) \/ DeleteStops(j)
    BY <2>1 DEF Create, Update, Delete, AgentCreates, AgentCancels, OwnerDeleted, RunAtPasses, DeleteStops
  <2>2. CASE \E j \in Jobs : \/ TickEnds(j) \/ TriggerManually(j) \/ ManualEnds(j)
                             \/ \E p \in Task : Tick(j, p)
    BY <2>2 DEF TickEnds, TriggerManually, ManualEnds, Tick
  <2>3. CASE \/ \E l \in loads : LoadReads(l) \/ LoadInstalls(l) \/ LoadFails(l)
             \/ AdminSettings \/ BeginLoad \/ UNCHANGED vars
    BY <2>3 DEF LoadReads, LoadInstalls, LoadFails, AdminSettings, BeginLoad, vars
  <2>4. CASE PollClaims \/ PollIdle \/ PollCommits \/ PollFails \/ Crash
    BY <2>4 DEF PollClaims, PollIdle, PollCommits, PollFails, RollsBack, Crash, Rows, vars
  <2> QED BY <2>1, <2>2, <2>3, <2>4 DEF Next
<1>2. claiming' \subseteq Due'
  <2>1. CASE claiming' = claiming
    <3>1. ASSUME NEW j \in claiming PROVE j \in Due'
      <4>1. j \in Jobs /\ Here(j) /\ row[j].set.active /\ row[j].set.form = "due"
        BY DEF RowInv, Due
      <4>2. row'[j] = row[j]
        BY <2>1, <4>1, RowChange DEF Edited, Removed, Reached, Polled
      <4> QED BY <4>1, <4>2 DEF Due, Here
    <3> QED BY <2>1, <3>1
  <2>2. CASE claiming' = Due /\ UNCHANGED row
    BY <2>2 DEF Due, Here
  <2> QED BY <1>1, <2>1, <2>2
<1>3. ASSUME NEW j \in Jobs, row[j].is = "gone" PROVE row'[j].is = "gone"
  <2>1. j \notin claiming
    BY <1>3 DEF RowInv, Due, Here
  <2> QED BY <1>3, <2>1, RowChange DEF Edited, Removed, Reached, Polled, Here
<1>4. ASSUME NEW j \in stops' \cup orphans', j \notin stops \cup orphans PROVE row'[j].is = "gone"
  <2>1. ASSUME NEW k \in Jobs, Delete(k) \/ OwnerDeleted(k) PROVE row'[j].is = "gone"
    <3>1. j = k
      BY <1>4, <2>1 DEF Delete, OwnerDeleted, Changes, Handlers
    <3> QED BY <2>1, <3>1 DEF Delete, OwnerDeleted, Changes
  <2>2. CASE \E k \in Jobs : \/ Create(k) \/ Update(k) \/ AgentCreates(k) \/ AgentCancels(k)
                             \/ RunAtPasses(k) \/ DeleteStops(k)
    BY <1>4, <2>2 DEF Create, Update, AgentCreates, AgentCancels, RunAtPasses, DeleteStops, Changes,
                      Reschedules, Handlers, Rows
  <2>3. CASE \E k \in Jobs : \/ TickEnds(k) \/ TriggerManually(k) \/ ManualEnds(k)
                             \/ \E p \in Task : Tick(k, p)
    BY <1>4, <2>3 DEF TickEnds, TriggerManually, ManualEnds, Tick, Rows, Handlers
  <2>4. CASE \/ \E l \in loads : LoadReads(l) \/ LoadInstalls(l) \/ LoadFails(l)
             \/ AdminSettings \/ BeginLoad \/ UNCHANGED vars
    BY <1>4, <2>4 DEF LoadReads, LoadInstalls, LoadFails, AdminSettings, BeginLoad, Reschedules, Rows,
                      Handlers, vars
  <2>5. CASE PollClaims \/ PollIdle \/ PollCommits \/ PollFails \/ Crash
    BY <1>4, <2>5 DEF PollClaims, PollIdle, PollCommits, PollFails, Crash, Rows, Handlers, vars
  <2> QED BY <2>1, <2>2, <2>3, <2>4, <2>5 DEF Next
<1>5. stops' \cup orphans' \subseteq Jobs
  BY FlagsStep
<1>6. ASSUME NEW j \in stops' \cup orphans' PROVE row'[j].is = "gone"
  <2>1. CASE j \in stops \cup orphans
    BY <1>3, <1>5, <2>1 DEF RowInv
  <2> QED BY <1>4, <2>1
<1> QED BY <1>2, <1>6 DEF RowInv

(* The shape, the room and the table are kept by every step.               *)
LEMMA TypeStep == TypeOK /\ RoomInv /\ RowInv /\ [Next]_vars => TypeOK' /\ RoomInv' /\ RowInv'
<1> SUFFICES ASSUME TypeOK, RoomInv, RowInv, [Next]_vars PROVE TypeOK' /\ RoomInv' /\ RowInv'
  OBVIOUS
<1>1. row' \in [Jobs -> Row]
  BY RowStep
<1> QED BY <1>1, LoadsStep, TasksStep, CountsStep, FiredStep, FlagsStep, RowInvStep DEF TypeOK

(* Initially nothing is claimed and nothing is gone.                       *)
LEMMA RowInvInit == Init => RowInv
  BY DEF Init, RowInv

(* Every reachable state of the scheduler has the shape TypeOK describes,  *)
(* for any number of jobs, reschedules, executions and restarts.           *)
THEOREM CronTypeCorrect == Spec => []TypeOK
<1>1. Init => TypeOK /\ RoomInv /\ RowInv
  BY TypeInit, RowInvInit
<1> QED BY <1>1, TypeStep, PTL DEF Spec

-----------------------------------------------------------------------------
(* Marks. A start marks the job and counts it, an end unmarks it.          *)
LEMMA CrowdStep ==
  ASSUME TypeOK, CrowdInv, [Next]_vars
  PROVE  CrowdInv'
<1> USE DEF TypeOK, MarksFollowRuns, CrowdInv, Busy
<1>1. CASE UNCHANGED Executions
  BY <1>1 DEF Executions
<1>2. ASSUME NEW j \in Jobs, Starts(j) PROVE CrowdInv'
  <2>1. ASSUME NEW k \in Jobs, k # j
        PROVE /\ ticks'[k] = ticks[k] /\ manuals'[k] = manuals[k]
              /\ (k \in marks' <=> k \in marks) /\ (k \in crowded' <=> k \in crowded)
    BY <1>2, <2>1 DEF Starts
  <2>2. ticks'[j] + manuals'[j] = ticks[j] + manuals[j] + 1 /\ j \in marks'
    BY <1>2 DEF Starts
  <2>3. j \notin crowded' => ~Busy(j)
    BY <1>2 DEF Starts
  <2>4. ticks[j] \in Nat /\ manuals[j] \in Nat
    BY CronAssumption
  <2> QED BY <2>1, <2>2, <2>3, <2>4
<1>3. ASSUME NEW j \in Jobs, Stops(j) PROVE CrowdInv'
  <2>1. ASSUME NEW k \in Jobs, k # j
        PROVE /\ ticks'[k] = ticks[k] /\ manuals'[k] = manuals[k]
              /\ (k \in marks' <=> k \in marks) /\ (k \in crowded' <=> k \in crowded)
    BY <1>3, <2>1 DEF Stops
  <2>2. ticks[j] \in Nat /\ manuals[j] \in Nat
    BY CronAssumption
  <2>3. ticks'[j] + manuals'[j] = ticks[j] + manuals[j] - 1 /\ j \notin marks'
    BY <1>3, <2>2 DEF Stops
  <2>4. ticks'[j] \in Nat /\ manuals'[j] \in Nat
    BY <1>3, <2>2 DEF Stops
  <2>5. j \notin crowded' => j \notin crowded \/ ticks[j] + manuals[j] = 1
    BY <1>3 DEF Stops
  <2>6. j \notin crowded' => ~Busy(j)' /\ ticks'[j] + manuals'[j] = 0
    BY <2>2, <2>3, <2>4, <2>5
  <2> QED BY <2>1, <2>3, <2>6
<1>4. CASE marks' = {} /\ ticks' = NoRuns /\ manuals' = NoRuns /\ crowded' = {}
  BY <1>4 DEF NoRuns
<1> QED BY <1>1, <1>2, <1>3, <1>4, ExecutionStep

(* Initially nothing executes.                                             *)
LEMMA CrowdInit == Init => CrowdInv
  BY DEF Init, CrowdInv, MarksFollowRuns, Busy, NoRuns

(* Whatever ticks, manual starts and ends come in whatever order, no mark  *)
(* outlives the executions of its job, and a job that never executed twice *)
(* at a time is marked as long as it executes.                             *)
THEOREM CronMarksFollowRuns == Spec => []MarksFollowRuns
<1>1. Init => TypeOK /\ RoomInv /\ RowInv /\ CrowdInv
  BY TypeInit, RowInvInit, CrowdInit
<1>2. TypeOK /\ RoomInv /\ RowInv /\ CrowdInv /\ [Next]_vars => (TypeOK /\ RoomInv /\ RowInv /\ CrowdInv)'
  BY TypeStep, CrowdStep
<1>3. CrowdInv => MarksFollowRuns
  BY DEF CrowdInv
<1> QED BY <1>1, <1>2, <1>3, PTL DEF Spec

-----------------------------------------------------------------------------
(* Firing. A row that can fire has not fired since it was last set.        *)
LEMMA FireStep ==
  ASSUME TypeOK, RowInv, FireInv, [Next]_vars
  PROVE  FireInv'
<1> SUFFICES ASSUME NEW j \in Jobs PROVE fired'[j] <= 1 /\ (Armed(j)' => fired'[j] = 0)
  BY DEF FireInv
<1>0. fired[j] \in Nat /\ fired[j] <= 1 /\ (Armed(j) => fired[j] = 0)
  BY DEF TypeOK, FireInv
<1>1. CASE fired'[j] = 0
  BY <1>1
<1>2. CASE row'[j] = row[j] /\ fired'[j] = fired[j]
  BY <1>0, <1>2 DEF Armed, Here
<1>3. CASE fired'[j] = fired[j] /\ (Removed(j) \/ Reached(j) \/ Polled(j))
  BY <1>0, <1>3 DEF Removed, Reached, Polled, Armed, Here
<1>4. CASE UNCHANGED fired /\ commits' # commits + 1
  BY <1>2, <1>3, <1>4, RowChange DEF Edited
<1>5. ASSUME NEW k \in Jobs, Create(k) \/ AgentCreates(k) \/ Delete(k) PROVE fired'[j] <= 1 /\ (Armed(j)' => fired'[j] = 0)
  <2>1. CASE j = k
    <3>1. fired'[j] = 0
      BY <1>5, <2>1 DEF Create, AgentCreates, Delete, Changes, TypeOK
    <3> QED BY <3>1, <1>1
  <2>2. CASE j # k
    <3>1. row'[j] = row[j] /\ fired'[j] = fired[j]
      BY <1>5, <2>2 DEF Create, AgentCreates, Delete, Changes, TypeOK
    <3> QED BY <3>1, <1>2
  <2> QED BY <2>1, <2>2
<1>6. ASSUME NEW k \in Jobs, Update(k) PROVE fired'[j] <= 1 /\ (Armed(j)' => fired'[j] = 0)
  <2>1. PICK s \in Settings :
          /\ row' = [row EXCEPT ![k].set = s]
          /\ fired' = IF s.active # row[k].set.active \/ s.form # row[k].set.form
                      THEN [fired EXCEPT ![k] = 0] ELSE fired
    BY <1>6 DEF Update
  <2>2. Here(k)
    BY <1>6 DEF Update
  <2>3. row' = [row EXCEPT ![k] = [is |-> "here", set |-> s]]
    BY <2>1, <2>2, SetRow
  <2>4. CASE j # k
    <3>1. row'[j] = row[j] /\ fired'[j] = fired[j]
      BY <2>1, <2>3, <2>4 DEF TypeOK
    <3> QED BY <3>1, <1>2
  <2>5. CASE j = k /\ (s.active # row[k].set.active \/ s.form # row[k].set.form)
    <3>1. fired'[j] = 0
      BY <2>1, <2>5 DEF TypeOK
    <3> QED BY <3>1, <1>1
  <2>6. CASE j = k /\ s.active = row[k].set.active /\ s.form = row[k].set.form
    <3>1. fired'[j] = fired[j]
      BY <2>1, <2>6
    <3>2. row'[j] = [is |-> "here", set |-> s]
      BY <2>3, <2>6 DEF TypeOK
    <3>3. Armed(j)' => Armed(j)
      BY <2>2, <2>6, <3>2 DEF Armed, Here
    <3> QED BY <1>0, <3>1, <3>3
  <2> QED BY <2>4, <2>5, <2>6
<1>7. ASSUME NEW k \in Jobs, AgentCancels(k) PROVE fired'[j] <= 1 /\ (Armed(j)' => fired'[j] = 0)
  <2>1. row' = [row EXCEPT ![k] = [row[k] EXCEPT !.set.active = FALSE]] /\ Here(k) /\ fired' = fired
    BY <1>7 DEF AgentCancels
  <2>2. row' = [row EXCEPT ![k] = [is |-> "here", set |-> [row[k].set EXCEPT !.active = FALSE]]]
    BY <2>1, FieldRow
  <2>3. CASE j # k
    <3>1. row'[j] = row[j] /\ fired'[j] = fired[j]
      BY <2>1, <2>2, <2>3 DEF TypeOK
    <3> QED BY <3>1, <1>2
  <2>4. CASE j = k
    <3>1. row'[j] = [is |-> "here", set |-> [row[k].set EXCEPT !.active = FALSE]]
      BY <2>2, <2>4 DEF TypeOK
    <3>2. ~[row[k].set EXCEPT !.active = FALSE].active
      BY <2>1, HereRow DEF Settings
    <3>3. row'[j].set = [row[k].set EXCEPT !.active = FALSE]
      BY <3>1
    <3>4. ~row'[j].set.active
      BY <3>2, <3>3, Zenon
    <3>5. ~Armed(j)'
      BY <3>4 DEF Armed
    <3> QED BY <1>0, <2>1, <3>5
  <2> QED BY <2>3, <2>4
<1>8. CASE PollCommits
  <2>1. CASE j \in claiming
    <3>1. Armed(j) /\ ~Armed(j)'
      BY <1>8, <2>1, DeactivatedRows DEF PollCommits, RowInv, Due, Armed, Here
    <3>2. fired'[j] = 1
      BY <1>0, <1>8, <2>1, <3>1 DEF PollCommits, Fires
    <3> QED BY <3>1, <3>2
  <2>2. CASE j \notin claiming
    <3>1. row'[j] = row[j] /\ fired'[j] = fired[j]
      BY <1>8, <2>2, DeactivatedRows DEF PollCommits, Fires
    <3> QED BY <3>1, <1>2
  <2> QED BY <2>1, <2>2
<1>9. CASE PollFails \/ Crash \/ BeginLoad
  <2>1. UNCHANGED fired /\ commits' # commits + 1
    BY <1>9 DEF PollFails, RollsBack, Crash, BeginLoad, Rows, Handlers, TypeOK
  <2> QED BY <2>1, <1>4
<1>10. CASE \E k \in Jobs : OwnerDeleted(k) \/ RunAtPasses(k)
  <2>1. UNCHANGED fired /\ commits' # commits + 1
    BY <1>10 DEF OwnerDeleted, RunAtPasses, Handlers, TypeOK
  <2> QED BY <2>1, <1>4
<1>11. CASE UNCHANGED <<row, fired>>
  BY <1>11, <1>2
<1>12. CASE \E k \in Jobs : \/ DeleteStops(k) \/ TickEnds(k) \/ TriggerManually(k) \/ ManualEnds(k)
                            \/ \E p \in Task : Tick(k, p)
  BY <1>11, <1>12 DEF DeleteStops, TickEnds, TriggerManually, ManualEnds, Tick, Rows
<1>13. CASE \/ \E l \in loads : LoadReads(l) \/ LoadInstalls(l) \/ LoadFails(l)
            \/ AdminSettings \/ PollClaims \/ PollIdle \/ UNCHANGED vars
  BY <1>11, <1>13 DEF LoadReads, LoadInstalls, LoadFails, AdminSettings, PollClaims, PollIdle, Rows, vars
<1> QED BY <1>5, <1>6, <1>7, <1>8, <1>9, <1>10, <1>12, <1>13 DEF Next

(* Initially nothing has fired.                                            *)
LEMMA FireInit == Init => FireInv
<1> SUFFICES ASSUME Init PROVE FireInv
  OBVIOUS
<1>1. \A j \in Jobs : fired[j] = 0
  BY DEF Init, NoRuns
<1>2. 0 <= 1
  OBVIOUS
<1>3. ASSUME NEW j \in Jobs PROVE fired[j] <= 1 /\ (Armed(j) => fired[j] = 0)
  <2>1. fired[j] = 0
    BY <1>1
  <2> QED BY <1>2, <2>1
<1> QED BY <1>3 DEF FireInv

(* A run_at job fires once at most each time it is set, whatever polls     *)
(* fail, whatever is edited meanwhile, and across restarts.                *)
THEOREM CronOneTimeFiresOnce == Spec => []OneTimeFiresOnce
<1>1. Init => TypeOK /\ RoomInv /\ RowInv /\ FireInv
  BY TypeInit, RowInvInit, FireInit
<1>2. TypeOK /\ RoomInv /\ RowInv /\ FireInv /\ [Next]_vars => (TypeOK /\ RoomInv /\ RowInv /\ FireInv)'
  BY TypeStep, FireStep
<1>3. FireInv => OneTimeFiresOnce
  BY DEF FireInv, OneTimeFiresOnce
<1> QED BY <1>1, <1>2, <1>3, PTL DEF Spec

-----------------------------------------------------------------------------
(* A job that ticks has a task with settings that are a task's.            *)
LEMMA TickingTask ==
  ASSUME TypeOK, NEW j \in Jobs, Ticking(j)
  PROVE  row[j].set.prevent \in Task /\ row[j].set.prevent # None
  BY HereRow, CronAssumption DEF Ticking, Settings, Task

(* The kinds of step the tables see: an edit that will be followed by a    *)
(* reschedule, a step of a reschedule, a restart, a task taken out of the  *)
(* table because its job is gone, and a step that leaves the tables alone. *)
TakesOut(j) ==
  /\ j \in stops \cup orphans
  /\ scheduled' = [scheduled EXCEPT ![j] = None]
  /\ UNCHANGED <<row, leaked, loads, begun, failed, commits, orphans>>

LeavesTables ==
  /\ commits' = commits
  /\ UNCHANGED <<scheduled, leaked, loads, begun, failed, raced>>
  /\ orphans \cup stops \subseteq orphans' \cup stops'
  /\ \A j \in Jobs \ (orphans' \cup stops') : row'[j].is # "gone" \/ row'[j] = row[j]

(* Every step is of one of these kinds.                                    *)
LEMMA TableStep ==
  ASSUME TypeOK, RowInv, [Next]_vars
  PROVE  \/ Reschedules /\ UNCHANGED <<scheduled, leaked, loads, begun, failed, raced, orphans>>
         \/ BeginLoad
         \/ \E l \in loads : LoadReads(l) \/ LoadInstalls(l) \/ LoadFails(l)
         \/ Crash
         \/ \E j \in Jobs : DeleteStops(j)
         \/ \E j \in Jobs : TakesOut(j) /\ UNCHANGED <<stops, raced>>
         \/ LeavesTables
<1>1. ASSUME NEW j \in Jobs, Create(j) \/ Update(j) \/ AgentCreates(j) \/ AgentCancels(j)
      PROVE Reschedules /\ UNCHANGED <<scheduled, leaked, loads, begun, failed, raced, orphans>>
  BY <1>1 DEF Create, Update, AgentCreates, AgentCancels, Changes, Tasks, Loading, Process
<1>2. CASE AdminSettings
  BY <1>2 DEF AdminSettings, Rows, Tasks, Loading, Process
<1>3. ASSUME NEW j \in Jobs, Delete(j) \/ OwnerDeleted(j) \/ RunAtPasses(j) PROVE LeavesTables
  <2>1. \A k \in Jobs : k # j => row'[k] = row[k]
    BY <1>3 DEF Delete, OwnerDeleted, RunAtPasses, Changes, TypeOK
  <2>2. j \in orphans' \cup stops' \/ row'[j].is # "gone"
    <3>1. CASE Delete(j) \/ OwnerDeleted(j)
      BY <3>1 DEF Delete, OwnerDeleted
    <3>2. CASE RunAtPasses(j)
      <4>1. Here(j) /\ row' = [row EXCEPT ![j] = [row[j] EXCEPT !.set.form = "due"]]
        BY <3>2 DEF RunAtPasses
      <4>2. row'[j] = [is |-> "here", set |-> [row[j].set EXCEPT !.form = "due"]]
        BY <4>1, FieldRow DEF TypeOK
      <4> QED BY <4>2
    <3> QED BY <1>3, <3>1, <3>2
  <2>3. /\ commits' = commits /\ UNCHANGED <<scheduled, leaked, loads, begun, failed, raced>>
        /\ orphans \cup stops \subseteq orphans' \cup stops'
    BY <1>3 DEF Delete, OwnerDeleted, RunAtPasses, Changes, Tasks, Loading, Handlers, Process
  <2> QED BY <2>1, <2>2, <2>3 DEF LeavesTables
<1>4. ASSUME NEW j \in Jobs, TickEnds(j) PROVE LeavesTables \/ (TakesOut(j) /\ UNCHANGED <<stops, raced>>)
  BY <1>4 DEF TickEnds, StopsJob, Rows, Loading, Handlers, Process, LeavesTables, TakesOut
<1>5. ASSUME NEW j \in Jobs, TriggerManually(j) \/ ManualEnds(j) \/ \E p \in Task : Tick(j, p)
      PROVE LeavesTables
  BY <1>5 DEF TriggerManually, ManualEnds, Tick, Rows, Tasks, Loading, Handlers, Process, LeavesTables
<1>6. CASE PollClaims \/ PollIdle \/ PollCommits \/ PollFails \/ UNCHANGED vars
  <2>1. \A j \in Jobs : row'[j] = row[j] \/ row'[j].is = "here"
    BY <1>6, DeactivatedRows DEF PollClaims, PollIdle, PollCommits, PollFails, Rows, vars
  <2>2. /\ commits' = commits /\ UNCHANGED <<scheduled, leaked, loads, begun, failed, raced>>
        /\ orphans \cup stops \subseteq orphans' \cup stops'
    BY <1>6 DEF PollClaims, PollIdle, PollCommits, PollFails, Rows, Tasks, Loading, Handlers, Process, vars
  <2> QED BY <2>1, <2>2 DEF LeavesTables
<1> QED BY <1>1, <1>2, <1>3, <1>4, <1>5, <1>6 DEF Next

-----------------------------------------------------------------------------
(* Freshness                                                               *)
LEMMA FreshStep ==
  ASSUME TypeOK, RoomInv, RowInv, FreshInv, [Next]_vars
  PROVE  FreshInv'
<1> SUFFICES ASSUME commits' = 0
    PROVE /\ \A l \in loads' : Latest(l)' /\ l.snap # None
               => \A j \in Jobs : Ticking(j)' => l.snap[j] = row'[j].set.prevent
          /\ (~failed' /\ \A l \in loads' : ~Latest(l)')
               => \A j \in Jobs : Ticking(j)' => row'[j].set.prevent \in Live(j)'
  BY DEF FreshInv
<1> DEFINE Goal == /\ \A l \in loads' : Latest(l)' /\ l.snap # None
                        => \A j \in Jobs : Ticking(j)' => l.snap[j] = row'[j].set.prevent
                   /\ (~failed' /\ \A l \in loads' : ~Latest(l)')
                        => \A j \in Jobs : Ticking(j)' => row'[j].set.prevent \in Live(j)'
<1>0. commits \in Nat /\ begun \in Nat /\ \A l \in loads : l.n \in Nat /\ l.n <= begun
  BY DEF TypeOK, Load
<1>1. CASE Reschedules
  BY <1>0, <1>1 DEF Reschedules
<1>2. CASE BeginLoad \/ Crash
  <2>1. loads' \subseteq loads \cup {[n |-> begun + 1, snap |-> None]} /\ begun' = begun + 1
        /\ [n |-> begun + 1, snap |-> None] \in loads'
    BY <1>2 DEF BeginLoad, Crash
  <2>2. \A l \in loads' : Latest(l)' => l.snap = None
    BY <1>0, <2>1 DEF Latest
  <2>3. \E l \in loads' : Latest(l)'
    BY <2>1 DEF Latest
  <2> QED BY <2>2, <2>3
<1>3. ASSUME NEW j \in Jobs, commits' # commits + 1, Ticking(j)'
      PROVE  Ticking(j) /\ row'[j] = row[j] /\ j \notin stops \cup orphans
  BY <1>3, ScheduleChange DEF RowInv, Ticking, Here
<1>4. CASE LeavesTables
  <2>1. commits = 0 /\ commits' # commits + 1 /\ UNCHANGED <<scheduled, leaked, loads, begun, failed>>
    BY <1>4 DEF LeavesTables
  <2> QED BY <1>3, <2>1 DEF FreshInv, Latest, Live
<1>5. ASSUME NEW k \in Jobs, TakesOut(k) PROVE Goal
  <2>1. commits = 0 /\ commits' # commits + 1 /\ UNCHANGED <<row, leaked, loads, begun, failed>>
        /\ k \in stops \cup orphans /\ scheduled' = [scheduled EXCEPT ![k] = None]
    BY <1>5 DEF TakesOut
  <2>2. \A j \in Jobs : Ticking(j)' => Live(j)' = Live(j)
    BY <1>3, <2>1 DEF Live, TypeOK, Snapshot
  <2> QED BY <1>3, <2>1, <2>2 DEF FreshInv, Latest
<1>6. ASSUME NEW k \in Jobs, DeleteStops(k) PROVE TakesOut(k)
  BY <1>6 DEF DeleteStops, StopsJob, TakesOut, Rows, Loading
<1>7. ASSUME NEW m \in loads, LoadReads(m) PROVE Goal
  <2>1. commits = 0 /\ UNCHANGED <<row, scheduled, leaked, begun, failed>>
        /\ loads' = (loads \ {m}) \cup {[m EXCEPT !.snap = ActiveRows]}
    BY <1>7 DEF LoadReads, Rows, Tasks, Handlers
  <2>2. [m EXCEPT !.snap = ActiveRows].n = m.n /\ [m EXCEPT !.snap = ActiveRows].snap = ActiveRows
    BY DEF TypeOK, Load
  <2>3. \A j \in Jobs : Ticking(j) => ActiveRows[j] = row[j].set.prevent
    BY DEF ActiveRows
  <2>4. ASSUME \A l \in loads' : ~Latest(l)' PROVE \A l \in loads : ~Latest(l)
    BY <2>1, <2>2, <2>4 DEF Latest
  <2>5. \A j \in Jobs : (Ticking(j)' <=> Ticking(j)) /\ Live(j)' = Live(j)
    BY <2>1 DEF Ticking, Here, Live
  <2>6. ASSUME NEW l \in loads', Latest(l)', l.snap # None, NEW j \in Jobs, Ticking(j)'
        PROVE  l.snap[j] = row'[j].set.prevent
    <3>1. CASE l = [m EXCEPT !.snap = ActiveRows]
      BY <2>1, <2>2, <2>3, <2>5, <2>6, <3>1
    <3>2. CASE l \in loads
      BY <2>1, <2>5, <2>6, <3>2 DEF FreshInv, Latest
    <3> QED BY <2>1, <3>1, <3>2
  <2>7. ASSUME ~failed', \A l \in loads' : ~Latest(l)', NEW j \in Jobs, Ticking(j)'
        PROVE  row'[j].set.prevent \in Live(j)'
    BY <2>1, <2>4, <2>5, <2>7 DEF FreshInv
  <2> QED BY <2>6, <2>7
<1>8. ASSUME NEW m \in loads, LoadInstalls(m) PROVE Goal
  <2>1. commits = 0 /\ UNCHANGED <<row, begun, failed>> /\ loads' = loads \ {m} /\ m.snap # None
        /\ Installs(m.snap)
    BY <1>8 DEF LoadInstalls, Rows, Handlers
  <2>2. \A j \in Jobs : Ticking(j)' <=> Ticking(j)
    BY <2>1 DEF Ticking, Here
  <2>3. ASSUME NEW j \in Jobs PROVE Live(j) \subseteq Live(j)'
    BY <2>1 DEF Installs, Live
  <2>4. ASSUME NEW j \in Jobs, Ticking(j), Latest(m) PROVE row[j].set.prevent \in Live(j)'
    <3>1. m.snap[j] = row[j].set.prevent /\ m.snap[j] # None
      BY <2>1, <2>4, TickingTask DEF FreshInv
    <3> QED BY <2>1, <3>1 DEF Installs, Live
  <2>5. ASSUME NEW j \in Jobs, Ticking(j), ~failed, \A l \in loads' : ~Latest(l)', ~Latest(m)
        PROVE row[j].set.prevent \in Live(j)'
    <3>1. \A l \in loads : ~Latest(l)
      BY <2>1, <2>5 DEF Latest
    <3> QED BY <2>1, <2>3, <2>5, <3>1 DEF FreshInv
  <2> QED BY <2>1, <2>2, <2>4, <2>5 DEF FreshInv, Latest
<1>9. ASSUME NEW m \in loads, LoadFails(m) PROVE Goal
  <2>1. commits = 0 /\ UNCHANGED <<row, scheduled, leaked, begun>> /\ loads' = loads \ {m}
        /\ failed' = (failed \/ Latest(m))
    BY <1>9 DEF LoadFails, Rows, Tasks, Handlers
  <2>2. \A j \in Jobs : (Ticking(j)' <=> Ticking(j)) /\ Live(j)' = Live(j)
    BY <2>1 DEF Ticking, Here, Live
  <2> QED BY <2>1, <2>2 DEF FreshInv, Latest
<1> QED BY <1>1, <1>2, <1>4, <1>5, <1>6, <1>7, <1>8, <1>9, TableStep

(* The first reschedule has not read anything.                             *)
LEMMA FreshInit == Init => FreshInv
  BY DEF Init, FreshInv, Latest

(* However many reschedules overlap, and in whatever order the database    *)
(* answers them, an edit whose own reschedule is through and did not fail  *)
(* is in effect: each active schedule has a task with its latest settings. *)
THEOREM CronEditTakesEffect == Spec => []EditTakesEffect
<1>1. Init => TypeOK /\ RoomInv /\ RowInv /\ FreshInv
  BY TypeInit, RowInvInit, FreshInit
<1>2. TypeOK /\ RoomInv /\ RowInv /\ FreshInv /\ [Next]_vars => (TypeOK /\ RoomInv /\ RowInv /\ FreshInv)'
  BY TypeStep, FreshStep
<1>3. FreshInv => EditTakesEffect
  BY DEF FreshInv, EditTakesEffect
<1> QED BY <1>1, <1>2, <1>3, PTL DEF Spec

-----------------------------------------------------------------------------
(* Calls of rescheduleAll one at a time. A step that is no edit leaves     *)
(* what rescheduleAll would select, except for jobs whose row it removes.  *)
LEMMA SelectedRows ==
  ASSUME TypeOK, RowInv, [Next]_vars, LeavesTables, NEW j \in Jobs \ (orphans' \cup stops')
  PROVE  ActiveRows'[j] = ActiveRows[j]
<1>1. commits' # commits + 1
  BY DEF LeavesTables, TypeOK
<1>2. CASE row'[j].is # "gone"
  <2>1. (Ticking(j)' <=> Ticking(j)) /\ (Ticking(j) => row'[j] = row[j])
    BY <1>1, <1>2, ScheduleChange
  <2> QED BY <2>1 DEF ActiveRows
<1>3. CASE row'[j] = row[j]
  BY <1>3 DEF ActiveRows, Ticking, Here
<1> QED BY <1>2, <1>3 DEF LeavesTables

(* Without a race, a step leaves one reschedule at most, which finds the   *)
(* table empty, and then leaves it in step with the rows.                  *)
LEMMA SerialStep ==
  ASSUME TypeOK, RowInv, SerialInv, [Next]_vars, ~raced'
  PROVE  SerialInv'
<1>1. CASE Reschedules /\ UNCHANGED <<scheduled, leaked, loads, begun, failed, raced, orphans>>
  <2>1. commits' # 0
    BY <1>1 DEF Reschedules, TypeOK
  <2>2. \A l \in loads : Latest(l)' <=> Latest(l)
    BY <1>1 DEF Latest
  <2> QED BY <1>1, <2>1, <2>2 DEF SerialInv
<1>2. CASE BeginLoad \/ Crash
  <2>1. /\ \A j \in Jobs : leaked'[j] = {}
        /\ loads' = {[n |-> begun + 1, snap |-> None]}
        /\ begun' = begun + 1 /\ scheduled' = NoTasks
    BY <1>2 DEF BeginLoad, Crash, StopsTasks, SerialInv
  <2>2. \A l \in loads' : l.n = begun' /\ l.snap = None
    BY <2>1
  <2>3. (\A l \in loads' : Latest(l)') /\ loads' # {}
    BY <2>1, <2>2 DEF Latest
  <2>4. \A l, m \in loads' : l = m
    BY <2>1
  <2> QED BY <2>1, <2>2, <2>3, <2>4 DEF SerialInv, NoTasks
<1>3. ASSUME NEW m \in loads, LoadReads(m) PROVE SerialInv'
  <2>1. /\ UNCHANGED <<row, scheduled, leaked, begun, failed, commits, stops, orphans, raced>>
        /\ loads' = (loads \ {m}) \cup {[m EXCEPT !.snap = ActiveRows]}
    BY <1>3 DEF LoadReads, Rows, Tasks, Handlers, Process
  <2>2. loads = {m} /\ Latest(m) /\ scheduled = NoTasks /\ \A j \in Jobs : leaked[j] = {}
    BY <2>1 DEF SerialInv
  <2>3. [m EXCEPT !.snap = ActiveRows].n = m.n /\ [m EXCEPT !.snap = ActiveRows].snap = ActiveRows
    BY DEF TypeOK, Load
  <2>4. loads' = {[m EXCEPT !.snap = ActiveRows]}
    BY <2>1, <2>2
  <2>5. \A l \in loads' : Latest(l)' /\ l.snap = ActiveRows
    BY <2>1, <2>2, <2>3, <2>4 DEF Latest
  <2>6. ActiveRows' = ActiveRows
    BY <2>1 DEF ActiveRows, Ticking, Here
  <2>7. (\A l, n \in loads' : l = n) /\ loads' # {}
    BY <2>4
  <2> QED BY <2>1, <2>2, <2>5, <2>6, <2>7 DEF SerialInv
<1>4. ASSUME NEW m \in loads, LoadInstalls(m) PROVE SerialInv'
  <2>1. /\ UNCHANGED <<row, begun, failed, commits, stops, orphans, raced>>
        /\ loads' = loads \ {m} /\ m.snap # None /\ Installs(m.snap)
    BY <1>4 DEF LoadInstalls, Rows, Handlers
  <2>2. loads' = {} /\ scheduled = NoTasks /\ \A j \in Jobs : leaked[j] = {}
    BY <2>1 DEF SerialInv
  <2>3. \A j \in Jobs : Live(j) = {}
    BY <2>2 DEF Live, NoTasks
  <2>4. \A j \in Jobs : leaked'[j] = {} /\ scheduled'[j] = m.snap[j]
    BY <2>1, <2>2, <2>3 DEF Installs, NoTasks
  <2>5. ActiveRows' = ActiveRows
    BY <2>1 DEF ActiveRows, Ticking, Here
  <2>6. commits = 0 => \A j \in Jobs \ (orphans \cup stops) : m.snap[j] = ActiveRows[j]
    BY <2>1 DEF SerialInv
  <2> QED BY <2>1, <2>2, <2>4, <2>5, <2>6 DEF SerialInv
<1>5. ASSUME NEW m \in loads, LoadFails(m) PROVE SerialInv'
  <2>1. UNCHANGED <<leaked, raced>> /\ loads' = loads \ {m} /\ failed' = (failed \/ Latest(m))
    BY <1>5 DEF LoadFails, Tasks
  <2>2. loads' = {} /\ Latest(m) /\ \A j \in Jobs : leaked[j] = {}
    BY <2>1 DEF SerialInv
  <2> QED BY <2>1, <2>2 DEF SerialInv
<1>6. ASSUME NEW k \in Jobs, DeleteStops(k) PROVE SerialInv'
  <2>1. /\ UNCHANGED <<row, orphans, leaked, loads, begun, failed, commits>>
        /\ k \in stops /\ stops' = stops \ {k} /\ scheduled' = [scheduled EXCEPT ![k] = None]
        /\ ~raced /\ \A l \in loads : l.snap # None => l.snap[k] = None
    BY <1>6 DEF DeleteStops, StopsJob, Rows, Loading
  <2>2. ActiveRows' = ActiveRows /\ ActiveRows[k] = None
    BY <2>1 DEF ActiveRows, Ticking, Here, RowInv
  <2>3. scheduled'[k] = None /\ \A j \in Jobs \ {k} : scheduled'[j] = scheduled[j]
    BY <2>1 DEF TypeOK, Snapshot
  <2>4. scheduled = NoTasks => scheduled' = NoTasks
    BY <2>1 DEF NoTasks
  <2>5. \A l \in loads : Latest(l)' <=> Latest(l)
    BY <2>1 DEF Latest
  <2>6. \A j \in Jobs \ (orphans' \cup stops') : j = k \/ j \in Jobs \ (orphans \cup stops)
    BY <2>1
  <2> QED BY <2>1, <2>2, <2>3, <2>4, <2>5, <2>6 DEF SerialInv
<1>7. ASSUME NEW k \in Jobs, TakesOut(k), UNCHANGED <<stops, raced>> PROVE SerialInv'
  <2>1. /\ UNCHANGED <<row, orphans, stops, raced, leaked, loads, begun, failed, commits>>
        /\ k \in stops \cup orphans /\ scheduled' = [scheduled EXCEPT ![k] = None]
    BY <1>7 DEF TakesOut
  <2>2. ActiveRows' = ActiveRows
    BY <2>1 DEF ActiveRows, Ticking, Here
  <2>3. \A j \in Jobs \ {k} : scheduled'[j] = scheduled[j]
    BY <2>1 DEF TypeOK, Snapshot
  <2>4. scheduled = NoTasks => scheduled' = NoTasks
    BY <2>1 DEF NoTasks
  <2>5. \A l \in loads : Latest(l)' <=> Latest(l)
    BY <2>1 DEF Latest
  <2> QED BY <2>1, <2>2, <2>3, <2>4, <2>5 DEF SerialInv
<1>8. CASE LeavesTables
  <2>1. UNCHANGED <<scheduled, leaked, loads, begun, failed, raced, commits>>
    BY <1>8 DEF LeavesTables
  <2>2. \A j \in Jobs \ (orphans' \cup stops') :
          ActiveRows'[j] = ActiveRows[j] /\ j \in Jobs \ (orphans \cup stops)
    BY <1>8, SelectedRows DEF LeavesTables
  <2>3. \A l \in loads : Latest(l)' <=> Latest(l)
    BY <2>1 DEF Latest
  <2> QED BY <2>1, <2>2, <2>3 DEF SerialInv
<1> QED BY <1>1, <1>2, <1>3, <1>4, <1>5, <1>6, <1>7, <1>8, TableStep

(* The first reschedule starts alone, on an empty table.                   *)
LEMMA SerialInit == Init => SerialInv
<1> SUFFICES ASSUME Init PROVE SerialInv
  OBVIOUS
<1>1. /\ loads = {[n |-> 1, snap |-> None]} /\ begun = 1 /\ scheduled = NoTasks
      /\ \A j \in Jobs : leaked[j] = {}
  BY DEF Init
<1>2. loads # {} /\ (\A l, m \in loads : l = m) /\ \A l \in loads : Latest(l) /\ l.snap = None
  BY <1>1 DEF Latest
<1> QED BY <1>1, <1>2 DEF SerialInv

(* As long as reschedules and DELETEs take turns, the tasks are exactly    *)
(* those of the active schedules, in every order of edits, executions,     *)
(* failing polls and restarts: what goes wrong needs an overlap.           *)
THEOREM CronSerialEditsAreExact == Spec => []SerialEditsAreExact
<1>1. Init => TypeOK /\ RoomInv /\ RowInv /\ SerialInv
  BY TypeInit, RowInvInit, SerialInit
<1>2. TypeOK /\ RoomInv /\ RowInv /\ SerialInv /\ [Next]_vars => (TypeOK /\ RoomInv /\ RowInv /\ SerialInv)'
  <2>1. raced' => SerialInv'
    BY DEF SerialInv
  <2> QED BY <2>1, TypeStep, SerialStep
<1>3. SerialInv => SerialEditsAreExact
  BY DEF SerialInv, SerialEditsAreExact
<1> QED BY <1>1, <1>2, <1>3, PTL DEF Spec
=============================================================================
