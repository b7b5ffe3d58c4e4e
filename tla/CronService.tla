---------------------------- MODULE CronService ----------------------------
(***************************************************************************)
(* The scheduler of automated runs: CronService with its two in-memory     *)
(* tables (scheduledJobs, activeJobRuns), the rows of app.cron_jobs, the   *)
(* API handlers and agent tools that change them, and the owner's account. *)
(*                                                                         *)
(* rescheduleAll stops and forgets every task at once, but schedules anew  *)
(* only when the database has answered, and nothing keeps two calls of it  *)
(* apart. What the code does between two awaits is one action; the reading *)
(* of the rows in the database is an action of its own, as the answer may  *)
(* arrive after that of a later statement on another connection.           *)
(***************************************************************************)
EXTENDS Naturals

CONSTANTS Jobs,        \* ids of jobs, used once each
          None,        \* no task, no snapshot
          MaxLoads,    \* bound: calls of rescheduleAll
          MaxRuns,     \* bound: executions of a job at a time, by the same trigger
          MaxCrashes   \* bound: restarts of the host

ASSUME CronAssumption ==
  /\ None \notin BOOLEAN
  /\ MaxLoads \in Nat \ {0}
  /\ MaxRuns \in Nat \ {0}
  /\ MaxCrashes \in Nat

VARIABLES
  row,        \* row[j]: the row of job j in app.cron_jobs
  orphans,    \* jobs whose rows went with the account of their owner
  up,         \* start() is through: the API is served, polls are made
  scheduled,  \* scheduledJobs: the task of a job, by its captured prevent_overlap
  leaked,     \* leaked[j]: tasks of job j that run but are in no table
  loads,      \* calls of rescheduleAll in flight
  begun,      \* how many calls of rescheduleAll have begun (bound)
  failed,     \* the latest of them failed
  commits,    \* handlers that have committed and are about to reschedule
  stops,      \* jobs whose DELETE has committed and is about to stop the task
  marks,      \* activeJobRuns
  ticks,      \* ticks[j]: executions of j that its schedule started
  manuals,    \* manuals[j]: executions of j that a user started
  claiming,   \* run_at jobs updated by the open transaction of a poll
  fired,      \* history: executions of a run_at job since it was last set
  crowded,    \* history: jobs with several executions since they last had none
  raced,      \* history: calls of rescheduleAll, or one and a DELETE, overlapped
  crashes     \* restarts so far (bound)

vars == <<row, orphans, up, scheduled, leaked, loads, begun, failed, commits, stops,
          marks, ticks, manuals, claiming, fired, crowded, raced, crashes>>

Rows       == <<row, orphans, fired>>
Tasks      == <<scheduled, leaked>>
Loading    == <<loads, begun, failed>>
Handlers   == <<commits, stops>>
Executions == <<marks, ticks, manuals, crowded>>
Process    == <<up, raced, crashes>>

-----------------------------------------------------------------------------
(* "due" is a run_at in the past; a row has a schedule or a run_at.        *)
Settings == [form : {"cron", "once", "due"}, active : BOOLEAN, prevent : BOOLEAN]
Row      == [is : {"new", "gone"}] \cup [is : {"here"}, set : Settings]
Task     == BOOLEAN
Snapshot == [Jobs -> Task \cup {None}]
Load     == [n : 1 .. MaxLoads, snap : Snapshot \cup {None}]

Here(j)     == row[j].is = "here"
Ticking(j)  == Here(j) /\ row[j].set.active /\ row[j].set.form = "cron"
Due         == {j \in Jobs : Here(j) /\ row[j].set.active /\ row[j].set.form = "due"}
Live(j)     == leaked[j] \cup ({scheduled[j]} \ {None})
Busy(j)     == ticks[j] + manuals[j] > 0
NoTasks     == [j \in Jobs |-> None]
NoRuns      == [j \in Jobs |-> 0]

(* What rescheduleAll selects and scheduleJob does not skip.               *)
ActiveRows == [j \in Jobs |-> IF Ticking(j) THEN row[j].set.prevent ELSE None]

Latest(l) == l.n = begun

Init ==
  /\ row \in [Jobs -> [is : {"new"}] \cup [is : {"here"}, set : Settings]]
  /\ orphans = {}
  /\ up = FALSE
  /\ scheduled = NoTasks
  /\ leaked = [j \in Jobs |-> {}]
  /\ loads = {[n |-> 1, snap |-> None]}
  /\ begun = 1
  /\ failed = FALSE
  /\ commits = 0
  /\ stops = {}
  /\ marks = {}
  /\ ticks = NoRuns
  /\ manuals = NoRuns
  /\ claiming = {}
  /\ fired = NoRuns
  /\ crowded = {}
  /\ raced = FALSE
  /\ crashes = 0

-----------------------------------------------------------------------------
(* The handlers, up to their COMMIT.                                       *)

(* A row that an open poll has updated is locked.                          *)
Served(j) == up /\ j \notin claiming

Changes(j, to) ==
  /\ row' = [row EXCEPT ![j] = to]
  /\ fired' = [fired EXCEPT ![j] = 0]
  /\ UNCHANGED orphans

(* Every change that commits is followed by a rescheduleAll.               *)
Reschedules ==
  /\ begun + commits < MaxLoads
  /\ commits' = commits + 1
  /\ UNCHANGED stops

(* POST /api/cron *)
Create(j) ==
  /\ Served(j) /\ row[j].is = "new"
  /\ \E s \in Settings : Changes(j, [is |-> "here", set |-> s])
  /\ Reschedules
  /\ UNCHANGED <<Tasks, Loading, Executions, Process, claiming>>

(* PATCH /api/cron/:id: the fields the body names. Only a new run_at or a  *)
(* renewed activation lets a run_at job fire again.                        *)
Update(j) ==
  /\ Served(j) /\ Here(j)
  /\ \E s \in Settings :
       /\ row' = [row EXCEPT ![j].set = s]
       /\ fired' = IF s.active # row[j].set.active \/ s.form # row[j].set.form
                   THEN [fired EXCEPT ![j] = 0] ELSE fired
  /\ Reschedules
  /\ UNCHANGED <<orphans, Tasks, Loading, Executions, Process, claiming>>

(* DELETE /api/cron/:id *)
Delete(j) ==
  /\ Served(j) /\ Here(j)
  /\ Changes(j, [is |-> "gone"])
  /\ stops' = stops \cup {j}
  /\ UNCHANGED <<commits, Tasks, Loading, Executions, Process, claiming>>

(* create_schedule of an agent *)
AgentCreates(j) ==
  /\ Served(j) /\ row[j].is = "new"
  /\ \E form \in {"cron", "once"} :
       Changes(j, [is |-> "here", set |-> [form |-> form, active |-> TRUE, prevent |-> TRUE]])
  /\ Reschedules
  /\ UNCHANGED <<Tasks, Loading, Executions, Process, claiming>>

(* cancel_schedule of an agent *)
AgentCancels(j) ==
  /\ Served(j) /\ Here(j)
  /\ row' = [row EXCEPT ![j].set.active = FALSE]
  /\ Reschedules
  /\ UNCHANGED <<orphans, fired, Tasks, Loading, Executions, Process, claiming>>

(* PATCH /admin/settings: the time zone may have changed.                  *)
AdminSettings ==
  /\ up
  /\ Reschedules
  /\ UNCHANGED <<Rows, Tasks, Loading, Executions, Process, claiming>>

(* The owner's account is deleted, and with it its jobs; nobody tells the  *)
(* scheduler.                                                              *)
OwnerDeleted(j) ==
  /\ Served(j) /\ Here(j)
  /\ row' = [row EXCEPT ![j] = [is |-> "gone"]]
  /\ orphans' = orphans \cup {j}
  /\ UNCHANGED <<fired, Tasks, Loading, Handlers, Executions, Process, claiming>>

(* The clock reaches a run_at. *)
RunAtPasses(j) ==
  /\ Here(j) /\ row[j].set.form = "once"
  /\ row' = [row EXCEPT ![j].set.form = "due"]
  /\ UNCHANGED <<orphans, fired, Tasks, Loading, Handlers, Executions, Process, claiming>>

-----------------------------------------------------------------------------
(* rescheduleAll *)

(* Every task of the table is stopped; a task in no table is not reached.  *)
StopsTasks ==
  /\ scheduled' = NoTasks
  /\ UNCHANGED leaked

BeginLoad ==
  /\ commits > 0
  /\ commits' = commits - 1
  /\ StopsTasks
  /\ begun' = begun + 1
  /\ loads' = loads \cup {[n |-> begun + 1, snap |-> None]}
  /\ failed' = FALSE
  /\ raced' = (raced \/ loads # {})
  /\ UNCHANGED <<Rows, stops, Executions, claiming, up, crashes>>

(* SELECT * FROM app.cron_jobs WHERE active = true *)
LoadReads(l) ==
  /\ l.snap = None
  /\ loads' = (loads \ {l}) \cup {[l EXCEPT !.snap = ActiveRows]}
  /\ UNCHANGED <<Rows, Tasks, begun, failed, Handlers, Executions, claiming, Process>>

\* Mutant: a job's task is stopped when another one takes its place in the table.
InstallsAndStops(snap) ==
  /\ scheduled' = [j \in Jobs |-> IF snap[j] # None THEN snap[j] ELSE scheduled[j]]
  /\ UNCHANGED leaked

(* scheduleJob for every row: the task of an id that is in the table is    *)
(* replaced there, and goes on ticking.                                    *)
Installs(snap) ==
  /\ scheduled' = [j \in Jobs |-> IF snap[j] # None THEN snap[j] ELSE scheduled[j]]
  /\ leaked' = [j \in Jobs |-> IF snap[j] # None THEN Live(j) ELSE leaked[j]]

LoadInstalls(l) ==
  /\ l.snap # None
  /\ Installs(l.snap)
  /\ loads' = loads \ {l}
  /\ up' = TRUE
  /\ UNCHANGED <<Rows, begun, failed, Handlers, Executions, claiming, raced, crashes>>

(* The database refuses: the tables stay as they are.                      *)
LoadFails(l) ==
  /\ loads' = loads \ {l}
  /\ failed' = (failed \/ Latest(l))
  /\ up' = TRUE
  /\ UNCHANGED <<Rows, Tasks, begun, Handlers, Executions, claiming, raced, crashes>>

(* stopJob, after a DELETE has committed. *)
StopsJob(j) == scheduled' = [scheduled EXCEPT ![j] = None]

DeleteStops(j) ==
  /\ j \in stops
  /\ stops' = stops \ {j}
  /\ StopsJob(j)
  /\ raced' = (raced \/ \E l \in loads : l.snap # None /\ l.snap[j] # None)
  /\ UNCHANGED <<Rows, leaked, Loading, commits, Executions, claiming, up, crashes>>

-----------------------------------------------------------------------------
(* Executions *)

(* activeJobRuns.add. *)
Marks(j) ==
  /\ marks' = marks \cup {j}
  /\ crowded' = IF Busy(j) THEN crowded \cup {j} ELSE crowded

(* The history when an execution of j ends. *)
LeavesCrowd(j) ==
  crowded' = IF ticks[j] + manuals[j] = 1 THEN crowded \ {j} ELSE crowded

(* The previous run is still active. *)
Skips(j) == UNCHANGED Executions

(* A task of job j fires that has captured prevent_overlap = p.            *)
Tick(j, p) ==
  /\ p \in Live(j)
  /\ IF p /\ j \in marks
     THEN Skips(j)
     ELSE /\ ticks[j] < MaxRuns
          /\ ticks' = [ticks EXCEPT ![j] = @ + 1]
          /\ Marks(j)
          /\ UNCHANGED manuals
  /\ UNCHANGED <<Rows, Tasks, Loading, Handlers, claiming, Process>>

\* Mutant: the mark is released only by an execution that went well.
UnmarksOnSuccess(j, well) == marks' = IF well THEN marks \ {j} ELSE marks

(* finally: activeJobRuns.delete. *)
Unmarks(j, well) == marks' = marks \ {j}

(* An execution that the schedule started ends, well or not; one that      *)
(* finds its owner deleted takes its job's task out of the table.          *)
TickEnds(j) ==
  /\ ticks[j] > 0
  /\ ticks' = [ticks EXCEPT ![j] = @ - 1]
  /\ \E well \in BOOLEAN :
       /\ Unmarks(j, well)
       /\ \/ UNCHANGED scheduled
          \/ j \in orphans /\ ~well /\ StopsJob(j)
  /\ LeavesCrowd(j)
  /\ UNCHANGED <<Rows, leaked, Loading, Handlers, manuals, claiming, Process>>

(* POST /api/cron/:id/run *)
TriggerManually(j) ==
  /\ up /\ Here(j)
  /\ manuals[j] < MaxRuns
  /\ manuals' = [manuals EXCEPT ![j] = @ + 1]
  /\ Marks(j)
  /\ UNCHANGED <<Rows, Tasks, Loading, Handlers, ticks, claiming, Process>>

ManualEnds(j) ==
  /\ manuals[j] > 0
  /\ manuals' = [manuals EXCEPT ![j] = @ - 1]
  /\ \E well \in BOOLEAN : Unmarks(j, well)
  /\ LeavesCrowd(j)
  /\ UNCHANGED <<Rows, Tasks, Loading, Handlers, ticks, claiming, Process>>

-----------------------------------------------------------------------------
(* checkRunAtJobs *)

(* The UPDATE. That of another poll waits for the rows this one locks.     *)
PollClaims ==
  /\ up /\ claiming = {} /\ Due # {}
  /\ claiming' = Due
  /\ UNCHANGED <<Rows, Tasks, Loading, Handlers, Executions, Process>>

PollIdle == up /\ claiming = {} /\ Due = {} /\ UNCHANGED vars

\* Mutant: the claim leaves the row active, to be deactivated after the run.
StaysActive(js) == row

Deactivated(js) ==
  [j \in Jobs |-> IF j \in js THEN [row[j] EXCEPT !.set.active = FALSE] ELSE row[j]]

(* The history does not tell more than two executions apart.               *)
Fires(js) ==
  fired' = [j \in Jobs |-> IF j \in js /\ fired[j] < 2 THEN fired[j] + 1 ELSE fired[j]]

(* COMMIT: the rows are inactive, the executions start.                    *)
PollCommits ==
  /\ claiming # {}
  /\ row' = Deactivated(claiming)
  /\ Fires(claiming)
  /\ claiming' = {}
  /\ UNCHANGED <<orphans, Tasks, Loading, Handlers, Executions, Process>>

\* Mutant: the executions were started before the COMMIT that failed.
RollsBackAfterStart(js) == Fires(js) /\ claiming' = {}

RollsBack(js) == UNCHANGED fired /\ claiming' = {}

(* The transaction fails; if only the answer to the COMMIT is lost, the    *)
(* rows are inactive all the same.                                         *)
PollFails ==
  /\ claiming # {}
  /\ row' \in {row, Deactivated(claiming)}
  /\ RollsBack(claiming)
  /\ UNCHANGED <<orphans, Tasks, Loading, Handlers, Executions, Process>>

-----------------------------------------------------------------------------
(* The host stops and starts again; the database finishes or undoes what   *)
(* an open poll has updated.                                               *)
Crash ==
  /\ crashes < MaxCrashes /\ begun < MaxLoads
  /\ crashes' = crashes + 1
  /\ row' \in {row, Deactivated(claiming)}
  /\ up' = FALSE
  /\ scheduled' = NoTasks
  /\ leaked' = [j \in Jobs |-> {}]
  /\ begun' = begun + 1
  /\ loads' = {[n |-> begun + 1, snap |-> None]}
  /\ failed' = FALSE
  /\ commits' = 0
  /\ stops' = {}
  /\ marks' = {}
  /\ ticks' = NoRuns
  /\ manuals' = NoRuns
  /\ crowded' = {}
  /\ claiming' = {}
  /\ raced' = FALSE
  /\ UNCHANGED <<orphans, fired>>

Next ==
  \/ \E j \in Jobs :
       \/ Create(j) \/ Update(j) \/ Delete(j) \/ AgentCreates(j) \/ AgentCancels(j)
       \/ OwnerDeleted(j) \/ RunAtPasses(j) \/ DeleteStops(j)
       \/ TickEnds(j) \/ TriggerManually(j) \/ ManualEnds(j)
       \/ \E p \in Task : Tick(j, p)
  \/ \E l \in loads : LoadReads(l) \/ LoadInstalls(l) \/ LoadFails(l)
  \/ AdminSettings \/ BeginLoad
  \/ PollClaims \/ PollIdle \/ PollCommits \/ PollFails
  \/ Crash

(* A poll is made every 30 seconds, a transaction ends, and the database   *)
(* does not refuse every one of them.                                      *)
Fairness ==
  /\ WF_vars(PollClaims)
  /\ WF_vars(PollCommits \/ PollFails)
  /\ SF_vars(PollCommits)
  /\ \A n \in 1 .. MaxLoads :
       WF_vars(\E l \in loads : l.n = n /\ (LoadReads(l) \/ LoadInstalls(l) \/ LoadFails(l)))

Spec == Init /\ [][Next]_vars

FairSpec == Spec /\ Fairness

-----------------------------------------------------------------------------
(* Every variable keeps its shape; the calls of rescheduleAll in flight    *)
(* are among those that have begun.                                        *)
TypeOK ==
  /\ row \in [Jobs -> Row]
  /\ orphans \in SUBSET Jobs
  /\ up \in BOOLEAN
  /\ scheduled \in Snapshot
  /\ leaked \in [Jobs -> SUBSET Task]
  /\ loads \in SUBSET Load /\ \A l \in loads : l.n <= begun
  /\ begun \in 1 .. MaxLoads
  /\ failed \in BOOLEAN
  /\ commits \in 0 .. MaxLoads
  /\ stops \in SUBSET Jobs
  /\ marks \in SUBSET Jobs
  /\ ticks \in [Jobs -> 0 .. MaxRuns]
  /\ manuals \in [Jobs -> 0 .. MaxRuns]
  /\ claiming \in SUBSET Jobs
  /\ fired \in [Jobs -> 0 .. 2]
  /\ crowded \in SUBSET Jobs
  /\ raced \in BOOLEAN
  /\ crashes \in 0 .. MaxCrashes

(* Once every change has been followed by its rescheduleAll, and the last  *)
(* of these did not fail, each active schedule has a task with its latest  *)
(* settings, in whatever order the calls were answered.                    *)
EditTakesEffect ==
  (commits = 0 /\ ~failed /\ \A l \in loads : ~Latest(l))
  => \A j \in Jobs : Ticking(j) => row[j].set.prevent \in Live(j)

(* As long as no two calls of rescheduleAll overlapped, nor one of them    *)
(* and a DELETE, exactly the active schedules have a task, and one each;   *)
(* the jobs of a deleted owner lose theirs at the next tick.               *)
SerialEditsAreExact ==
  (~raced /\ loads = {} /\ commits = 0 /\ stops = {} /\ ~failed)
  => \A j \in Jobs \ orphans : scheduled[j] = ActiveRows[j] /\ leaked[j] = {}

(* The mark of a job goes with its last execution, so that the job is not  *)
(* skipped for ever; and a job whose executions never overlapped is marked *)
(* all the time it executes, so that the schedule does not start another.  *)
MarksFollowRuns ==
  \A j \in Jobs : /\ j \in marks => Busy(j)
                  /\ Busy(j) /\ j \notin crowded => j \in marks

(* A run_at job that is set once fires once at most, across failed         *)
(* transactions and restarts.                                              *)
OneTimeFiresOnce == \A j \in Jobs : fired[j] <= 1

(* A run_at job that is due does not stay due: it is claimed, or changed.  *)
DueJobIsClaimed == \A j \in Jobs : (up /\ j \in Due) ~> (~up \/ j \notin Due)
=============================================================================
