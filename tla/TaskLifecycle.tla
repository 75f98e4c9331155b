---------------------------- MODULE TaskLifecycle ----------------------------
(***************************************************************************)
(* The task reports of participact-server: one database row per assignment *)
(* of a task to a user, the REST handlers that move a row from state to    *)
(* state, the administrator's two ways of touching rows, and the hourly    *)
(* maintenance job.                                                        *)
(*                                                                         *)
(* No controller is transactional.  Each service call is a transaction of  *)
(* its own, so a handler that loads a report and saves it again is two     *)
(* steps here, with the detached copy it loaded ("snap") in between.  Any  *)
(* number of handlers, administrators and the job interleave.              *)
(***************************************************************************)
EXTENDS Integers, Sequences, FiniteSets

CONSTANTS
  User,         \* the users a task can be assigned to
  Task,         \* the tasks that can be created
  Request,      \* the HTTP worker threads, one in-flight request each
  Admin,        \* administrator sessions that add users to a task
  Duration,     \* Duration[t]: minutes (ticks) from acceptance to expiry
  Deadlines,    \* the deadlines a task may be created with
  AdminState,   \* the states an administrator may add to a history by hand
  StepTask,     \* the tasks that are steps of a pipeline
  MaxTime,      \* bound: last tick of the clock
  MaxCopies,    \* bound: rows for one user and one task
  MaxRequests,  \* bound: requests ever started
  MaxCrashes    \* bound: restarts of the server

Time == 1 .. MaxTime

\* The clock starts at 1, so 0 can stand for a null timestamp column.
Null == 0

TaskState ==
  { "AVAILABLE", "ACCEPTED", "RUNNING", "REJECTED", "FAILED", "INTERRUPTED",
    "ERROR", "UNKNOWN", "SUSPENDED", "ANY", "COMPLETED_NOT_SYNC_WITH_SERVER",
    "COMPLETED_WITH_SUCCESS", "COMPLETED_WITH_FAILURE", "IGNORED" }

\* The four REST calls of a phone, and the state each one records.
UserOp == { "accept", "reject", "complete", "fail" }

StateOf == [ accept   |-> "RUNNING",
             reject   |-> "REJECTED",
             complete |-> "COMPLETED_WITH_SUCCESS",
             fail     |-> "COMPLETED_WITH_FAILURE" ]

\* Who wrote a history entry; the column "by" is not in the database, it is
\* a history variable the properties need.
Writer == UserOp \cup { "assign", "admin", "job" }

ASSUME ConstantsAssumption ==
  /\ MaxTime \in Nat \ {0}
  /\ MaxCopies \in Nat \ {0}
  /\ MaxRequests \in Nat
  /\ MaxCrashes \in Nat
  /\ Duration \in [Task -> Nat \ {0}]
  /\ Deadlines \subseteq Time
  /\ AdminState \subseteq TaskState
  /\ StepTask \subseteq Task
  /\ IsFiniteSet(Request)

\* A row is named by its user, its task and a copy number: nothing in the
\* schema makes (user, task) unique, so there may be several copies.
ReportId == User \X Task \X (1 .. MaxCopies)

Entry == [state : TaskState, timestamp : Nat, by : Writer]

Row == [currentState : TaskState, accepted : Nat, expiration : Nat,
        history : Seq(Entry)]

VARIABLES
  now,       \* the server's clock
  deadline,  \* deadline[t]; Null while the task is not saved
  report,    \* the TaskReport table: a function from the ids in use to rows
  req,       \* req[i]: what HTTP worker i is doing
  tx,        \* tx[a]: the open addUsersToTask transaction of administrator a
  job,       \* the rows the maintenance job has read and not yet saved
  assigning, \* the assignments whose second transaction is still to come
  reset,     \* the reports that such a transaction made AVAILABLE again
  started,   \* requests started so far
  crashes    \* restarts so far

vars == << now, deadline, report, req, tx, job, assigning, reset,
           started, crashes >>

-----------------------------------------------------------------------------

Idle == [pc |-> "idle"]

Loaded == [pc : {"loaded"}, op : UserOp \cup {"admin"}, id : ReportId,
           state : TaskState, snap : Row]

\* "deadline" is that of the detached task the save returned.
Saved == [pc : {"saved"}, op : UserOp \cup {"admin"}, id : ReportId,
          deadline : Time \cup {Null}]

NoTx == [users |-> {}]

OpenTx == [users : SUBSET User, task : Task]

\* What the detached task holds: its new reports, as they were, and its deadline.
Assignment == [task : Task, reports : SUBSET DOMAIN report, deadline : Time]

Pending == [id : ReportId, snap : Row, deadline : Time \cup {Null}]

TypeOK ==
  /\ now \in Time
  /\ deadline \in [Task -> Time \cup {Null}]
  /\ DOMAIN report \subseteq ReportId
  /\ report \in [DOMAIN report -> Row]
  /\ req \in [Request -> {Idle} \cup Loaded \cup Saved]
  /\ tx \in [Admin -> {NoTx} \cup OpenTx]
  /\ job \subseteq Pending
  /\ assigning \subseteq Assignment
  /\ reset \subseteq DOMAIN report
  /\ started \in 0 .. MaxRequests
  /\ crashes \in 0 .. MaxCrashes

Init ==
  /\ now = 1
  /\ deadline = [t \in Task |-> Null]
  /\ report = [r \in {} |-> Null]
  /\ req = [i \in Request |-> Idle]
  /\ tx = [a \in Admin |-> NoTx]
  /\ job = {}
  /\ assigning = {}
  /\ reset = {}
  /\ started = 0
  /\ crashes = 0

-----------------------------------------------------------------------------
(* Rows and how they change.                                               *)

\* The rows "from TaskReport t where t.task.id = ... and t.user.id = ..."
RowsOf(u, t) == { r \in DOMAIN report : r[1] = u /\ r[2] = t }

\* The row a transaction inserts for a user: all columns null but the state,
\* and one AVAILABLE history entry.
NewRow == [currentState |-> "AVAILABLE", accepted |-> Null, expiration |-> Null,
           history |-> << [state |-> "AVAILABLE", timestamp |-> now,
                           by |-> "assign"] >>]

FreshId(u, t) == << u, t, Cardinality(RowsOf(u, t)) + 1 >>

\* Insert one row for each user of us.
Insert(us, t) ==
  LET new == { FreshId(u, t) : u \in us }
  IN  /\ new \subseteq ReportId \ DOMAIN report   \* MaxCopies
      /\ report' = [r \in DOMAIN report \cup new |->
                      IF r \in new THEN NewRow ELSE report[r]]

\* Mutant: the collection is declared with orphanRemoval.
MergeReplacing(row, snap, entry) ==
  [ currentState |-> entry.state, accepted |-> snap.accepted,
    expiration |-> snap.expiration, history |-> Append(snap.history, entry) ]

\* TaskReport.addHistory on a detached copy, then EntityManager.merge: every
\* column of the row becomes the copy's, the new history entry is inserted,
\* and the entries that are in the table but not in the copy stay there
\* (the collection has no orphanRemoval).
Merge(row, snap, entry) ==
  [ currentState |-> entry.state,
    accepted     |-> snap.accepted,
    expiration   |-> snap.expiration,
    history      |-> Append(row.history, entry) ]

HasState(row, s) == \E k \in DOMAIN row.history : row.history[k].state = s

-----------------------------------------------------------------------------
(* Assignment.                                                             *)

\* TaskServiceImpl.assignTaskToUsers: the task and one report for each user,
\* in one transaction.
AssignTask(t, us, d) ==
  /\ deadline[t] = Null
  /\ deadline' = [deadline EXCEPT ![t] = d]
  /\ Insert(us, t)
  /\ assigning' = assigning \cup
       {[task |-> t, reports |-> { FreshId(u, t) : u \in us }, deadline |-> d]}
  /\ UNCHANGED << now, req, tx, job, reset, started, crashes >>

\* JpaPointsStrategyForTaskRepository.create: the detached task is merged, and
\* by cascade its new reports.  The columns are again what they were at the
\* assignment; the history keeps what was added to it, and gets no entry.
EndAssignment ==
  \E h \in assigning :
    /\ report' = [r \in DOMAIN report |->
         IF r \in h.reports
           THEN [report[r] EXCEPT !.currentState = "AVAILABLE",
                                  !.accepted = Null, !.expiration = Null]
           ELSE report[r]]
    /\ reset' = reset \cup { r \in h.reports : report[r].currentState # "AVAILABLE" }
    /\ deadline' = [deadline EXCEPT ![h.task] = h.deadline]
    /\ assigning' = assigning \ {h}
    /\ UNCHANGED << now, req, tx, job, started, crashes >>

\* Mutant: the query for an existing report is left out.
AddUsersUnchecked(a, t, us) ==
  /\ tx[a] = NoTx
  /\ deadline[t] # Null
  /\ ~ (deadline[t] < now)
  /\ tx' = [tx EXCEPT ![a] = [users |-> us, task |-> t]]
  /\ UNCHANGED << now, deadline, report, req, job, assigning, reset, started, crashes >>

\* TaskServiceImpl.addUsersToTask, up to its last query: the task exists and
\* has not expired and no user of us has a report yet (else the whole
\* transaction is rolled back, and nothing changes).
AddUsersCheck(a, t, us) ==
  /\ tx[a] = NoTx
  /\ deadline[t] # Null
  /\ ~ (deadline[t] < now)
  /\ \A u \in us : RowsOf(u, t) = {}
  /\ tx' = [tx EXCEPT ![a] = [users |-> us, task |-> t]]
  /\ UNCHANGED << now, deadline, report, req, job, assigning, reset, started, crashes >>

\* ... and its commit.  At READ COMMITTED nothing the check saw is locked.
AddUsersCommit(a) ==
  /\ tx[a] # NoTx
  /\ Insert(tx[a].users, tx[a].task)
  /\ tx' = [tx EXCEPT ![a] = NoTx]
  /\ UNCHANGED << now, deadline, req, job, assigning, reset, started, crashes >>

-----------------------------------------------------------------------------
(* The REST handlers acceptTask, rejectTask, completeTask and              *)
(* completeTaskWithUnsuccess, and the administrator's postAddHistory.      *)

\* Mutant: completeTask does not look at the history.
LoadUnchecked(i, op, u, t) ==
  /\ req[i] = Idle
  /\ started < MaxRequests
  /\ \E r \in ReportId :
       /\ RowsOf(u, t) = {r}
       /\ req' = [req EXCEPT ![i] = [pc |-> "loaded", op |-> op, id |-> r,
                                     state |-> StateOf[op], snap |-> report[r]]]
  /\ started' = started + 1
  /\ UNCHANGED << now, deadline, report, tx, job, assigning, reset, crashes >>

\* findByUserAndTask returns a row only if there is exactly one; none and
\* several are answered with an error and change nothing.  completeTask
\* alone looks at the row: it returns early when the history it loaded has a
\* COMPLETED_WITH_SUCCESS.
Load(i, op, u, t) ==
  /\ req[i] = Idle
  /\ started < MaxRequests
  /\ \E r \in ReportId :
       /\ RowsOf(u, t) = {r}
       /\ op = "complete" => ~ HasState(report[r], "COMPLETED_WITH_SUCCESS")
       /\ req' = [req EXCEPT ![i] = [pc |-> "loaded", op |-> op, id |-> r,
                                     state |-> StateOf[op], snap |-> report[r]]]
  /\ started' = started + 1
  /\ UNCHANGED << now, deadline, report, tx, job, assigning, reset, crashes >>

AdminLoad(i, r, s) ==
  /\ req[i] = Idle
  /\ started < MaxRequests
  /\ req' = [req EXCEPT ![i] = [pc |-> "loaded", op |-> "admin", id |-> r,
                                state |-> s, snap |-> report[r]]]
  /\ started' = started + 1
  /\ UNCHANGED << now, deadline, report, tx, job, assigning, reset, crashes >>

\* Mutant: a second acceptance keeps the expiration of the first.
EditedKeepingExpiration(op, r, snap) ==
  IF op = "accept"
    THEN [snap EXCEPT !.accepted = now,
                      !.expiration = IF @ = Null THEN now + Duration[r[2]] ELSE @]
    ELSE snap

\* The columns of the copy when it is saved: acceptTask alone sets the two
\* timestamps.
Edited(op, r, snap) ==
  IF op = "accept"
    THEN [snap EXCEPT !.accepted = now, !.expiration = now + Duration[r[2]]]
    ELSE snap

Save(i) ==
  /\ req[i].pc = "loaded"
  /\ LET q == req[i]
         entry == [state |-> q.state, timestamp |-> now, by |-> q.op]
     IN  /\ report' = [report EXCEPT ![q.id] =
                         Merge(@, Edited(q.op, q.id, q.snap), entry)]
         /\ req' = [req EXCEPT ![i] = [pc |-> "saved", op |-> q.op, id |-> q.id,
                                       deadline |-> deadline[q.id[2]]]]
  /\ UNCHANGED << now, deadline, tx, job, assigning, reset, started, crashes >>

\* Mutant: closing a step extends its deadline.
CloseStepExtending(i) ==
  /\ req[i].pc = "saved"
  /\ req[i].op = "complete"
  /\ req[i].id[2] \in StepTask
  /\ LET t == req[i].id[2] IN
       /\ deadline' = [deadline EXCEPT ![t] = now + Duration[t]]
       /\ req' = [req EXCEPT ![i].deadline = now + Duration[t]]
  /\ UNCHANGED << now, report, tx, job, assigning, reset, started, crashes >>

\* completeTask calls sendNextStepOfPipelineTask, which closes a pipeline step
\* by moving its deadline to now, if the pipeline's progress says that this
\* step is the current one (module PipelineTask decides that; here it may).
CloseStep(i) ==
  /\ req[i].pc = "saved"
  /\ req[i].op = "complete"
  /\ req[i].id[2] \in StepTask
  /\ deadline' = [deadline EXCEPT ![req[i].id[2]] = now]
  /\ req' = [req EXCEPT ![i].deadline = now]
  /\ UNCHANGED << now, report, tx, job, assigning, reset, started, crashes >>

\* The rest of a handler touches no report: reputation, points and badges
\* (module Rewards).  But PointsRepository.create merges the detached task, so
\* completeTask writes back the deadline it holds, unless an exception or the
\* strategy keeps it from creating points.
Finish(i) ==
  /\ req[i].pc = "saved"
  /\ req' = [req EXCEPT ![i] = Idle]
  /\ \/ UNCHANGED deadline
     \/ /\ req[i].op = "complete"
        /\ deadline' = [deadline EXCEPT ![req[i].id[2]] = req[i].deadline]
  /\ UNCHANGED << now, report, tx, job, assigning, reset, started, crashes >>

-----------------------------------------------------------------------------
(* TaskReportManteinance, every hour.                                      *)

\* Mutants: the query forgets the state, counts the deadline itself as
\* passed, or compares the wrong way round.
ExpiredAnyState(r) == deadline[r[2]] < now
ExpiredAtDeadline(r) == deadline[r[2]] <= now /\ report[r].currentState = "AVAILABLE"
ExpiredReversed(r) == now < deadline[r[2]] /\ report[r].currentState = "AVAILABLE"

Expired(r) == deadline[r[2]] < now /\ report[r].currentState = "AVAILABLE"

\* One query for all the rows, tasks included.
JobScan ==
  /\ job = {}
  /\ \E r \in DOMAIN report : Expired(r)
  /\ job' = { [id |-> r, snap |-> report[r], deadline |-> deadline[r[2]]] :
              r \in { x \in DOMAIN report : Expired(x) } }
  /\ UNCHANGED << now, deadline, report, req, tx, assigning, reset, started, crashes >>

\* One transaction for each row read, in the order of the result list, which
\* the query leaves open.
JobSave ==
  /\ \E p \in job :
       /\ report' = [report EXCEPT ![p.id] =
            Merge(@, p.snap, [state |-> "IGNORED", timestamp |-> p.deadline,
                              by |-> "job"])]
       /\ job' = job \ {p}
  /\ UNCHANGED << now, deadline, req, tx, assigning, reset, started, crashes >>

-----------------------------------------------------------------------------

Tick ==
  /\ now < MaxTime
  /\ now' = now + 1
  /\ UNCHANGED << deadline, report, req, tx, job, assigning, reset, started, crashes >>

\* The server stops and starts again: the tables are all that is left.
Crash ==
  /\ crashes < MaxCrashes
  /\ crashes' = crashes + 1
  /\ req' = [i \in Request |-> Idle]
  /\ tx' = [a \in Admin |-> NoTx]
  /\ job' = {}
  /\ assigning' = {}
  /\ UNCHANGED << now, deadline, report, reset, started >>

AssignNext == \E t \in Task, us \in SUBSET User, d \in Deadlines :
                AssignTask(t, us, d)

AdminNext ==
  \/ \E a \in Admin, t \in Task, us \in SUBSET User \ {{}} : AddUsersCheck(a, t, us)
  \/ \E a \in Admin : AddUsersCommit(a)
  \/ \E i \in Request, r \in DOMAIN report, s \in AdminState : AdminLoad(i, r, s)

LoadNext == \E i \in Request, op \in UserOp, u \in User, t \in Task :
              Load(i, op, u, t)

Next ==
  \/ AssignNext
  \/ EndAssignment
  \/ AdminNext
  \/ LoadNext
  \/ \E i \in Request : Save(i)
  \/ \E i \in Request : CloseStep(i)
  \/ \E i \in Request : Finish(i)
  \/ JobScan
  \/ JobSave
  \/ Tick
  \/ Crash

Spec == Init /\ [][Next]_vars

\* @Scheduled runs the job again and again, and each run works through its
\* list; nothing obliges a user, an administrator or the clock to act.
FairSpec == Spec /\ WF_vars(JobScan) /\ WF_vars(JobSave)
-----------------------------------------------------------------------------
(* Properties.                                                             *)

\* The places in a history of the entries the job and completeTask wrote, and
\* of those that made the report AVAILABLE.
ByJob(history) == { k \in DOMAIN history : history[k].by = "job" }
ByComplete(history) == { k \in DOMAIN history : history[k].by = "complete" }
MadeAvailable(history) == { k \in DOMAIN history : history[k].state = "AVAILABLE" }

\* The two timestamps a phone's data are matched against are set together and
\* stay a pair, whichever stale copies are written over the row: expiration
\* is acceptance plus the task's duration, and the acceptance is one that the
\* history records (acceptTask, JpaTaskReportRepository.getTaskReportsForData).
WindowOf(r, row) ==
  \/ row.accepted = Null /\ row.expiration = Null
  \/ /\ row.accepted # Null
     /\ row.expiration = row.accepted + Duration[r[2]]
     /\ \E k \in DOMAIN row.history : /\ row.history[k].by = "accept"
                                      /\ row.history[k].timestamp = row.accepted

AcceptanceWindow == \A r \in DOMAIN report : WindowOf(r, report[r])

\* How often a report became AVAILABLE: once for each entry that says so, and
\* once more, with no entry, if the end of its assignment put it back.
Availabilities(r) ==
  Cardinality(MadeAvailable(report[r].history)) + (IF r \in reset THEN 1 ELSE 0)

\* Each time a report becomes AVAILABLE the job ignores it at most once, over
\* restarts in the middle of its list and stale saves that race with it
\* (TaskReportManteinance).
IgnoredOncePerAvailability ==
  \A r \in DOMAIN report :
    Cardinality(ByJob(report[r].history)) <= Availabilities(r)

\* The job never ignores a report before its deadline has passed: the
\* timestamp it records, the deadline it read, is strictly in the past.
IgnoredPastDeadline ==
  \A r \in DOMAIN report : \A k \in ByJob(report[r].history) :
    report[r].history[k].timestamp < now

\* Repeating completeTask is harmless but for the requests that were already
\* past its look at the history: a report is completed at most once for each
\* worker thread, however often it is retried.
CompletionsBounded ==
  \A r \in DOMAIN report :
    Cardinality(ByComplete(report[r].history)) <= Cardinality(Request)

\* No user has two reports for one task (else findByUserAndTask fails for
\* good: TaskServiceImpl.addUsersToTask).
OneReportPerUserTask ==
  \A u \in User, t \in Task : Cardinality(RowsOf(u, t)) <= 1

\* A report of an expired task does not stay AVAILABLE for ever: the job
\* reaches it, however often the server restarts (or a pipeline moves the
\* deadline).
Overdue(r) ==
  /\ r \in DOMAIN report
  /\ report[r].currentState = "AVAILABLE"
  /\ deadline[r[2]] < now

ExpiredIsSettled == \A r \in ReportId : Overdue(r) ~> ~ Overdue(r)

\* What the log line of completeTask claims of a repeated call: a task that
\* was completed is not completed again.
CompletedOnce ==
  \A r \in DOMAIN report : Cardinality(ByComplete(report[r].history)) <= 1

\* What the job's log line claims: it sets to IGNORED the reports that are
\* still AVAILABLE.
OnlyAvailableIsIgnored ==
  [][ \A r \in DOMAIN report :
        ByJob(report[r].history)' # ByJob(report[r].history)
          => report[r].currentState = "AVAILABLE" ]_vars

\* The table as the abstract ledger: what each row's history says, in the
\* order the entries were committed, and the state the row shows.
Ledger == INSTANCE ReportLedger WITH
            State <- TaskState,
            log <- [r \in DOMAIN report |->
                      [k \in DOMAIN report[r].history |->
                         report[r].history[k].state]],
            shown <- [r \in DOMAIN report |-> report[r].currentState],
            open <- UNION { h.reports : h \in assigning }

\* Every handler, racing or not, appends exactly one entry and shows it; only the
\* end of its own assignment changes what a report shows without an entry, once.
ImplementsLedger == Ledger!Spec
-----------------------------------------------------------------------------
(* The inductive invariant the proofs use, in named parts.                 *)

\* What handlers and the job hold are copies of rows that are in the table,
\* and each copy's history is a beginning of its row's.
IsPast(r, snap) ==
  /\ r \in DOMAIN report
  /\ Len(snap.history) <= Len(report[r].history)
  /\ \A k \in DOMAIN snap.history : snap.history[k] = report[r].history[k]

CopiesArePast ==
  /\ \A i \in Request : req[i].pc = "loaded" => IsPast(req[i].id, req[i].snap)
  /\ \A p \in job : IsPast(p.id, p.snap)

\* The acceptance windows of the copies are windows too.
CopiesHaveWindows ==
  /\ \A i \in Request : req[i].pc = "loaded" => WindowOf(req[i].id, req[i].snap)
  /\ \A p \in job : WindowOf(p.id, p.snap)

JobReadExpired == \A p \in job : p.deadline < now

\* A report that is AVAILABLE, or waits in the job's list, has been made
\* AVAILABLE more often than the job has ignored it.
IgnorableAgain ==
  /\ \A p, q \in job : p.id = q.id => p = q
  /\ \A r \in DOMAIN report :
       (report[r].currentState = "AVAILABLE" \/ \E p \in job : p.id = r)
         => Cardinality(ByJob(report[r].history)) < Availabilities(r)

\* Open assignments are of different reports, none of which was put back yet.
AssignmentsApart ==
  \A h \in assigning :
    /\ h.reports \cap reset = {}
    /\ \A g \in assigning : g # h => g.reports \cap h.reports = {}

\* What completeTask writes is a COMPLETED_WITH_SUCCESS entry, and the
\* completions of a report, stored and about to be stored, are not more than
\* the workers.
Completing(r) ==
  { i \in Request :
      req[i].pc = "loaded" /\ req[i].op = "complete" /\ req[i].id = r }

CompletionsInFlight ==
  /\ \A i \in Request : req[i].pc = "loaded" /\ req[i].op = "complete"
                          => req[i].state = "COMPLETED_WITH_SUCCESS"
  /\ \A r \in DOMAIN report :
       /\ \A k \in ByComplete(report[r].history) :
            report[r].history[k].state = "COMPLETED_WITH_SUCCESS"
       /\ Cardinality(ByComplete(report[r].history)) + Cardinality(Completing(r))
            <= Cardinality(Request)

\* With one administrator session.  Rows belong to saved tasks, an open
\* transaction of addUsersToTask is about users who still have no row, what a
\* handler may write back as a deadline is one, and a user's row of a task is
\* the only one.
RowsHaveTasks == \A r \in DOMAIN report : deadline[r[2]] # Null

UsersAreNew ==
  \A a \in Admin : tx[a] # NoTx =>
    /\ deadline[tx[a].task] # Null
    /\ \A r \in DOMAIN report : ~ (r[2] = tx[a].task /\ r[1] \in tx[a].users)

HandlersHaveTasks ==
  \A i \in Request :
    /\ req[i].pc = "loaded" => req[i].id \in DOMAIN report
    /\ req[i].pc = "saved" => req[i].deadline # Null

RowsAreSingle ==
  \A r, s \in DOMAIN report : r[1] = s[1] /\ r[2] = s[2] => r = s
=============================================================================
