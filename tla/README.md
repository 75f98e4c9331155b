# Verification of participact-server

ParticipAct is a crowd-sensing server. Administrators (and users, through
administrators) publish *tasks*, a task is assigned to users by a *task
report* each, phones accept, reject, complete or fail their reports over REST,
and outcomes earn *reputation*, *points* and *badges*. Everything is Spring MVC
over JPA, with Hibernate below. This directory holds TLA+ specifications of the
parts of `src/` whose correctness depends on the order in which things happen,
TLC configurations that check them on small instances, and TLAPS proofs of the
most important results for every value of the constants.

All paths below are relative to `src/src/main/java/it/unibo/paserver/`.

## How the program runs, and what is hard about it

Four facts shape every module.

* **No controller is transactional.** Service methods are annotated
  `@Transactional`, controllers are not and there is no open-session-in-view
  filter, so a handler is a sequence of short transactions with detached
  objects in between. Everything a handler read may have changed when it
  writes.
* **A merge writes what the detached object holds.** No entity has a `@Version`
  column. `EntityManager.merge` writes every column of the copy back and
  follows `CascadeType.MERGE`: saving points or a reputation saves the user and
  the user's set of badges with it, and saving the strategy of a task that was
  just assigned saves the task's new reports again, as they were.
* **Nothing in the schema makes pairs unique.** Reports by user and task,
  reputations by user and action type and friendships by sender and receiver
  are looked up with `getSingleResult`, and are created when the look found
  none, in another statement.
* **The server may stop between any two transactions**, and phones repeat
  calls whose answer they did not see.

So: an action of a module is one transaction (or, where a transaction reads and
then inserts what it did not find, one for the read and one for the commit, as
nothing that was read is locked at READ COMMITTED); a handler is a record with a
program counter and the locals it carries from one transaction to the next; a
`Crash` action throws all of them away and keeps the tables.

## Inventory

| Component | State | Operations | Hard behaviours | Module |
|---|---|---|---|---|
| Task reports | `TaskReport`, `TaskHistory`, `Task.deadline` | assign (two transactions), add users, accept, reject, complete, fail, edit a history, hourly job, close a step | stale copies, retries, check-then-insert, job against handlers, crashes | `TaskLifecycle`, `ReportLedger` |
| Rewards | `Reputation`, `Points`, `User_Badges`, `PointsStrategyForTask` | one reputation update per action, points by strategy, group shares, badges, the list of available tasks | lost updates, cascading stale merges, rows created twice (also by readers), half-paid groups, a strategy stored after its task, flows that merge an old user | `Rewards` |
| Pipeline tasks | `PipelineTaskProgress`, `ActionPipelineResponse` | first steps of all groups, next step of one group | two members completing together, an answer before the step's row, a restart between a step and its row, a call that dies between the report and the next step | `PipelineTask`, `StepChain` |
| Points strategies, levels | none | five strategies, four levels | rounding, ties, empty lists; what a list promises against what is paid | `PointsStrategies`, `Promises` |
| Friendships | `Friendship` | ask, accept, reject, ask for the state | two users asking each other; two queries that see different tables | `Friendships` |
| User-created tasks | `TaskUser.valutation`, `PointsStrategyForTask`, `Points` | propose, refuse, approve, add users | pages and forms that are older than a decision, double approval, a step that fails inside the flow, restarts inside the flow | `UserTasks` |
| Password recovery | `RecoverPassword`, the user's password | request, open the form, change, hourly purge | the purge against an open form, a form that keeps a detached user, a server that was down | `Accounts` |
| Task results and uploads | `Data*` tables, `TaskResult.data`, `lastDataUpdate` | upload samples, upload and attach answers and photos, look at a result, force a refresh | looks throttled by a time that stale saves set back, two looks at once, restarts and errors between saving and attaching | `TaskResults` |
| Push notifications | none of its own | multicast with retries | partial answers | not modelled |
| Leaderboards, statistics, scores | none | read-only | none | not modelled |
| Groups from positions | `GroupsTask` | recomputed on demand | none: pure geometry | not modelled |
| Users, accounts, logs, web forms | one row per form | single-row saves | last writer wins | `Accounts` for the row of a user |
| TPER bus stops (`it/unibo/tper`) | bus stop table | periodic download | outside system | not modelled |
| Protocol buffers, SOAP classes | - | - | generated code | not modelled |

How they interact: `TaskController` calls, in this order and in one request,
the report service, the reputation service once per action of the task, the
pipeline step, the points strategy of the task and the badge service. The job
touches reports only, the purge recovery requests only. The administrator's
flows create tasks and reports; a proposed task reads friendships before it is
stored. Almost everything merges users, directly or through a cascade. The
shared state is the database; there are no messages but the push notifications,
whose loss nothing depends on.

## Modules

### TaskLifecycle

The table of reports and everything that writes to it. A row is its state, the
two timestamps of the acceptance window and its history. The history's column
`by` is not in the database: it says who wrote an entry and lets properties
count the job's and `completeTask`'s.

| Action | Code |
|---|---|
| `AssignTask` | `TaskServiceImpl.assignTaskToUsers`: a task and its reports, one transaction |
| `EndAssignment` | `JpaPointsStrategyForTaskRepository.create`, which the callers run next: it merges the detached task and, by cascade, the reports just made |
| `AddUsersCheck`, `AddUsersCommit` | `TaskServiceImpl.addUsersToTask`: checks, then inserts |
| `Load`, `Save` | the four REST handlers up to and including the save of the report |
| `AdminLoad`, `Save` | `TaskReportAddHistoryController.postAddHistory` |
| `CloseStep` | `sendNextStepOfPipelineTask` moving the deadline of the step to now |
| `Finish` | the rest of a handler, which may write a stale deadline back |
| `JobScan`, `JobSave` | `TaskReportManteinance`: one query, one save for each row |
| `Tick`, `Crash` | the clock, a restart |

`Merge` is the heart of it: every column becomes the copy's, the new entry is
appended, and entries the copy does not know stay, because the collection has
no `orphanRemoval`.

`EndAssignment` is the other merge: whatever happened to a report since its
assignment (a phone accepted it, the job ignored it), its columns are once more
those of a new report, with no entry in its history, and the task's deadline is
the one it was made with. `assigning` has the assignments that still owe it, and
`reset`, a history variable, the reports that it changed.

`ReportLedger` is the abstract specification: a log per report that starts
AVAILABLE and only grows, by one state at a time, and whose last state is the
one shown, except that a report can be shown AVAILABLE once more when the
assignment that made it ends (`Close`). `TaskLifecycle` implements it under the
refinement mapping `Ledger`, which forgets timestamps and writers.

### Rewards

What the handlers do after the report is saved. The report is reduced to how
many entries of each kind its history has and which is the last. A request
carries the badges of the user it loaded first (`held`), the actions still to do
(`todo`), a reputation it read (`row`) with the badges of *its* user object, and
the members of the group with theirs. `strategies` counts the
`PointsStrategyForTask` rows of a task, `form` has the users that web flows keep.

| Action | Code |
|---|---|
| `GetUser`, `LoadReport`, `AlreadyCompleted`, `SaveReport` | the head of the handlers; the early return of `completeTask` |
| `FindReputation`, `CreateReputation` | `JpaReputationRepository.getReputationByUserAndActionType`, query and insert |
| `UpdateReputation` | `ReputationStrategyTrivial.updateReputation`, whose merge writes the user's badges |
| `Return` | the end of accept, reject and fail |
| `ComputePoints` | choosing and entering the strategy of the task: the default one if it has no row, an exception if it has several |
| `PayShare`, `PayOwn` | `GroupStrategy.computePoints`, `JpaPointsRepository.create` |
| `CountReports`, `SaveBadges` | counting successes by type, new badges, `userService.save` |
| `ListTasks`, `ReadForList`, `AddForList`, `FindStrategy`, `AnswerList` | `TaskController.getTaskFlat`: for each available task and each of its actions the reputation is read, and *created* if it is missing; then the task's strategy is looked for |
| `AddStrategy` | `JpaPointsStrategyForTaskRepository.create`, which follows an assignment or is a step of an approval; after an assignment it puts reports back to AVAILABLE |
| `HoldUser`, `MergeUser` | flows that load a user and merge it later: the reset form (`RecoverPasswordController.setPassword`), the valuation of a task (`assignApprovedPoints`) |
| `Crash` | a restart |

A member of the group who completes a step gets a share *and* the full points;
that is what the code does, and the model follows it. A step completed before
its strategy row is there pays its user by the default strategy and the group
nothing. Three variables are history: `unpaid`, completions whose handler ended
before it paid; `byDefault`, completions the default strategy was asked about;
`reverted`, users whose badges a flow wrote back as they no longer were.

### PointsStrategies and Promises

`PointsStrategies` has the five strategies and the levels as operators, with the
integer divisions and casts of the code and its rule for ties. `Promises` extends
`Rewards`: `Answer` adds to `AnswerList` the points that `getTaskFlat` shows with a
task (every strategy has a second method that assumes one more accept and one
more success), `Compute` those that `completeTask` creates, and both read the
reputations at different times. Both ask the strategy `Asked`: the one the
administrator chose, or the default one while there is no row. `Choose` is the
row's appearance, with any of the strategies the task may get. All else (`Other`,
`Flows`) is a step of `Rewards`.

Four things end a promise: the row that names the strategy appears after the list
was made (`Choose`, or while it was made: the end of `Answer`); the report was put
back after its user had answered (`Answered`), so that the reputations already
have part of what is expected; a task of the user was rejected, failed, or
completed without having been accepted (`Save`); a restart may have cut an update
off (`Restart`). So the property does not claim that the points of a list made
between an assignment and its strategy row are paid: they are not. `getTaskFlat`
also adds the points for the approval of one's own task, which the user has
already and no completion changes; they are left out.

`PromiseKept` leaves one case out (`Rises`): the strategy of the average level takes
the level most reputations have, and the lowest of them in a tie, so with three or
more actions one reputation that rises can lower it. Three actions at levels 1, 3
and 3 promise 100 points; if other tasks raise one of the last two to level 4 before
the task is completed, it brings 60. Both halves are proved: the other cases never
fall (`PointsRise`), this one does (`AverageLevelMayFall`).

### Friendships

A pair of users has two directions, and each has a sequence of rows by id. A
query that finds two rows throws, and nobody catches it.

| Action | Code |
|---|---|
| `AddFriend`, `FindOwn`, `FindOther` | `UserRestController.addFriend`: the call, the query in the caller's direction, the query in the other |
| `SaveFriendship`, `CreateFriendship` | the two ways it ends |
| `GetFriendStatus`, `LookSent`, `LookReceived`, `AnswerStatus` | `getFriendStatus`, the same two queries, and what the phone is told |

`recent` and `crossed` are history variables: the tables there have been since a
call began, and the pairs whose `addFriend` calls overlapped.

### UserTasks

Extends `Friendships`, whose workers also serve `createTask`, and adds the tables
and the administrators' browser windows.

| Action | Code |
|---|---|
| `CreateTask`, `FindReceivers`, `FindSenders`, `StoreTask` | `createTask` of the REST interface: the friends the owner named, looked up in both directions; the task, PENDING |
| `ShowTasks` | `tasks.jsp`, which has a link for PENDING and for APPROVED tasks and keeps it until it is loaded again |
| `OpenValutation`, `Approve`, `SelectUsers`, `Reselect`, `Cancel` | the states of `valutate/task-flow.xml` that only ask |
| `Refuse` | its other end |
| `ApproveTask`, `CreateStrategy`, `AssignNewUsers`, `AssignFails`, `AssignApprovedPoints` | its four saving steps, each in its transaction; the third may report an error, and the flow goes on |
| `AssignDies` | the third throws what nobody catches, when a user has two reports of the task: the flow is over, and an owner not yet paid is not paid |
| `OpenAddUsers`, `SelectUsers`, `AssignNewUsers` | the flow that adds users to an approved task |
| `Crash` | a restart, which ends requests and flows; pages stay in the browser |

`approvals` and `cut` are history variables. Two simplifications: a window follows
a link in place (a link opened in a new tab, or a form sent again with the back
button, would be a window more), and `AssignNewUsers` is atomic, as the race
inside `addUsersToTask` is in `TaskLifecycle`.

### Accounts

The row of a user and those who write it, with the recovery of a password. The
values of a column are numbered as they are set, so a stale merge shows.

| Action | Code |
|---|---|
| `Load`, `Save` | the phone's `gcmRegistration` and the form `postUserEdit`, which load a user and merge it |
| `SetupRecovery` | `recoverPasswordPost` storing its request, whose merge cascades to the user. `@Async` on `setupRecovery` has no effect, as the call stays within the object |
| `OpenForm`, `SetPassword`, `CloseForm` | the web flow `recoverpassword`, which holds the request and the user from the link to the submission |
| `PurgeScan`, `PurgeDelete`, `PurgeEnds` | `RecoverPasswordManteinance`: one query, one transaction for each, a fixed delay |
| `Tick`, `Stop`, `Start` | the clock in half hours; the server going down, and up at a later time |

`issued`, `set` and `overlap` are history variables.

### PipelineTask

One pipeline: its groups, the step tasks that were sent, and the table
`PipelineTaskProgress`. A handler of `completeTask` carries the progress row it
found, later the row it is about to write.

| Action | Code |
|---|---|
| `AssignFirst`, `RuleFirst`, `SaveFirst` | `TaskAddController.createAndAssignPipelineTask`, its loop over the groups: task, strategy, progress row |
| `Load`, `Save` | `completeTask` up to the save of the report |
| `ThrowReputation` | the loop over the reputations between the save and the next step, which throws if a user has two rows for a type |
| `FindProgress`, `ReadMax` | `sendNextStepOfPipelineTask`: the row of the task, the test that it is the last step |
| `CloseStep`, `AssignNext`, `RuleNext`, `SaveNext` | the deadline moved to now; the next task and its reports; its strategy; its progress row |
| `Reward` | `GroupStrategy.computePoints`, which needs the progress row |
| `Crash` | a restart; the loop over the groups is not resumed |

`StepChain` is the abstract specification: a group goes from step to step, and
to a later step only after somebody completed the one before. The progress table
implements it under the mapping that keeps, for each group, the last step and
the steps somebody completed; steps created twice are stutters.

`early`, `unpaid` and `thrown` are history variables: completions saved before the
row of their step, completions whose handler died in the strategy, and those whose
handler died at the reputations. The last leave a group where it is with no
restart, as a retry finds the report completed; `StepsAreFollowed` therefore speaks
of completions that `Count`: not early, and past the reputations. The clock is in
`TaskLifecycle`, whose `CloseStep` moves a deadline; what the strategy pays is in
`Rewards`. What is left out: recomputing the groups while a pipeline runs.

### TaskResults

What one user's phone collects for one task. `accepted` stands for the two
columns of the window, as the expiration is a fixed time later; `last` is
`TaskResult.lastDataUpdate`.

| Action | Code |
|---|---|
| `SubmitSample` | the 21 handlers of sensed data in `ResultDataController`, one transaction each |
| `SubmitParts`, `StorePart`, `AttachParts` | `submitDataQuestion`: a row per answer, each in its transaction, then `addData`; `submitDataPhoto` is the same with one part, once for each photo |
| `BreakUpload` | an upload that ends in an error where it is: an answer without action or question, a user with no report of the task or two; what it saved stays |
| `StartAccept`, `StartReport`, `SaveReport` | any handler that loads a report and saves it; the merge follows `TaskReport.taskResult` and writes `last` back |
| `StartLook`, `Query`, `CommitLook`, `FailLook`, `Show` | `getTaskResultByTaskReport` and the forced `updateTaskResult`: the tests of `hasToUpdate`, the query, the save |
| `EndAssignment` | the second transaction of the assignment (see `TaskLifecycle`): report and result are a new report's again, so what was attached is detached |
| `Tick`, `Crash` | the clock, which also moves during a look, at most `LookTime`; a restart |

Looks are the ones whose refresh is stored: `getTaskResultByTaskReport` and
`updateTaskResult(id)` run in a read-write transaction. The other readers of
`TaskResutServiceImpl` refresh objects in a read-only transaction, which
Hibernate does not flush, and leave nothing behind (their `REQUIRES_NEW` is on a
private method that is called directly, so no proxy sees it).

`FailLook` is the primary key of `TaskResult_Data`: two looks that found the same
row and had both loaded the collection cannot both insert it. The query of a look
and the time it stores are apart: what is uploaded in between is not found but
older than the stamp, so `ShownIsRecent` allows `LookTime` for it. `broken` is a
history variable: uploads that ended in an error or were detached. So is `torn`: a
report was saved while a look was in its transaction, or the assignment ended
while a look ran or a report was in hand. Then the look stores the time of its
search against a window it did not search, and a look right after leaves samples
out that are old enough; without `torn` in `ShownIsRecent`, TLC finds that in nine
steps. It heals at the next refresh.

The module says that the cascade from the report to its result, which looks like
a mistake, is what keeps `ShownIsRecent`: a save that sets the window back
without the time of the last search (the mutant `SaveReportAlone`) breaks it.

## Runs

| Run | Instance | What it shows |
|---|---|---|
| `lifecycle_safety` | 1 report, 2 workers, 3 requests, an administrator who can make it AVAILABLE again, the job, 1 restart, 3 times of the clock | the type; `AcceptanceWindow`: the two timestamps stay a pair that an acceptance recorded; `IgnoredOncePerAvailability`; `IgnoredPastDeadline`; `CompletionsBounded`; the table implements `ReportLedger` |
| `lifecycle_serial` | 2 users, 1 task, 1 worker, 1 administrator, 2 requests, 1 restart, 2 times of the clock, fair job | one report per user and task, completed once; an expired report does not stay AVAILABLE |
| `rewards_race` | 2 users who are a group, 1 task with no, one or two strategy rows, 2 workers, 2 requests, 1 restart, fair workers | points follow completions; a reputation stays in range and within what the history justifies; races create at most one reputation row per worker; shares precede the points, but for the completions the default strategy was asked about; every completion that is not cut off is settled |
| `rewards_serial` | `Promises` with 1 user, 2 tasks, 1 worker, 4 requests, 1 restart, 4 strategies of which one is stored at any time; over 2 of the requests a second row and a flow that keeps a user | one reputation row, paid once; badges kept, but for those a flow wrote back; a task earns at least what its list promised |
| `pipeline` | a group of 2, 3 steps, 2 workers, 3 completions, 1 restart, fair handlers | steps are duplicated at most once per worker and restart; each follows an answer and is not sent to whoever gave it; points are missing for want of a progress row only for early completions; the table implements `StepChain`; without a restart the chain goes on from every completion that counts |
| `results` | 2 workers, 1 sample at any time, acceptances at 2 times, 3 ticks, looks that last up to 1; and, with the clock at rest, 3 uploads of 2 answers that may break anywhere, 1 restart | results hold only sensed samples that acceptances cover; looks show what is old enough; answers stay together, and are left unattached only by an error, the end of the assignment or a restart |
| `usertasks` | 2 users, 1 task, 2 workers, 2 administrator windows, 4 calls and flows together, 1 restart | rows of a pair are at most one per worker, and one where calls did not cross; phones are told, and proposals use, what was true during the call; owners are paid per approval that is not cut off; a task is approved at most once per window; an assigned task has a strategy row, unless an approval of it was cut off or is about to create it |
| `accounts` | 1 user, 2 workers, 2 forms, 2 recovery requests, 4 calls and forms, 7 half hours, 1 stop | a request lives as long as it is valid and at most a period more; changes of a user survive every merge unless somebody held a copy |

Four runs end in a violation, and each is a finding recorded in `PROJECT.json`
with the line of the repository that says otherwise:

| Run | What happens |
|---|---|
| `race_ignore` | the job reads its list, a phone accepts, the job saves its copy: an accepted report becomes IGNORED |
| `race_complete` | two calls of `completeTask` pass the look at the history before either saves |
| `race_badges` | a handler writes back the badges its user had before another unlocked one |
| `link_active` | the mail says that its link is active for 24 hours; the request is valid for one and purged after it |

Two more properties hold only in the serial runs, for the same reason: with two
administrators `OneReportPerUserTask` fails (both pass the check of
`addUsersToTask` before either commits), and with two workers `OneReputationRow`
does (both miss the reputation and create it). The run `rewards_race` checks what
is left of the second, `OneRowPerWorker`.

**Bounds.** Each hazard needs two actors, and most of the counting properties a
third request after the race: three requests over two workers give every
interleaving of two handlers and one that starts after either. `rewards_race`
has two requests, as its handlers are long, and leaves more of them to
`rewards_serial`; `lifecycle_serial` needs no more than two, as they follow each
other. Three times put the clock before, at and after a deadline,
which the strict comparison of the job tells apart; two do for `lifecycle_serial`,
where a deadline may be the first of them. One restart is enough to
cut any handler at any point. The reputation range 0..40 around 20 is small
enough for a few calls to reach both ends. In `pipeline` three steps are the
least that have a step with one before and one after; nine tasks are never all
used. In `usertasks` calls of phones and flows of administrators count against
one bound: four let two friends meet, one propose and an administrator decide, or
both windows decide with a call in between. In `accounts` a request is valid for
two half hours and the purge's delay is as long, so seven hold a request, its
whole validity, the purge that comes just too early and the one after it. In
`rewards_serial` the reputation has its true range 0..100, as the strategies'
levels and roundings depend on it. One task asks for two actions of one type, which
the promise counts once each, and has the default strategy; the other gets a row
with any of the four that are not the group's. The instance is the union of two
(the constraint `FormsApart`): promises do not depend on badges, so the flow, which
changes nothing else, meets two requests and one strategy, and four requests and
all strategies are explored without it. `UploadsApart` does the same in
`results`: uploads and samples share neither rows nor times. There one unit of time stands for the half hour (a look in the same
unit does not search again) and for how long a look may last, so three ticks pass
through the window, the last search and the time after it; one record of samples
at every pair of times is enough, as samples do not interact. Symmetry is used only over worker
threads, and only in runs of safety properties.

**Deadlock** is not checked: requests, restarts and the clock are bounded, so
every instance comes to rest.

**Fairness.** `TaskLifecycle!FairSpec` is fair to the job alone, which
`@Scheduled(fixedDelay = 3600000)` runs for ever; phones, administrators and the
clock owe nothing. `Rewards!FairSpec` is weakly fair to each worker that has
taken a request, and `PipelineTask!FairSpec` to those and to the loop over the
groups: a servlet thread runs its handler to the end unless the server stops.

## Proofs

Eight modules of proofs, for every value of the constants: one for each
component's state machine, one for the promises, and `SetSums`, the lemmas on
sums that the proofs about rewards share.

`TaskLifecycleProofs` (any number of users, tasks, workers, administrators,
requests, restarts and copies, any horizon of the clock):

| Theorem | Statement |
|---|---|
| `TypeCorrect` | `Spec => []TypeOK` |
| `WindowsStayConsistent` | `Spec => []AcceptanceWindow` |
| `JobWaitsForDeadline` | `Spec => []IgnoredPastDeadline` |
| `JobIgnoresOnce` | `Spec => []IgnoredOncePerAvailability` |
| `RetriesAreBounded` | `Spec => []CompletionsBounded` |
| `CompletedOnceInTurn` | `Cardinality(Request) = 1 => (Spec => []CompletedOnce)` |
| `OneReportInTurn` | `(\E a : Admin = {a}) => (Spec => []OneReportPerUserTask)` |
| `TableImplementsLedger` | `Spec => ImplementsLedger` |

They rest on `ConstantsAssumption` (the types of the constants, and that the
worker threads are finitely many). None of the invariants is inductive alone,
because handlers and the job carry copies that will become rows. The
strengthenings, at the end of `TaskLifecycle`, are:

* `CopiesArePast`: what a handler or the job holds is a copy of a row still in
  the table, and the copy's history is a prefix of the row's. Histories only
  grow (`RowsGrow`), so this survives every step of the others.
* `CopiesHaveWindows`: the copies' timestamps are a window too. With
  `CopiesArePast`, writing a copy over a row keeps `AcceptanceWindow`: the
  acceptance the copy shows is recorded in the longer history of the row.
* `JobReadExpired`: deadlines in the job's list are past, and the clock never
  goes back.
* `IgnorableAgain`: a report that is AVAILABLE or in the job's list has been
  made AVAILABLE strictly more often than ignored; the job's query adds only
  AVAILABLE reports and its list is empty when it runs. `Availabilities` counts
  the entries that say AVAILABLE and, once, the end of the assignment that said
  it without an entry.
* `AssignmentsApart`: open assignments are of different reports, which none of
  them has put back yet, so each report is put back at most once.
* `CompletionsInFlight`: stored completions plus those about to be stored do not
  exceed the workers. A worker enters only while none is stored, so at that
  moment the sum is the number of workers entering. With one worker the bound
  says once.
* `UsersAreNew`, for one administrator: between the check of `addUsersToTask` and
  its commit nobody else inserts a report of that task, since the only other
  insert is for a task that does not exist yet (`RowsHaveTasks`,
  `HandlersHaveTasks` keep it so). Then `RowsAreSingle` is kept.

Each proof goes through three lemmas: the initial states, one step (one case
for each action, gathered by `StepKinds` into "nothing happens to rows", "rows
are inserted" and the two merges), and the implication. The refinement is
proved step by step in the same cases: an insert is `Create`, a merge is
`Record`, the end of an assignment and a restart, which forgets the open ones,
are `Close`, everything else stutters.

`PipelineTaskProofs` (any groups and members, any number of steps, workers and
restarts):

| Theorem | Statement |
|---|---|
| `TypeCorrect` | `Spec => []TypeOK` |
| `StepsFollowAnswers` | `Spec => []FollowsAnAnswer` |
| `StepsAreBounded` | `Spec => []DuplicatesBounded` |
| `LateStepsArePaid` | `Spec => []OnlyEarlyIsUnpaid` |
| `ProgressImplementsChain` | `Spec => ImplementsChain` |

The assumptions are `PipelineAssumption`. The invariant adds to the properties:
tasks are numbered without gaps (so the next number is new); a progress row says
of its task what the task is; the steps of a group are `1 .. h`
(`StepsHaveNoGaps`), which makes the last step defined and lets a duplicated step
map to a stutter; the administrator's loop comes to a group before any of its
steps exist; and `WorkersAgree`: the row a handler read long ago is still in the
table, and the row it will write continues a step that is there. Rows are never
removed, so both survive every step of the others. `DuplicatesBounded` needs a
count of its own (`Bounded`): the threads that will create the task of a step are
apart from those that have and will record it. While no row of the step is there,
its tasks are at most a thread's for each restart, plus those about to be
recorded; as soon as there is one nobody starts to create the step, so tasks and
rows only grow by the threads that are on their way.

`TaskResultsProofs` (any lengths of the windows, any number of samples, uploads,
workers, acceptances and restarts):

| Theorem | Statement |
|---|---|
| `TypeCorrect` | `Spec => []TypeOK` |
| `ResultsAreAccepted` | `Spec => []OnlyAccepted` |
| `LooksShowRecent` | `Spec => ShownIsRecent` |
| `PartsAreWhole` | `Spec => []PartsStayTogether` |

The assumptions are `TaskResultsAssumption`. The heart is `SearchesCover`: for
the window and the time of the last search in the table, *and for the pair a
handler holds and will write back*, every sample of that window stored before
that time is in the result. An acceptance makes the pair of a new window and an
old time, which is covered because nothing taken from now on was stored before
now (`AcceptanceCovers`, from `NothingAhead`); a look ends with the pair of its
window and the present, covered by what its query found: of the samples stored
more than `LookTime` before the stamp, the query missed none. `PartsAreWhole`
counts: only a restart takes a thread from an upload that is neither attached nor
`broken`, and a thread is busy with one (`FewAreActive`).

`RewardsProofs` (any users, tasks, actions, groups and badges, any number of
workers, calls and restarts):

| Theorem | Statement |
|---|---|
| `TypeCorrect` | `Spec => []TypeOK` |
| `PaymentsAreAccounted` | `Spec => []PaymentAccounts` |
| `RowsAreBounded` | `Spec => []OneRowPerWorker` |
| `OneRowInTurn` | `Cardinality(Request) = 1 => (Spec => []OneReputationRow)` |
| `PaidInTurn` | `Cardinality(Request) = 1 => (Spec => []PaidOnce)` |
| `BadgesStayInTurn` | `Cardinality(Request) = 1 => (Spec => BadgesKept)` |
| `ReputationsAreEarned` | `Spec => []ReputationEarned` |
| `SharesComeFirst` | `Spec => []SharesBeforeOwn` |

The assumptions are `RewardsAssumption`: besides types, that workers, users, tasks
and the actions of a task are finitely many, as the rows of tables and the sets
loaded from them are. `PaymentAccounts` is an equation between
completions on one side and the paid, the cut off and the workers on their way on
the other; it is inductive once it is known that only `completeTask` comes to the
points (`OnlyCompletionsPay`), and each step moves one worker from one term to
the next (`BalanceKept`). `RowsInFlight` is the bound of check-then-insert: once a
row is stored, rows and workers about to add one are no more than the workers,
as nobody new misses the row. `CompletionsBounded` is the same for completions,
and gives the corollaries about points and rows. `BadgesStayInTurn` needs that
every set of badges the one handler carries (its user's, that of the user inside a
reputation, those of a group's members) is the one in the table
(`CopiesAreCurrent`), so that all merges but the last write what is there. That
holds of a user until a flow writes back badges that are not the table's any more
(`reverted`), which one worker thread does not prevent; the property claims nothing
of those users from then on.

`ReputationsAreEarned` bounds what updates lost between two workers, doubled rows
and the clamping at both ends can do. `ReputationEarned` is not inductive: the
history of a report is saved before the reputations are, and a worker carries a
value it read long ago. `Justified` therefore says of a value that it *and what all
workers still have to add* (`Pending`, one `Delta` for each action left in `todo`)
stay within the history. It holds of every value a worker might still write
(`EarnedInv`): of the rows (`RowsEarned`), of the copies read (`CopiesEarned`), and
of the default of a row that is not there yet (`NewRowsEarned`). Saving a history
adds the same to both sides, an update moves a `Delta` from the pending into the
value, and a lost update, a clamp or a restart only leaves more room.
`HandlersFollow` ties the actions left to the task of the call.

`SharesComeFirst` counts, for each member of a group, the payments made and the
workers whose next steps may make one and that have already written this member's
share (`Holding`): together they are at most the shares and the completions the
default strategy was asked about (`SharesPaid`). A worker enters the count with the
share it writes, or with `byDefault` when there is no strategy row, and leaves it
with its payment or a restart.

Both are about sums over users and tasks. `SetSums` shows for the sums of the
community modules, whose definition unfolds along `CHOOSE`, that any element of a
finite domain may be taken out first, that sums of integers are integers, grow with
their terms and change with one term. The library's induction theorems cannot be
used for that, so each induction takes a smallest subset without the property
(`SmallestSubset`, from the well-foundedness of strict inclusion).

`PromisesProofs` (any of the strategies, any users, tasks, actions and
reputations, any number of calls and restarts):

| Theorem | Statement |
|---|---|
| `PointsRise` | no strategy brings fewer points when no reputation is lower, the average level over at most two actions |
| `AverageLevelMayFall` | with three actions the average level can: levels 2, 2 and 1 bring 80 points, 3, 2 and 1 bring 60 |
| `PromisesAddNothing` | `PSpec => Spec` |
| `PromisesAreKept` | `Cardinality(Request) = 1 => (PSpec => []PromiseKept)` |

The assumptions are `RewardsAssumption` and `PromisesAssumption`.
`PromisesAddNothing` makes every invariant of `Rewards` one of `Promises`. The two
theorems on strategies say that the exception in `PromiseKept` (`Rises`) is
sufficient and needed. Divisions are handled by what they round (`QuotientsRise`),
the sums by `SetSums`, and the level of one or two actions by cases.

`PromiseKept` compares values that were read at the list with values read several
requests later, so the invariant (`PromiseInv`) says of every promise at every time
what stands behind it (`Honoured`; a completion whose handler died before it paid
has nothing to honour). Until the completion is settled (`Settled`) a promise is
`Backed`: there are the values the list saw, the promise is the points of those
values with both expected reports added, and each reputation is by now at least
`Least` of the value seen. `Least` moves with the report: the value itself, then one
accept more once the acceptance has been written, then both; a report that is in
the history but `InHand` of a worker does not count yet. Other tasks that succeed
only raise reputations; those that fail are `Spoiled`, which withdraws the user's
promises before any reputation falls, and a restart, which may cut an update off,
withdraws all; the row that names the strategy withdraws those of its task, so that
the strategy that pays is the one that was asked. At `Compute` everything has
reached `Least`, and `PointsRise` gives the points. The remaining parts: a worker's
copy is the row (`Reads`, for one worker), and a list misses no action and what it
has seen is still so (`Lists`). A promise begins with `Least` at the value itself,
which is why it stands only for a report with no history (`Answered`).

`UserTasksProofs` (any users, workers, tasks, windows, calls and restarts; also
about `Friendships`):

| Theorem | Statement |
|---|---|
| `TypeCorrect` | `USpec => []UTypeOK` |
| `RowsAreBounded` | `USpec => []RowsBounded` |
| `OneRowEach` | `USpec => []OneRowUnlessCrossed` |
| `AnswersAreTrue` | `USpec => []AnswersWereTrue` |
| `SuggestedAreFriends` | `USpec => []SuggestedWereFriends` |
| `OwnerIsPaid` | `USpec => []OwnerPaidPerApproval` |
| `ApprovalsAreBounded` | `USpec => []ApprovalsBounded` |
| `AssignedAreWorth` | `USpec => []AssignedTasksHaveStrategy` |

The assumptions are `FriendshipsAssumption` (finitely many workers) and
`UserTasksAssumption` (finitely many windows). The parts of the invariant:

* `PairsBounded`: a worker is a creator of a pair's row when it will insert one
  whatever happens, or would if the table stayed as it is. Once there is a row
  nobody becomes one.
* `PairsInTurn`: where calls never crossed, one worker is busy with the pair and
  what it missed is still missing.
* `Recalled`: what a worker has read was in a table of its time. The second query
  of a status that finds a row is true of the present table only if the first
  direction is still empty, which is where `crossed` comes in.
* `LinksBounded`: an approval uses a link up. Links and forms on a decided task
  are older than the decision, and with the approvals they are no more than
  there are windows.
* `StrategyFollows`: after an approval a task has at least one strategy row, or
  somebody is about to create it, or a restart or an exception cut an approval
  off. That there is no more than one is not claimed: each approval makes one, and
  `ApprovalsBounded` is what bounds them.

`AccountsProofs` (any validity, period and clock, any number of users, workers,
forms, requests and stops):

| Theorem | Statement |
|---|---|
| `TypeCorrect` | `Spec => []TypeOK` |
| `RequestsLive` | `Spec => []LinkLifetime` |
| `ChangesAreKept` | `Spec => []ChangesKept` |

The assumptions are `AccountsAssumption`. `PurgeIsThorough` says what a purge owes
at each stage: while it runs it knows everything that is over, and when it is
done whatever is left will be over for at most a period at the next one.
`CopiesAreCurrent`: as long as no column was set while somebody else held a copy,
every copy is the row, so writing one back changes nothing but what was set.

Model-checked only: the liveness properties (`ExpiredIsSettled`,
`EveryCompletionIsSettled`, `StepsAreFollowed`), which need fairness and `ENABLED`.
Every other property of a passing run is stated by a theorem. `race_ignore`,
`race_complete`, `race_badges` and `link_active` are counterexamples and have
nothing to prove.

## Not modelled

* The JavaScript of the web pages (`src/src/main/webapp/resources/js`) is
  third-party: Highcharts, jQuery, DataTables, Leaflet, OpenLayers, Bootstrap and
  their plug-ins. The program is the Java below `src/src/main/java`, with its web
  flows and pages. The one script of the project's own, `participact/gis.js`,
  computes polygons for a map.
* Push notifications: `com/google/android/gcm/server` is a vendored client of a
  service that is not here; a notification changes no row, and its loss only
  delays a phone's next poll.
* Leaderboards, scores and statistics read points and reports and write nothing
  that anybody else reads. Groups from positions are geometry on coordinates.
  Protocol buffers and the SOAP classes of the bus stops are generated.
* Creating and deleting users, accounts, badges, tasks and log files: forms that
  save or delete a row. The web form by which a user proposes a task
  (`TaskAddController.createTaskUser`) stores the same `TaskUser`, with the
  friends its page offered.
* The second-level cache of Hibernate (`NONSTRICT_READ_WRITE` on some entities):
  queries are taken to read the current row. The scheduler is taken to be on
  time.
* `BadgeServiceImpl.createBadgeAction` calls itself, so it never returns;
  nobody calls it, as the pages save the badges they made.

## Plan

Done: every module named above, and their proofs. What is left:

Deleting tasks, users and badges while handlers hold them: which merges then
bring a deleted row back.
