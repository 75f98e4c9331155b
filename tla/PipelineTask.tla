---------------------------- MODULE PipelineTask ----------------------------
(***************************************************************************)
(* Pipeline tasks: an administrator creates the first step for every group *)
(* of users, and completeTask, called for a step, creates the next one for *)
(* the rest of the group.  The table PipelineTaskProgress says which task  *)
(* is which step of which group; it is written last, after the task and    *)
(* its reports are saved and the phones are notified, so a step can be     *)
(* completed before the table knows of it.                                 *)
(*                                                                         *)
(* One pipeline is modelled; pipelines share nothing but the users.        *)
(***************************************************************************)
EXTENDS Integers, FiniteSets, FiniteSetsExt

CONSTANTS
  User, Group,
  Members,     \* Members[g]: the active users of group g
  Steps,       \* the number of steps: the answers the administrator typed
  Request,     \* the HTTP worker threads
  MaxTasks,    \* bound: step tasks ever created
  MaxCompleted, \* bound: no call begins once that many are completed
  MaxCrashes   \* bound: restarts of the server

StepTask == 1 .. MaxTasks

ASSUME PipelineAssumption ==
  /\ Members \in [Group -> SUBSET User]
  /\ Steps \in Nat \ {0}
  /\ MaxTasks \in Nat
  /\ {MaxCompleted, MaxCrashes} \subseteq Nat
  /\ IsFiniteSet(Request)

VARIABLES
  sent,       \* the step tasks that are saved, with the users they went to
  ruled,      \* those with a PointsStrategyForTask row (the group strategy)
  progress,   \* the PipelineTaskProgress table
  completed,  \* the pairs <<user, task>> with a completed report
  early,      \* those completed before the progress table knew the task
  closed,     \* the tasks whose deadline was moved to the present
  unpaid,     \* the pairs whose handler died for want of a progress row
  thrown,     \* the pairs whose handler died at their user's reputations
  admin,      \* what createAndAssignPipelineTask is doing
  req,        \* req[i]: what HTTP worker i is doing
  crashes

vars == << sent, ruled, progress, completed, early, closed, unpaid, thrown,
           admin, req, crashes >>

-----------------------------------------------------------------------------

Idle == [pc |-> "idle"]

\* A step task: "after" is the task whose completion created it (0: none).
Sent == [group : Group, step : 1 .. Steps, to : SUBSET User, after : 0 .. MaxTasks]

ProgressRow == [group : Group, step : 1 .. Steps, task : StepTask]

\* The groups that still wait for their first step, and the row that is to be
\* saved for the step assigned last.
Creating == [pc : {"groups"}, todo : SUBSET Group]
              \cup [pc : {"ruling", "saving"}, todo : SUBSET Group, row : ProgressRow]

\* A handler that has no progress row in hand, one that has the row of its task,
\* and one that writes the row of the next step.
Called == [pc : {"loaded", "saved", "rewarding"}, user : User, task : StepTask]
Advancing == [pc : {"found", "closing", "assigning"}, user : User,
              task : StepTask, row : ProgressRow]
Recording == [pc : {"ruling", "saving"}, user : User, task : StepTask,
              new : ProgressRow]

TypeOK ==
  /\ DOMAIN sent \subseteq StepTask
  /\ sent \in [DOMAIN sent -> Sent]
  /\ ruled \subseteq DOMAIN sent
  /\ progress \subseteq ProgressRow
  /\ completed \subseteq User \X StepTask
  /\ early \subseteq completed
  /\ closed \subseteq StepTask
  /\ unpaid \subseteq completed
  /\ thrown \subseteq completed
  /\ admin \in {Idle} \cup Creating
  /\ req \in [Request -> {Idle} \cup Called \cup Advancing \cup Recording]
  /\ crashes \in 0 .. MaxCrashes

\* The pipeline's own task and its answers are saved, the loop over the groups
\* begins.
Init ==
  /\ sent = [t \in {} |-> 0]
  /\ ruled = {}
  /\ progress = {}
  /\ completed = {}
  /\ early = {}
  /\ closed = {}
  /\ unpaid = {}
  /\ thrown = {}
  /\ admin = [pc |-> "groups", todo |-> Group]
  /\ req = [i \in Request |-> Idle]
  /\ crashes = 0

Goes(i, x) == req' = [req EXCEPT ![i] = x]

\* taskService.assignTaskToUsers: a new task with its reports.
NextTask == Cardinality(DOMAIN sent) + 1

Send(task) ==
  /\ NextTask \in StepTask   \* MaxTasks
  /\ sent' = [t \in DOMAIN sent \cup {NextTask} |->
                IF t = NextTask THEN task ELSE sent[t]]

-----------------------------------------------------------------------------
(* The administrator: TaskAddController.createAndAssignPipelineTask.       *)

AssignFirst(g) ==
  /\ admin.pc = "groups"
  /\ g \in admin.todo
  /\ Send([group |-> g, step |-> 1, to |-> Members[g], after |-> 0])
  /\ admin' = [pc |-> "ruling", todo |-> admin.todo \ {g},
               row |-> [group |-> g, step |-> 1, task |-> NextTask]]
  /\ UNCHANGED << ruled, progress, completed, early, closed, unpaid, thrown, req, crashes >>

RuleFirst ==
  /\ admin.pc = "ruling"
  /\ ruled' = ruled \cup {admin.row.task}
  /\ admin' = [admin EXCEPT !.pc = "saving"]
  /\ UNCHANGED << sent, progress, completed, early, closed, unpaid, thrown, req, crashes >>

SaveFirst ==
  /\ admin.pc = "saving"
  /\ progress' = progress \cup {admin.row}
  /\ admin' = [pc |-> "groups", todo |-> admin.todo]
  /\ UNCHANGED << sent, ruled, completed, early, closed, unpaid, thrown, req, crashes >>

-----------------------------------------------------------------------------
(* completeTask for a step.                                                *)

\* A report exists and was not completed before.  Steps may be completed
\* after their deadline.
Load(i, u, t) ==
  /\ req[i] = Idle
  /\ t \in DOMAIN sent
  /\ u \in sent[t].to
  /\ << u, t >> \notin completed
  /\ Cardinality(completed) < MaxCompleted
  /\ Goes(i, [pc |-> "loaded", user |-> u, task |-> t])
  /\ UNCHANGED << sent, ruled, progress, completed, early, closed, unpaid, thrown, admin, crashes >>

RowsOf(t) == { p \in progress : p.task = t }

Save(i) ==
  /\ req[i].pc = "loaded"
  /\ LET c == << req[i].user, req[i].task >> IN
       /\ completed' = completed \cup {c}
       /\ early' = IF RowsOf(req[i].task) = {} THEN early \cup {c} ELSE early
  /\ Goes(i, [req[i] EXCEPT !.pc = "saved"])
  /\ UNCHANGED << sent, ruled, progress, closed, unpaid, thrown, admin, crashes >>

\* Between the save and the next step the reputations of the user are read, and
\* two rows for one action type throw: the retries of the phone find the step
\* completed and go no further.  (The reputations are in module Rewards.)
ThrowReputation(i) ==
  /\ req[i].pc = "saved"
  /\ thrown' = thrown \cup { << req[i].user, req[i].task >> }
  /\ Goes(i, Idle)
  /\ UNCHANGED << sent, ruled, progress, completed, early, closed, unpaid, admin, crashes >>

\* findByTaskStepId: a task has at most one row.  Without one there is no next
\* step to send.
FindProgress(i) ==
  /\ req[i].pc = "saved"
  /\ \/ \E p \in RowsOf(req[i].task) :
          Goes(i, [pc |-> "found", user |-> req[i].user, task |-> req[i].task, row |-> p])
     \/ /\ RowsOf(req[i].task) = {}
        /\ Goes(i, [req[i] EXCEPT !.pc = "rewarding"])
  /\ UNCHANGED << sent, ruled, progress, completed, early, closed, unpaid, thrown, admin, crashes >>

\* getMaxStepByPipelineId
StepsOf(g) == { p.step : p \in { q \in progress : q.group = g } }

MaxStep(g) == Max(StepsOf(g))

\* Mutants: the completed step need not be the current one; it may be the last
\* one; the last step is counted from zero.
IsCurrentEver(row) == MaxStep(row.group) < Steps
IsCurrentPast(row) == MaxStep(row.group) = row.step
IsCurrentEarly(row) == MaxStep(row.group) + 1 < Steps /\ MaxStep(row.group) = row.step

IsCurrent(row) == MaxStep(row.group) < Steps /\ MaxStep(row.group) = row.step

ReadMax(i) ==
  /\ req[i].pc = "found"
  /\ \/ /\ IsCurrent(req[i].row)
        /\ Goes(i, [req[i] EXCEPT !.pc = "closing"])
     \/ /\ ~ IsCurrent(req[i].row)
        /\ Goes(i, [pc |-> "rewarding", user |-> req[i].user, task |-> req[i].task])
  /\ UNCHANGED << sent, ruled, progress, completed, early, closed, unpaid, thrown, admin, crashes >>

\* The deadline becomes the present, and the next step begins where this one
\* was to end (module TaskLifecycle has the clock).
CloseStep(i) ==
  /\ req[i].pc = "closing"
  /\ closed' = closed \cup {req[i].task}
  /\ Goes(i, [req[i] EXCEPT !.pc = "assigning"])
  /\ UNCHANGED << sent, ruled, progress, completed, early, unpaid, thrown, admin, crashes >>

\* Mutants: the step is sent to everybody; its number is read again.
ReceiversAll(g, u) == Members[g]

\* BaseStrategy.getUserToSendTask
Receivers(g, u) == Members[g] \ {u}

NextStepLate(row) == MaxStep(row.group) + 1

\* currentStep + 1: currentStep was read before the test that it is the step of
\* the row.
NextStep(row) == row.step + 1

AssignNext(i) ==
  /\ req[i].pc = "assigning"
  /\ LET row == req[i].row IN
       /\ Send([group |-> row.group, step |-> NextStep(row),
                to |-> Receivers(row.group, req[i].user), after |-> req[i].task])
       /\ Goes(i, [pc |-> "ruling", user |-> req[i].user, task |-> req[i].task,
                   new |-> [group |-> row.group, step |-> NextStep(row),
                            task |-> NextTask]])
  /\ UNCHANGED << ruled, progress, completed, early, closed, unpaid, thrown, admin, crashes >>

\* pointsStrategyForTaskService.create, then the notification of the phones
RuleNext(i) ==
  /\ req[i].pc = "ruling"
  /\ ruled' = ruled \cup {req[i].new.task}
  /\ Goes(i, [req[i] EXCEPT !.pc = "saving"])
  /\ UNCHANGED << sent, progress, completed, early, closed, unpaid, thrown, admin, crashes >>

\* Mutant: the row of the step before is replaced.
SaveNextReplacing(i) ==
  /\ req[i].pc = "saving"
  /\ progress' = { p \in progress : p.group # req[i].new.group } \cup {req[i].new}
  /\ Goes(i, [pc |-> "rewarding", user |-> req[i].user, task |-> req[i].task])
  /\ UNCHANGED << sent, ruled, completed, early, closed, unpaid, thrown, admin, crashes >>

SaveNext(i) ==
  /\ req[i].pc = "saving"
  /\ progress' = progress \cup {req[i].new}
  /\ Goes(i, [pc |-> "rewarding", user |-> req[i].user, task |-> req[i].task])
  /\ UNCHANGED << sent, ruled, completed, early, closed, unpaid, thrown, admin, crashes >>

\* GroupStrategy.computePoints takes the first progress row of the task, and
\* throws if there is none; a task with no strategy yet gets the default one
\* (the points themselves are module Rewards').
Reward(i) ==
  /\ req[i].pc = "rewarding"
  /\ unpaid' = IF req[i].task \in ruled /\ RowsOf(req[i].task) = {}
                   THEN unpaid \cup { << req[i].user, req[i].task >> }
                   ELSE unpaid
  /\ Goes(i, Idle)
  /\ UNCHANGED << sent, ruled, progress, completed, early, closed, thrown, admin, crashes >>

-----------------------------------------------------------------------------

\* The tables stay; the loop over the groups is not resumed.
Crash ==
  /\ crashes < MaxCrashes
  /\ crashes' = crashes + 1
  /\ admin' = Idle
  /\ req' = [i \in Request |-> Idle]
  /\ UNCHANGED << sent, ruled, progress, completed, early, closed, unpaid, thrown >>

\* The next statement of the handler worker i runs.
Step(i) ==
  \/ Save(i)
  \/ ThrowReputation(i)
  \/ FindProgress(i)
  \/ ReadMax(i)
  \/ CloseStep(i)
  \/ AssignNext(i)
  \/ RuleNext(i)
  \/ SaveNext(i)
  \/ Reward(i)

AdminStep ==
  \/ \E g \in Group : AssignFirst(g)
  \/ RuleFirst
  \/ SaveFirst

Next ==
  \/ AdminStep
  \/ \E i \in Request, u \in User, t \in StepTask : Load(i, u, t)
  \/ \E i \in Request : Step(i)
  \/ Crash

Spec == Init /\ [][Next]_vars

\* Handlers that began run to their end; no user has to begin one.
FairSpec == Spec /\ WF_vars(AdminStep) /\ \A i \in Request : WF_vars(Step(i))

-----------------------------------------------------------------------------
(* Properties                                                              *)

SentAt(g, k) == { t \in DOMAIN sent : sent[t].group = g /\ sent[t].step = k }

RowsAt(g, k) == { p \in progress : p.group = g /\ p.step = k }

\* sendNextStepOfPipelineTask tests the progress table long before it adds to
\* it, so members who complete a step together create the next one together:
\* each worker thread at most once, and once more after a restart, and the
\* table never has more rows for a step than there are threads.
DuplicatesBounded ==
  \A g \in Group, k \in 2 .. Steps :
    /\ Cardinality(SentAt(g, k)) <= Cardinality(Request) * (crashes + 1)
    /\ Cardinality(RowsAt(g, k)) <= Cardinality(Request)

\* Every task of a later step was created because a member completed a task of
\* the step before in the same group, and does not go to that member: whoever
\* answers a step is never asked the step the answer led to.
FollowsAnAnswer ==
  \A t \in DOMAIN sent :
    sent[t].step > 1 =>
      \E u \in User : LET before == sent[t].after IN
        /\ << u, before >> \in completed
        /\ u \notin sent[t].to
        /\ sent[before].group = sent[t].group
        /\ sent[before].step = sent[t].step - 1

\* completeTask throws for want of a progress row, and pays nothing, only for a step
\* that was completed before that row was written.
OnlyEarlyIsUnpaid == unpaid \subseteq early

\* The steps of a group, as the progress table has them: one after the other,
\* and none before somebody completed the one before it, however many members
\* complete a step at once and wherever the server stops.
height == [g \in Group |-> IF StepsOf(g) = {} THEN 0 ELSE MaxStep(g)]

answered ==
  [g \in Group |-> { sent[t].step : t \in { s \in DOMAIN sent :
                       sent[s].group = g /\ \E u \in User : << u, s >> \in completed } }]

Chain == INSTANCE StepChain

\* The table implements the chain.
ImplementsChain == Chain!Spec

\* A completion that came late enough to find the progress row, and whose call got
\* past the reputations.
Counts(u, t) ==
  /\ << u, t >> \in completed \ (early \cup thrown)
  /\ \A i \in Request : ~ (req[i].pc = "saved" /\ req[i].user = u /\ req[i].task = t)

\* A step is followed by the next one, unless the server stops, once its deadline
\* was moved to the present, or a completion counts, whoever else completes steps
\* meanwhile.
StepsAreFollowed ==
  \A g \in Group, k \in 1 .. Steps - 1 :
    (\E t \in SentAt(g, k) : t \in closed \/ \E u \in User : Counts(u, t))
      ~> (k + 1 \in StepsOf(g) \/ crashes > 0)
=============================================================================
