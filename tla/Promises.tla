------------------------------- MODULE Promises -------------------------------
(***************************************************************************)
(* The points a phone shows with an available task, and the points the     *)
(* task brings.  getTaskFlat asks the strategy of the task what it would   *)
(* pay if the user accepted and completed the task now; completeTask asks  *)
(* it again, with the reputations of then.  Until the row with the choice  *)
(* is there, both ask the default strategy.  The steps are those of        *)
(* Rewards; two variables record what the strategy answered.               *)
(***************************************************************************)
EXTENDS Rewards, PointsStrategies

CONSTANT StrategiesOf   \* StrategiesOf[t]: what the administrator may choose for t

ASSUME PromisesAssumption ==
  /\ StrategiesOf \in [Task -> (SUBSET (1 .. 5)) \ {{}}]
  /\ \A t \in Task : StrategiesOf[t] = {5} \/ (5 \notin StrategiesOf[t] /\ GroupOf[t] = {})

VARIABLES
  strategy,  \* strategy[t]: the choice, PointsStrategyForTask.strategyId, or 0
             \* before there is a row
  promise,   \* promise[<<u, t>>]: the points last shown to u for t, or 0 when
             \* something happened that the promise did not count on
  earned     \* earned[<<u, t>>]: the points computed when u completed t

promisesVars == << vars, strategy, promise, earned >>

PInit ==
  /\ Init
  /\ strategy = [t \in Task |-> 0]
  /\ promise = [r \in Reports |-> 0]
  /\ earned = [r \in Reports |-> 0]

\* Mutant: the success is counted twice.
ExpectedTwice(v) == Clamp(Clamp(Clamp(v + Delta["accept"]) + Delta["complete"]) + Delta["complete"])

\* The "fake" accept and the "fake" success of an action, which are not saved.
Expected(v) == Clamp(Clamp(v + Delta["accept"]) + Delta["complete"])

\* getAllStrategies().get(0) of an old task, or of one assigned a moment ago.
Default == 1

Asked(t) == IF strategies[t] = 0 THEN Default ELSE strategy[t]

\* The user has answered before: the report was put back by the end of its
\* assignment.
Answered(r) == \E op \in Op : outcome[r][op] > 0

\* The points shown with the tasks of an answered list.  Those of a report that
\* was put back, and those of a strategy that is not the task's any more, are
\* no promise.  (The points for the approval of one's own task, which getTaskFlat
\* adds, the user has already.)
Answer(i) ==
  /\ AnswerList(i)
  /\ LET l == req[i].list
         listed == { p[2] : p \in { q \in {l.user} \X Task : \E s \in l.seen : s[1] = q[2] } }
         expected(t) ==
           [a \in ActionsOf[t] |->
              Expected((CHOOSE s \in l.seen : s[1] = t /\ s[2] = a)[3])]
         stands(r) == ~ Answered(r) /\ (r[2] \in l.found <=> strategies[r[2]] > 0)
     IN  promise' = [r \in Reports |->
                       IF r[1] = l.user /\ r[2] \in listed
                       THEN IF stands(r) THEN PointsBy(Asked(r[2]), expected(r[2])) ELSE 0
                       ELSE promise[r]]
  /\ UNCHANGED << strategy, earned >>

\* The strategy reads the reputations again.
Compute(i) ==
  /\ ComputePoints(i)
  /\ req'[i].pc = "paying"
  /\ LET c == req[i].call
         reps == [a \in ActionsOf[c.task] |->
                    reputation[CHOOSE r \in DOMAIN reputation :
                                 r[1] = c.user /\ r[2] = TypeOf[a]]]
     IN  earned' = [earned EXCEPT ![ReportOf(c)] = PointsBy(Asked(c.task), reps)]
  /\ UNCHANGED << strategy, promise >>

\* What the user does against the promise: a task rejected or failed, or
\* completed before it was accepted.
Spoils(c) ==
  \/ c.op \in { "reject", "fail" }
  \/ c.op = "complete" /\ outcome[ReportOf(c)]["accept"] = 0

Save(i) ==
  /\ SaveReport(i)
  /\ LET c == req[i].call IN
       promise' = [r \in Reports |->
                     IF Spoils(c) /\ r[1] = c.user THEN 0 ELSE promise[r]]
  /\ UNCHANGED << strategy, earned >>

\* The row with the choice appears: what the default strategy answered is void.
Choose(t) ==
  /\ AddStrategy(t)
  /\ \E s \in StrategiesOf[t] :
       strategy' = [strategy EXCEPT ![t] = IF strategies[t] = 0 THEN s ELSE @]
  /\ promise' = [r \in Reports |-> IF r[2] = t /\ strategies[t] = 0 THEN 0 ELSE promise[r]]
  /\ UNCHANGED earned

\* A restart may cut a handler off before it updated a reputation.
Restart ==
  /\ Crash
  /\ promise' = [r \in Reports |-> 0]
  /\ UNCHANGED << strategy, earned >>

Other(i) ==
  \/ \E u \in User : ListTasks(i, u)
  \/ \E op \in Op, u \in User, t \in Task : GetUser(i, op, u, t)
  \/ AlreadyCompleted(i)
  \/ LoadReport(i)
  \/ FindReputation(i)
  \/ CreateReputation(i)
  \/ UpdateReputation(i)
  \/ Return(i)
  \/ ComputePoints(i) /\ req'[i].pc # "paying"
  \/ PayOwn(i)
  \/ PayShare(i)
  \/ CountReports(i)
  \/ SaveBadges(i)
  \/ ReadForList(i)
  \/ AddForList(i)
  \/ FindStrategy(i)

Flows ==
  \/ \E f \in Form, u \in User : HoldUser(f, u)
  \/ \E f \in Form : MergeUser(f)

PNext ==
  \/ \E i \in Request : Answer(i)
  \/ \E i \in Request : Compute(i)
  \/ \E i \in Request : Save(i)
  \/ \E t \in Task : Choose(t)
  \/ Restart
  \/ /\ (\E i \in Request : Other(i)) \/ Flows
     /\ UNCHANGED << strategy, promise, earned >>

PSpec == PInit /\ [][PNext]_promisesVars

-----------------------------------------------------------------------------

\* The lowest of the levels most actions have may fall when one of three
\* reputations rises; with one or two actions it cannot.
Rises(t) == Asked(t) = 1 => Cardinality(ActionsOf[t]) <= 2

\* A user who accepts and completes what the phone listed, and lets no other
\* task down, earns at least the points the list showed: whatever else was
\* completed in between, whatever two actions of one type add up to, and with
\* every rounding; but for the average level of three or more actions, and for
\* a task whose strategy was not stored yet when the list was made.
PromiseKept ==
  \A r \in Reports :
    paid[r] > 0 /\ promise[r] > 0 /\ Rises(r[2]) => earned[r] >= promise[r]
=============================================================================
