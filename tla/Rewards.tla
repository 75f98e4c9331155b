------------------------------- MODULE Rewards -------------------------------
(***************************************************************************)
(* What the REST handlers acceptTask, rejectTask, completeTask and         *)
(* completeTaskWithUnsuccess do besides writing the report's history: they *)
(* update a reputation for each action of the task, and completeTask goes  *)
(* on to create points and to unlock badges; and what getTaskFlat does when *)
(* a phone lists its tasks: it too creates the reputations it misses.      *)
(* Beside them a task gets the row that names its points strategy, in a    *)
(* transaction after the one that assigns it, and the web's flows keep a   *)
(* user they loaded and merge it when their form is sent.                  *)
(* Module TaskLifecycle has the report itself; here it is reduced to what   *)
(* the rewards depend on.                                                   *)
(*                                                                         *)
(* Each service call is a transaction of its own, and merging a detached   *)
(* entity writes what it holds: merging points or a reputation cascades to *)
(* the user, whose badges are loaded eagerly and written back as they were *)
(* read.                                                                   *)
(***************************************************************************)
EXTENDS Integers, FiniteSets, Functions

CONSTANTS
  User, Task, Action, Badge,
  Type,           \* ActionType: what an action asks the phone to do
  ActionsOf,      \* ActionsOf[t]: the actions of task t
  TypeOf,         \* TypeOf[a]: the type of action a
  GroupOf,        \* GroupOf[t]: the group of a pipeline step; {} for other tasks
  BadgeOf,        \* BadgeOf[b]: a type and the number of actions of it that
                  \*             unlock badge b, or the task that does
  Request,        \* the HTTP worker threads
  Form,           \* the web flows that keep a user, one form each
  InitReputation, MinReputation, MaxReputation,
  MaxStrategies,  \* MaxStrategies[t], bound: strategy rows of task t
  MaxRows,        \* bound: reputation rows for one user and one type
  MaxRequests,    \* bound: requests ever started
  MaxCrashes      \* bound: restarts of the server

Op == { "accept", "reject", "complete", "fail" }

Delta == [accept |-> 5, reject |-> -5, complete |-> 10, fail |-> -10]

RowId == User \X Type \X (1 .. MaxRows)

ASSUME RewardsAssumption ==
  /\ ActionsOf \in [Task -> (SUBSET Action) \ {{}}]
  /\ TypeOf \in [Action -> Type]
  /\ GroupOf \in [Task -> SUBSET User]
  /\ BadgeOf \in [Badge -> [type : Type, quantity : Nat \ {0}] \cup [task : Task]]
  /\ MinReputation \in Int /\ InitReputation \in Int /\ MaxReputation \in Int
  /\ MinReputation <= InitReputation /\ InitReputation <= MaxReputation
  /\ MaxStrategies \in [Task -> Nat]
  /\ MaxRows \in Nat \ {0}
  /\ MaxRequests \in Nat
  /\ MaxCrashes \in Nat
  /\ IsFiniteSet(Request)
  \* the rows of tables, and the sets loaded from them
  /\ IsFiniteSet(User) /\ IsFiniteSet(Task)
  /\ \A t \in Task : IsFiniteSet(ActionsOf[t])

VARIABLES
  outcome,     \* outcome[<<u, t>>][op]: entries of each kind in the history
  current,     \* current[<<u, t>>]: the last of them
  reputation,  \* the Reputation table: a function from the ids in use to values
  paid,        \* paid[<<u, t>>]: points rows for completing t
  shares,      \* shares[<<u, t>>]: points rows for a completion in u's group
  badges,      \* badges[u]: the User_Badges rows of u
  req,         \* req[i]: what HTTP worker i is doing
  unpaid,      \* unpaid[<<u, t>>]: completions whose handler died before it paid
  strategies,  \* strategies[t]: the PointsStrategyForTask rows of t
  byDefault,   \* byDefault[t]: completions of t the default strategy was asked about
  form,        \* form[f]: the user flow f keeps
  reverted,    \* the users whose badges a flow wrote back as they no longer were
  started, crashes

\* What no step of a handler changes, but for byDefault.
beside == << strategies, byDefault, form, reverted >>

vars == << outcome, current, reputation, paid, shares, badges, req, unpaid,
           started, crashes, beside >>

-----------------------------------------------------------------------------

Idle == [pc |-> "idle"]

\* A request as the handler's locals: "held" are the badges of the user object
\* loaded first, "todo" the actions whose reputation is still to be updated.
Call == [op : Op, user : User, task : Task, held : SUBSET Badge]

ReputationRow == [id : RowId, value : Int, held : SUBSET Badge]

\* A phone's list: the actions whose reputation is still to be read for the
\* points shown with their task, the reputations that were read, the tasks
\* whose strategy is still to be looked for, and those that have one.
List == [user : User, todo : SUBSET (Task \X Action),
         seen : SUBSET (Task \X Action \X Int), ask : SUBSET Task, found : SUBSET Task]

Closed == [pc |-> "closed"]

\* A user in the scope of a flow, with the badges it was loaded with.
OpenForm == [pc : {"open"}, user : User, held : SUBSET Badge]

\* The members of a group still to be paid, with the badges of each.
Members == UNION { [S -> SUBSET Badge] : S \in SUBSET User }

Working ==
  [pc : {"called", "loaded", "counting"}, call : Call]
    \cup [pc : {"saved"}, call : Call, todo : SUBSET Action]
    \cup [pc : {"creating"}, call : Call, todo : SUBSET Action, action : Action]
    \cup [pc : {"updating"}, call : Call, todo : SUBSET Action, action : Action,
          row : ReputationRow]
    \cup [pc : {"paying"}, call : Call, group : Members]
    \cup [pc : {"unlocking"}, call : Call, new : SUBSET Badge]
    \cup [pc : {"listing"}, list : List]
    \cup [pc : {"adding"}, list : List, task : Task, action : Action]

Reports == User \X Task

TypeOK ==
  /\ outcome \in [Reports -> [Op -> Nat]]
  /\ current \in [Reports -> Op \cup {"none"}]
  /\ DOMAIN reputation \subseteq RowId
  /\ \A r \in DOMAIN reputation :
       reputation[r] \in MinReputation .. MaxReputation
  /\ paid \in [Reports -> Nat] /\ shares \in [Reports -> Nat]
  /\ unpaid \in [Reports -> Nat]
  /\ badges \in [User -> SUBSET Badge]
  /\ req \in [Request -> {Idle} \cup Working]
  /\ strategies \in [Task -> Nat] /\ byDefault \in [Task -> Nat]
  /\ form \in [Form -> {Closed} \cup OpenForm]
  /\ reverted \subseteq User
  /\ started \in 0 .. MaxRequests
  /\ crashes \in 0 .. MaxCrashes

Init ==
  /\ outcome = [r \in Reports |-> [op \in Op |-> 0]]
  /\ current = [r \in Reports |-> "none"]
  /\ reputation = [r \in {} |-> 0]
  /\ paid = [r \in Reports |-> 0]
  /\ shares = [r \in Reports |-> 0]
  /\ unpaid = [r \in Reports |-> 0]
  /\ badges = [u \in User |-> {}]
  /\ req = [i \in Request |-> Idle]
  /\ strategies = [t \in Task |-> 0]
  /\ byDefault = [t \in Task |-> 0]
  /\ form = [f \in Form |-> Closed]
  /\ reverted = {}
  /\ started = 0
  /\ crashes = 0

Goes(i, x) == req' = [req EXCEPT ![i] = x]

ReportOf(c) == << c.user, c.task >>

-----------------------------------------------------------------------------
(* The report.                                                             *)

\* userService.getUser
GetUser(i, op, u, t) ==
  /\ req[i] = Idle
  /\ started < MaxRequests
  /\ started' = started + 1
  /\ Goes(i, [pc |-> "called",
              call |-> [op |-> op, user |-> u, task |-> t, held |-> badges[u]]])
  /\ UNCHANGED << outcome, current, reputation, paid, shares, badges, unpaid,
                  crashes, beside >>

\* Mutant: the early return looks at the current state, not at the history.
HasCompletedLast(r) == current[r] = "complete"

HasCompleted(r) == outcome[r]["complete"] > 0

\* The early return of completeTask.
AlreadyCompleted(i) ==
  /\ req[i].pc = "called"
  /\ req[i].call.op = "complete"
  /\ HasCompleted(ReportOf(req[i].call))
  /\ Goes(i, Idle)
  /\ UNCHANGED << outcome, current, reputation, paid, shares, badges, unpaid,
                  started, crashes, beside >>

LoadReport(i) ==
  /\ req[i].pc = "called"
  /\ req[i].call.op = "complete" => ~ HasCompleted(ReportOf(req[i].call))
  /\ Goes(i, [pc |-> "loaded", call |-> req[i].call])
  /\ UNCHANGED << outcome, current, reputation, paid, shares, badges, unpaid,
                  started, crashes, beside >>

SaveReport(i) ==
  /\ req[i].pc = "loaded"
  /\ LET c == req[i].call
         r == ReportOf(c)
     IN  /\ outcome' = [outcome EXCEPT ![r][c.op] = @ + 1]
         /\ current' = [current EXCEPT ![r] = c.op]
         /\ Goes(i, [pc |-> "saved", call |-> c, todo |-> ActionsOf[c.task]])
  /\ UNCHANGED << reputation, paid, shares, badges, unpaid, started, crashes,
                  beside >>

-----------------------------------------------------------------------------
(* Reputation, one action after the other in the order of a Java set.      *)

RowsOf(u, y) == { r \in DOMAIN reputation : r[1] = u /\ r[2] = y }

\* Handlers that end with an exception or a restart before they have paid.
Owes(i, r) ==
  /\ req[i].pc \in {"saved", "creating", "updating", "paying"}
  /\ req[i].call.op = "complete"
  /\ ReportOf(req[i].call) = r

\* getSingleResult finds several rows: the exception nobody catches.
Fails(i) ==
  /\ Goes(i, Idle)
  /\ unpaid' = [r \in Reports |-> IF Owes(i, r) THEN unpaid[r] + 1 ELSE unpaid[r]]
  /\ UNCHANGED reputation

Updates(i, a, r, value) ==
  Goes(i, [pc |-> "updating", call |-> req[i].call, todo |-> req[i].todo,
           action |-> a,
           row |-> [id |-> r, value |-> value, held |-> badges[req[i].call.user]]])

\* Mutant: a row is created whatever the query found.
FindReputationNever(i) ==
  /\ req[i].pc = "saved"
  /\ \E a \in req[i].todo :
       Goes(i, [pc |-> "creating", call |-> req[i].call, todo |-> req[i].todo, action |-> a])
  /\ UNCHANGED << outcome, current, reputation, paid, shares, badges, unpaid,
                  started, crashes, beside >>

\* getReputationByUserAndActionType, its query
FindReputation(i) ==
  /\ req[i].pc = "saved"
  /\ \E a \in req[i].todo :
       LET rows == RowsOf(req[i].call.user, TypeOf[a]) IN
         \/ /\ rows = {}
            /\ Goes(i, [pc |-> "creating", call |-> req[i].call,
                        todo |-> req[i].todo, action |-> a])
            /\ UNCHANGED unpaid
         \/ /\ \E r \in rows : rows = {r} /\ Updates(i, a, r, reputation[r])
            /\ UNCHANGED unpaid
         \/ Cardinality(rows) > 1 /\ Fails(i)
  /\ UNCHANGED << outcome, current, reputation, paid, shares, badges,
                  started, crashes, beside >>

\* ... and, in the same transaction, the row it creates if there was none.
CreateReputation(i) ==
  /\ req[i].pc = "creating"
  /\ LET u == req[i].call.user
         y == TypeOf[req[i].action]
         new == << u, y, Cardinality(RowsOf(u, y)) + 1 >>
     IN  /\ new \in RowId   \* MaxRows
         /\ reputation' = [r \in DOMAIN reputation \cup {new} |->
                             IF r = new THEN InitReputation ELSE reputation[r]]
         /\ Updates(i, req[i].action, new, InitReputation)
  /\ UNCHANGED << outcome, current, paid, shares, badges, unpaid, started,
                  crashes, beside >>

\* Mutant: only the upper end of the range is kept.
ClampAbove(v) == IF v > MaxReputation THEN MaxReputation ELSE v

Clamp(v) ==
  IF v < MinReputation THEN MinReputation
  ELSE IF v > MaxReputation THEN MaxReputation ELSE v

\* Mutant: the change is made once by the strategy and once by its caller.
UpdateReputationTwice(i) ==
  /\ req[i].pc = "updating"
  /\ LET row == req[i].row
         c == req[i].call
     IN  /\ reputation' = [reputation EXCEPT ![row.id] =
                             Clamp(Clamp(row.value + Delta[c.op]) + Delta[c.op])]
         /\ badges' = [badges EXCEPT ![c.user] = row.held]
         /\ Goes(i, [pc |-> "saved", call |-> c, todo |-> req[i].todo \ {req[i].action}])
  /\ UNCHANGED << outcome, current, paid, shares, unpaid, started, crashes,
                  beside >>

\* ReputationStrategyTrivial.updateReputation
UpdateReputation(i) ==
  /\ req[i].pc = "updating"
  /\ LET row == req[i].row
         c == req[i].call
     IN  /\ reputation' = [reputation EXCEPT ![row.id] = Clamp(row.value + Delta[c.op])]
         /\ badges' = [badges EXCEPT ![c.user] = row.held]
         /\ Goes(i, [pc |-> "saved", call |-> c, todo |-> req[i].todo \ {req[i].action}])
  /\ UNCHANGED << outcome, current, paid, shares, unpaid, started, crashes,
                  beside >>

\* The three handlers that end here.
Return(i) ==
  /\ req[i].pc = "saved"
  /\ req[i].todo = {}
  /\ req[i].call.op # "complete"
  /\ Goes(i, Idle)
  /\ UNCHANGED << outcome, current, reputation, paid, shares, badges, unpaid,
                  started, crashes, beside >>

-----------------------------------------------------------------------------
(* The list of available tasks.  Tasks and actions come in the order of a  *)
(* query and of a Java set, that is in any.                                *)

Available(u) == { t \in Task : current[<< u, t >>] = "none" }

ListTasks(i, u) ==
  /\ req[i] = Idle
  /\ started < MaxRequests
  /\ started' = started + 1
  /\ Goes(i, [pc |-> "listing",
              list |-> [user |-> u,
                        todo |-> { p \in Available(u) \X Action : p[2] \in ActionsOf[p[1]] },
                        seen |-> {}, ask |-> Available(u), found |-> {}]])
  /\ UNCHANGED << outcome, current, reputation, paid, shares, badges, unpaid,
                  crashes, beside >>

\* The reputation v has been read for action a of task t.
Sees(i, t, a, v) ==
  LET l == req[i].list IN
    Goes(i, [pc |-> "listing",
             list |-> [user |-> l.user, todo |-> l.todo \ { << t, a >> },
                       seen |-> l.seen \cup { << t, a, v >> },
                       ask |-> l.ask, found |-> l.found]])

\* getReputationByUserAndActionType again, one task after the other; the phone
\* is answered with an empty list when it throws.
ReadForList(i) ==
  /\ req[i].pc = "listing"
  /\ \E t \in Task, a \in Action :
       /\ << t, a >> \in req[i].list.todo
       /\ \A s \in req[i].list.seen : s[1] # t => s[1] \notin req[i].list.ask
       /\ LET rows == RowsOf(req[i].list.user, TypeOf[a]) IN
            \/ /\ rows = {}
               /\ Goes(i, [pc |-> "adding", list |-> req[i].list, task |-> t, action |-> a])
            \/ \E r \in rows : rows = {r} /\ Sees(i, t, a, reputation[r])
            \/ Cardinality(rows) > 1 /\ Goes(i, Idle)
  /\ UNCHANGED << outcome, current, reputation, paid, shares, badges, unpaid,
                  started, crashes, beside >>

AddForList(i) ==
  /\ req[i].pc = "adding"
  /\ LET u == req[i].list.user
         y == TypeOf[req[i].action]
         new == << u, y, Cardinality(RowsOf(u, y)) + 1 >>
     IN  /\ new \in RowId   \* MaxRows
         /\ reputation' = [r \in DOMAIN reputation \cup {new} |->
                             IF r = new THEN InitReputation ELSE reputation[r]]
         /\ Sees(i, req[i].task, req[i].action, InitReputation)
  /\ UNCHANGED << outcome, current, paid, shares, badges, unpaid, started,
                  crashes, beside >>

\* getPointsStrategyForTaskByTask, when the reputations of the task are there:
\* getSingleResult finds no row, one, or several and throws.
FindStrategy(i) ==
  /\ req[i].pc = "listing"
  /\ \E t \in req[i].list.ask :
       LET l == req[i].list IN
         /\ \A a \in Action : << t, a >> \notin l.todo
         /\ \/ /\ strategies[t] <= 1
               /\ Goes(i, [pc |-> "listing",
                           list |-> [user |-> l.user, todo |-> l.todo, seen |-> l.seen,
                                     ask |-> l.ask \ {t},
                                     found |-> IF strategies[t] = 1 THEN l.found \cup {t}
                                                                    ELSE l.found]])
            \/ strategies[t] > 1 /\ Goes(i, Idle)
  /\ UNCHANGED << outcome, current, reputation, paid, shares, badges, unpaid,
                  started, crashes, beside >>

AnswerList(i) ==
  /\ req[i].pc = "listing"
  /\ req[i].list.todo = {} /\ req[i].list.ask = {}
  /\ Goes(i, Idle)
  /\ UNCHANGED << outcome, current, reputation, paid, shares, badges, unpaid,
                  started, crashes, beside >>

-----------------------------------------------------------------------------
(* Points.                                                                 *)

\* Mutant: the handler goes on to "counting" without a commit of the points.
ComputePointsUnsaved(i) ==
  /\ req[i].pc = "saved"
  /\ req[i].todo = {}
  /\ req[i].call.op = "complete"
  /\ Goes(i, [pc |-> "counting", call |-> req[i].call])
  /\ UNCHANGED << outcome, current, reputation, paid, shares, badges, unpaid,
                  started, crashes, beside >>

\* The strategy of the task, or the default one if there is no row for it; with
\* several rows getSingleResult throws.  The group strategy loads the members
\* of the group, and throws if the step has no progress row yet (module
\* PipelineTask); the others read the reputation of each action again, and pay
\* nobody but the user.
ComputePoints(i) ==
  /\ req[i].pc = "saved"
  /\ req[i].todo = {}
  /\ req[i].call.op = "complete"
  /\ LET c == req[i].call
         byGroup == GroupOf[c.task] # {} /\ strategies[c.task] = 1
         read == IF byGroup THEN {} ELSE ActionsOf[c.task]
         members == IF byGroup THEN GroupOf[c.task] ELSE {}
     IN  \/ /\ strategies[c.task] <= 1
            /\ \A a \in read : Cardinality(RowsOf(c.user, TypeOf[a])) = 1
            /\ Goes(i, [pc |-> "paying", call |-> c, group |-> [m \in members |-> badges[m]]])
            /\ byDefault' = [byDefault EXCEPT ![c.task] =
                               IF strategies[c.task] = 0 THEN @ + 1 ELSE @]
            /\ UNCHANGED << reputation, unpaid >>
         \/ /\ \/ strategies[c.task] > 1 \/ byGroup
               \/ \E a \in read : Cardinality(RowsOf(c.user, TypeOf[a])) > 1
            /\ Fails(i)
            /\ UNCHANGED byDefault
  /\ UNCHANGED << outcome, current, paid, shares, badges, started, crashes,
                  strategies, form, reverted >>

\* pointsService.create for one member of the group
PayShare(i) ==
  /\ req[i].pc = "paying"
  /\ \E m \in DOMAIN req[i].group :
       /\ shares' = [shares EXCEPT ![<< m, req[i].call.task >>] = @ + 1]
       /\ badges' = [badges EXCEPT ![m] = req[i].group[m]]
       /\ req' = [req EXCEPT ![i].group =
                    [n \in DOMAIN req[i].group \ {m} |-> req[i].group[n]]]
  /\ UNCHANGED << outcome, current, reputation, paid, unpaid, started,
                  crashes, beside >>

\* Mutant: the points of the user are created before the group's.
PayOwnFirst(i) ==
  /\ req[i].pc = "paying"
  /\ LET c == req[i].call IN
       /\ paid' = [paid EXCEPT ![ReportOf(c)] = @ + 1]
       /\ badges' = [badges EXCEPT ![c.user] = c.held]
       /\ Goes(i, [pc |-> "counting", call |-> c])
  /\ UNCHANGED << outcome, current, reputation, shares, unpaid, started,
                  crashes, beside >>

\* ... and for the user who completed the task
PayOwn(i) ==
  /\ req[i].pc = "paying"
  /\ DOMAIN req[i].group = {}
  /\ LET c == req[i].call IN
       /\ paid' = [paid EXCEPT ![ReportOf(c)] = @ + 1]
       /\ badges' = [badges EXCEPT ![c.user] = c.held]
       /\ Goes(i, [pc |-> "counting", call |-> c])
  /\ UNCHANGED << outcome, current, reputation, shares, unpaid, started,
                  crashes, beside >>

-----------------------------------------------------------------------------
(* Badges.                                                                 *)

ActionsOfType(t, y) == { a \in ActionsOf[t] : TypeOf[a] = y }

\* The actions of one type in the reports of u that show a success.
Successes(u, y) ==
  SumFunction([t \in { s \in Task : current[<< u, s >>] = "complete" } |->
                 Cardinality(ActionsOfType(t, y))])

\* The badges of the types of the task the user did not have when the handler
\* began, and the badge of the task itself.
Unlocked(c) ==
  { b \in Badge :
      \/ "task" \in DOMAIN BadgeOf[b] /\ BadgeOf[b].task = c.task
      \/ /\ "type" \in DOMAIN BadgeOf[b] /\ b \notin c.held
         /\ ActionsOfType(c.task, BadgeOf[b].type) # {}
         /\ BadgeOf[b].quantity <= Successes(c.user, BadgeOf[b].type) }

\* No new badges: the handler ends without saving the user.
CountReports(i) ==
  /\ req[i].pc = "counting"
  /\ LET new == Unlocked(req[i].call) IN
       \/ new = {} /\ Goes(i, Idle)
       \/ new # {} /\ Goes(i, [pc |-> "unlocking", call |-> req[i].call, new |-> new])
  /\ UNCHANGED << outcome, current, reputation, paid, shares, badges, unpaid,
                  started, crashes, beside >>

\* Mutant: the set is replaced.
SaveBadgesReplacing(i) ==
  /\ req[i].pc = "unlocking"
  /\ badges' = [badges EXCEPT ![req[i].call.user] = req[i].new]
  /\ Goes(i, Idle)
  /\ UNCHANGED << outcome, current, reputation, paid, shares, unpaid,
                  started, crashes, beside >>

SaveBadges(i) ==
  /\ req[i].pc = "unlocking"
  /\ badges' = [badges EXCEPT ![req[i].call.user] = req[i].call.held \cup req[i].new]
  /\ Goes(i, Idle)
  /\ UNCHANGED << outcome, current, reputation, paid, shares, unpaid,
                  started, crashes, beside >>

-----------------------------------------------------------------------------
(* Beside the handlers.                                                    *)

\* JpaPointsStrategyForTaskRepository.create.  The end of an assignment merges
\* the reports of those it assigned the task to, and makes them AVAILABLE again
\* (module TaskLifecycle); the approval of a user's task merges no report.
AddStrategy(t) ==
  /\ strategies[t] < MaxStrategies[t]
  /\ strategies' = [strategies EXCEPT ![t] = @ + 1]
  /\ \E us \in SUBSET User :
       /\ us # {} => strategies[t] = 0
       /\ current' = [r \in Reports |-> IF r[2] = t /\ r[1] \in us THEN "none"
                                                              ELSE current[r]]
  /\ UNCHANGED << outcome, reputation, paid, shares, badges, req, unpaid,
                  byDefault, form, reverted, started, crashes >>

\* A flow loads a user: the reset form that of its request, the valuation of a
\* user's task that of its owner.
HoldUser(f, u) ==
  /\ form[f] = Closed
  /\ form' = [form EXCEPT ![f] = [pc |-> "open", user |-> u, held |-> badges[u]]]
  /\ UNCHANGED << outcome, current, reputation, paid, shares, badges, req,
                  unpaid,
                  strategies, byDefault, reverted, started, crashes >>

\* ... and merges it: setPassword once, the valuation with the task it decides
\* and again with the points it creates.
MergeUser(f) ==
  /\ form[f].pc = "open"
  /\ badges' = [badges EXCEPT ![form[f].user] = form[f].held]
  /\ reverted' = IF form[f].held = badges[form[f].user] THEN reverted
                                                       ELSE reverted \cup {form[f].user}
  /\ form' \in { form, [form EXCEPT ![f] = Closed] }
  /\ UNCHANGED << outcome, current, reputation, paid, shares, req, unpaid,
                  strategies, byDefault, started, crashes >>

Crash ==
  /\ crashes < MaxCrashes
  /\ crashes' = crashes + 1
  /\ req' = [i \in Request |-> Idle]
  /\ form' = [f \in Form |-> Closed]
  /\ unpaid' = [r \in Reports |->
                  unpaid[r] + Cardinality({ i \in Request : Owes(i, r) })]
  /\ UNCHANGED << outcome, current, reputation, paid, shares, badges, started,
                  strategies, byDefault, reverted >>

\* The next statement of the handler worker i runs.
Step(i) ==
  \/ AlreadyCompleted(i)
  \/ LoadReport(i)
  \/ SaveReport(i)
  \/ FindReputation(i)
  \/ CreateReputation(i)
  \/ UpdateReputation(i)
  \/ Return(i)
  \/ ComputePoints(i)
  \/ PayShare(i)
  \/ PayOwn(i)
  \/ CountReports(i)
  \/ SaveBadges(i)
  \/ ReadForList(i)
  \/ AddForList(i)
  \/ FindStrategy(i)
  \/ AnswerList(i)

Beside ==
  \/ \E t \in Task : AddStrategy(t)
  \/ \E f \in Form, u \in User : HoldUser(f, u)
  \/ \E f \in Form : MergeUser(f)

Next ==
  \/ \E i \in Request, op \in Op, u \in User, t \in Task : GetUser(i, op, u, t)
  \/ \E i \in Request, u \in User : ListTasks(i, u)
  \/ \E i \in Request : Step(i)
  \/ Beside
  \/ Crash

Spec == Init /\ [][Next]_vars

\* A worker thread that has taken a request runs its handler.
FairSpec == Spec /\ \A i \in Request : WF_vars(Step(i))

-----------------------------------------------------------------------------
(* Properties.                                                             *)

\* Every completion is paid once, is on its way to being paid, or was lost to
\* an exception or a restart: neither a retry nor a race of two workers (which
\* may well complete one report twice) separates points from completions.
PaymentAccounts ==
  \A r \in Reports :
    paid[r] + unpaid[r] + Cardinality({ i \in Request : Owes(i, r) })
      = outcome[r]["complete"]

\* GroupStrategy creates the shares of the whole group before the points of
\* the user who completed the step: at any instant, over restarts half way,
\* every member has at least as many shares as there are completions paid, but
\* for those of the time when the step had no strategy row: the default
\* strategy, which pays the user alone, was asked about them.
SharesBeforeOwn ==
  \A t \in Task, m \in User :
    m \in GroupOf[t] =>
      SumFunction([u \in User |-> paid[<< u, t >>]]) <= shares[<< m, t >>] + byDefault[t]

\* What the outcomes of kind op are worth to the reputation of u for y.
Worth(u, y, ops) ==
  SumFunction(
    [t \in Task |-> Cardinality(ActionsOfType(t, y))
                     * SumFunction([op \in ops |-> Delta[op] * outcome[<< u, t >>][op]])])

\* A reputation is never higher than all that went well can justify, nor lower
\* than all that went badly can: updates lost between two workers and rows
\* created twice may drop changes, but never count one twice.
ReputationEarned ==
  \A r \in DOMAIN reputation :
    /\ reputation[r] <= InitReputation + Worth(r[1], r[2], { "accept", "complete" })
    /\ reputation[r] >= InitReputation + Worth(r[1], r[2], { "reject", "fail" })

\* The query for a missing reputation and its insert race, but once a row is
\* there nobody starts to create another: there are never more than workers.
OneRowPerWorker ==
  \A u \in User, y \in Type : Cardinality(RowsOf(u, y)) <= Cardinality(Request)

\* "User {} ({}) has no reputation yet for action {} , creating a new one with
\* default value": a user has one reputation for an action type.
OneReputationRow == \A u \in User, y \in Type : Cardinality(RowsOf(u, y)) <= 1

\* A user is paid once for a task, however often the phone repeats the call and
\* whatever it says of the task afterwards.
PaidOnce == \A r \in Reports : paid[r] <= 1

\* "User {} ({}) has unlocked the badge {} ({})": what a user has unlocked, no
\* later save of the user takes away, handlers' saves and flows' alike, unless
\* a flow wrote back the badges of an earlier time.
BadgesKept == [][\A u \in User \ reverted' : badges[u] \subseteq badges'[u]]_vars

\* A completion whose handler is neither killed nor thrown out is paid: no
\* order of updates, creations and merges of two workers leaves one waiting.
Unsettled(r) == outcome[r]["complete"] > paid[r] + unpaid[r]

EveryCompletionIsSettled ==
  (\E r \in Reports : Unsettled(r)) ~> (\A r \in Reports : ~ Unsettled(r))
=============================================================================
