------------------------------ MODULE UserTasks ------------------------------
(***************************************************************************)
(* The tasks users propose.  createTask stores one, with the friends its   *)
(* owner would assign it to; an administrator finds it on the task page,   *)
(* opens the valuation flow (task-flow.xml) and refuses it, or approves it *)
(* and so gives it its points strategy, its users and its owner's points.  *)
(* Each of these is a transaction of its own.  Once approved, a task gets  *)
(* more users through the addUsers flow, as any other task.                *)
(*                                                                         *)
(* Friends come from module Friendships: the requests of the phones, of    *)
(* both kinds, share its workers, and MaxCalls bounds requests and flows.   *)
(***************************************************************************)
EXTENDS Friendships

CONSTANTS
  Task,
  Admin,        \* the browser windows of the administrators, each of which
                \* follows a link in place and does not go back
  MaxCrashes    \* bound: restarts of the server

ASSUME UserTasksAssumption ==
  /\ IsFiniteSet(Admin)
  /\ MaxCrashes \in Nat

VARIABLES
  taskUser,   \* taskUser[t]: the TaskUser row of task t, if there is one
  strategies, \* strategies[t]: PointsStrategyForTask rows of t
  reports,    \* reports[t]: the users t is assigned to
  ownerPaid,  \* ownerPaid[t]: points rows USER_TASK_APPROVED
  window,     \* window[a]: the task page that window a shows, or the flow in it
  crashes,
  approvals,  \* approvals[t]: how often t was set to APPROVED
  cut         \* cut[t]: approvals whose flow a restart or an exception cut off

taskVars == << taskUser, strategies, reports, ownerPaid, window, crashes,
               approvals, cut >>

vars == << friendVars, taskVars >>

-----------------------------------------------------------------------------

TaskValutation == { "PENDING", "APPROVED", "REFUSED" }

NoTask == [valutation |-> "none"]

TaskUser == [owner : User, usersToAssign : SUBSET User, valutation : TaskValutation]

Proposing ==
  [pc : {"checking"}, owner : User, task : Task, asked : SUBSET User]
    \cup [pc : {"checkingSenders", "storing"}, owner : User, task : Task,
          asked : SUBSET User, found : SUBSET User]

\* A page keeps the links of the moment it was rendered.
Window ==
  [at : {"blank"}]
    \cup [at : {"page"}, links : [Task -> TaskValutation \cup {"none"}]]
    \cup [at : {"valutate", "select", "selectMore"}, task : Task]
    \cup [at : {"confirm", "summary", "strategy", "assign", "pay"}, task : Task,
          users : SUBSET User]

Blank == [at |-> "blank"]

UTypeOK ==
  /\ friendship \in [Direction -> Seq(FriendshipStatus)]
  /\ req \in [Request -> {Idle} \cup Asking \cup Updating \cup Looking \cup Proposing]
  /\ recent \in [Request -> SUBSET [Direction -> Seq(FriendshipStatus)]]
  /\ crossed \subseteq Direction
  /\ started \in 0 .. MaxCalls
  /\ taskUser \in [Task -> {NoTask} \cup TaskUser]
  /\ strategies \in [Task -> Nat] /\ ownerPaid \in [Task -> Nat]
  /\ approvals \in [Task -> Nat] /\ cut \in [Task -> Nat]
  /\ reports \in [Task -> SUBSET User]
  /\ window \in [Admin -> Window]
  /\ crashes \in 0 .. MaxCrashes

UInit ==
  /\ Init
  /\ taskUser = [t \in Task |-> NoTask]
  /\ strategies = [t \in Task |-> 0]
  /\ reports = [t \in Task |-> {}]
  /\ ownerPaid = [t \in Task |-> 0]
  /\ window = [a \in Admin |-> Blank]
  /\ crashes = 0
  /\ approvals = [t \in Task |-> 0]
  /\ cut = [t \in Task |-> 0]

-----------------------------------------------------------------------------
(* createTask                                                              *)

\* The phone names the friends the task is meant for.
CreateTask(i, u, t, asked) ==
  /\ taskUser[t] = NoTask
  /\ \A j \in Request : req[j] \in Proposing => req[j].task # t
  /\ u \notin asked
  /\ Starts(i, IF asked = {}
               THEN [pc |-> "storing", owner |-> u, task |-> t, asked |-> {}, found |-> {}]
               ELSE [pc |-> "checking", owner |-> u, task |-> t, asked |-> asked])
  /\ recent' = [recent EXCEPT ![i] = {friendship}]
  /\ UNCHANGED << friendship, crossed, taskVars >>

Accepted(d) == \E k \in DOMAIN friendship[d] : friendship[d][k] = "ACCEPTED"

\* Mutant: friendships count whatever their status.
FindReceiversAnyStatus(i) ==
  /\ req[i].pc = "checking"
  /\ LET u == req[i].owner IN
       Goes(i, [pc |-> "checkingSenders", owner |-> u, task |-> req[i].task,
                asked |-> req[i].asked,
                found |-> { v \in User \ {u} : friendship[<< u, v >>] # << >> }])
  /\ UNCHANGED << friendship, started, recent, crossed, taskVars >>

\* getFriendshipsForUserAndStatus, the rows the owner sent
FindReceivers(i) ==
  /\ req[i].pc = "checking"
  /\ LET u == req[i].owner IN
       Goes(i, [pc |-> "checkingSenders", owner |-> u, task |-> req[i].task,
                asked |-> req[i].asked,
                found |-> { v \in User \ {u} : Accepted(<< u, v >>) }])
  /\ UNCHANGED << friendship, started, recent, crossed, taskVars >>

\* ... and the rows the owner received.  One that is not there: the phone gets
\* an empty task and nothing is stored.
FindSenders(i) ==
  /\ req[i].pc = "checkingSenders"
  /\ LET u == req[i].owner
         found == req[i].found \cup { v \in User \ {u} : Accepted(<< v, u >>) }
     IN  \/ /\ req[i].asked \subseteq found
            /\ Goes(i, [pc |-> "storing", owner |-> u, task |-> req[i].task,
                        asked |-> req[i].asked, found |-> found])
            /\ UNCHANGED recent
         \/ ~ req[i].asked \subseteq found /\ Ends(i)
  /\ UNCHANGED << friendship, started, crossed, taskVars >>

StoreTask(i) ==
  /\ req[i].pc = "storing"
  /\ taskUser' = [taskUser EXCEPT ![req[i].task] =
                    [owner |-> req[i].owner, usersToAssign |-> req[i].asked,
                     valutation |-> "PENDING"]]
  /\ Ends(i)
  /\ UNCHANGED << friendship, started, crossed, strategies, reports, ownerPaid, window,
                  crashes, approvals, cut >>

-----------------------------------------------------------------------------
(* The administrators.                                                     *)

Shows(a, w) == window' = [window EXCEPT ![a] = w]

\* Nothing but the window changes.
OnlyWindow ==
  UNCHANGED << friendVars, taskUser, strategies, reports, ownerPaid, crashes,
               approvals, cut >>

\* Mutant: the link to the valuation is there whatever was decided.
ShowTasksUndecided(a) ==
  /\ window[a].at \in { "blank", "page" }
  /\ Shows(a, [at |-> "page",
               links |-> [t \in Task |-> IF taskUser[t] = NoTask THEN "none" ELSE "PENDING"]])
  /\ OnlyWindow

\* tasks.jsp
ShowTasks(a) ==
  /\ window[a].at \in { "blank", "page" }
  /\ Shows(a, [at |-> "page", links |-> [t \in Task |-> taskUser[t].valutation]])
  /\ OnlyWindow

\* The link the page has for t; for an expired task it has none.
Follows(a, t, valutation, at) ==
  /\ window[a].at = "page"
  /\ window[a].links[t] = valutation
  /\ started < MaxCalls
  /\ started' = started + 1
  /\ Shows(a, [at |-> at, task |-> t])
  /\ UNCHANGED << friendship, req, recent, crossed, taskUser, strategies, reports,
                  ownerPaid, crashes, approvals, cut >>

OpenValutation(a, t) == Follows(a, t, "PENDING", "valutate")

OpenAddUsers(a, t) == Follows(a, t, "APPROVED", "selectMore")

\* "refuse"; the window is redirected to the task page.
Refuse(a) ==
  /\ window[a].at = "valutate"
  /\ taskUser' = [taskUser EXCEPT ![window[a].task].valutation = "REFUSED"]
  /\ Shows(a, Blank)
  /\ UNCHANGED << friendVars, strategies, reports, ownerPaid, crashes,
                  approvals, cut >>

\* "approve": the first of the views that ask what the task is to get.
Approve(a) ==
  /\ window[a].at = "valutate"
  /\ Shows(a, [at |-> "select", task |-> window[a].task])
  /\ OnlyWindow

\* validateSelectedUsers; then, in the valuation, strategy and points.
SelectUsers(a, us) ==
  /\ window[a].at \in { "select", "selectMore" }
  /\ us \cap reports[window[a].task] = {}
  /\ Shows(a, [at |-> IF window[a].at = "select" THEN "confirm" ELSE "summary",
               task |-> window[a].task, users |-> us])
  /\ OnlyWindow

\* "cancel", or the window is closed: a flow that was not confirmed
Cancel(a) ==
  /\ window[a].at \in { "valutate", "select", "selectMore", "confirm", "summary" }
  /\ Shows(a, Blank)
  /\ OnlyWindow

\* "cancel" where strategy and points are chosen: back to the users
Reselect(a) ==
  /\ window[a].at = "confirm"
  /\ Shows(a, [at |-> "select", task |-> window[a].task])
  /\ OnlyWindow

\* "finish": valutateTaskUser
ApproveTask(a) ==
  /\ window[a].at = "confirm"
  /\ LET t == window[a].task IN
       /\ taskUser' = [taskUser EXCEPT ![t].valutation = "APPROVED"]
       /\ approvals' = [approvals EXCEPT ![t] = @ + 1]
  /\ Shows(a, [window[a] EXCEPT !.at = "strategy"])
  /\ UNCHANGED << friendVars, strategies, reports, ownerPaid, crashes, cut >>

\* Mutant: the approval does not create the row.
CreateStrategyNever(a) ==
  /\ window[a].at = "strategy"
  /\ Shows(a, [window[a] EXCEPT !.at = "assign"])
  /\ OnlyWindow

\* pointsStrategyForTaskService.create, whatever the task has
CreateStrategy(a) ==
  /\ window[a].at = "strategy"
  /\ strategies' = [strategies EXCEPT ![window[a].task] = @ + 1]
  /\ Shows(a, [window[a] EXCEPT !.at = "assign"])
  /\ UNCHANGED << friendVars, taskUser, reports, ownerPaid, crashes,
                  approvals, cut >>

\* addUsersToTask, all or nothing.  (What two of these transactions do to each
\* other is in module TaskLifecycle.)
AssignNewUsers(a) ==
  /\ window[a].at \in { "assign", "summary" }
  /\ window[a].users \cap reports[window[a].task] = {}
  /\ reports' = [reports EXCEPT ![window[a].task] = @ \cup window[a].users]
  /\ Shows(a, IF window[a].at = "assign" THEN [window[a] EXCEPT !.at = "pay"] ELSE Blank)
  /\ UNCHANGED << friendVars, taskUser, strategies, ownerPaid, crashes,
                  approvals, cut >>

\* Mutant: the flow ends when the users cannot be assigned.
AssignFailsTheFlow(a) ==
  /\ window[a].at = "assign"
  /\ Shows(a, Blank)
  /\ OnlyWindow

\* A user who has the task by now, or a task that expired.  The valuation hears
\* of an error and goes on; the addUsers flow shows its summary again.
AssignFails(a) ==
  /\ window[a].at = "assign"
  /\ Shows(a, [window[a] EXCEPT !.at = "pay"])
  /\ OnlyWindow

\* A user whom two assignments at once gave two reports of the task (module
\* TaskLifecycle): the look at his report throws what nobody catches, and the flow
\* is over, paid or not.
AssignDies(a) ==
  /\ window[a].at \in { "assign", "summary" }
  /\ window[a].users \cap reports[window[a].task] # {}
  /\ cut' = IF window[a].at = "assign" THEN [cut EXCEPT ![window[a].task] = @ + 1] ELSE cut
  /\ Shows(a, Blank)
  /\ UNCHANGED << friendVars, taskUser, strategies, reports, ownerPaid, crashes, approvals >>

AssignApprovedPoints(a) ==
  /\ window[a].at = "pay"
  /\ ownerPaid' = [ownerPaid EXCEPT ![window[a].task] = @ + 1]
  /\ Shows(a, Blank)
  /\ UNCHANGED << friendVars, taskUser, strategies, reports, crashes,
                  approvals, cut >>

-----------------------------------------------------------------------------

\* The windows whose flow approved t and has not paid yet.
Owing(t) ==
  { a \in Admin : window[a].at \in { "strategy", "assign", "pay" } /\ window[a].task = t }

\* Requests and flows are lost; what a browser shows stays.
Crash ==
  /\ crashes < MaxCrashes
  /\ crashes' = crashes + 1
  /\ req' = [i \in Request |-> Idle]
  /\ recent' = [i \in Request |-> {}]
  /\ window' = [a \in Admin |-> IF window[a].at = "page" THEN window[a] ELSE Blank]
  /\ cut' = [t \in Task |-> cut[t] + Cardinality(Owing(t))]
  /\ UNCHANGED << friendship, started, crossed, taskUser, strategies, reports, ownerPaid,
                  approvals >>

PhoneStep(i) ==
  \/ FriendStep(i) /\ UNCHANGED taskVars
  \/ \E u \in User, t \in Task, asked \in SUBSET User : CreateTask(i, u, t, asked)
  \/ FindReceivers(i)
  \/ FindSenders(i)
  \/ StoreTask(i)

AdminStep(a) ==
  \/ ShowTasks(a)
  \/ \E t \in Task : OpenValutation(a, t)
  \/ \E t \in Task : OpenAddUsers(a, t)
  \/ Refuse(a)
  \/ Approve(a)
  \/ \E us \in SUBSET User : SelectUsers(a, us)
  \/ Cancel(a)
  \/ Reselect(a)
  \/ ApproveTask(a)
  \/ CreateStrategy(a)
  \/ AssignNewUsers(a)
  \/ AssignFails(a)
  \/ AssignDies(a)
  \/ AssignApprovedPoints(a)

UNext ==
  \/ \E i \in Request : PhoneStep(i)
  \/ \E a \in Admin : AdminStep(a)
  \/ Crash

USpec == UInit /\ [][UNext]_vars

-----------------------------------------------------------------------------
(* Properties.                                                             *)

\* Whoever a task is meant for was a friend of its owner at some moment of the
\* call, although the two directions are queried one after the other and the
\* task is stored after both.
SuggestedWereFriends ==
  \A i \in Request : req[i].pc = "storing" =>
    \A v \in req[i].asked : \E f \in recent[i] :
      LET u == req[i].owner IN
        \E d \in { << u, v >>, << v, u >> } : \E k \in DOMAIN f[d] : f[d][k] = "ACCEPTED"

\* The owner gets points for each approval, also when the users could not be
\* assigned, unless a restart or a user with two reports cuts the flow off.
OwnerPaidPerApproval ==
  \A t \in Task : ownerPaid[t] + cut[t] + Cardinality(Owing(t)) = approvals[t]

\* A window holds a link to the valuation of t only until it is used, and no page
\* rendered after a decision has it: stale pages and forms repeat an approval,
\* its strategy row and its points at most once for each window.
ApprovalsBounded ==
  \A t \in Task : approvals[t] <= Cardinality(Admin)

\* A task that is assigned has at least one strategy row of its own.  Nothing is
\* claimed while a window is between an approval of the task and its row, nor after
\* an approval of it was cut off: there the addUsers link assigns it without one.
\* (With two rows, which ApprovalsBounded allows, the look for one fails.)
AssignedTasksHaveStrategy ==
  \A t \in Task : reports[t] # {} =>
    \/ strategies[t] > 0
    \/ cut[t] > 0
    \/ \E a \in Owing(t) : window[a].at = "strategy"

=============================================================================
