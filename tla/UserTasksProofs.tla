--------------------------- MODULE UserTasksProofs ---------------------------
(***************************************************************************)
(* Theorems about UserTasks, and so about Friendships, for any number of   *)
(* users, worker threads, windows, tasks, calls and restarts.              *)
(***************************************************************************)
EXTENDS UserTasks, SequenceTheorems, FiniteSetTheorems, TLAPS

USE FriendshipsAssumption, UserTasksAssumption

-----------------------------------------------------------------------------
(* The friendships: the inductive invariant.                               *)

\* The workers that will insert a row for the pair, as the table is now.
Creators(d) ==
  { i \in Request :
      /\ \/ req[i].pc = "creating"
         \/ req[i].pc = "other" /\ friendship[Back(req[i].way)] = << >>
      /\ SamePair(req[i].way, d) }

\* Once a pair has a row, nobody becomes a creator any more.
PairsBounded ==
  \A d \in Direction :
    RowsBetween(d) > 0 => RowsBetween(d) + Cardinality(Creators(d)) <= Cardinality(Request)

\* Where calls never crossed, one worker at most is busy with the pair, and what
\* it found is still so.
PairsInTurn ==
  \A d \in Direction \ crossed :
    /\ Back(d) \notin crossed
    /\ RowsBetween(d) <= 1
    /\ \A i, j \in Request : AsksFor(i, d) /\ AsksFor(j, d) => i = j
    /\ \A i \in Request : AsksFor(i, d) =>
         /\ req[i].pc = "other" => friendship[req[i].way] = << >>
         /\ req[i].pc = "creating" => RowsBetween(d) = 0

WasFriend(f, u, v) ==
  \E d \in { << u, v >>, << v, u >> } : \E k \in DOMAIN f[d] : f[d][k] = "ACCEPTED"

Remembers(i) ==
  req[i].pc \in { "looking", "lookingBack", "answering", "checking", "checkingSenders",
                  "storing" }

\* What a worker has read was in a table of its time; rows never disappear.
RecalledBy(i) ==
  /\ Remembers(i) => friendship \in recent[i]
  /\ \A f \in recent[i] : \A d \in Direction : f[d] # << >> => friendship[d] # << >>
  /\ req[i].pc = "lookingBack" => \E f \in recent[i] : f[req[i].way] = << >>
  /\ req[i].pc = "answering" /\ req[i].way \notin crossed =>
       \E f \in recent[i] : ViewIn(f, req[i].way) = req[i].view
  /\ req[i].pc = "checkingSenders" =>
       \A v \in req[i].found : \E f \in recent[i] : WasFriend(f, req[i].owner, v)
  /\ req[i].pc = "storing" =>
       \A v \in req[i].asked : \E f \in recent[i] : WasFriend(f, req[i].owner, v)

Recalled == \A i \in Request : RecalledBy(i)

-----------------------------------------------------------------------------
(* The proposed tasks: the inductive invariant.                            *)

\* Window w holds a link to the valuation of t, or its form; w has approved t and
\* not paid yet.
Holds(w, t) ==
  \/ w.at = "page" /\ w.links[t] = "PENDING"
  \/ w.at \in { "valutate", "select", "confirm" } /\ w.task = t

Owes(w, t) == w.at \in { "strategy", "assign", "pay" } /\ w.task = t

Holders(t) == { a \in Admin : Holds(window[a], t) }

\* A task is stored once.
StoredOnce ==
  \A i \in Request : req[i] \in Proposing =>
    /\ taskUser[req[i].task] = NoTask
    /\ \A j \in Request : req[j] \in Proposing /\ req[j].task = req[i].task => j = i

\* What a window holds is about tasks there are; approved ones where it says so.
Knows(w) ==
  /\ w.at = "page" => \A t \in Task :
       /\ w.links[t] = "PENDING" => taskUser[t] # NoTask
       /\ w.links[t] = "APPROVED" => approvals[t] > 0
  /\ w.at \in { "valutate", "select", "confirm" } => taskUser[w.task] # NoTask
  /\ w.at \in { "selectMore", "summary", "strategy", "assign", "pay" } => approvals[w.task] > 0

WindowsKnowTasks == \A a \in Admin : Knows(window[a])

\* An approval uses a link up, and to a decided task there are no links but those of
\* old pages and forms.
LinksBounded ==
  \A t \in Task :
    IF taskUser[t].valutation \in { "none", "PENDING" } THEN approvals[t] = 0
    ELSE approvals[t] + Cardinality(Holders(t)) <= Cardinality(Admin)

HasStrategy(t) ==
  \/ strategies[t] > 0
  \/ cut[t] > 0
  \/ \E a \in Admin : window[a].at = "strategy" /\ window[a].task = t

StrategyFollows ==
  \A t \in Task :
    /\ reports[t] # {} \/ taskUser[t].valutation = "APPROVED" => approvals[t] > 0
    /\ approvals[t] > 0 => HasStrategy(t)

TaskInv ==
  /\ StoredOnce
  /\ WindowsKnowTasks
  /\ LinksBounded
  /\ StrategyFollows
  /\ OwnerPaidPerApproval

-----------------------------------------------------------------------------
(* Types.                                                                  *)

Call == {Idle} \cup Asking \cup Updating \cup Looking \cup Proposing

Table == [Direction -> Seq(FriendshipStatus)]

\* What a call at a program point carries.
LEMMA Shapes ==
  ASSUME NEW c \in Call
  PROVE  /\ c.pc \in {"own", "other", "creating"} => c \in Asking
         /\ c.pc = "updating" => c \in Updating
         /\ c.pc \in {"looking", "lookingBack", "answering"} => c \in Looking
         /\ c.pc \in {"checking", "checkingSenders", "storing"} => c \in Proposing
  BY DEF Call, Idle, Asking, Updating, Looking, Proposing

LEMMA BackIsADirection ==
  ASSUME NEW d \in Direction
  PROVE  /\ Back(d) \in Direction
         /\ Back(d) # d
         /\ Back(Back(d)) = d
  BY DEF Direction, Back

LEMMA Overwritten ==
  ASSUME NEW S, NEW s \in Seq(S), NEW k \in Nat, NEW e \in S
  PROVE  /\ [s EXCEPT ![k] = e] \in Seq(S)
         /\ Len([s EXCEPT ![k] = e]) = Len(s)
  <1>1. CASE k \in 1 .. Len(s)
    BY <1>1, ExceptSeq
  <1>2. CASE k \notin 1 .. Len(s)
    <2>1. DOMAIN s = 1 .. Len(s) /\ s = [n \in 1 .. Len(s) |-> s[n]]
      OBVIOUS
    <2>2. [s EXCEPT ![k] = e] = s
      BY <1>2, <2>1
    <2> QED
      BY <2>2
  <1> QED
    BY <1>1, <1>2

LEMMA InitType == UInit => UTypeOK
  <1> SUFFICES ASSUME UInit PROVE UTypeOK
    OBVIOUS
  <1>1. friendship \in Table /\ req \in [Request -> Call] /\ crossed \subseteq Direction
    BY DEF UInit, Init, Table, Call
  <1>2. recent \in [Request -> SUBSET Table] /\ started \in 0 .. MaxCalls
    BY DEF UInit, Init
  <1>3. taskUser \in [Task -> {NoTask} \cup TaskUser] /\ reports \in [Task -> SUBSET User]
    BY DEF UInit
  <1>4. /\ strategies \in [Task -> Nat] /\ ownerPaid \in [Task -> Nat]
        /\ approvals \in [Task -> Nat] /\ cut \in [Task -> Nat]
    BY DEF UInit
  <1>5. window \in [Admin -> Window] /\ crashes \in 0 .. MaxCrashes
    BY DEF UInit, Blank, Window
  <1> QED
    BY <1>1, <1>2, <1>3, <1>4, <1>5 DEF UTypeOK, Table, Call

\* A step that changes no more than the calls and what they remember.
FriendTypes ==
  /\ friendship \in Table
  /\ req \in [Request -> Call]
  /\ recent \in [Request -> SUBSET Table]
  /\ crossed \subseteq Direction
  /\ started \in 0 .. MaxCalls

TaskTypes ==
  /\ taskUser \in [Task -> {NoTask} \cup TaskUser]
  /\ strategies \in [Task -> Nat] /\ ownerPaid \in [Task -> Nat]
  /\ approvals \in [Task -> Nat] /\ cut \in [Task -> Nat]
  /\ reports \in [Task -> SUBSET User]
  /\ window \in [Admin -> Window]
  /\ crashes \in 0 .. MaxCrashes

LEMMA TypesSplit == UTypeOK <=> FriendTypes /\ TaskTypes
  BY DEF UTypeOK, FriendTypes, TaskTypes, Table, Call

LEMMA ViewsAreViews ==
  ASSUME NEW s \in FriendshipStatus
  PROVE  Sent(s) \in View /\ Received(s) \in View
  BY DEF FriendshipStatus, Sent, Received, View

LEMMA FriendStepType ==
  ASSUME FriendTypes, NEW i \in Request, FriendStep(i)
  PROVE  FriendTypes'
  <1> DEFINE c == req[i]
  <1>0. c \in Call /\ recent[i] \in SUBSET Table /\ friendship \in Table
    BY DEF FriendTypes
  <1>1. ASSUME NEW x \in Call, Goes(i, x) PROVE req' \in [Request -> Call]
    BY <1>1 DEF Goes, FriendTypes
  <1>2. ASSUME Ends(i) PROVE req' \in [Request -> Call] /\ recent' \in [Request -> SUBSET Table]
    BY <1>1, <1>2 DEF Ends, Call, FriendTypes
  <1>3. ASSUME NEW f \in Table, Commits(i, f)
        PROVE  /\ req' \in [Request -> Call] /\ recent' \in [Request -> SUBSET Table]
               /\ friendship' \in Table
    <2>1. Idle \in Call
      BY DEF Call
    <2>2. \A j \in Request : recent'[j] \in SUBSET Table
      BY <1>3 DEF Commits, FriendTypes
    <2> QED
      BY <1>1, <1>3, <2>1, <2>2 DEF Commits
  <1>4. ASSUME NEW d \in Direction, NEW s \in FriendshipStatus, AddFriend(i, d, s)
        PROVE  FriendTypes'
    <2>1. [pc |-> "own", way |-> d, status |-> s] \in Call
      BY DEF Call, Asking
    <2>2. crossed' \subseteq Direction
      BY <1>4, BackIsADirection DEF AddFriend, FriendTypes
    <2> QED
      BY <1>1, <1>4, <2>1, <2>2 DEF AddFriend, Starts, FriendTypes
  <1>5. ASSUME NEW d \in Direction, c \in Asking, Finds(i, d) PROVE req' \in [Request -> Call]
    <2>1. [pc |-> "updating", way |-> c.way, status |-> c.status, row |-> << d, 1 >>] \in Call
      BY <1>5 DEF Call, Asking, Updating
    <2>2. Idle \in Call
      BY DEF Call
    <2> QED
      BY <1>1, <1>5, <2>1, <2>2 DEF Finds
  <1>6. CASE FindOwn(i)
    <2>1. c \in Asking
      BY <1>0, <1>6, Shapes DEF FindOwn
    <2>2. [c EXCEPT !.pc = "other"] \in Call
      BY <2>1 DEF Call, Asking
    <2>3. req' \in [Request -> Call]
      BY <1>1, <1>5, <1>6, <2>1, <2>2 DEF FindOwn, Asking
    <2> QED
      BY <1>6, <2>3 DEF FindOwn, FriendTypes
  <1>7. CASE FindOther(i)
    <2>1. c \in Asking /\ c.way \in Direction
      BY <1>0, <1>7, Shapes DEF FindOther, Asking
    <2>2. [c EXCEPT !.pc = "creating"] \in Call
      BY <2>1 DEF Call, Asking
    <2>3. req' \in [Request -> Call]
      BY <1>1, <1>5, <1>7, <2>1, <2>2, BackIsADirection DEF FindOther
    <2> QED
      BY <1>7, <2>3 DEF FindOther, FriendTypes
  <1>8. CASE SaveFriendship(i)
    <2>1. c \in Updating
      BY <1>0, <1>8, Shapes DEF SaveFriendship
    <2>2. PICK d \in Direction, k \in Nat : c.row = << d, k >>
      BY <2>1 DEF Updating
    <2>3. c.status \in FriendshipStatus
      BY <2>1 DEF Updating
    <2>4. [friendship[d] EXCEPT ![k] = c.status] \in Seq(FriendshipStatus)
      <3>1. friendship[d] \in Seq(FriendshipStatus)
        BY <1>0 DEF Table
      <3> QED
        BY <2>3, <3>1, Overwritten
    <2>5. [friendship EXCEPT ![d] = [@ EXCEPT ![k] = c.status]] \in Table
      BY <1>0, <2>4 DEF Table
    <2>6. Commits(i, [friendship EXCEPT ![d] = [@ EXCEPT ![k] = c.status]])
      BY <1>8, <2>2 DEF SaveFriendship
    <2> QED
      BY <1>3, <1>8, <2>5, <2>6 DEF SaveFriendship, FriendTypes
  <1>9. CASE CreateFriendship(i)
    <2>1. c \in Asking /\ c.way \in Direction /\ c.status \in FriendshipStatus
      BY <1>0, <1>9, Shapes DEF CreateFriendship, Asking
    <2>2. Append(friendship[c.way], c.status) \in Seq(FriendshipStatus)
      BY <1>0, <2>1 DEF Table
    <2>3. [friendship EXCEPT ![c.way] = Append(@, c.status)] \in Table
      BY <1>0, <2>2 DEF Table
    <2> QED
      BY <1>3, <1>9, <2>3 DEF CreateFriendship, FriendTypes
  <1>10. ASSUME NEW d \in Direction, GetFriendStatus(i, d) PROVE FriendTypes'
    <2>1. [pc |-> "looking", way |-> d] \in Call
      BY DEF Call, Looking
    <2> QED
      BY <1>0, <1>1, <1>10, <2>1 DEF GetFriendStatus, Starts, FriendTypes
  <1>11. ASSUME NEW v \in View, c.way \in Direction, Answers(i, v)
         PROVE  req' \in [Request -> Call] /\ recent' = recent
    <2>1. [pc |-> "answering", way |-> c.way, view |-> v] \in Call
      BY <1>11 DEF Call, Looking
    <2> QED
      BY <1>1, <1>11, <2>1 DEF Answers
  <1>12. CASE LookSent(i)
    <2>1. c \in Looking /\ c.way \in Direction
      BY <1>0, <1>12, Shapes DEF LookSent, Looking
    <2>2. [pc |-> "lookingBack", way |-> c.way] \in Call
      BY <2>1 DEF Call, Looking
    <2>3. friendship[c.way] \in Seq(FriendshipStatus)
      BY <1>0, <2>1 DEF Table
    <2>4. Len(friendship[c.way]) = 1 => Sent(friendship[c.way][1]) \in View
      BY <2>3, ViewsAreViews
    <2>5. req' \in [Request -> Call] /\ recent' \in [Request -> SUBSET Table]
      BY <1>1, <1>2, <1>11, <1>12, <2>1, <2>2, <2>4 DEF LookSent, FriendTypes
    <2> QED
      BY <1>12, <2>5 DEF LookSent, FriendTypes
  <1>13. CASE LookReceived(i)
    <2>1. c \in Looking /\ c.way \in Direction /\ Back(c.way) \in Direction
      BY <1>0, <1>13, Shapes, BackIsADirection DEF LookReceived, Looking
    <2>2. friendship[Back(c.way)] \in Seq(FriendshipStatus)
      BY <1>0, <2>1 DEF Table
    <2>3. Len(friendship[Back(c.way)]) = 1 => Received(friendship[Back(c.way)][1]) \in View
      BY <2>2, ViewsAreViews
    <2>4. "NOT_SETTED" \in View
      BY DEF View
    <2>5. req' \in [Request -> Call] /\ recent' \in [Request -> SUBSET Table]
      BY <1>1, <1>2, <1>11, <1>13, <2>1, <2>3, <2>4 DEF LookReceived, FriendTypes
    <2> QED
      BY <1>13, <2>5 DEF LookReceived, FriendTypes
  <1>14. CASE AnswerStatus(i)
    BY <1>2, <1>14 DEF AnswerStatus, FriendTypes
  <1> QED
    BY <1>4, <1>6, <1>7, <1>8, <1>9, <1>10, <1>12, <1>13, <1>14 DEF FriendStep

LEMMA ProposalType ==
  ASSUME FriendTypes, TaskTypes, NEW i \in Request,
         \/ \E u \in User, t \in Task, asked \in SUBSET User : CreateTask(i, u, t, asked)
         \/ FindReceivers(i)
         \/ FindSenders(i)
         \/ StoreTask(i)
  PROVE  FriendTypes' /\ TaskTypes'
  <1> DEFINE c == req[i]
  <1>0. c \in Call /\ friendship \in Table
    BY DEF FriendTypes
  <1>1. ASSUME NEW x \in Call, Goes(i, x) PROVE req' \in [Request -> Call]
    BY <1>1 DEF Goes, FriendTypes
  <1>2. ASSUME Ends(i) PROVE req' \in [Request -> Call] /\ recent' \in [Request -> SUBSET Table]
    BY <1>1, <1>2 DEF Ends, Call, FriendTypes
  <1>3. ASSUME UNCHANGED taskVars PROVE TaskTypes'
    BY <1>3 DEF taskVars, TaskTypes
  <1>4. ASSUME NEW u \in User, NEW t \in Task, NEW asked \in SUBSET User, CreateTask(i, u, t, asked)
        PROVE  FriendTypes' /\ TaskTypes'
    <2>1. /\ [pc |-> "storing", owner |-> u, task |-> t, asked |-> {}, found |-> {}] \in Call
          /\ [pc |-> "checking", owner |-> u, task |-> t, asked |-> asked] \in Call
      BY DEF Call, Proposing
    <2>2. req' \in [Request -> Call]
      BY <1>1, <1>4, <2>1 DEF CreateTask, Starts
    <2>3. recent' \in [Request -> SUBSET Table]
      BY <1>0, <1>4 DEF CreateTask, FriendTypes
    <2>4. /\ friendship' = friendship /\ crossed' = crossed /\ UNCHANGED taskVars
          /\ started' \in 0 .. MaxCalls
      BY <1>4 DEF CreateTask, Starts, FriendTypes
    <2> QED
      BY <1>3, <2>2, <2>3, <2>4 DEF FriendTypes
  <1>5. CASE FindReceivers(i)
    <2>1. c \in Proposing /\ c.pc = "checking"
      BY <1>0, <1>5, Shapes DEF FindReceivers
    <2>2. ASSUME NEW vs \in SUBSET User
          PROVE  [pc |-> "checkingSenders", owner |-> c.owner, task |-> c.task,
                  asked |-> c.asked, found |-> vs] \in Call
      BY <2>1 DEF Call, Proposing
    <2>3. { v \in User \ {c.owner} : Accepted(<< c.owner, v >>) } \in SUBSET User
      OBVIOUS
    <2>4. req' \in [Request -> Call]
      BY <1>1, <1>5, <2>2, <2>3 DEF FindReceivers
    <2> QED
      BY <1>3, <1>5, <2>4 DEF FindReceivers, FriendTypes
  <1>6. CASE FindSenders(i)
    <2>1. c \in Proposing /\ c.pc = "checkingSenders"
      BY <1>0, <1>6, Shapes DEF FindSenders
    <2>2. ASSUME NEW vs \in SUBSET User
          PROVE  [pc |-> "storing", owner |-> c.owner, task |-> c.task,
                  asked |-> c.asked, found |-> vs] \in Call
      BY <2>1 DEF Call, Proposing
    <2>3. c.found \cup { v \in User \ {c.owner} : Accepted(<< v, c.owner >>) } \in SUBSET User
      BY <2>1 DEF Proposing
    <2>4. req' \in [Request -> Call] /\ recent' \in [Request -> SUBSET Table]
      BY <1>1, <1>2, <1>6, <2>2, <2>3 DEF FindSenders, FriendTypes
    <2> QED
      BY <1>3, <1>6, <2>4 DEF FindSenders, FriendTypes
  <1>7. CASE StoreTask(i)
    <2>1. c \in Proposing
      BY <1>0, <1>7, Shapes DEF StoreTask
    <2>2. [owner |-> c.owner, usersToAssign |-> c.asked, valutation |-> "PENDING"] \in TaskUser
      BY <2>1 DEF Proposing, TaskUser, TaskValutation
    <2>3. taskUser' \in [Task -> {NoTask} \cup TaskUser]
      BY <1>7, <2>2 DEF StoreTask, TaskTypes
    <2> QED
      BY <1>2, <1>7, <2>3 DEF StoreTask, FriendTypes, TaskTypes
  <1>8. CASE \E u \in User, t \in Task, asked \in SUBSET User : CreateTask(i, u, t, asked)
    BY <1>4, <1>8
  <1> QED
    BY <1>5, <1>6, <1>7, <1>8

\* What a window shows at each place of the flows.
LEMMA WindowShapes ==
  ASSUME NEW w \in Window
  PROVE  /\ w.at = "page" => w.links \in [Task -> TaskValutation \cup {"none"}]
         /\ w.at \notin {"blank", "page"} => w.task \in Task
         /\ w.at \in {"confirm", "summary", "strategy", "assign", "pay"} =>
              /\ w.users \in SUBSET User
              /\ \A at \in {"strategy", "assign", "pay"} :
                   [w EXCEPT !.at = at] = [at |-> at, task |-> w.task, users |-> w.users]
  BY DEF Window

LEMMA Windows ==
  /\ Blank \in Window
  /\ \A f \in [Task -> TaskValutation \cup {"none"}] : [at |-> "page", links |-> f] \in Window
  /\ \A at \in {"valutate", "select", "selectMore"} :
       \A t \in Task : [at |-> at, task |-> t] \in Window
  /\ \A at \in {"confirm", "summary", "strategy", "assign", "pay"} :
       \A t \in Task : \A us \in SUBSET User : [at |-> at, task |-> t, users |-> us] \in Window
  BY DEF Window, Blank

\* A refused or approved task.
LEMMA DecisionType ==
  ASSUME NEW x \in {NoTask} \cup TaskUser, x # NoTask, NEW v \in TaskValutation
  PROVE  [x EXCEPT !.valutation = v] \in TaskUser
  BY DEF TaskUser

\* Window a shows w; the row of a task, the counters and the reports have their
\* types again.
LEMMA AdminStepType ==
  ASSUME FriendTypes, TaskTypes, NEW a \in Admin, AdminStep(a),
         \A b \in Admin : window[b].at \in {"valutate", "confirm"} =>
                         taskUser[window[b].task] # NoTask
  PROVE  FriendTypes' /\ TaskTypes'
  <1> DEFINE w == window[a]
  <1>0. w \in Window
    BY DEF TaskTypes
  <1>1. ASSUME NEW x \in Window, Shows(a, x) PROVE window' \in [Admin -> Window]
    BY <1>1 DEF Shows, TaskTypes
  <1>2. ASSUME UNCHANGED friendVars PROVE FriendTypes'
    BY <1>2 DEF friendVars, FriendTypes
  <1>3. ASSUME OnlyWindow, NEW x \in Window, Shows(a, x) PROVE FriendTypes' /\ TaskTypes'
    BY <1>1, <1>2, <1>3 DEF OnlyWindow, TaskTypes
  <1>4. w.at \notin {"blank", "page"} => w.task \in Task
    BY <1>0, WindowShapes
  <1>5. CASE ShowTasks(a)
    <2>1. \A t \in Task : taskUser[t].valutation \in TaskValutation \cup {"none"}
      BY DEF TaskTypes, TaskUser, NoTask
    <2> QED
      BY <1>3, <1>5, <2>1, Windows DEF ShowTasks
  <1>6. ASSUME NEW t \in Task, NEW v, NEW at \in {"valutate", "selectMore"}, Follows(a, t, v, at)
        PROVE  FriendTypes' /\ TaskTypes'
    <2>1. window' \in [Admin -> Window]
      BY <1>1, <1>6, Windows DEF Follows
    <2> QED
      BY <1>6, <2>1 DEF Follows, FriendTypes, TaskTypes
  <1>7. CASE Refuse(a)
    <2>1. [taskUser[w.task] EXCEPT !.valutation = "REFUSED"] \in TaskUser
      BY <1>4, <1>7, DecisionType DEF Refuse, TaskTypes, TaskValutation
    <2>2. taskUser' \in [Task -> {NoTask} \cup TaskUser]
      BY <1>4, <1>7, <2>1 DEF Refuse, TaskTypes
    <2> QED
      BY <1>1, <1>2, <1>7, <2>2, Windows DEF Refuse, TaskTypes
  <1>8. CASE Approve(a)
    BY <1>3, <1>4, <1>8, Windows DEF Approve
  <1>9. ASSUME NEW us \in SUBSET User, SelectUsers(a, us) PROVE FriendTypes' /\ TaskTypes'
    BY <1>3, <1>4, <1>9, Windows DEF SelectUsers
  <1>10. CASE Cancel(a)
    BY <1>3, <1>10, Windows DEF Cancel
  <1>11. CASE Reselect(a)
    BY <1>3, <1>4, <1>11, Windows DEF Reselect
  <1>12. ASSUME w.at \in {"confirm", "summary", "strategy", "assign", "pay"},
                NEW at \in {"strategy", "assign", "pay"}
         PROVE  [w EXCEPT !.at = at] \in Window
    <2>1. w.task \in Task /\ w.users \in SUBSET User
      BY <1>0, <1>12, WindowShapes
    <2>2. [w EXCEPT !.at = at] = [at |-> at, task |-> w.task, users |-> w.users]
      BY <1>0, <1>12, WindowShapes
    <2>3. [at |-> at, task |-> w.task, users |-> w.users] \in Window
      BY <2>1, Windows
    <2> QED
      BY <2>2, <2>3
  <1>13. CASE ApproveTask(a)
    <2>1. w.at = "confirm" /\ [w EXCEPT !.at = "strategy"] \in Window
      BY <1>12, <1>13 DEF ApproveTask
    <2>2. [taskUser[w.task] EXCEPT !.valutation = "APPROVED"] \in TaskUser
      BY <1>4, <2>1, DecisionType DEF TaskTypes, TaskValutation
    <2>3. taskUser' \in [Task -> {NoTask} \cup TaskUser] /\ approvals' \in [Task -> Nat]
      BY <1>4, <1>13, <2>2 DEF ApproveTask, TaskTypes
    <2> QED
      BY <1>1, <1>2, <1>13, <2>1, <2>3 DEF ApproveTask, TaskTypes
  <1>14. CASE CreateStrategy(a)
    <2>1. w.at = "strategy" /\ [w EXCEPT !.at = "assign"] \in Window
      BY <1>12, <1>14 DEF CreateStrategy
    <2>2. strategies' \in [Task -> Nat]
      BY <1>4, <1>14 DEF CreateStrategy, TaskTypes
    <2> QED
      BY <1>1, <1>2, <1>14, <2>1, <2>2 DEF CreateStrategy, TaskTypes
  <1>15. CASE AssignNewUsers(a)
    <2>1. w.at \in {"assign", "summary"} /\ [w EXCEPT !.at = "pay"] \in Window
      BY <1>12, <1>15 DEF AssignNewUsers
    <2>2. reports' \in [Task -> SUBSET User]
      BY <1>0, <1>4, <1>15, <2>1, WindowShapes DEF AssignNewUsers, TaskTypes
    <2>3. window' \in [Admin -> Window]
      BY <1>1, <1>15, <2>1, Windows DEF AssignNewUsers
    <2> QED
      BY <1>2, <1>15, <2>2, <2>3 DEF AssignNewUsers, TaskTypes
  <1>16. CASE AssignFails(a)
    <2>1. [w EXCEPT !.at = "pay"] \in Window
      BY <1>12, <1>16 DEF AssignFails
    <2> QED
      BY <1>3, <1>16, <2>1 DEF AssignFails
  <1>20. CASE AssignDies(a)
    <2>1. cut' \in [Task -> Nat]
      BY <1>4, <1>20 DEF AssignDies, TaskTypes
    <2> QED
      BY <1>1, <1>2, <1>20, <2>1, Windows DEF AssignDies, TaskTypes
  <1>17. CASE AssignApprovedPoints(a)
    <2>1. ownerPaid' \in [Task -> Nat]
      BY <1>4, <1>17 DEF AssignApprovedPoints, TaskTypes
    <2> QED
      BY <1>1, <1>2, <1>17, <2>1, Windows DEF AssignApprovedPoints, TaskTypes
  <1>18. CASE \E t \in Task : OpenValutation(a, t)
    BY <1>6, <1>18 DEF OpenValutation
  <1>19. CASE \E t \in Task : OpenAddUsers(a, t)
    BY <1>6, <1>19 DEF OpenAddUsers
  <1> QED
    BY <1>5, <1>7, <1>8, <1>9, <1>10, <1>11, <1>13, <1>14, <1>15, <1>16, <1>17, <1>18, <1>19,
       <1>20 DEF AdminStep

LEMMA OwingIsFinite ==
  ASSUME NEW t \in Task
  PROVE  /\ IsFiniteSet(Owing(t)) /\ Cardinality(Owing(t)) \in Nat
         /\ Owing(t) \subseteq Admin
  <1>1. Owing(t) \subseteq Admin
    BY DEF Owing
  <1> QED
    BY <1>1, FS_Subset, FS_CardinalityType

LEMMA CrashType ==
  ASSUME FriendTypes, TaskTypes, Crash
  PROVE  FriendTypes' /\ TaskTypes'
  <1>1. FriendTypes'
    BY DEF Crash, FriendTypes, Call
  <1>2. cut' \in [Task -> Nat]
    BY OwingIsFinite DEF Crash, TaskTypes
  <1>3. window' \in [Admin -> Window]
    BY Windows DEF Crash, TaskTypes
  <1> QED
    BY <1>1, <1>2, <1>3 DEF Crash, TaskTypes

-----------------------------------------------------------------------------
(* The friendships, step by step.                                          *)

LEMMA RowsAreCounted ==
  ASSUME friendship \in Table, NEW d \in Direction
  PROVE  /\ RowsBetween(d) \in Nat
         /\ RowsBetween(Back(d)) = RowsBetween(d)
         /\ Len(friendship[d]) \in Nat /\ Len(friendship[Back(d)]) \in Nat
         /\ friendship[d] # << >> <=> Len(friendship[d]) > 0
  <1>1. /\ Back(d) \in Direction /\ Back(Back(d)) = d
        /\ friendship[d] \in Seq(FriendshipStatus) /\ friendship[Back(d)] \in Seq(FriendshipStatus)
    BY BackIsADirection DEF Table
  <1>2. /\ Len(friendship[d]) \in Nat /\ Len(friendship[Back(d)]) \in Nat
        /\ friendship[d] # << >> <=> Len(friendship[d]) > 0
    BY <1>1
  <1>3. PICK m : m = Len(friendship[d])
    OBVIOUS
  <1>4. PICK n : n = Len(friendship[Back(d)])
    OBVIOUS
  <1>5. RowsBetween(d) = m + n /\ RowsBetween(Back(d)) = n + m
    BY <1>1, <1>3, <1>4, Zenon DEF RowsBetween
  <1>6. m \in Nat /\ n \in Nat
    BY <1>2, <1>3, <1>4, Zenon
  <1>7. m + n = n + m /\ m + n \in Nat
    BY <1>6
  <1>8. RowsBetween(d) \in Nat /\ RowsBetween(Back(d)) = RowsBetween(d)
    BY <1>5, <1>7, Zenon
  <1> QED
    BY <1>2, <1>8, Zenon

LEMMA CreatorsAreFinite ==
  ASSUME NEW d \in Direction
  PROVE  /\ IsFiniteSet(Creators(d)) /\ Cardinality(Creators(d)) \in Nat
         /\ Cardinality(Creators(d)) <= Cardinality(Request)
         /\ Cardinality(Request) \in Nat
  <1>1. Creators(d) \subseteq Request
    BY DEF Creators
  <1> QED
    BY <1>1, FS_Subset, FS_CardinalityType

\* No new row, and no new creator for a pair that has one.
LEMMA BoundKept ==
  ASSUME PairsBounded,
         \A d \in Direction : RowsBetween(d)' = RowsBetween(d),
         \A d \in Direction : RowsBetween(d) > 0 => Creators(d)' \subseteq Creators(d),
         friendship \in Table
  PROVE  PairsBounded'
  <1> SUFFICES ASSUME NEW d \in Direction, RowsBetween(d)' > 0
               PROVE  RowsBetween(d)' + Cardinality(Creators(d)') <= Cardinality(Request)
    BY DEF PairsBounded
  <1>1. RowsBetween(d) + Cardinality(Creators(d)) <= Cardinality(Request)
    BY DEF PairsBounded
  <1>2. PICK n : n = RowsBetween(d)
    OBVIOUS
  <1>3. PICK old : old = Creators(d)
    OBVIOUS
  <1>4. PICK new : new = Creators(d)'
    OBVIOUS
  <1>5. new \subseteq old /\ IsFiniteSet(old) /\ n \in Nat
    BY <1>2, <1>3, <1>4, CreatorsAreFinite, RowsAreCounted
  <1>6. Cardinality(new) <= Cardinality(old)
    BY <1>5, FS_Subset
  <1>7. Cardinality(old) \in Nat /\ Cardinality(new) \in Nat /\ Cardinality(Request) \in Nat
    BY <1>5, FS_Subset, FS_CardinalityType
  <1>8. n + Cardinality(new) <= Cardinality(Request)
    BY <1>1, <1>2, <1>3, <1>5, <1>6, <1>7
  <1> QED
    BY <1>2, <1>4, <1>8

\* A worker takes a row up and no other changes.
LEMMA CreationBounded ==
  ASSUME FriendTypes, FriendTypes', PairsBounded, NEW i \in Request, NEW e \in Direction,
         i \in Creators(e),
         \A d \in Direction :
           IF SamePair(d, e)
           THEN RowsBetween(d)' = RowsBetween(d) + 1 /\ Creators(d) = Creators(e)
           ELSE RowsBetween(d)' = RowsBetween(d),
         \A d \in Direction : Creators(d)' \subseteq Creators(d) \ {i}
  PROVE  PairsBounded'
  <1> SUFFICES ASSUME NEW d \in Direction, RowsBetween(d)' > 0
               PROVE  RowsBetween(d)' + Cardinality(Creators(d)') <= Cardinality(Request)
    BY DEF PairsBounded
  <1>1. RowsBetween(d) > 0 => RowsBetween(d) + Cardinality(Creators(d)) <= Cardinality(Request)
    BY DEF PairsBounded
  <1>2. PICK n : n = RowsBetween(d)
    OBVIOUS
  <1>3. PICK old : old = Creators(d)
    OBVIOUS
  <1>4. PICK new : new = Creators(d)'
    OBVIOUS
  <1>5. new \subseteq old \ {i} /\ IsFiniteSet(old) /\ n \in Nat
    BY <1>2, <1>3, <1>4, CreatorsAreFinite, RowsAreCounted DEF FriendTypes
  <1>6. /\ Cardinality(old) \in Nat /\ Cardinality(new) \in Nat /\ Cardinality(Request) \in Nat
        /\ Cardinality(old) <= Cardinality(Request)
    <2>1. old \subseteq Request
      BY <1>3 DEF Creators
    <2> QED
      BY <1>5, <2>1, FS_Subset, FS_CardinalityType
  <1>7. Cardinality(new) <= Cardinality(old \ {i})
    BY <1>5, FS_Subset, FS_Difference
  <1>8. i \in old => Cardinality(old \ {i}) = Cardinality(old) - 1
    BY <1>5, FS_RemoveElement
  <1>9. Cardinality(new) <= Cardinality(old)
    BY <1>5, FS_Subset
  <1>10. CASE SamePair(d, e)
    <2>1. i \in old /\ RowsBetween(d)' = n + 1
      BY <1>2, <1>3, <1>10
    <2>2. n + 1 + Cardinality(new) <= Cardinality(Request)
      BY <1>1, <1>2, <1>3, <1>5, <1>6, <1>7, <1>8, <2>1
    <2> QED
      BY <1>4, <2>1, <2>2
  <1>11. CASE ~ SamePair(d, e)
    <2>1. RowsBetween(d)' = n
      BY <1>2, <1>11
    <2>2. n + Cardinality(new) <= Cardinality(Request)
      BY <1>1, <1>2, <1>3, <1>5, <1>6, <1>9, <2>1
    <2> QED
      BY <1>4, <2>1, <2>2
  <1> QED
    BY <1>10, <1>11

\* A worker moves on; it becomes a creator only of pairs without rows.
LEMMA BoundAfterMove ==
  ASSUME FriendTypes, PairsBounded, NEW i \in Request, NEW x, Goes(i, x),
         UNCHANGED friendship,
         \A d \in Direction :
           /\ \/ x.pc = "creating"
              \/ x.pc = "other" /\ friendship[Back(x.way)] = << >>
           /\ SamePair(x.way, d)
           => i \in Creators(d) \/ RowsBetween(d) = 0
  PROVE  PairsBounded'
  <1>1. \A d \in Direction : RowsBetween(d)' = RowsBetween(d)
    BY DEF RowsBetween
  <1>2. ASSUME NEW d \in Direction, RowsBetween(d) > 0, NEW j \in Creators(d)'
        PROVE  j \in Creators(d)
    <2>1. CASE j = i
      BY <1>2, <2>1 DEF Creators, Goes, FriendTypes
    <2>2. CASE j # i
      BY <1>2, <2>2 DEF Creators, Goes, FriendTypes
    <2> QED
      BY <2>1, <2>2
  <1>3. friendship \in Table
    BY DEF FriendTypes
  <1> QED
    BY <1>1, <1>2, <1>3, BoundKept

LEMMA AskersWays ==
  ASSUME FriendTypes, NEW i \in Request, req[i].pc \in {"own", "other", "creating", "updating"}
  PROVE  req[i].way \in Direction /\ Back(req[i].way) \in Direction
  <1>1. req[i] \in Asking \/ req[i] \in Updating
    BY Shapes DEF FriendTypes
  <1> QED
    BY <1>1, BackIsADirection DEF Asking, Updating

LEMMA SaveKeepsRows ==
  ASSUME FriendTypes, NEW i \in Request, SaveFriendship(i)
  PROVE  /\ \A e \in Direction : RowsBetween(e)' = RowsBetween(e)
         /\ \A e \in Direction : friendship'[e] = << >> <=> friendship[e] = << >>
         /\ req' = [req EXCEPT ![i] = Idle]
  <1> DEFINE c == req[i]
  <1>0. c \in Call /\ friendship \in Table
    BY DEF FriendTypes
  <1>1. c \in Updating
    BY <1>0, Shapes DEF SaveFriendship
  <1>2. PICK d \in Direction, k \in Nat : c.row = << d, k >>
    BY <1>1 DEF Updating
  <1>3. c.status \in FriendshipStatus
    BY <1>1 DEF Updating
  <1>4. friendship' = [friendship EXCEPT ![d] = [@ EXCEPT ![k] = c.status]]
    BY <1>2 DEF SaveFriendship, Commits
  <1>5. friendship[d] \in Seq(FriendshipStatus)
    BY <1>0 DEF Table
  <1>6. \A e \in Direction :
          /\ Len(friendship'[e]) = Len(friendship[e])
          /\ friendship[e] \in Seq(FriendshipStatus) /\ friendship'[e] \in Seq(FriendshipStatus)
    BY <1>0, <1>3, <1>4, <1>5, Overwritten DEF Table
  <1>7. \A e \in Direction : RowsBetween(e)' = RowsBetween(e)
    BY <1>6, BackIsADirection DEF RowsBetween
  <1>8. \A e \in Direction : friendship'[e] = << >> <=> friendship[e] = << >>
    BY <1>6, EmptySeq
  <1>9. req' = [req EXCEPT ![i] = Idle]
    BY DEF SaveFriendship, Commits, Goes
  <1> QED
    BY <1>7, <1>8, <1>9

LEMMA CreateAddsARow ==
  ASSUME FriendTypes, NEW i \in Request, CreateFriendship(i)
  PROVE  /\ req[i].way \in Direction
         /\ \A d \in Direction :
              IF SamePair(d, req[i].way)
              THEN RowsBetween(d)' = RowsBetween(d) + 1
              ELSE RowsBetween(d)' = RowsBetween(d) /\ friendship'[d] = friendship[d]
         /\ \A d \in Direction : friendship'[d] = << >> => friendship[d] = << >>
         /\ req' = [req EXCEPT ![i] = Idle]
  <1> DEFINE c == req[i]
  <1>0. c \in Call /\ friendship \in Table
    BY DEF FriendTypes
  <1>1. c \in Asking /\ c.pc = "creating"
    BY <1>0, Shapes DEF CreateFriendship
  <1>2. PICK e \in Direction : e = c.way
    BY <1>1 DEF Asking
  <1>3. PICK s \in FriendshipStatus : s = c.status
    BY <1>1 DEF Asking
  <1>4. friendship' = [friendship EXCEPT ![e] = Append(@, s)]
    BY <1>2, <1>3 DEF CreateFriendship, Commits
  <1>5. \A d \in Direction :
          friendship'[d] = IF d = e THEN Append(friendship[e], s) ELSE friendship[d]
    BY <1>0, <1>4 DEF Table
  <1>6. Len(Append(friendship[e], s)) = Len(friendship[e]) + 1
    BY <1>0 DEF Table
  <1>7. ASSUME NEW d \in Direction, SamePair(d, e)
        PROVE  RowsBetween(d)' = RowsBetween(d) + 1
    <2>1. Len(friendship[d]) \in Nat /\ Len(friendship[Back(d)]) \in Nat
      BY <1>0, RowsAreCounted
    <2>2. Back(d) \in Direction /\ Back(d) # d /\ (d = e \/ Back(d) = e)
      BY <1>7, BackIsADirection DEF SamePair
    <2>3. PICK m : m = Len(friendship[d])
      OBVIOUS
    <2>4. PICK n : n = Len(friendship[Back(d)])
      OBVIOUS
    <2>5. m \in Nat /\ n \in Nat
      BY <2>1, <2>3, <2>4, Zenon
    <2>6. (m + 1) + n = m + n + 1 /\ m + (n + 1) = m + n + 1
      BY <2>5
    <2>7. \/ Len(friendship'[d]) = m + 1 /\ Len(friendship'[Back(d)]) = n
          \/ Len(friendship'[d]) = m /\ Len(friendship'[Back(d)]) = n + 1
      <3>1. CASE d = e
        BY <1>5, <1>6, <2>2, <2>3, <2>4, <3>1
      <3>2. CASE Back(d) = e
        BY <1>5, <1>6, <2>2, <2>3, <2>4, <3>2
      <3> QED
        BY <2>2, <3>1, <3>2
    <2>8. Len(friendship'[d]) + Len(friendship'[Back(d)]) =
            Len(friendship[d]) + Len(friendship[Back(d)]) + 1
      BY <2>3, <2>4, <2>6, <2>7, Zenon
    <2> QED
      BY <2>8 DEF RowsBetween
  <1>8. ASSUME NEW d \in Direction, ~ SamePair(d, e)
        PROVE  RowsBetween(d)' = RowsBetween(d) /\ friendship'[d] = friendship[d]
    <2>1. Back(d) \in Direction /\ d # e /\ Back(d) # e
      BY <1>8, BackIsADirection DEF SamePair
    <2> QED
      BY <1>5, <2>1 DEF RowsBetween
  <1>9. \A d \in Direction : friendship'[d] = << >> => friendship[d] = << >>
    <2>1. friendship[e] \in Seq(FriendshipStatus) /\ Len(friendship[e]) \in Nat
      BY <1>0 DEF Table
    <2>2. Append(friendship[e], s) # << >>
      <3>1. PICK n \in Nat : n = Len(friendship[e])
        BY <2>1
      <3>2. Len(Append(friendship[e], s)) = n + 1
        BY <1>6, <3>1, Zenon
      <3>3. n + 1 # 0 /\ Len(<< >>) = 0
        OBVIOUS
      <3> QED
        BY <3>2, <3>3, Zenon
    <2> QED
      BY <1>5, <2>2
  <1>10. req' = [req EXCEPT ![i] = Idle]
    BY DEF CreateFriendship, Commits, Goes
  <1> QED
    BY <1>2, <1>7, <1>8, <1>9, <1>10

LEMMA FriendStepPairs ==
  ASSUME FriendTypes, FriendTypes', PairsBounded, NEW i \in Request, FriendStep(i)
  PROVE  PairsBounded'
  <1> DEFINE c == req[i]
  <1>0. c \in Call /\ friendship \in Table
    BY DEF FriendTypes
  <1>1. ASSUME NEW x, x.pc \notin {"other", "creating"}, Goes(i, x), UNCHANGED friendship
        PROVE  PairsBounded'
    BY <1>1, BoundAfterMove
  <1>2. Idle.pc \notin {"other", "creating"}
    BY DEF Idle
  <1>3. ASSUME NEW d \in Direction, Finds(i, d), UNCHANGED friendship,
                friendship[d] # << >>
        PROVE  PairsBounded'
    BY <1>1, <1>2, <1>3 DEF Finds
  <1>4. CASE FindOwn(i)
    <2>1. c \in Asking /\ c.way \in Direction /\ c.pc = "own"
      BY <1>0, <1>4, Shapes DEF FindOwn, Asking
    <2>2. CASE Finds(i, c.way)
      BY <1>1, <1>2, <1>4, <2>2 DEF FindOwn, Finds
    <2>3. CASE friendship[c.way] = << >> /\ Goes(i, [c EXCEPT !.pc = "other"])
      <3>1. PICK x : x = [c EXCEPT !.pc = "other"]
        OBVIOUS
      <3>2. x.pc = "other" /\ x.way = c.way
        BY <2>1, <3>1 DEF Asking
      <3>3. ASSUME NEW d \in Direction, SamePair(c.way, d), friendship[Back(c.way)] = << >>
            PROVE  RowsBetween(d) = 0
        <4>1. {d, Back(d)} = {c.way, Back(c.way)} /\ Len(<< >>) = 0
          BY <2>1, <3>3, BackIsADirection DEF SamePair
        <4>2. Len(friendship[d]) = 0 /\ Len(friendship[Back(d)]) = 0
          BY <2>3, <3>3, <4>1
        <4> QED
          BY <4>2 DEF RowsBetween
      <3>4. Goes(i, x) /\ UNCHANGED friendship
        BY <1>4, <2>3, <3>1 DEF FindOwn
      <3> QED
        BY <3>2, <3>3, <3>4, BoundAfterMove
    <2> QED
      BY <1>4, <2>2, <2>3 DEF FindOwn
  <1>5. CASE FindOther(i)
    <2>1. c \in Asking /\ c.way \in Direction /\ c.pc = "other"
      BY <1>0, <1>5, Shapes DEF FindOther, Asking
    <2>2. CASE Finds(i, Back(c.way))
      BY <1>1, <1>2, <1>5, <2>2 DEF FindOther, Finds
    <2>3. CASE friendship[Back(c.way)] = << >> /\ Goes(i, [c EXCEPT !.pc = "creating"])
      <3>1. PICK x : x = [c EXCEPT !.pc = "creating"]
        OBVIOUS
      <3>2. x.pc = "creating" /\ x.way = c.way
        BY <2>1, <3>1 DEF Asking
      <3>3. \A d \in Direction : SamePair(c.way, d) => i \in Creators(d)
        BY <2>1, <2>3 DEF Creators
      <3>4. Goes(i, x) /\ UNCHANGED friendship
        BY <1>5, <2>3, <3>1 DEF FindOther
      <3> QED
        BY <3>2, <3>3, <3>4, BoundAfterMove
    <2> QED
      BY <1>5, <2>2, <2>3 DEF FindOther
  <1>6. CASE SaveFriendship(i)
    <2>1. req' = [req EXCEPT ![i] = Idle]
      BY <1>6, SaveKeepsRows
    <2>2. \A e \in Direction : RowsBetween(e)' = RowsBetween(e)
      BY <1>6, SaveKeepsRows
    <2>3. ASSUME NEW e \in Direction, NEW j \in Creators(e)' PROVE j \in Creators(e)
      <3>1. j \in Request /\ j # i /\ req'[j] = req[j]
        BY <2>1, <2>3 DEF Creators, Idle, FriendTypes
      <3>2. req[j].pc = "other" => Back(req[j].way) \in Direction
        BY <3>1, AskersWays
      <3> QED
        BY <1>6, <2>3, <3>1, <3>2, SaveKeepsRows DEF Creators
    <2> QED
      BY <1>0, <2>2, <2>3, BoundKept
  <1>7. CASE CreateFriendship(i)
    <2>1. PICK e \in Direction : e = c.way
      BY <1>7, CreateAddsARow
    <2>2. i \in Creators(e)
      BY <1>7, <2>1 DEF CreateFriendship, Creators, SamePair
    <2>3. \A d \in Direction :
            IF SamePair(d, e) THEN RowsBetween(d)' = RowsBetween(d) + 1
            ELSE RowsBetween(d)' = RowsBetween(d)
      BY <1>7, <2>1, CreateAddsARow
    <2>4. ASSUME NEW d \in Direction, SamePair(d, e) PROVE Creators(d) = Creators(e)
      <3>1. ASSUME NEW g \in Direction PROVE SamePair(g, d) <=> SamePair(g, e)
        BY <2>4, BackIsADirection DEF SamePair
      <3> QED
        BY <3>1, AskersWays DEF Creators
    <2>5. ASSUME NEW d \in Direction, NEW j \in Creators(d)' PROVE j \in Creators(d) \ {i}
      <3>1. j \in Request /\ j # i /\ req'[j] = req[j]
        BY <1>7, <2>5, CreateAddsARow DEF Creators, Idle, FriendTypes
      <3>2. req[j].pc = "other" => Back(req[j].way) \in Direction
        BY <3>1, AskersWays
      <3> QED
        BY <1>7, <2>5, <3>1, <3>2, CreateAddsARow DEF Creators
    <2> QED
      BY <2>2, <2>3, <2>4, <2>5, CreationBounded
  <1>8. ASSUME NEW d \in Direction, NEW s \in FriendshipStatus, AddFriend(i, d, s)
        PROVE  PairsBounded'
    <2>1. [pc |-> "own", way |-> d, status |-> s].pc = "own"
      OBVIOUS
    <2> QED
      BY <1>1, <1>8, <2>1 DEF AddFriend, Starts
  <1>9. ASSUME NEW d \in Direction, GetFriendStatus(i, d) PROVE PairsBounded'
    <2>1. [pc |-> "looking", way |-> d].pc = "looking"
      OBVIOUS
    <2> QED
      BY <1>1, <1>9, <2>1 DEF GetFriendStatus, Starts
  <1>10. ASSUME NEW v, Answers(i, v), UNCHANGED friendship PROVE PairsBounded'
    <2>1. [pc |-> "answering", way |-> c.way, view |-> v].pc = "answering"
      OBVIOUS
    <2> QED
      BY <1>1, <1>10, <2>1 DEF Answers
  <1>11. CASE LookSent(i)
    <2>1. [pc |-> "lookingBack", way |-> c.way].pc = "lookingBack"
      OBVIOUS
    <2> QED
      BY <1>1, <1>2, <1>10, <1>11, <2>1 DEF LookSent, Ends
  <1>12. CASE LookReceived(i)
    BY <1>1, <1>2, <1>10, <1>12 DEF LookReceived, Ends
  <1>13. CASE AnswerStatus(i)
    BY <1>1, <1>2, <1>13 DEF AnswerStatus, Ends
  <1> QED
    BY <1>4, <1>5, <1>6, <1>7, <1>8, <1>9, <1>11, <1>12, <1>13 DEF FriendStep

\* A worker moves on without turning to another pair.
LEMMA TurnAfterMove ==
  ASSUME FriendTypes, PairsInTurn, NEW i \in Request, NEW x, Goes(i, x),
         UNCHANGED << friendship, crossed >>,
         x.pc \in {"own", "other", "creating", "updating"} =>
           /\ req[i].pc \in {"own", "other", "creating", "updating"}
           /\ x.way = req[i].way
           /\ x.pc = "other" => friendship[x.way] = << >>
           /\ x.pc = "creating" /\ x.way \notin crossed => RowsBetween(x.way) = 0
  PROVE  PairsInTurn'
  <1> SUFFICES ASSUME NEW d \in Direction \ crossed
               PROVE  /\ Back(d) \notin crossed
                      /\ RowsBetween(d)' <= 1
                      /\ \A j, k \in Request : AsksFor(j, d)' /\ AsksFor(k, d)' => j = k
                      /\ \A j \in Request : AsksFor(j, d)' =>
                           /\ req'[j].pc = "other" => friendship'[req'[j].way] = << >>
                           /\ req'[j].pc = "creating" => RowsBetween(d)' = 0
    BY DEF PairsInTurn
  <1>1. RowsBetween(d)' = RowsBetween(d)
    BY DEF RowsBetween
  <1>2. /\ req'[i] = x
        /\ \A j \in Request \ {i} : req'[j] = req[j]
    BY DEF Goes, FriendTypes
  <1>3. \A j \in Request : AsksFor(j, d)' => AsksFor(j, d)
    BY <1>2 DEF AsksFor
  <1>4. ASSUME AsksFor(i, d)', x.pc = "creating" PROVE RowsBetween(d) = 0
    <2>1. x.way \in Direction /\ (x.way = d \/ x.way = Back(d))
      BY <1>2, <1>4, AskersWays DEF AsksFor, SamePair
    <2>2. RowsBetween(Back(d)) = RowsBetween(d)
      BY RowsAreCounted DEF FriendTypes
    <2>3. Back(d) \notin crossed
      BY DEF PairsInTurn
    <2> QED
      BY <1>2, <1>4, <2>1, <2>2, <2>3 DEF AsksFor
  <1> QED
    BY <1>1, <1>2, <1>3, <1>4 DEF PairsInTurn, AsksFor

LEMMA FriendStepTurns ==
  ASSUME FriendTypes, PairsInTurn, NEW i \in Request, FriendStep(i)
  PROVE  PairsInTurn'
  <1> DEFINE c == req[i]
  <1>0. c \in Call /\ friendship \in Table
    BY DEF FriendTypes
  <1>1. ASSUME NEW x, x.pc \notin {"own", "other", "creating", "updating"}, Goes(i, x),
                UNCHANGED << friendship, crossed >>
        PROVE  PairsInTurn'
    BY <1>1, TurnAfterMove
  <1>2. Idle.pc \notin {"own", "other", "creating", "updating"}
    BY DEF Idle
  <1>3. ASSUME NEW d \in Direction, Finds(i, d), UNCHANGED << friendship, crossed >>,
                c.pc \in {"own", "other"}
        PROVE  PairsInTurn'
    <2>1. PICK x : x = [pc |-> "updating", way |-> c.way, status |-> c.status, row |-> << d, 1 >>]
      OBVIOUS
    <2>2. x.pc = "updating" /\ x.way = c.way
      BY <2>1
    <2>3. CASE Goes(i, x)
      BY <1>3, <2>2, <2>3, TurnAfterMove
    <2> QED
      BY <1>1, <1>2, <1>3, <2>1, <2>3 DEF Finds
  <1>4. CASE FindOwn(i)
    <2>1. c \in Asking /\ c.way \in Direction /\ c.pc = "own"
      BY <1>0, <1>4, Shapes DEF FindOwn, Asking
    <2>2. CASE Finds(i, c.way)
      BY <1>3, <1>4, <2>1, <2>2 DEF FindOwn
    <2>3. CASE friendship[c.way] = << >> /\ Goes(i, [c EXCEPT !.pc = "other"])
      <3>1. PICK x : x = [c EXCEPT !.pc = "other"]
        OBVIOUS
      <3>2. x.pc = "other" /\ x.way = c.way
        BY <2>1, <3>1 DEF Asking
      <3>3. Goes(i, x) /\ UNCHANGED << friendship, crossed >>
        BY <1>4, <2>3, <3>1 DEF FindOwn
      <3> QED
        BY <2>1, <2>3, <3>2, <3>3, TurnAfterMove
    <2> QED
      BY <1>4, <2>2, <2>3 DEF FindOwn
  <1>5. CASE FindOther(i)
    <2>1. c \in Asking /\ c.way \in Direction /\ c.pc = "other" /\ Back(c.way) \in Direction
      BY <1>0, <1>5, Shapes, BackIsADirection DEF FindOther, Asking
    <2>2. CASE Finds(i, Back(c.way))
      BY <1>3, <1>5, <2>1, <2>2 DEF FindOther
    <2>3. CASE friendship[Back(c.way)] = << >> /\ Goes(i, [c EXCEPT !.pc = "creating"])
      <3>1. PICK x : x = [c EXCEPT !.pc = "creating"]
        OBVIOUS
      <3>2. x.pc = "creating" /\ x.way = c.way
        BY <2>1, <3>1 DEF Asking
      <3>3. Goes(i, x) /\ UNCHANGED << friendship, crossed >>
        BY <1>5, <2>3, <3>1 DEF FindOther
      <3>4. c.way \notin crossed => RowsBetween(c.way) = 0
        <4>1. AsksFor(i, c.way)
          BY <2>1 DEF AsksFor, SamePair
        <4>2. c.way \notin crossed => friendship[c.way] = << >>
          BY <2>1, <4>1 DEF PairsInTurn
        <4>3. Len(<< >>) = 0
          OBVIOUS
        <4> QED
          BY <2>3, <4>2, <4>3 DEF RowsBetween
      <3> QED
        BY <2>1, <2>3, <3>2, <3>3, <3>4, TurnAfterMove
    <2> QED
      BY <1>5, <2>2, <2>3 DEF FindOther
  <1>6. CASE SaveFriendship(i)
    <2>1. /\ req'[i] = Idle
          /\ \A j \in Request \ {i} : req'[j] = req[j]
          /\ crossed' = crossed
      BY <1>6, SaveKeepsRows DEF SaveFriendship, FriendTypes
    <2>2. \A d \in Direction : \A j \in Request : AsksFor(j, d)' => AsksFor(j, d) /\ j # i
      BY <1>2, <2>1 DEF AsksFor
    <2>3. \A j \in Request : req[j].pc = "other" => req[j].way \in Direction
      BY AskersWays
    <2> QED
      BY <1>6, <2>1, <2>2, <2>3, SaveKeepsRows DEF PairsInTurn
  <1>7. CASE CreateFriendship(i)
    <2>1. PICK e \in Direction : e = c.way
      BY <1>7, CreateAddsARow
    <2>2. /\ req'[i] = Idle
          /\ \A j \in Request \ {i} : req'[j] = req[j]
          /\ crossed' = crossed
      BY <1>7, CreateAddsARow DEF CreateFriendship, FriendTypes
    <2>3. \A d \in Direction : \A j \in Request : AsksFor(j, d)' => AsksFor(j, d) /\ j # i
      BY <1>2, <2>2 DEF AsksFor
    <2>4. ASSUME NEW d \in Direction \ crossed, SamePair(d, e)
          PROVE  RowsBetween(d)' = 1 /\ \A j \in Request : ~ AsksFor(j, d)'
      <3>1. AsksFor(i, d)
        BY <1>7, <2>1, <2>4, BackIsADirection DEF AsksFor, SamePair, CreateFriendship
      <3>2. RowsBetween(d) = 0
        BY <1>7, <3>1 DEF PairsInTurn, CreateFriendship
      <3>3. RowsBetween(d)' = RowsBetween(d) + 1
        BY <1>7, <2>1, <2>4, CreateAddsARow
      <3> QED
        BY <2>3, <3>1, <3>2, <3>3 DEF PairsInTurn
    <2>5. ASSUME NEW d \in Direction \ crossed, ~ SamePair(d, e)
          PROVE  /\ RowsBetween(d)' = RowsBetween(d)
                 /\ \A j \in Request :
                      AsksFor(j, d) => friendship'[req[j].way] = friendship[req[j].way]
      <3>1. RowsBetween(d)' = RowsBetween(d)
        BY <1>7, <2>1, <2>5, CreateAddsARow
      <3>2. ASSUME NEW j \in Request, AsksFor(j, d)
            PROVE  friendship'[req[j].way] = friendship[req[j].way]
        <4>1. req[j].way \in Direction /\ ~ SamePair(req[j].way, e)
          BY <2>1, <2>5, <3>2, AskersWays, BackIsADirection DEF AsksFor, SamePair
        <4> QED
          BY <1>7, <2>1, <4>1, CreateAddsARow
      <3> QED
        BY <3>1, <3>2
    <2> QED
      BY <2>2, <2>3, <2>4, <2>5 DEF PairsInTurn
  <1>8. ASSUME NEW d \in Direction, NEW s \in FriendshipStatus, AddFriend(i, d, s)
        PROVE  PairsInTurn'
    <2>1. /\ req'[i] = [pc |-> "own", way |-> d, status |-> s]
          /\ \A j \in Request \ {i} : req'[j] = req[j]
          /\ friendship' = friendship /\ crossed \subseteq crossed'
          /\ (\E j \in Request : AsksFor(j, d)) => crossed' = crossed \cup {d, Back(d)}
          /\ crossed' \subseteq crossed \cup {d, Back(d)}
          /\ crossed' # crossed => crossed' = crossed \cup {d, Back(d)}
      BY <1>8 DEF AddFriend, Starts, Goes, FriendTypes
    <2> SUFFICES ASSUME NEW e \in Direction \ crossed'
                 PROVE  /\ Back(e) \notin crossed'
                        /\ RowsBetween(e)' <= 1
                        /\ \A j, k \in Request : AsksFor(j, e)' /\ AsksFor(k, e)' => j = k
                        /\ \A j \in Request : AsksFor(j, e)' =>
                             /\ req'[j].pc = "other" => friendship'[req'[j].way] = << >>
                             /\ req'[j].pc = "creating" => RowsBetween(e)' = 0
      BY DEF PairsInTurn
    <2>2. RowsBetween(e)' = RowsBetween(e)
      BY <2>1 DEF RowsBetween
    <2>3. \A j \in Request : j # i /\ AsksFor(j, e)' => AsksFor(j, e)
      BY <2>1 DEF AsksFor
    <2>4. AsksFor(i, e)' => \A j \in Request : ~ AsksFor(j, e)
      <3>1. SUFFICES ASSUME AsksFor(i, e)', NEW j \in Request, AsksFor(j, e) PROVE FALSE
        OBVIOUS
      <3>2. SamePair(d, e)
        BY <2>1, <3>1 DEF AsksFor
      <3>3. AsksFor(j, d)
        BY <3>1, <3>2, AskersWays, BackIsADirection DEF AsksFor, SamePair
      <3> QED
        BY <2>1, <3>2, <3>3, BackIsADirection DEF SamePair
    <2>5. Back(e) \notin crossed'
      BY <2>1, BackIsADirection DEF PairsInTurn
    <2>6. e \notin crossed
      BY <2>1
    <2> QED
      BY <2>1, <2>2, <2>3, <2>4, <2>5, <2>6 DEF PairsInTurn
  <1>9. ASSUME NEW d \in Direction, GetFriendStatus(i, d) PROVE PairsInTurn'
    <2>1. [pc |-> "looking", way |-> d].pc = "looking"
      OBVIOUS
    <2> QED
      BY <1>1, <1>9, <2>1 DEF GetFriendStatus, Starts
  <1>10. ASSUME NEW v, Answers(i, v), UNCHANGED << friendship, crossed >> PROVE PairsInTurn'
    <2>1. [pc |-> "answering", way |-> c.way, view |-> v].pc = "answering"
      OBVIOUS
    <2> QED
      BY <1>1, <1>10, <2>1 DEF Answers
  <1>11. CASE LookSent(i)
    <2>1. [pc |-> "lookingBack", way |-> c.way].pc = "lookingBack"
      OBVIOUS
    <2> QED
      BY <1>1, <1>2, <1>10, <1>11, <2>1 DEF LookSent, Ends
  <1>12. CASE LookReceived(i)
    BY <1>1, <1>2, <1>10, <1>12 DEF LookReceived, Ends
  <1>13. CASE AnswerStatus(i)
    BY <1>1, <1>2, <1>13 DEF AnswerStatus, Ends
  <1> QED
    BY <1>4, <1>5, <1>6, <1>7, <1>8, <1>9, <1>11, <1>12, <1>13 DEF FriendStep

\* A worker whose call is not the one that moves.
LEMMA OthersRecall ==
  ASSUME FriendTypes, NEW j \in Request, RecalledBy(j), req'[j] = req[j], crossed \subseteq crossed',
         \/ friendship' = friendship /\ recent'[j] = recent[j]
         \/ /\ \A d \in Direction : friendship'[d] = << >> => friendship[d] = << >>
            /\ recent'[j] = IF recent[j] = {} THEN {} ELSE recent[j] \cup {friendship'}
  PROVE  RecalledBy(j)'
  <1>1. CASE friendship' = friendship /\ recent'[j] = recent[j]
    BY <1>1 DEF RecalledBy, Remembers
  <1>2. CASE /\ \A d \in Direction : friendship'[d] = << >> => friendship[d] = << >>
             /\ recent'[j] = IF recent[j] = {} THEN {} ELSE recent[j] \cup {friendship'}
    <2>1. recent[j] \subseteq recent'[j]
      BY <1>2
    <2>2. Remembers(j)' => friendship' \in recent'[j]
      BY <1>2 DEF RecalledBy, Remembers
    <2>3. \A f \in recent'[j] : \A d \in Direction : f[d] # << >> => friendship'[d] # << >>
      BY <1>2 DEF RecalledBy
    <2> QED
      BY <2>1, <2>2, <2>3 DEF RecalledBy
  <1> QED
    BY <1>1, <1>2

\* A worker that ends or has nothing to remember.
LEMMA NothingToRecall ==
  ASSUME NEW i \in Request, RecalledBy(i), UNCHANGED friendship,
         recent'[i] = recent[i] \/ recent'[i] = {} ,
         req'[i].pc \in {"idle", "own", "other", "creating", "updating"}
  PROVE  RecalledBy(i)'
  BY DEF RecalledBy, Remembers

LEMMA FriendStepRecalls ==
  ASSUME FriendTypes, PairsInTurn, Recalled, NEW i \in Request, FriendStep(i)
  PROVE  Recalled'
  <1> DEFINE c == req[i]
  <1>0. c \in Call /\ friendship \in Table /\ RecalledBy(i)
    BY DEF FriendTypes, Recalled
  <1>1. ASSUME RecalledBy(i)', UNCHANGED friendship, crossed \subseteq crossed',
                \A j \in Request \ {i} : req'[j] = req[j] /\ recent'[j] = recent[j]
        PROVE  Recalled'
    BY <1>1, OthersRecall DEF Recalled
  <1>2. ASSUME NEW x, Goes(i, x)
        PROVE  req'[i] = x /\ \A j \in Request \ {i} : req'[j] = req[j]
    BY <1>2 DEF Goes, FriendTypes
  <1>3. ASSUME NEW x, x.pc \in {"idle", "own", "other", "creating", "updating"}, Goes(i, x),
                UNCHANGED << friendship, recent >>, crossed \subseteq crossed'
        PROVE  Recalled'
    BY <1>0, <1>1, <1>2, <1>3, NothingToRecall
  <1>4. ASSUME Ends(i), UNCHANGED << friendship, crossed >> PROVE Recalled'
    <2>1. /\ recent'[i] = {}
          /\ \A j \in Request \ {i} : recent'[j] = recent[j]
      BY <1>4 DEF Ends, FriendTypes
    <2>2. Idle.pc = "idle" /\ Goes(i, Idle)
      BY <1>4 DEF Ends, Idle
    <2> QED
      BY <1>0, <1>1, <1>2, <1>4, <2>1, <2>2, NothingToRecall
  <1>5. ASSUME NEW f, Commits(i, f), crossed' = crossed,
                \A d \in Direction : friendship'[d] = << >> => friendship[d] = << >>
        PROVE  Recalled'
    <2>1. Goes(i, Idle) /\ recent'[i] = {} /\ Idle.pc = "idle"
      BY <1>5 DEF Commits, Idle
    <2>2. RecalledBy(i)'
      BY <1>2, <2>1 DEF RecalledBy, Remembers
    <2>3. ASSUME NEW j \in Request \ {i} PROVE RecalledBy(j)'
      <3>1. recent'[j] = IF recent[j] = {} THEN {} ELSE recent[j] \cup {friendship'}
        BY <1>5 DEF Commits
      <3>2. RecalledBy(j) /\ req'[j] = req[j]
        BY <1>2, <2>1 DEF Recalled
      <3> QED
        BY <1>5, <3>1, <3>2, OthersRecall
    <2> QED
      BY <2>2, <2>3 DEF Recalled
  <1>5a. ASSUME NEW d, Finds(i, d), UNCHANGED << friendship, recent >>, crossed \subseteq crossed'
         PROVE  Recalled'
    <2>1. [pc |-> "updating", way |-> c.way, status |-> c.status, row |-> << d, 1 >>].pc = "updating"
      OBVIOUS
    <2>2. Idle.pc = "idle"
      BY DEF Idle
    <2> QED
      BY <1>3, <1>5a, <2>1, <2>2 DEF Finds
  <1>6. CASE FindOwn(i)
    <2>1. c \in Asking /\ [c EXCEPT !.pc = "other"].pc = "other"
      BY <1>0, <1>6, Shapes DEF FindOwn, Asking
    <2>2. PICK x : x = [c EXCEPT !.pc = "other"]
      OBVIOUS
    <2>7. x.pc = "other"
      BY <2>1, <2>2, Zenon
    <2>3. Goes(i, x) \/ Finds(i, c.way)
      BY <1>6, <2>2 DEF FindOwn
    <2>4. UNCHANGED << friendship, recent >> /\ crossed \subseteq crossed'
      BY <1>6 DEF FindOwn
    <2>5. CASE Goes(i, x)
      BY <1>3, <2>7, <2>4, <2>5
    <2>6. CASE Finds(i, c.way)
      BY <1>5a, <2>4, <2>6, Zenon
    <2> QED
      BY <2>3, <2>5, <2>6
  <1>7. CASE FindOther(i)
    <2>1. c \in Asking /\ [c EXCEPT !.pc = "creating"].pc = "creating"
      BY <1>0, <1>7, Shapes DEF FindOther, Asking
    <2>2. PICK x : x = [c EXCEPT !.pc = "creating"]
      OBVIOUS
    <2>7. x.pc = "creating"
      BY <2>1, <2>2, Zenon
    <2>3. Goes(i, x) \/ Finds(i, Back(c.way))
      BY <1>7, <2>2 DEF FindOther
    <2>4. UNCHANGED << friendship, recent >> /\ crossed \subseteq crossed'
      BY <1>7 DEF FindOther
    <2>5. CASE Goes(i, x)
      BY <1>3, <2>7, <2>4, <2>5
    <2>6. CASE Finds(i, Back(c.way))
      BY <1>5a, <2>4, <2>6, Zenon
    <2> QED
      BY <2>3, <2>5, <2>6
  <1>8. CASE SaveFriendship(i)
    <2>1. \A d \in Direction : friendship'[d] = << >> => friendship[d] = << >>
      BY <1>8, SaveKeepsRows
    <2> QED
      BY <1>5, <1>8, <2>1 DEF SaveFriendship
  <1>9. CASE CreateFriendship(i)
    <2>1. \A d \in Direction : friendship'[d] = << >> => friendship[d] = << >>
      BY <1>9, CreateAddsARow
    <2> QED
      BY <1>5, <1>9, <2>1 DEF CreateFriendship
  <1>10. ASSUME NEW d \in Direction, NEW s \in FriendshipStatus, AddFriend(i, d, s)
         PROVE  Recalled'
    <2>1. [pc |-> "own", way |-> d, status |-> s].pc = "own"
      OBVIOUS
    <2> QED
      BY <1>3, <1>10, <2>1 DEF AddFriend, Starts
  <1>11. ASSUME NEW d \in Direction, GetFriendStatus(i, d) PROVE Recalled'
    <2>1. req'[i].pc = "looking" /\ \A j \in Request \ {i} : req'[j] = req[j]
      BY <1>2, <1>11 DEF GetFriendStatus, Starts
    <2>2. /\ recent'[i] = {friendship}
          /\ \A j \in Request \ {i} : recent'[j] = recent[j]
          /\ friendship' = friendship /\ crossed' = crossed
      BY <1>11 DEF GetFriendStatus, FriendTypes
    <2>3. RecalledBy(i)'
      BY <2>1, <2>2 DEF RecalledBy, Remembers
    <2> QED
      BY <1>1, <2>1, <2>2, <2>3
  <1>12. ASSUME NEW v, Answers(i, v), UNCHANGED << friendship, crossed >>, Remembers(i),
                 c.way \notin crossed => \E f \in recent[i] : ViewIn(f, c.way) = v
         PROVE  Recalled'
    <2>1. PICK x : x = [pc |-> "answering", way |-> c.way, view |-> v]
      OBVIOUS
    <2>2. x.pc = "answering" /\ x.way = c.way /\ x.view = v
      BY <2>1
    <2>3. /\ req'[i] = x /\ recent' = recent
          /\ \A j \in Request \ {i} : req'[j] = req[j]
      BY <1>2, <1>12, <2>1 DEF Answers
    <2>4. RecalledBy(i)'
      BY <1>0, <1>12, <2>2, <2>3 DEF RecalledBy, Remembers
    <2> QED
      BY <1>1, <1>12, <2>3, <2>4
  <1>13. CASE LookSent(i)
    <2>1. c \in Looking /\ c.way \in Direction /\ c.pc = "looking"
      BY <1>0, <1>13, Shapes DEF LookSent, Looking
    <2>2. /\ Remembers(i) /\ friendship \in recent[i]
          /\ friendship' = friendship /\ crossed' = crossed
      BY <1>0, <1>13, <2>1 DEF LookSent, RecalledBy, Remembers
    <2>3. ASSUME Len(friendship[c.way]) = 1, Answers(i, Sent(friendship[c.way][1])) PROVE Recalled'
      <3>1. friendship[c.way] # << >>
        BY <1>0, <2>1, <2>3, RowsAreCounted
      <3>2. ViewIn(friendship, c.way) = Sent(friendship[c.way][1])
        BY <3>1 DEF ViewIn
      <3> QED
        BY <1>12, <2>2, <2>3, <3>2
    <2>4. ASSUME friendship[c.way] = << >>, Goes(i, [pc |-> "lookingBack", way |-> c.way]),
                  UNCHANGED recent
          PROVE  Recalled'
      <3>1. PICK x : x = [pc |-> "lookingBack", way |-> c.way]
        OBVIOUS
      <3>2. x.pc = "lookingBack" /\ x.way = c.way
        BY <3>1
      <3>3. req'[i] = x /\ \A j \in Request \ {i} : req'[j] = req[j]
        BY <1>2, <2>4, <3>1
      <3>4. RecalledBy(i)'
        BY <1>0, <2>2, <2>4, <3>2, <3>3 DEF RecalledBy, Remembers
      <3> QED
        BY <1>1, <2>2, <2>4, <3>3, <3>4
    <2> QED
      BY <1>4, <1>13, <2>2, <2>3, <2>4 DEF LookSent
  <1>14. CASE LookReceived(i)
    <2>1. c \in Looking /\ c.way \in Direction /\ c.pc = "lookingBack" /\ Back(c.way) \in Direction
      BY <1>0, <1>14, Shapes, BackIsADirection DEF LookReceived, Looking
    <2>2. /\ Remembers(i) /\ friendship \in recent[i]
          /\ friendship' = friendship /\ crossed' = crossed
      BY <1>0, <1>14, <2>1 DEF LookReceived, RecalledBy, Remembers
    <2>3. PICK f \in recent[i] : f[c.way] = << >>
      BY <1>0, <2>1 DEF RecalledBy
    <2>4. ASSUME friendship[Back(c.way)] = << >>, Answers(i, "NOT_SETTED") PROVE Recalled'
      <3>1. f[Back(c.way)] = << >>
        BY <1>0, <2>1, <2>4 DEF RecalledBy
      <3>2. ViewIn(f, c.way) = "NOT_SETTED"
        BY <2>3, <3>1 DEF ViewIn
      <3> QED
        BY <1>12, <2>2, <2>4, <3>2
    <2>5. ASSUME Len(friendship[Back(c.way)]) = 1,
                  Answers(i, Received(friendship[Back(c.way)][1]))
          PROVE  Recalled'
      <3>1. friendship[Back(c.way)] # << >>
        BY <1>0, <2>1, <2>5, RowsAreCounted
      <3>2. c.way \notin crossed => friendship[c.way] = << >>
        <4>1. SUFFICES ASSUME c.way \notin crossed, friendship[c.way] # << >> PROVE FALSE
          OBVIOUS
        <4>2. PICK m : m = Len(friendship[c.way])
          OBVIOUS
        <4>3. m \in Nat /\ m > 0
          BY <1>0, <2>1, <4>1, <4>2, RowsAreCounted
        <4>4. RowsBetween(c.way) = m + 1
          BY <2>5, <4>2, Zenon DEF RowsBetween
        <4>5. RowsBetween(c.way) <= 1
          BY <2>1, <4>1 DEF PairsInTurn
        <4> QED
          BY <4>3, <4>4, <4>5
      <3>3. c.way \notin crossed => ViewIn(friendship, c.way) = Received(friendship[Back(c.way)][1])
        BY <3>1, <3>2 DEF ViewIn
      <3> QED
        BY <1>12, <2>2, <2>5, <3>3
    <2> QED
      BY <1>4, <1>14, <2>2, <2>4, <2>5 DEF LookReceived
  <1>15. CASE AnswerStatus(i)
    BY <1>4, <1>15 DEF AnswerStatus
  <1> QED
    BY <1>6, <1>7, <1>8, <1>9, <1>10, <1>11, <1>13, <1>14, <1>15 DEF FriendStep

ProposalStep(i) ==
  \/ \E u \in User, t \in Task, asked \in SUBSET User : CreateTask(i, u, t, asked)
  \/ FindReceivers(i)
  \/ FindSenders(i)
  \/ StoreTask(i)

LEMMA ProposalStepFriends ==
  ASSUME FriendTypes, PairsBounded, PairsInTurn, Recalled, NEW i \in Request, ProposalStep(i)
  PROVE  PairsBounded' /\ PairsInTurn' /\ Recalled'
  <1> DEFINE c == req[i]
  <1>0. c \in Call /\ RecalledBy(i)
    BY DEF FriendTypes, Recalled
  <1>1. ASSUME NEW x, x.pc \in {"idle", "checking", "checkingSenders", "storing"}, Goes(i, x),
                UNCHANGED << friendship, crossed >>, RecalledBy(i)',
                \A j \in Request \ {i} : recent'[j] = recent[j]
        PROVE  PairsBounded' /\ PairsInTurn' /\ Recalled'
    <2>1. PairsBounded'
      BY <1>1, BoundAfterMove
    <2>2. PairsInTurn'
      BY <1>1, TurnAfterMove
    <2>3. \A j \in Request \ {i} : req'[j] = req[j]
      BY <1>1 DEF Goes, FriendTypes
    <2>4. Recalled'
      BY <1>1, <2>3, OthersRecall DEF Recalled
    <2> QED
      BY <2>1, <2>2, <2>4
  <1>2. ASSUME NEW x, Goes(i, x) PROVE req'[i] = x
    BY <1>2 DEF Goes, FriendTypes
  <1>3. ASSUME Ends(i), UNCHANGED << friendship, crossed >>
        PROVE  PairsBounded' /\ PairsInTurn' /\ Recalled'
    <2>1. Goes(i, Idle) /\ Idle.pc = "idle"
      BY <1>3 DEF Ends, Idle
    <2>2. recent'[i] = {} /\ \A j \in Request \ {i} : recent'[j] = recent[j]
      BY <1>3 DEF Ends, FriendTypes
    <2>3. RecalledBy(i)'
      BY <1>0, <1>2, <1>3, <2>1, <2>2, NothingToRecall
    <2> QED
      BY <1>1, <1>3, <2>1, <2>2, <2>3
  <1>4. ASSUME NEW u \in User, NEW t \in Task, NEW asked \in SUBSET User, CreateTask(i, u, t, asked)
        PROVE  PairsBounded' /\ PairsInTurn' /\ Recalled'
    <2>1. PICK x : /\ Goes(i, x)
                   /\ \/ x.pc = "storing" /\ x.asked = {}
                      \/ x.pc = "checking"
      <3>1. CASE asked = {}
        BY <1>4, <3>1 DEF CreateTask, Starts
      <3>2. CASE asked # {}
        BY <1>4, <3>2 DEF CreateTask, Starts
      <3> QED
        BY <3>1, <3>2
    <2>2. /\ recent'[i] = {friendship}
          /\ \A j \in Request \ {i} : recent'[j] = recent[j]
          /\ friendship' = friendship /\ crossed' = crossed
      BY <1>4 DEF CreateTask, FriendTypes
    <2>3. req'[i] = x
      BY <1>2, <2>1
    <2>4. RecalledBy(i)'
      BY <2>1, <2>2, <2>3 DEF RecalledBy, Remembers
    <2> QED
      BY <1>1, <2>1, <2>2, <2>4
  <1>5. CASE FindReceivers(i)
    <2>1. c \in Proposing /\ c.pc = "checking"
      BY <1>0, <1>5, Shapes DEF FindReceivers
    <2>2. PICK vs : vs = { v \in User \ {c.owner} : Accepted(<< c.owner, v >>) }
      OBVIOUS
    <2>3. PICK x : x = [pc |-> "checkingSenders", owner |-> c.owner, task |-> c.task,
                        asked |-> c.asked, found |-> vs]
      OBVIOUS
    <2>4. x.pc = "checkingSenders" /\ x.owner = c.owner /\ x.found = vs
      BY <2>3
    <2>5. Goes(i, x) /\ recent' = recent /\ friendship' = friendship /\ crossed' = crossed
      BY <1>5, <2>2, <2>3 DEF FindReceivers
    <2>6. friendship \in recent[i]
      BY <1>0, <2>1 DEF RecalledBy, Remembers
    <2>7. \A v \in vs : WasFriend(friendship, c.owner, v)
      BY <2>2 DEF WasFriend, Accepted
    <2>8. RecalledBy(i)'
      BY <1>0, <1>2, <2>4, <2>5, <2>6, <2>7 DEF RecalledBy, Remembers
    <2> QED
      BY <1>1, <2>4, <2>5, <2>8
  <1>6. CASE FindSenders(i)
    <2>1. c \in Proposing /\ c.pc = "checkingSenders"
      BY <1>0, <1>6, Shapes DEF FindSenders
    <2>2. PICK vs : vs = c.found \cup { v \in User \ {c.owner} : Accepted(<< v, c.owner >>) }
      OBVIOUS
    <2>3. PICK x : x = [pc |-> "storing", owner |-> c.owner, task |-> c.task,
                        asked |-> c.asked, found |-> vs]
      OBVIOUS
    <2>4. x.pc = "storing" /\ x.owner = c.owner /\ x.asked = c.asked
      BY <2>3
    <2>5. /\ friendship' = friendship /\ crossed' = crossed
          /\ \/ c.asked \subseteq vs /\ Goes(i, x) /\ recent' = recent
             \/ Ends(i)
      BY <1>6, <2>2, <2>3 DEF FindSenders
    <2>6. friendship \in recent[i]
      BY <1>0, <2>1 DEF RecalledBy, Remembers
    <2>7. ASSUME NEW v \in vs PROVE \E f \in recent[i] : WasFriend(f, c.owner, v)
      <3>1. CASE v \in c.found
        BY <1>0, <2>1, <3>1 DEF RecalledBy
      <3>2. CASE v \notin c.found
        BY <2>2, <2>6, <2>7, <3>2 DEF WasFriend, Accepted
      <3> QED
        BY <3>1, <3>2
    <2>8. CASE c.asked \subseteq vs /\ Goes(i, x) /\ recent' = recent
      <3>1. RecalledBy(i)'
        BY <1>0, <1>2, <2>4, <2>5, <2>6, <2>7, <2>8 DEF RecalledBy, Remembers
      <3> QED
        BY <1>1, <2>4, <2>5, <2>8, <3>1
    <2> QED
      BY <1>3, <2>5, <2>8
  <1>7. CASE StoreTask(i)
    BY <1>3, <1>7 DEF StoreTask
  <1> QED
    BY <1>4, <1>5, <1>6, <1>7 DEF ProposalStep

\* The steps of administrators do not concern the friendships.
LEMMA QuietFriends ==
  ASSUME PairsBounded, PairsInTurn, Recalled, UNCHANGED << friendship, req, recent, crossed >>
  PROVE  PairsBounded' /\ PairsInTurn' /\ Recalled'
  <1>1. PairsBounded'
    BY DEF PairsBounded, RowsBetween, Creators
  <1>2. PairsInTurn'
    BY DEF PairsInTurn, RowsBetween, AsksFor
  <1>3. Recalled'
    BY DEF Recalled, RecalledBy, Remembers
  <1> QED
    BY <1>1, <1>2, <1>3

LEMMA CrashFriends ==
  ASSUME FriendTypes, PairsBounded, PairsInTurn, Recalled, Crash
  PROVE  PairsBounded' /\ PairsInTurn' /\ Recalled'
  <1>1. /\ friendship' = friendship /\ crossed' = crossed
        /\ \A i \in Request : req'[i].pc = "idle" /\ recent'[i] = {}
    BY DEF Crash, Idle
  <1>2. \A d \in Direction : RowsBetween(d)' = RowsBetween(d)
    BY <1>1 DEF RowsBetween
  <1>3. \A d \in Direction : Creators(d)' \subseteq Creators(d)
    BY <1>1 DEF Creators
  <1>4. friendship \in Table
    BY DEF FriendTypes
  <1>5. PairsBounded'
    BY <1>2, <1>3, <1>4, BoundKept
  <1>6. PairsInTurn'
    BY <1>1, <1>2 DEF PairsInTurn, AsksFor
  <1>7. Recalled'
    BY <1>1 DEF Recalled, RecalledBy, Remembers
  <1> QED
    BY <1>5, <1>6, <1>7

-----------------------------------------------------------------------------
(* The proposed tasks, step by step.                                       *)

LEMMA Valutations ==
  ASSUME TaskTypes, NEW t \in Task
  PROVE  /\ taskUser[t].valutation \in TaskValutation \cup {"none"}
         /\ taskUser[t].valutation = "none" <=> taskUser[t] = NoTask
         /\ approvals[t] \in Nat
  BY DEF TaskTypes, TaskUser, TaskValutation, NoTask

LEMMA HoldersAreFinite ==
  ASSUME NEW t
  PROVE  /\ IsFiniteSet(Holders(t)) /\ Cardinality(Holders(t)) \in Nat
         /\ Cardinality(Holders(t)) <= Cardinality(Admin)
         /\ Cardinality(Admin) \in Nat
  <1>1. Holders(t) \subseteq Admin
    BY DEF Holders
  <1> QED
    BY <1>1, FS_Subset, FS_CardinalityType

\* Nobody gets a link to t.
LEMMA LinksKept ==
  ASSUME TaskTypes, NEW t \in Task, Holders(t)' \subseteq Holders(t),
         approvals[t] + Cardinality(Holders(t)) <= Cardinality(Admin),
         approvals'[t] = approvals[t]
  PROVE  approvals'[t] + Cardinality(Holders(t)') <= Cardinality(Admin)
  <1>1. PICK old : old = Holders(t)
    OBVIOUS
  <1>2. PICK new : new = Holders(t)'
    OBVIOUS
  <1>3. new \subseteq old /\ IsFiniteSet(old)
    BY <1>1, <1>2, HoldersAreFinite
  <1>4. /\ Cardinality(new) <= Cardinality(old) /\ Cardinality(new) \in Nat
        /\ Cardinality(old) \in Nat /\ Cardinality(Admin) \in Nat
    BY <1>3, FS_Subset, FS_CardinalityType
  <1>5. approvals[t] \in Nat /\ approvals[t] + Cardinality(old) <= Cardinality(Admin)
    BY <1>1 DEF TaskTypes
  <1>6. approvals[t] + Cardinality(new) <= Cardinality(Admin)
    BY <1>4, <1>5
  <1> QED
    BY <1>2, <1>6

\* A window goes from one view to another, and neither decides nor pays.
LEMMA WindowMoves ==
  ASSUME TaskTypes, TaskInv, NEW a \in Admin, NEW w, Shows(a, w),
         UNCHANGED << req, taskUser, strategies, ownerPaid, approvals, cut >>,
         Knows(w),
         window[a].at # "strategy",
         \A t \in Task : taskUser[t].valutation \notin {"none", "PENDING"} /\ Holds(w, t)
                         => Holds(window[a], t),
         \A t \in Task : Owes(w, t) <=> Owes(window[a], t),
         \A t \in Task : reports'[t] # {} => reports[t] # {} \/ approvals[t] > 0
  PROVE  TaskInv'
  <1>1. window'[a] = w /\ \A b \in Admin \ {a} : window'[b] = window[b]
    BY DEF Shows, TaskTypes
  <1>2. StoredOnce'
    BY DEF TaskInv, StoredOnce
  <1>3. WindowsKnowTasks'
    BY <1>1 DEF TaskInv, WindowsKnowTasks, Knows
  <1>4. LinksBounded'
    <2>1. \A t \in Task : taskUser[t].valutation \notin {"none", "PENDING"}
                           => Holders(t)' \subseteq Holders(t)
      BY <1>1 DEF Holders, Holds
    <2> QED
      BY <2>1, LinksKept DEF TaskInv, LinksBounded
  <1>5. StrategyFollows'
    BY <1>1 DEF TaskInv, StrategyFollows, HasStrategy
  <1>6. OwnerPaidPerApproval'
    <2>1. \A t \in Task : Owing(t)' = Owing(t)
      BY <1>1 DEF Owing, Owes
    <2> QED
      BY <2>1 DEF TaskInv, OwnerPaidPerApproval
  <1> QED
    BY <1>2, <1>3, <1>4, <1>5, <1>6 DEF TaskInv

\* What a step leaves alone.
Untouched == UNCHANGED << req, taskUser, strategies, ownerPaid, approvals, cut >>

LEMMA ViewStepTasks ==
  ASSUME TaskTypes, TaskInv, NEW a \in Admin,
         \/ ShowTasks(a)
         \/ \E t \in Task : OpenValutation(a, t)
         \/ \E t \in Task : OpenAddUsers(a, t)
         \/ Approve(a)
         \/ \E us \in SUBSET User : SelectUsers(a, us)
         \/ Cancel(a)
         \/ Reselect(a)
         \/ AssignNewUsers(a)
         \/ AssignFails(a)
  PROVE  TaskInv'
  <1> DEFINE w == window[a]
  <1>0. w \in Window /\ Knows(w)
    BY DEF TaskTypes, TaskInv, WindowsKnowTasks
  <1>1. ASSUME OnlyWindow PROVE Untouched /\ reports' = reports
    BY <1>1 DEF OnlyWindow, Untouched, friendVars
  <1>2. CASE ShowTasks(a)
    <2>1. PICK f : f = [t \in Task |-> taskUser[t].valutation]
      OBVIOUS
    <2>2. PICK x : x = [at |-> "page", links |-> f]
      OBVIOUS
    <2>3. x.at = "page" /\ \A t \in Task : x.links[t] = taskUser[t].valutation
      BY <2>1, <2>2
    <2>4. Shows(a, x) /\ w.at \in {"blank", "page"} /\ Untouched /\ reports' = reports
      BY <1>1, <1>2, <2>1, <2>2 DEF ShowTasks
    <2>5. Knows(x)
      BY <2>3, Valutations DEF Knows, TaskInv, StrategyFollows
    <2>6. \A t \in Task : ~ Owes(x, t) /\ ~ Owes(w, t)
      BY <2>3, <2>4 DEF Owes
    <2>7. \A t \in Task : Holds(x, t) => taskUser[t].valutation = "PENDING"
      BY <2>3 DEF Holds
    <2> QED
      BY <2>4, <2>5, <2>6, <2>7, WindowMoves DEF Untouched
  <1>3. ASSUME NEW t \in Task, OpenValutation(a, t) PROVE TaskInv'
    <2>1. PICK x : x = [at |-> "valutate", task |-> t]
      OBVIOUS
    <2>2. x.at = "valutate" /\ x.task = t
      BY <2>1
    <2>3. /\ Shows(a, x) /\ w.at = "page" /\ w.links[t] = "PENDING"
          /\ Untouched /\ reports' = reports
      BY <1>3, <2>1 DEF OpenValutation, Follows, Untouched
    <2>4. Knows(x)
      BY <1>0, <2>2, <2>3 DEF Knows
    <2>5. \A s \in Task : (Holds(x, s) => Holds(w, s)) /\ ~ Owes(x, s) /\ ~ Owes(w, s)
      BY <2>2, <2>3 DEF Holds, Owes
    <2> QED
      BY <2>3, <2>4, <2>5, WindowMoves DEF Untouched
  <1>4. ASSUME NEW t \in Task, OpenAddUsers(a, t) PROVE TaskInv'
    <2>1. PICK x : x = [at |-> "selectMore", task |-> t]
      OBVIOUS
    <2>2. x.at = "selectMore" /\ x.task = t
      BY <2>1
    <2>3. /\ Shows(a, x) /\ w.at = "page" /\ w.links[t] = "APPROVED"
          /\ Untouched /\ reports' = reports
      BY <1>4, <2>1 DEF OpenAddUsers, Follows, Untouched
    <2>4. Knows(x)
      BY <1>0, <2>2, <2>3 DEF Knows
    <2>5. \A s \in Task : ~ Holds(x, s) /\ ~ Owes(x, s) /\ ~ Owes(w, s)
      BY <2>2, <2>3 DEF Holds, Owes
    <2> QED
      BY <2>3, <2>4, <2>5, WindowMoves DEF Untouched
  <1>5. ASSUME NEW t, t = w.task, w.at \in {"valutate", "confirm"},
                Shows(a, [at |-> "select", task |-> t]), OnlyWindow
        PROVE  TaskInv'
    <2>1. PICK x : x = [at |-> "select", task |-> t]
      OBVIOUS
    <2>2. x.at = "select" /\ x.task = t
      BY <2>1
    <2>3. Knows(x)
      BY <1>0, <1>5, <2>2 DEF Knows
    <2>4. \A s \in Task : (Holds(x, s) => Holds(w, s)) /\ ~ Owes(x, s) /\ ~ Owes(w, s)
      BY <1>5, <2>2 DEF Holds, Owes
    <2>5. Shows(a, x) /\ w.at # "strategy" /\ Untouched /\ reports' = reports
      BY <1>1, <1>5, <2>1
    <2> QED
      BY <2>3, <2>4, <2>5, WindowMoves DEF Untouched
  <1>6. CASE Approve(a)
    BY <1>5, <1>6 DEF Approve
  <1>7. CASE Reselect(a)
    BY <1>5, <1>7 DEF Reselect
  <1>8. ASSUME NEW us \in SUBSET User, SelectUsers(a, us) PROVE TaskInv'
    <2>1. PICK at : at = IF w.at = "select" THEN "confirm" ELSE "summary"
      OBVIOUS
    <2>2. PICK x : x = [at |-> at, task |-> w.task, users |-> us]
      OBVIOUS
    <2>3. x.at = at /\ x.task = w.task
      BY <2>2
    <2>4. /\ Shows(a, x) /\ w.at \in {"select", "selectMore"}
          /\ Untouched /\ reports' = reports
      BY <1>1, <1>8, <2>1, <2>2 DEF SelectUsers
    <2>5. Knows(x)
      BY <1>0, <2>1, <2>3, <2>4 DEF Knows
    <2>6. \A s \in Task : (Holds(x, s) => Holds(w, s)) /\ ~ Owes(x, s) /\ ~ Owes(w, s)
      BY <2>1, <2>3, <2>4 DEF Holds, Owes
    <2> QED
      BY <2>4, <2>5, <2>6, WindowMoves DEF Untouched
  <1>9. Blank.at = "blank" /\ Knows(Blank) /\ \A s \in Task : ~ Holds(Blank, s) /\ ~ Owes(Blank, s)
    BY DEF Blank, Knows, Holds, Owes
  <1>10. CASE Cancel(a)
    <2>1. /\ Shows(a, Blank) /\ Untouched /\ reports' = reports
          /\ w.at \in {"valutate", "select", "selectMore", "confirm", "summary"}
      BY <1>1, <1>10 DEF Cancel
    <2>2. \A s \in Task : ~ Owes(w, s)
      BY <2>1 DEF Owes
    <2> QED
      BY <1>9, <2>1, <2>2, WindowMoves DEF Untouched
  <1>11. ASSUME w.at = "assign", Shows(a, [w EXCEPT !.at = "pay"]), Untouched,
                 \A t \in Task : reports'[t] # {} => reports[t] # {} \/ approvals[t] > 0
         PROVE  TaskInv'
    <2>1. PICK x : x = [w EXCEPT !.at = "pay"]
      OBVIOUS
    <2>2. x.at = "pay" /\ x.task = w.task
      BY <1>0, <1>11, <2>1, WindowShapes
    <2>3. Knows(x)
      BY <1>0, <1>11, <2>2 DEF Knows
    <2>4. \A s \in Task : ~ Holds(x, s) /\ (Owes(x, s) <=> Owes(w, s))
      BY <1>11, <2>2 DEF Holds, Owes
    <2> QED
      BY <1>11, <2>1, <2>3, <2>4, WindowMoves DEF Untouched
  <1>12. CASE AssignNewUsers(a)
    <2>1. Untouched
      BY <1>12 DEF AssignNewUsers, Untouched, friendVars
    <2>2. approvals[w.task] > 0 /\ w.task \in Task
      BY <1>0, <1>12, WindowShapes DEF AssignNewUsers, Knows
    <2>3. \A t \in Task : reports'[t] # {} => reports[t] # {} \/ approvals[t] > 0
      BY <1>12, <2>2 DEF AssignNewUsers, TaskTypes
    <2>4. CASE w.at = "assign"
      BY <1>11, <1>12, <2>1, <2>3, <2>4 DEF AssignNewUsers
    <2>5. CASE w.at = "summary"
      <3>1. Shows(a, Blank)
        BY <1>12, <2>5 DEF AssignNewUsers
      <3>2. \A s \in Task : ~ Owes(w, s)
        BY <2>5 DEF Owes
      <3> QED
        BY <1>9, <2>1, <2>3, <2>5, <3>1, <3>2, WindowMoves DEF Untouched
    <2> QED
      BY <1>12, <2>4, <2>5 DEF AssignNewUsers
  <1>13. CASE AssignFails(a)
    BY <1>1, <1>11, <1>13 DEF AssignFails
  <1> QED
    BY <1>2, <1>3, <1>4, <1>6, <1>7, <1>8, <1>10, <1>12, <1>13

\* A window that owed nothing for t does so now, or the other way round.
LEMMA OwingChanges ==
  ASSUME TaskTypes, NEW a \in Admin, NEW t \in Task, NEW w, Shows(a, w)
  PROVE  /\ Owes(w, t) /\ ~ Owes(window[a], t)
              => Cardinality(Owing(t)') = Cardinality(Owing(t)) + 1
         /\ ~ Owes(w, t) /\ Owes(window[a], t)
              => Cardinality(Owing(t)') = Cardinality(Owing(t)) - 1
         /\ (Owes(w, t) <=> Owes(window[a], t)) => Owing(t)' = Owing(t)
  <1>1. window'[a] = w /\ \A b \in Admin \ {a} : window'[b] = window[b]
    BY DEF Shows, TaskTypes
  <1>2. Owing(t)' = { b \in Admin : IF b = a THEN Owes(w, t) ELSE b \in Owing(t) }
    BY <1>1 DEF Owing, Owes
  <1>3. IsFiniteSet(Owing(t)) /\ a \in Owing(t) <=> Owes(window[a], t)
    BY OwingIsFinite DEF Owing, Owes
  <1>4. IsFiniteSet(Owing(t)) /\ Owing(t) \subseteq Admin
    BY OwingIsFinite
  <1>5. ASSUME Owes(w, t), ~ Owes(window[a], t)
        PROVE  Cardinality(Owing(t)') = Cardinality(Owing(t)) + 1
    <2>1. Owing(t)' = Owing(t) \cup {a} /\ a \notin Owing(t)
      BY <1>2, <1>3, <1>4, <1>5
    <2> QED
      BY <1>4, <2>1, FS_AddElement
  <1>6. ASSUME ~ Owes(w, t), Owes(window[a], t)
        PROVE  Cardinality(Owing(t)') = Cardinality(Owing(t)) - 1
    <2>1. Owing(t)' = Owing(t) \ {a} /\ a \in Owing(t)
      BY <1>2, <1>3, <1>4, <1>6
    <2> QED
      BY <1>4, <2>1, FS_RemoveElement
  <1>7. ASSUME Owes(w, t) <=> Owes(window[a], t) PROVE Owing(t)' = Owing(t)
    BY <1>2, <1>3, <1>4, <1>7
  <1> QED
    BY <1>5, <1>6, <1>7

LEMMA RefuseTasks ==
  ASSUME TaskTypes, TaskInv, NEW a \in Admin, Refuse(a)
  PROVE  TaskInv'
  <1> DEFINE w == window[a]
  <1>0. w \in Window /\ Knows(w) /\ w.at = "valutate"
    BY DEF TaskTypes, TaskInv, WindowsKnowTasks, Refuse
  <1>1. PICK t \in Task : t = w.task
    BY <1>0, WindowShapes
  <1>2. taskUser[t] \in TaskUser
    BY <1>0, <1>1 DEF Knows, TaskTypes
  <1>3. /\ taskUser'[t].valutation = "REFUSED" /\ taskUser'[t] # NoTask
        /\ \A s \in Task \ {t} : taskUser'[s] = taskUser[s]
    BY <1>1, <1>2 DEF Refuse, TaskTypes, TaskUser, NoTask
  <1>4. /\ window'[a] = Blank /\ \A b \in Admin \ {a} : window'[b] = window[b]
        /\ Shows(a, Blank) /\ Blank.at = "blank"
    BY DEF Refuse, Shows, TaskTypes, Blank
  <1>5. UNCHANGED << req, strategies, reports, ownerPaid, approvals, cut >>
    BY DEF Refuse, friendVars
  <1>6. \A s \in Task : taskUser[s] # NoTask => taskUser'[s] # NoTask
    BY <1>3
  <1>7. StoredOnce'
    <2>1. \A i \in Request : req[i] \in Proposing => req[i].task \in Task /\ req[i].task # t
      BY <1>0, <1>1 DEF TaskInv, StoredOnce, Knows, Proposing
    <2> QED
      BY <1>3, <1>5, <2>1 DEF TaskInv, StoredOnce
  <1>8. WindowsKnowTasks'
    <2>1. Knows(Blank)'
      BY <1>4 DEF Knows
    <2>2. ASSUME NEW b \in Admin \ {a} PROVE Knows(window[b])'
      <3>1. Knows(window[b]) /\ window[b] \in Window
        BY DEF TaskInv, WindowsKnowTasks, TaskTypes
      <3>2. window[b].at \in {"valutate", "select", "confirm"} => window[b].task \in Task
        BY <3>1, WindowShapes
      <3> QED
        BY <1>4, <1>5, <1>6, <3>1, <3>2 DEF Knows
    <2> QED
      BY <1>4, <2>1, <2>2 DEF WindowsKnowTasks
  <1>9. LinksBounded'
    <2>1. \A s : Holders(s)' \subseteq Holders(s)
      BY <1>4 DEF Holders, Holds
    <2>2. approvals[t] + Cardinality(Holders(t)) <= Cardinality(Admin)
      <3>1. taskUser[t].valutation # "none"
        BY <1>2 DEF TaskUser, TaskValutation
      <3>2. CASE taskUser[t].valutation = "PENDING"
        <4>1. approvals[t] = 0
          BY <3>2 DEF TaskInv, LinksBounded
        <4> QED
          BY <4>1, HoldersAreFinite
      <3> QED
        BY <3>1, <3>2 DEF TaskInv, LinksBounded
    <2>3. approvals'[t] + Cardinality(Holders(t)') <= Cardinality(Admin)
      BY <1>5, <2>1, <2>2, LinksKept
    <2>4. ASSUME NEW s \in Task \ {t}, taskUser[s].valutation \notin {"none", "PENDING"}
          PROVE  approvals'[s] + Cardinality(Holders(s)') <= Cardinality(Admin)
      BY <1>5, <2>1, <2>4, LinksKept DEF TaskInv, LinksBounded
    <2> QED
      BY <1>3, <1>5, <2>3, <2>4 DEF TaskInv, LinksBounded
  <1>10. StrategyFollows'
    <2>1. \A s \in Task : HasStrategy(s) => HasStrategy(s)'
      BY <1>0, <1>4, <1>5 DEF HasStrategy
    <2> QED
      BY <1>3, <1>5, <2>1 DEF TaskInv, StrategyFollows
  <1>11. OwnerPaidPerApproval'
    <2>1. \A s \in Task : Owing(s)' = Owing(s)
      BY <1>0, <1>4 DEF Owing
    <2> QED
      BY <1>5, <2>1 DEF TaskInv, OwnerPaidPerApproval
  <1> QED
    BY <1>7, <1>8, <1>9, <1>10, <1>11 DEF TaskInv

LEMMA ApproveTasks ==
  ASSUME TaskTypes, TaskInv, NEW a \in Admin, ApproveTask(a)
  PROVE  TaskInv'
  <1> DEFINE w == window[a]
  <1>0. w \in Window /\ Knows(w) /\ w.at = "confirm"
    BY DEF TaskTypes, TaskInv, WindowsKnowTasks, ApproveTask
  <1>1. PICK t \in Task : t = w.task
    BY <1>0, WindowShapes
  <1>2. taskUser[t] \in TaskUser
    BY <1>0, <1>1 DEF Knows, TaskTypes
  <1>3. /\ taskUser'[t].valutation = "APPROVED" /\ taskUser'[t] # NoTask
        /\ \A s \in Task \ {t} : taskUser'[s] = taskUser[s]
    BY <1>1, <1>2 DEF ApproveTask, TaskTypes, TaskUser, NoTask
  <1>4. PICK x : x = [w EXCEPT !.at = "strategy"]
    OBVIOUS
  <1>5. x.at = "strategy" /\ x.task = t
    BY <1>0, <1>1, <1>4, WindowShapes
  <1>6. window'[a] = x /\ Shows(a, x) /\ \A b \in Admin \ {a} : window'[b] = window[b]
    BY <1>4 DEF ApproveTask, Shows, TaskTypes
  <1>7. UNCHANGED << req, strategies, reports, ownerPaid, cut >>
    BY DEF ApproveTask, friendVars
  <1>8. /\ approvals'[t] = approvals[t] + 1 /\ approvals[t] \in Nat
        /\ \A s \in Task \ {t} : approvals'[s] = approvals[s]
    BY <1>1 DEF ApproveTask, TaskTypes
  <1>9. \A s \in Task : (taskUser[s] # NoTask => taskUser'[s] # NoTask)
                        /\ (approvals[s] > 0 => approvals'[s] > 0)
    BY <1>3, <1>8
  <1>10. StoredOnce'
    <2>1. \A i \in Request : req[i] \in Proposing => req[i].task \in Task /\ req[i].task # t
      BY <1>0, <1>1 DEF TaskInv, StoredOnce, Knows, Proposing
    <2> QED
      BY <1>3, <1>7, <2>1 DEF TaskInv, StoredOnce
  <1>11. WindowsKnowTasks'
    <2>1. Knows(x)'
      BY <1>5, <1>8 DEF Knows
    <2>2. ASSUME NEW b \in Admin \ {a} PROVE Knows(window[b])'
      <3>1. Knows(window[b]) /\ window[b] \in Window
        BY DEF TaskInv, WindowsKnowTasks, TaskTypes
      <3>2. window[b].at \notin {"blank", "page"} => window[b].task \in Task
        BY <3>1, WindowShapes
      <3> QED
        BY <1>6, <1>9, <3>1, <3>2 DEF Knows
    <2> QED
      BY <1>6, <2>1, <2>2 DEF WindowsKnowTasks
  <1>12. LinksBounded'
    <2>1. \A s : Holders(s)' \subseteq Holders(s)
      BY <1>5, <1>6 DEF Holders, Holds
    <2>2. approvals'[t] + Cardinality(Holders(t)') <= Cardinality(Admin)
      <3>1. PICK old : old = Holders(t)
        OBVIOUS
      <3>2. PICK new : new = Holders(t)'
        OBVIOUS
      <3>3. new \subseteq old \ {a} /\ a \in old /\ IsFiniteSet(old)
        BY <1>0, <1>1, <1>5, <1>6, <2>1, <3>1, <3>2, HoldersAreFinite DEF Holders, Holds
      <3>4. Cardinality(old \ {a}) = Cardinality(old) - 1 /\ IsFiniteSet(old \ {a})
        BY <3>3, FS_RemoveElement
      <3>5. Cardinality(new) <= Cardinality(old \ {a}) /\ Cardinality(new) \in Nat
        BY <3>3, <3>4, FS_Subset, FS_CardinalityType
      <3>6. approvals[t] + Cardinality(old) <= Cardinality(Admin)
        <4>1. taskUser[t].valutation # "none"
          BY <1>2 DEF TaskUser, TaskValutation
        <4>2. CASE taskUser[t].valutation = "PENDING"
          <5>1. approvals[t] = 0
            BY <4>2 DEF TaskInv, LinksBounded
          <5> QED
            BY <3>1, <5>1, HoldersAreFinite
        <4> QED
          BY <3>1, <4>1, <4>2 DEF TaskInv, LinksBounded
      <3>7. Cardinality(old) \in Nat /\ Cardinality(Admin) \in Nat
        BY <3>1, HoldersAreFinite
      <3>8. approvals[t] + 1 + Cardinality(new) <= Cardinality(Admin)
        BY <1>8, <3>4, <3>5, <3>6, <3>7
      <3> QED
        BY <1>8, <3>2, <3>8
    <2>3. ASSUME NEW s \in Task \ {t}, taskUser[s].valutation \notin {"none", "PENDING"}
          PROVE  approvals'[s] + Cardinality(Holders(s)') <= Cardinality(Admin)
      BY <1>8, <2>1, <2>3, LinksKept DEF TaskInv, LinksBounded
    <2> QED
      BY <1>3, <1>8, <2>2, <2>3 DEF TaskInv, LinksBounded
  <1>13. StrategyFollows'
    <2>1. HasStrategy(t)'
      BY <1>5, <1>6 DEF HasStrategy
    <2>2. \A s \in Task : HasStrategy(s) => HasStrategy(s)'
      BY <1>0, <1>6, <1>7 DEF HasStrategy
    <2> QED
      BY <1>3, <1>7, <1>8, <2>1, <2>2 DEF TaskInv, StrategyFollows
  <1>14. OwnerPaidPerApproval'
    <2>1. Owes(x, t) /\ ~ Owes(w, t) /\ \A s \in Task \ {t} : ~ Owes(x, s) /\ ~ Owes(w, s)
      BY <1>0, <1>5 DEF Owes
    <2>2. Cardinality(Owing(t)') = Cardinality(Owing(t)) + 1
      BY <1>6, <2>1, OwingChanges
    <2>3. \A s \in Task \ {t} : Owing(s)' = Owing(s)
      BY <1>6, <2>1, OwingChanges
    <2>4. ownerPaid[t] + cut[t] + Cardinality(Owing(t)) = approvals[t]
      BY DEF TaskInv, OwnerPaidPerApproval
    <2>5. PICK n : n = Cardinality(Owing(t))
      OBVIOUS
    <2>6. n \in Nat /\ ownerPaid[t] \in Nat /\ cut[t] \in Nat
      BY <2>5, OwingIsFinite DEF TaskTypes
    <2>7. ownerPaid[t] + cut[t] + (n + 1) = approvals[t] + 1
      BY <1>8, <2>4, <2>5, <2>6
    <2>8. ownerPaid'[t] + cut'[t] + Cardinality(Owing(t)') = approvals'[t]
      BY <1>7, <1>8, <2>2, <2>5, <2>7
    <2> QED
      BY <1>7, <1>8, <2>3, <2>8 DEF TaskInv, OwnerPaidPerApproval
  <1> QED
    BY <1>10, <1>11, <1>12, <1>13, <1>14 DEF TaskInv

LEMMA CreateStrategyTasks ==
  ASSUME TaskTypes, TaskInv, NEW a \in Admin, CreateStrategy(a)
  PROVE  TaskInv'
  <1> DEFINE w == window[a]
  <1>0. w \in Window /\ Knows(w) /\ w.at = "strategy"
    BY DEF TaskTypes, TaskInv, WindowsKnowTasks, CreateStrategy
  <1>1. PICK t \in Task : t = w.task
    BY <1>0, WindowShapes
  <1>2. PICK x : x = [w EXCEPT !.at = "assign"]
    OBVIOUS
  <1>3. x.at = "assign" /\ x.task = t
    BY <1>0, <1>1, <1>2, WindowShapes
  <1>4. window'[a] = x /\ Shows(a, x) /\ \A b \in Admin \ {a} : window'[b] = window[b]
    BY <1>2 DEF CreateStrategy, Shows, TaskTypes
  <1>5. UNCHANGED << req, taskUser, reports, ownerPaid, approvals, cut >>
    BY DEF CreateStrategy, friendVars
  <1>6. strategies'[t] > 0 /\ \A s \in Task \ {t} : strategies'[s] = strategies[s]
    BY <1>1 DEF CreateStrategy, TaskTypes
  <1>7. StoredOnce'
    BY <1>5 DEF TaskInv, StoredOnce
  <1>8. WindowsKnowTasks'
    BY <1>0, <1>1, <1>3, <1>4, <1>5 DEF TaskInv, WindowsKnowTasks, Knows
  <1>9. LinksBounded'
    <2>1. \A s \in Task : Holders(s)' \subseteq Holders(s)
      BY <1>3, <1>4 DEF Holders, Holds
    <2> QED
      BY <1>5, <2>1, LinksKept DEF TaskInv, LinksBounded
  <1>10. StrategyFollows'
    <2>1. \A s \in Task : HasStrategy(s) => HasStrategy(s)'
      BY <1>1, <1>4, <1>5, <1>6 DEF HasStrategy
    <2> QED
      BY <1>5, <2>1 DEF TaskInv, StrategyFollows
  <1>11. OwnerPaidPerApproval'
    <2>1. \A s \in Task : Owing(s)' = Owing(s)
      BY <1>0, <1>1, <1>3, <1>4, OwingChanges DEF Owes
    <2> QED
      BY <1>5, <2>1 DEF TaskInv, OwnerPaidPerApproval
  <1> QED
    BY <1>7, <1>8, <1>9, <1>10, <1>11 DEF TaskInv

LEMMA PayTasks ==
  ASSUME TaskTypes, TaskInv, NEW a \in Admin, AssignApprovedPoints(a)
  PROVE  TaskInv'
  <1> DEFINE w == window[a]
  <1>0. w \in Window /\ w.at = "pay"
    BY DEF TaskTypes, AssignApprovedPoints
  <1>1. PICK t \in Task : t = w.task
    BY <1>0, WindowShapes
  <1>2. /\ window'[a] = Blank /\ \A b \in Admin \ {a} : window'[b] = window[b]
        /\ Shows(a, Blank) /\ Blank.at = "blank"
    BY DEF AssignApprovedPoints, Shows, TaskTypes, Blank
  <1>3. UNCHANGED << req, taskUser, strategies, reports, approvals, cut >>
    BY DEF AssignApprovedPoints, friendVars
  <1>4. ownerPaid'[t] = ownerPaid[t] + 1 /\ \A s \in Task \ {t} : ownerPaid'[s] = ownerPaid[s]
    BY <1>1 DEF AssignApprovedPoints, TaskTypes
  <1>5. StoredOnce'
    BY <1>3 DEF TaskInv, StoredOnce
  <1>6. WindowsKnowTasks'
    BY <1>2, <1>3 DEF TaskInv, WindowsKnowTasks, Knows
  <1>7. LinksBounded'
    <2>1. \A s \in Task : Holders(s)' \subseteq Holders(s)
      BY <1>2 DEF Holders, Holds
    <2> QED
      BY <1>3, <2>1, LinksKept DEF TaskInv, LinksBounded
  <1>8. StrategyFollows'
    <2>1. \A s \in Task : HasStrategy(s) => HasStrategy(s)'
      BY <1>0, <1>2, <1>3 DEF HasStrategy
    <2> QED
      BY <1>3, <2>1 DEF TaskInv, StrategyFollows
  <1>9. OwnerPaidPerApproval'
    <2>1. Owes(w, t) /\ \A s \in Task : ~ Owes(Blank, s) /\ (s # t => ~ Owes(w, s))
      BY <1>0, <1>1, <1>2 DEF Owes
    <2>2. Cardinality(Owing(t)') = Cardinality(Owing(t)) - 1
      BY <1>2, <2>1, OwingChanges
    <2>3. \A s \in Task \ {t} : Owing(s)' = Owing(s)
      BY <1>2, <2>1, OwingChanges
    <2>4. ownerPaid[t] + cut[t] + Cardinality(Owing(t)) = approvals[t]
      BY DEF TaskInv, OwnerPaidPerApproval
    <2>5. PICK n : n = Cardinality(Owing(t))
      OBVIOUS
    <2>6. n \in Nat /\ ownerPaid[t] \in Nat /\ cut[t] \in Nat
      BY <2>5, OwingIsFinite DEF TaskTypes
    <2>7. (ownerPaid[t] + 1) + cut[t] + (n - 1) = approvals[t]
      BY <2>4, <2>5, <2>6
    <2>8. ownerPaid'[t] + cut'[t] + Cardinality(Owing(t)') = approvals'[t]
      BY <1>3, <1>4, <2>2, <2>5, <2>7
    <2> QED
      BY <1>3, <1>4, <2>3, <2>8 DEF TaskInv, OwnerPaidPerApproval
  <1> QED
    BY <1>5, <1>6, <1>7, <1>8, <1>9 DEF TaskInv

\* A flow that dies while it assigns: a valuation is counted as cut off.
LEMMA DyingTasks ==
  ASSUME TaskTypes, TaskInv, NEW a \in Admin, AssignDies(a)
  PROVE  TaskInv'
  <1> DEFINE w == window[a]
  <1>0. w \in Window /\ w.at \in {"assign", "summary"}
    BY DEF TaskTypes, AssignDies
  <1>1. PICK t \in Task : t = w.task
    BY <1>0, WindowShapes
  <1>2. /\ window'[a] = Blank /\ \A b \in Admin \ {a} : window'[b] = window[b]
        /\ Shows(a, Blank) /\ Blank.at = "blank"
    BY DEF AssignDies, Shows, TaskTypes, Blank
  <1>3. UNCHANGED << req, taskUser, strategies, reports, ownerPaid, approvals >>
    BY DEF AssignDies, friendVars
  <1>4. /\ cut'[t] = IF w.at = "assign" THEN cut[t] + 1 ELSE cut[t]
        /\ \A s \in Task \ {t} : cut'[s] = cut[s]
        /\ \A s \in Task : cut[s] \in Nat
    BY <1>1 DEF AssignDies, TaskTypes
  <1>5. StoredOnce'
    BY <1>3 DEF TaskInv, StoredOnce
  <1>6. WindowsKnowTasks'
    BY <1>2, <1>3 DEF TaskInv, WindowsKnowTasks, Knows
  <1>7. LinksBounded'
    <2>1. \A s \in Task : Holders(s)' \subseteq Holders(s)
      BY <1>2 DEF Holders, Holds
    <2> QED
      BY <1>3, <2>1, LinksKept DEF TaskInv, LinksBounded
  <1>8. StrategyFollows'
    <2>1. \A s \in Task : cut[s] > 0 => cut'[s] > 0
      BY <1>4
    <2>2. \A s \in Task : HasStrategy(s) => HasStrategy(s)'
      BY <1>0, <1>2, <1>3, <2>1 DEF HasStrategy
    <2> QED
      BY <1>3, <2>2 DEF TaskInv, StrategyFollows
  <1>9. OwnerPaidPerApproval'
    <2>1. \A s \in Task : ~ Owes(Blank, s) /\ (s # t => ~ Owes(w, s))
      BY <1>0, <1>1, <1>2 DEF Owes
    <2>2. \A s \in Task \ {t} : Owing(s)' = Owing(s)
      BY <1>2, <2>1, OwingChanges
    <2>3. PICK n : n = Cardinality(Owing(t))
      OBVIOUS
    <2>4. n \in Nat /\ ownerPaid[t] \in Nat /\ cut[t] \in Nat
      BY <2>3, OwingIsFinite DEF TaskTypes
    <2>5. ownerPaid[t] + cut[t] + n = approvals[t]
      BY <2>3 DEF TaskInv, OwnerPaidPerApproval
    <2>6. ownerPaid'[t] + cut'[t] + Cardinality(Owing(t)') = approvals'[t]
      <3>1. CASE w.at = "assign"
        <4>1. Owes(w, t)
          BY <1>1, <3>1 DEF Owes
        <4>2. Cardinality(Owing(t)') = n - 1
          BY <1>2, <2>1, <2>3, <4>1, OwingChanges
        <4>3. ownerPaid[t] + (cut[t] + 1) + (n - 1) = approvals[t]
          BY <2>4, <2>5
        <4> QED
          BY <1>3, <1>4, <3>1, <4>2, <4>3
      <3>2. CASE w.at = "summary"
        <4>1. ~ Owes(w, t)
          BY <3>2 DEF Owes
        <4>2. Owing(t)' = Owing(t)
          BY <1>2, <2>1, <4>1, OwingChanges
        <4> QED
          BY <1>3, <1>4, <2>3, <2>5, <3>2, <4>2
      <3> QED
        BY <1>0, <3>1, <3>2
    <2> QED
      BY <1>3, <1>4, <2>2, <2>6 DEF TaskInv, OwnerPaidPerApproval
  <1> QED
    BY <1>5, <1>6, <1>7, <1>8, <1>9 DEF TaskInv

LEMMA CrashTasks ==
  ASSUME TaskTypes, TaskInv, Crash
  PROVE  TaskInv'
  <1>1. \A a \in Admin : window'[a] = IF window[a].at = "page" THEN window[a] ELSE Blank
    BY DEF Crash
  <1>2. Blank.at = "blank"
    BY DEF Blank
  <1>3. UNCHANGED << taskUser, strategies, reports, ownerPaid, approvals >>
    BY DEF Crash
  <1>4. \A t \in Task : cut'[t] = cut[t] + Cardinality(Owing(t))
    BY DEF Crash
  <1>5. StoredOnce'
    <2>1. \A i \in Request : req'[i] \notin Proposing
      BY DEF Crash, Idle, Proposing
    <2> QED
      BY <2>1 DEF StoredOnce
  <1>6. WindowsKnowTasks'
    BY <1>1, <1>2, <1>3 DEF TaskInv, WindowsKnowTasks, Knows
  <1>7. LinksBounded'
    <2>1. \A t \in Task : Holders(t)' \subseteq Holders(t)
      BY <1>1, <1>2 DEF Holders, Holds
    <2> QED
      BY <1>3, <2>1, LinksKept DEF TaskInv, LinksBounded
  <1>8. \A t \in Task : Owing(t)' = {}
    BY <1>1, <1>2 DEF Owing
  <1>9. StrategyFollows'
    <2>1. ASSUME NEW t \in Task, HasStrategy(t) PROVE HasStrategy(t)'
      <3>1. cut[t] \in Nat /\ Cardinality(Owing(t)) \in Nat /\ IsFiniteSet(Owing(t))
        BY OwingIsFinite DEF TaskTypes
      <3>2. CASE strategies[t] > 0
        BY <1>3, <3>2 DEF HasStrategy
      <3>3. CASE cut[t] > 0
        <4>1. cut'[t] > 0
          BY <1>4, <3>1, <3>3
        <4> QED
          BY <4>1 DEF HasStrategy
      <3>4. CASE \E a \in Admin : window[a].at = "strategy" /\ window[a].task = t
        <4>1. Owing(t) # {}
          BY <3>4 DEF Owing
        <4>2. Cardinality(Owing(t)) # 0
          BY <3>1, <4>1, FS_EmptySet
        <4>3. cut'[t] > 0
          BY <1>4, <3>1, <4>2
        <4> QED
          BY <4>3 DEF HasStrategy
      <3> QED
        BY <2>1, <3>2, <3>3, <3>4 DEF HasStrategy
    <2> QED
      BY <1>3, <2>1 DEF TaskInv, StrategyFollows
  <1>10. OwnerPaidPerApproval'
    <2>1. Cardinality({}) = 0
      BY FS_EmptySet
    <2>2. ASSUME NEW t \in Task
          PROVE  ownerPaid'[t] + cut'[t] + Cardinality(Owing(t)') = approvals'[t]
      <3>1. PICK n : n = Cardinality(Owing(t))
        OBVIOUS
      <3>2. n \in Nat /\ ownerPaid[t] \in Nat /\ cut[t] \in Nat
        BY <3>1, OwingIsFinite DEF TaskTypes
      <3>3. ownerPaid[t] + cut[t] + n = approvals[t]
        BY <3>1 DEF TaskInv, OwnerPaidPerApproval
      <3>4. ownerPaid[t] + (cut[t] + n) + 0 = approvals[t]
        BY <3>2, <3>3
      <3> QED
        BY <1>3, <1>4, <1>8, <2>1, <3>1, <3>4
    <2> QED
      BY <2>2 DEF OwnerPaidPerApproval
  <1> QED
    BY <1>5, <1>6, <1>7, <1>9, <1>10 DEF TaskInv

\* A step that changes no task and no window, and lets nobody new propose.
LEMMA TasksKept ==
  ASSUME TaskInv, UNCHANGED << taskUser, strategies, reports, ownerPaid, window, approvals, cut >>,
         StoredOnce'
  PROVE  TaskInv'
  <1>1. WindowsKnowTasks'
    BY DEF TaskInv, WindowsKnowTasks, Knows
  <1>2. LinksBounded'
    BY DEF TaskInv, LinksBounded, Holders, Holds
  <1>3. StrategyFollows'
    BY DEF TaskInv, StrategyFollows, HasStrategy
  <1>4. OwnerPaidPerApproval'
    BY DEF TaskInv, OwnerPaidPerApproval, Owing
  <1> QED
    BY <1>1, <1>2, <1>3, <1>4 DEF TaskInv

LEMMA FriendStepTasks ==
  ASSUME FriendTypes, TaskInv, NEW i \in Request, FriendStep(i), UNCHANGED taskVars
  PROVE  TaskInv'
  <1>1. ASSUME NEW x, x \notin Proposing, Goes(i, x) PROVE StoredOnce'
    <2>1. \A j \in Request : req'[j] \in Proposing => j # i /\ req'[j] = req[j]
      BY <1>1 DEF Goes, FriendTypes
    <2>2. taskUser' = taskUser
      BY DEF taskVars
    <2> QED
      BY <2>1, <2>2 DEF TaskInv, StoredOnce
  <1>2. ASSUME NEW x, x.pc \notin {"checking", "checkingSenders", "storing"}
        PROVE  x \notin Proposing
    BY <1>2 DEF Proposing
  <1>3. \E x : x.pc \notin {"checking", "checkingSenders", "storing"} /\ Goes(i, x)
    <2>1. ASSUME NEW d, Finds(i, d)
          PROVE  \E x : x.pc \notin {"checking", "checkingSenders", "storing"} /\ Goes(i, x)
      <3>1. Idle.pc = "idle"
        BY DEF Idle
      <3>2. [pc |-> "updating", way |-> req[i].way, status |-> req[i].status,
             row |-> << d, 1 >>].pc = "updating"
        OBVIOUS
      <3> QED
        BY <2>1, <3>1, <3>2 DEF Finds
    <2>2. ASSUME NEW p \in {"other", "creating"}, req[i] \in Asking, Goes(i, [req[i] EXCEPT !.pc = p])
          PROVE  \E x : x.pc \notin {"checking", "checkingSenders", "storing"} /\ Goes(i, x)
      <3>1. [req[i] EXCEPT !.pc = p].pc = p
        BY <2>2 DEF Asking
      <3> QED
        BY <2>2, <3>1
    <2>3. CASE FindOwn(i)
      <3>1. req[i] \in Asking
        BY <2>3, Shapes DEF FindOwn, FriendTypes
      <3> QED
        BY <2>1, <2>2, <2>3, <3>1 DEF FindOwn
    <2>4. CASE FindOther(i)
      <3>1. req[i] \in Asking
        BY <2>4, Shapes DEF FindOther, FriendTypes
      <3> QED
        BY <2>1, <2>2, <2>4, <3>1 DEF FindOther
    <2>5. Idle.pc = "idle"
      BY DEF Idle
    <2>6. CASE SaveFriendship(i)
      BY <2>5, <2>6 DEF SaveFriendship, Commits
    <2>7. CASE CreateFriendship(i)
      BY <2>5, <2>7 DEF CreateFriendship, Commits
    <2>8. ASSUME NEW d \in Direction, NEW s \in FriendshipStatus, AddFriend(i, d, s)
          PROVE  \E x : x.pc \notin {"checking", "checkingSenders", "storing"} /\ Goes(i, x)
      <3>1. [pc |-> "own", way |-> d, status |-> s].pc = "own"
        OBVIOUS
      <3> QED
        BY <2>8, <3>1 DEF AddFriend, Starts
    <2>9. ASSUME NEW d \in Direction, GetFriendStatus(i, d)
          PROVE  \E x : x.pc \notin {"checking", "checkingSenders", "storing"} /\ Goes(i, x)
      <3>1. [pc |-> "looking", way |-> d].pc = "looking"
        OBVIOUS
      <3> QED
        BY <2>9, <3>1 DEF GetFriendStatus, Starts
    <2>10. ASSUME NEW v, Answers(i, v)
           PROVE  \E x : x.pc \notin {"checking", "checkingSenders", "storing"} /\ Goes(i, x)
      <3>1. [pc |-> "answering", way |-> req[i].way, view |-> v].pc = "answering"
        OBVIOUS
      <3> QED
        BY <2>10, <3>1 DEF Answers
    <2>11. CASE LookSent(i)
      <3>1. [pc |-> "lookingBack", way |-> req[i].way].pc = "lookingBack"
        OBVIOUS
      <3> QED
        BY <2>5, <2>10, <2>11, <3>1 DEF LookSent, Ends
    <2>12. CASE LookReceived(i)
      BY <2>5, <2>10, <2>12 DEF LookReceived, Ends
    <2>13. CASE AnswerStatus(i)
      BY <2>5, <2>13 DEF AnswerStatus, Ends
    <2> QED
      BY <2>3, <2>4, <2>6, <2>7, <2>8, <2>9, <2>11, <2>12, <2>13 DEF FriendStep
  <1>4. StoredOnce'
    BY <1>1, <1>2, <1>3
  <1>5. UNCHANGED << taskUser, strategies, reports, ownerPaid, window, approvals, cut >>
    BY DEF taskVars
  <1> QED
    BY <1>4, <1>5, TasksKept

LEMMA ProposalStepTasks ==
  ASSUME FriendTypes, TaskTypes, TaskInv, NEW i \in Request, ProposalStep(i)
  PROVE  TaskInv'
  <1> DEFINE c == req[i]
  <1>0. c \in Call
    BY DEF FriendTypes
  <1>1. ASSUME NEW x, Goes(i, x)
        PROVE  req'[i] = x /\ \A j \in Request \ {i} : req'[j] = req[j]
    BY <1>1 DEF Goes, FriendTypes
  <1>2. ASSUME NEW x, Goes(i, x), UNCHANGED taskVars, c \in Proposing, x.task = c.task
        PROVE  TaskInv'
    <2>1. UNCHANGED << taskUser, strategies, reports, ownerPaid, window, approvals, cut >>
      BY <1>2 DEF taskVars
    <2>2. StoredOnce'
      BY <1>1, <1>2, <2>1 DEF TaskInv, StoredOnce
    <2> QED
      BY <2>1, <2>2, TasksKept
  <1>3. Idle \notin Proposing
    BY DEF Idle, Proposing
  <1>4. ASSUME NEW u \in User, NEW t \in Task, NEW asked \in SUBSET User, CreateTask(i, u, t, asked)
        PROVE  TaskInv'
    <2>1. PICK x : Goes(i, x) /\ x.task = t
      <3>1. CASE asked = {}
        BY <1>4, <3>1 DEF CreateTask, Starts
      <3>2. CASE asked # {}
        BY <1>4, <3>2 DEF CreateTask, Starts
      <3> QED
        BY <3>1, <3>2
    <2>2. /\ taskUser[t] = NoTask
          /\ \A j \in Request : req[j] \in Proposing => req[j].task # t
          /\ UNCHANGED taskVars
      BY <1>4 DEF CreateTask
    <2>3. UNCHANGED << taskUser, strategies, reports, ownerPaid, window, approvals, cut >>
      BY <2>2 DEF taskVars
    <2>4. StoredOnce'
      BY <1>1, <2>1, <2>2, <2>3 DEF TaskInv, StoredOnce
    <2> QED
      BY <2>3, <2>4, TasksKept
  <1>5. CASE FindReceivers(i)
    <2>1. c \in Proposing
      BY <1>0, <1>5, Shapes DEF FindReceivers
    <2>2. PICK x : Goes(i, x) /\ x.task = c.task
      BY <1>5 DEF FindReceivers
    <2>3. UNCHANGED taskVars
      BY <1>5 DEF FindReceivers
    <2> QED
      BY <1>2, <2>1, <2>2, <2>3
  <1>6. CASE FindSenders(i)
    <2>1. c \in Proposing
      BY <1>0, <1>6, Shapes DEF FindSenders
    <2>2. UNCHANGED taskVars
      BY <1>6 DEF FindSenders
    <2>3. ASSUME NEW x, Goes(i, x), x.task = c.task PROVE TaskInv'
      BY <1>2, <2>1, <2>2, <2>3
    <2>4. CASE Ends(i)
      <3>1. UNCHANGED << taskUser, strategies, reports, ownerPaid, window, approvals, cut >>
        BY <2>2 DEF taskVars
      <3>2. Goes(i, Idle)
        BY <2>4 DEF Ends
      <3>3. StoredOnce'
        BY <1>1, <1>3, <3>1, <3>2 DEF TaskInv, StoredOnce
      <3> QED
        BY <3>1, <3>3, TasksKept
    <2>5. Ends(i) \/ \E x : Goes(i, x) /\ x.task = c.task
      BY <1>6 DEF FindSenders
    <2> QED
      BY <2>3, <2>4, <2>5
  <1>7. CASE StoreTask(i)
    <2>1. c \in Proposing
      BY <1>0, <1>7, Shapes DEF StoreTask
    <2>2. PICK t \in Task : t = c.task
      BY <2>1 DEF Proposing
    <2>3. /\ taskUser'[t].valutation = "PENDING" /\ taskUser'[t] # NoTask
          /\ \A s \in Task \ {t} : taskUser'[s] = taskUser[s]
      BY <1>7, <2>2 DEF StoreTask, TaskTypes, NoTask
    <2>4. UNCHANGED << strategies, reports, ownerPaid, window, approvals, cut >>
      BY <1>7 DEF StoreTask
    <2>5. taskUser[t] = NoTask /\ \A j \in Request : req[j] \in Proposing /\ req[j].task = t => j = i
      BY <2>1, <2>2 DEF TaskInv, StoredOnce
    <2>6. req'[i] = Idle /\ \A j \in Request \ {i} : req'[j] = req[j]
      BY <1>1, <1>7 DEF StoreTask, Ends
    <2>7. StoredOnce'
      <3>1. \A j \in Request : req[j] \in Proposing => req[j].task \in Task
        BY DEF Proposing
      <3> QED
        BY <1>3, <2>3, <2>5, <2>6, <3>1 DEF TaskInv, StoredOnce
    <2>8. WindowsKnowTasks'
      <3>1. ASSUME NEW a \in Admin PROVE Knows(window[a])'
        <4>1. Knows(window[a]) /\ window[a] \in Window
          BY DEF TaskInv, WindowsKnowTasks, TaskTypes
        <4>2. window[a].at \in {"valutate", "select", "confirm"} => window[a].task \in Task
          BY <4>1, WindowShapes
        <4>3. \A s \in Task : taskUser[s] # NoTask => taskUser'[s] # NoTask
          BY <2>3
        <4> QED
          BY <2>4, <4>1, <4>2, <4>3 DEF Knows
      <3> QED
        BY <3>1 DEF WindowsKnowTasks
    <2>9. taskUser[t].valutation = "none"
      BY <2>5 DEF NoTask
    <2>10. LinksBounded'
      <3>1. \A s \in Task : Holders(s)' = Holders(s)
        BY <2>4 DEF Holders, Holds
      <3> QED
        BY <2>3, <2>4, <2>9, <3>1 DEF TaskInv, LinksBounded
    <2>11. StrategyFollows'
      <3>1. \A s \in Task : HasStrategy(s)' <=> HasStrategy(s)
        BY <2>4 DEF HasStrategy
      <3> QED
        BY <2>3, <2>4, <3>1 DEF TaskInv, StrategyFollows
    <2>12. OwnerPaidPerApproval'
      BY <2>4 DEF TaskInv, OwnerPaidPerApproval, Owing
    <2> QED
      BY <2>7, <2>8, <2>10, <2>11, <2>12 DEF TaskInv
  <1> QED
    BY <1>4, <1>5, <1>6, <1>7 DEF ProposalStep

-----------------------------------------------------------------------------
(* The inductive invariant.                                                *)

IInv ==
  /\ UTypeOK
  /\ PairsBounded
  /\ PairsInTurn
  /\ Recalled
  /\ TaskInv

LEMMA InitInv == UInit => IInv
  <1> SUFFICES ASSUME UInit PROVE IInv
    OBVIOUS
  <1>1. UTypeOK
    BY InitType
  <1>2. /\ \A d \in Direction : friendship[d] = << >>
        /\ \A i \in Request : req[i].pc = "idle" /\ recent[i] = {}
        /\ \A a \in Admin : window[a].at = "blank"
        /\ \A t \in Task : /\ taskUser[t].valutation = "none" /\ approvals[t] = 0
                           /\ reports[t] = {} /\ cut[t] = 0 /\ ownerPaid[t] = 0
    BY DEF UInit, Init, Idle, Blank, NoTask
  <1>3. \A d \in Direction : RowsBetween(d) = 0
    <2>1. Len(<< >>) = 0
      OBVIOUS
    <2>2. \A d \in Direction : Len(friendship[d]) = 0 /\ Len(friendship[Back(d)]) = 0
      BY <1>2, <2>1, BackIsADirection
    <2>3. 0 + 0 = 0
      OBVIOUS
    <2> QED
      BY <2>2, <2>3, Zenon DEF RowsBetween
  <1>4. PairsBounded
    BY <1>3 DEF PairsBounded
  <1>5. PairsInTurn
    <2>1. crossed = {}
      BY DEF UInit, Init
    <2> QED
      BY <1>2, <1>3, <2>1 DEF PairsInTurn, AsksFor
  <1>6. Recalled
    BY <1>2 DEF Recalled, RecalledBy, Remembers
  <1>7. StoredOnce
    BY <1>2 DEF StoredOnce, Proposing
  <1>8. WindowsKnowTasks /\ LinksBounded /\ StrategyFollows
    BY <1>2 DEF WindowsKnowTasks, Knows, LinksBounded, StrategyFollows
  <1>9. OwnerPaidPerApproval
    <2>1. \A t \in Task : Owing(t) = {}
      BY <1>2 DEF Owing
    <2>2. Cardinality({}) = 0
      BY FS_EmptySet
    <2>3. \A t \in Task : Cardinality(Owing(t)) = 0
      BY <2>1, <2>2
    <2> QED
      BY <1>2, <2>3 DEF OwnerPaidPerApproval
  <1> QED
    BY <1>1, <1>4, <1>5, <1>6, <1>7, <1>8, <1>9 DEF IInv, TaskInv

LEMMA AdminStepQuiet ==
  ASSUME NEW a \in Admin, AdminStep(a)
  PROVE  UNCHANGED << friendship, req, recent, crossed >>
  BY DEF AdminStep, ShowTasks, OpenValutation, OpenAddUsers, Follows, Refuse, Approve,
         SelectUsers, Cancel, Reselect, ApproveTask, CreateStrategy, AssignNewUsers, AssignFails, AssignDies,
         AssignApprovedPoints, OnlyWindow, friendVars

LEMMA StepInv == IInv /\ [UNext]_vars => IInv'
  <1> SUFFICES ASSUME IInv, [UNext]_vars PROVE IInv'
    OBVIOUS
  <1>1. FriendTypes /\ TaskTypes /\ PairsBounded /\ PairsInTurn /\ Recalled /\ TaskInv
    BY TypesSplit DEF IInv
  <1>2. ASSUME FriendTypes', TaskTypes', PairsBounded' /\ PairsInTurn' /\ Recalled', TaskInv'
        PROVE  IInv'
    <2>1. UTypeOK'
      BY <1>2 DEF UTypeOK, FriendTypes, TaskTypes, Table, Call
    <2> QED
      BY <1>2, <2>1 DEF IInv
  <1>3. ASSUME NEW i \in Request, FriendStep(i), UNCHANGED taskVars PROVE IInv'
    <2>1. FriendTypes'
      BY <1>1, <1>3, FriendStepType
    <2>2. TaskTypes'
      BY <1>1, <1>3 DEF taskVars, TaskTypes
    <2>3. PairsBounded' /\ PairsInTurn' /\ Recalled'
      BY <1>1, <1>3, <2>1, FriendStepPairs, FriendStepTurns, FriendStepRecalls
    <2>4. TaskInv'
      BY <1>1, <1>3, FriendStepTasks
    <2> QED
      BY <1>2, <2>1, <2>2, <2>3, <2>4
  <1>4. ASSUME NEW i \in Request, ProposalStep(i) PROVE IInv'
    <2>1. FriendTypes' /\ TaskTypes'
      BY <1>1, <1>4, ProposalType DEF ProposalStep
    <2>2. PairsBounded' /\ PairsInTurn' /\ Recalled'
      BY <1>1, <1>4, ProposalStepFriends
    <2>3. TaskInv'
      BY <1>1, <1>4, ProposalStepTasks
    <2> QED
      BY <1>2, <2>1, <2>2, <2>3
  <1>5. ASSUME NEW a \in Admin, AdminStep(a) PROVE IInv'
    <2>1. FriendTypes' /\ TaskTypes'
      <3>1. \A b \in Admin : window[b].at \in {"valutate", "confirm"} =>
                            taskUser[window[b].task] # NoTask
        BY <1>1 DEF TaskInv, WindowsKnowTasks, Knows
      <3> QED
        BY <1>1, <1>5, <3>1, AdminStepType
    <2>2. PairsBounded' /\ PairsInTurn' /\ Recalled'
      BY <1>1, <1>5, AdminStepQuiet, QuietFriends
    <2>3. TaskInv'
      BY <1>1, <1>5, ViewStepTasks, RefuseTasks, ApproveTasks, CreateStrategyTasks, PayTasks,
         DyingTasks
         DEF AdminStep
    <2> QED
      BY <1>2, <2>1, <2>2, <2>3
  <1>6. CASE Crash
    BY <1>1, <1>2, <1>6, CrashType, CrashFriends, CrashTasks
  <1>7. CASE UNCHANGED vars
    <2>1. UNCHANGED << friendVars, taskVars >>
      BY <1>7 DEF vars
    <2>2. FriendTypes' /\ TaskTypes'
      BY <1>1, <2>1 DEF friendVars, taskVars, FriendTypes, TaskTypes
    <2>3. UNCHANGED << friendship, req, recent, crossed >>
      BY <2>1 DEF friendVars
    <2>4. PairsBounded' /\ PairsInTurn' /\ Recalled'
      BY <1>1, <2>3, QuietFriends
    <2>5. StoredOnce' /\ UNCHANGED << taskUser, strategies, reports, ownerPaid, window, approvals, cut >>
      BY <1>1, <2>1, <2>3 DEF taskVars, TaskInv, StoredOnce
    <2>6. TaskInv'
      BY <1>1, <2>5, TasksKept
    <2> QED
      BY <1>2, <2>2, <2>4, <2>6
  <1>8. ASSUME NEW i \in Request, PhoneStep(i) PROVE IInv'
    BY <1>3, <1>4, <1>8 DEF PhoneStep, ProposalStep
  <1> QED
    BY <1>5, <1>6, <1>7, <1>8 DEF UNext

LEMMA Invariance == USpec => []IInv
  BY InitInv, StepInv, PTL DEF USpec

-----------------------------------------------------------------------------
(* The theorems.                                                           *)

\* Tables, calls, windows and counters keep their types: a call that fails, a form
\* that was opened long ago and a restart leave none in an impossible state.
THEOREM TypeCorrect == USpec => []UTypeOK
  <1>1. IInv => UTypeOK
    BY DEF IInv
  <1> QED
    BY <1>1, Invariance, PTL

\* addFriend never leaves a pair with more rows than there are worker threads.
THEOREM RowsAreBounded == USpec => []RowsBounded
  <1>1. IInv => RowsBounded
    <2> SUFFICES ASSUME IInv, NEW d \in Direction PROVE RowsBetween(d) <= Cardinality(Request)
      BY DEF RowsBounded
    <2>1. PICK n : n = RowsBetween(d)
      OBVIOUS
    <2>2. n \in Nat
      BY <2>1, RowsAreCounted, TypesSplit DEF IInv, FriendTypes
    <2>3. Cardinality(Creators(d)) \in Nat /\ Cardinality(Request) \in Nat
      BY CreatorsAreFinite
    <2>4. n > 0 => n + Cardinality(Creators(d)) <= Cardinality(Request)
      BY <2>1 DEF IInv, PairsBounded
    <2>5. n <= Cardinality(Request)
      BY <2>2, <2>3, <2>4
    <2> QED
      BY <2>1, <2>5
  <1> QED
    BY <1>1, Invariance, PTL

\* Without overlapping calls addFriend keeps one row for two users.
THEOREM OneRowEach == USpec => []OneRowUnlessCrossed
  <1>1. IInv => OneRowUnlessCrossed
    BY DEF IInv, PairsInTurn, OneRowUnlessCrossed
  <1> QED
    BY <1>1, Invariance, PTL

\* getFriendStatus answers what was so at some moment of the call, although it asks
\* for the two directions in two transactions.
THEOREM AnswersAreTrue == USpec => []AnswersWereTrue
  <1>1. IInv => AnswersWereTrue
    BY DEF IInv, Recalled, RecalledBy, AnswersWereTrue
  <1> QED
    BY <1>1, Invariance, PTL

\* createTask stores a task for users who were all friends of its owner during the call.
THEOREM SuggestedAreFriends == USpec => []SuggestedWereFriends
  <1>1. IInv => SuggestedWereFriends
    BY DEF IInv, Recalled, RecalledBy, WasFriend, SuggestedWereFriends
  <1> QED
    BY <1>1, Invariance, PTL

\* The valuation flow pays the owner once for each approval that neither a restart
\* nor an exception cut off.
THEOREM OwnerIsPaid == USpec => []OwnerPaidPerApproval
  <1>1. IInv => OwnerPaidPerApproval
    BY DEF IInv, TaskInv
  <1> QED
    BY <1>1, Invariance, PTL

\* The task page and the valuation flow approve a task once for each window at most.
THEOREM ApprovalsAreBounded == USpec => []ApprovalsBounded
  <1>1. IInv => ApprovalsBounded
    <2> SUFFICES ASSUME IInv, NEW t \in Task PROVE approvals[t] <= Cardinality(Admin)
      BY DEF ApprovalsBounded
    <2>1. approvals[t] \in Nat
      BY DEF IInv, UTypeOK
    <2>2. Cardinality(Holders(t)) \in Nat /\ Cardinality(Admin) \in Nat
      BY HoldersAreFinite
    <2>3. approvals[t] = 0 \/ approvals[t] + Cardinality(Holders(t)) <= Cardinality(Admin)
      BY DEF IInv, TaskInv, LinksBounded
    <2> QED
      BY <2>1, <2>2, <2>3
  <1> QED
    BY <1>1, Invariance, PTL

\* A task that is assigned has at least one strategy row, unless one of its approvals
\* was cut off or stands before its row.
THEOREM AssignedAreWorth == USpec => []AssignedTasksHaveStrategy
  <1>1. IInv => AssignedTasksHaveStrategy
    BY DEF IInv, TaskInv, StrategyFollows, HasStrategy, AssignedTasksHaveStrategy, Owing
  <1> QED
    BY <1>1, Invariance, PTL

=============================================================================
