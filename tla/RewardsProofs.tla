----------------------------- MODULE RewardsProofs -----------------------------
(***************************************************************************)
(* Theorems about Rewards, for any users, tasks, groups and badges and any *)
(* number of workers, calls and restarts.                                  *)
(***************************************************************************)
EXTENDS Rewards, SetSums, FiniteSetTheorems, TLAPS

USE RewardsAssumption DEF beside

-----------------------------------------------------------------------------
(* The inductive invariant.                                                *)

\* Only completeTask gets as far as the points.
OnlyCompletionsPay ==
  \A i \in Request : req[i].pc = "paying" => req[i].call.op = "complete"

\* The workers that have looked for a completion of r, found none, and will save one.
Completing(r) ==
  { i \in Request : /\ req[i].pc = "loaded"
                    /\ req[i].call.op = "complete"
                    /\ ReportOf(req[i].call) = r }

\* Once a completion is stored nobody joins those who will store another.
CompletionsBounded ==
  \A r \in Reports :
    outcome[r]["complete"] > 0 =>
      outcome[r]["complete"] + Cardinality(Completing(r)) <= Cardinality(Request)

\* The workers that have missed the reputation of u for y and will create it.
Creates(i, u, y) ==
  \/ req[i].pc = "creating" /\ req[i].call.user = u /\ TypeOf[req[i].action] = y
  \/ req[i].pc = "adding" /\ req[i].list.user = u /\ TypeOf[req[i].action] = y

Creators(u, y) == { i \in Request : Creates(i, u, y) }

\* Once a row is stored nobody joins those who will create another.
RowsInFlight ==
  \A u \in User, y \in Type :
    Cardinality(RowsOf(u, y)) > 0 =>
      Cardinality(RowsOf(u, y)) + Cardinality(Creators(u, y)) <= Cardinality(Request)

RowsAreFinite == IsFiniteSet(DOMAIN reputation)

Owing(r) == { i \in Request : Owes(i, r) }

IInv ==
  /\ TypeOK
  /\ RowsAreFinite
  /\ OnlyCompletionsPay
  /\ PaymentAccounts
  /\ CompletionsBounded
  /\ RowsInFlight

-----------------------------------------------------------------------------
(* Workers that come and go.                                               *)

LEMMA WorkersAreFinite ==
  ASSUME NEW S \in SUBSET Request
  PROVE  /\ IsFiniteSet(S) /\ Cardinality(S) \in Nat
         /\ Cardinality(Request) \in Nat /\ Cardinality(S) <= Cardinality(Request)
  BY FS_Subset, FS_CardinalityType

\* One worker joins a set of workers or leaves it.
LEMMA OneMoves ==
  ASSUME NEW S \in SUBSET Request, NEW T \in SUBSET Request, NEW i \in Request,
         S \ {i} = T \ {i}
  PROVE  /\ (i \in S <=> i \in T) => Cardinality(T) = Cardinality(S)
         /\ i \in S /\ i \notin T => Cardinality(S) = Cardinality(T) + 1
         /\ i \notin S /\ i \in T => Cardinality(T) = Cardinality(S) + 1
  <1>1. ASSUME i \in S <=> i \in T PROVE T = S
    <2>1. ASSUME NEW j \in Request PROVE j \in T <=> j \in S
      <3>1. CASE j = i
        BY <1>1, <3>1
      <3>2. CASE j # i
        <4>1. j \in S \ {i} <=> j \in S
          BY <3>2
        <4>2. j \in T \ {i} <=> j \in T
          BY <3>2
        <4> QED
          BY <4>1, <4>2
      <3> QED
        BY <3>1, <3>2
    <2> QED
      BY <2>1
  <1>2. ASSUME i \in S, i \notin T PROVE Cardinality(S) = Cardinality(T) + 1
    <2>1. S = T \cup {i}
      BY <1>2
    <2> QED
      BY <1>2, <2>1, WorkersAreFinite, FS_AddElement
  <1>3. ASSUME i \notin S, i \in T PROVE Cardinality(T) = Cardinality(S) + 1
    <2>1. T = S \cup {i}
      BY <1>3
    <2> QED
      BY <1>3, <2>1, WorkersAreFinite, FS_AddElement
  <1> QED
    BY <1>1, <1>2, <1>3

\* What is stored grows from n to m, by what one of those who will store does; nobody
\* joins them once something is stored.
LEMMA BoundKept ==
  ASSUME NEW S \in SUBSET Request, NEW T \in SUBSET Request, NEW i \in Request,
         S \ {i} = T \ {i}, NEW n \in Nat, NEW m \in Nat,
         n > 0 => n + Cardinality(S) <= Cardinality(Request),
         \/ m = n /\ (n > 0 /\ i \in T => i \in S)
         \/ m = n + 1 /\ i \in S /\ i \notin T
  PROVE  m > 0 => m + Cardinality(T) <= Cardinality(Request)
  <1>1. /\ Cardinality(S) \in Nat /\ Cardinality(T) \in Nat /\ Cardinality(Request) \in Nat
        /\ Cardinality(S) <= Cardinality(Request)
    BY WorkersAreFinite
  <1>2. CASE m = n /\ (n > 0 /\ i \in T => i \in S)
    <2>1. n > 0 => Cardinality(T) <= Cardinality(S)
      BY <1>1, <1>2, OneMoves
    <2> QED
      BY <1>1, <1>2, <2>1
  <1>3. CASE m = n + 1 /\ i \in S /\ i \notin T
    <2>1. Cardinality(S) = Cardinality(T) + 1
      BY <1>3, OneMoves
    <2> QED
      BY <1>1, <1>3, <2>1
  <1> QED
    BY <1>2, <1>3

-----------------------------------------------------------------------------
(* Types.                                                                  *)

Calling == {"called", "loaded", "counting", "saved", "creating", "updating",
            "paying", "unlocking"}

LEMMA Shapes ==
  ASSUME NEW c \in {Idle} \cup Working
  PROVE  /\ c.pc \in Calling \cup {"idle", "listing", "adding"}
         /\ c.pc = "idle" <=> c = Idle
         /\ c.pc \in Calling => c.call \in Call
         /\ c.pc \in {"saved", "creating", "updating"} => c.todo \subseteq Action
         /\ c.pc \in {"creating", "updating", "adding"} => c.action \in Action
         /\ c.pc = "updating" => c.row \in ReputationRow
         /\ c.pc = "paying" => c.group \in Members
         /\ c.pc = "unlocking" => c.new \subseteq Badge
         /\ c.pc \in {"listing", "adding"} => c.list \in List
         /\ c.pc = "adding" => c.task \in Task
  BY DEF Idle, Working, Calling

LEMMA Clamped == ASSUME NEW v \in Int PROVE Clamp(v) \in MinReputation .. MaxReputation
  BY DEF Clamp

LEMMA Deltas == Delta \in [Op -> Int]
  BY DEF Delta, Op

LEMMA CallType ==
  ASSUME NEW c \in Call
  PROVE  /\ c.op \in Op /\ c.user \in User /\ c.task \in Task /\ c.held \subseteq Badge
         /\ ReportOf(c) \in Reports
  BY DEF Call, ReportOf, Reports

\* A worker goes on, the others stay.
LEMMA GoesType ==
  ASSUME TypeOK, NEW i \in Request, NEW x \in {Idle} \cup Working, Goes(i, x)
  PROVE  /\ req' \in [Request -> {Idle} \cup Working]
         /\ req'[i] = x
         /\ \A j \in Request \ {i} : req'[j] = req[j]
  BY DEF Goes, TypeOK

\* What a query and its insert leave: the row that was missing.
Adds(u, y) ==
  LET new == << u, y, Cardinality(RowsOf(u, y)) + 1 >> IN
    /\ new \in RowId
    /\ reputation' = [r \in DOMAIN reputation \cup {new} |->
                        IF r = new THEN InitReputation ELSE reputation[r]]

LEMMA AddsType ==
  ASSUME TypeOK, NEW u \in User, NEW y \in Type, Adds(u, y)
  PROVE  /\ DOMAIN reputation' \subseteq RowId
         /\ \A r \in DOMAIN reputation' : reputation'[r] \in MinReputation .. MaxReputation
  <1>1. InitReputation \in MinReputation .. MaxReputation
    OBVIOUS
  <1> QED
    BY <1>1 DEF Adds, TypeOK

LEMMA UnpaidType ==
  ASSUME TypeOK, NEW i \in Request, Fails(i)
  PROVE  /\ unpaid' \in [Reports -> Nat] /\ req' \in [Request -> {Idle} \cup Working]
         /\ UNCHANGED reputation
  BY GoesType DEF Fails, TypeOK

\* What an exception may touch.
WorkersType ==
  /\ req \in [Request -> {Idle} \cup Working]
  /\ unpaid \in [Reports -> Nat]

\* A call begins.
LEMMA BeginType ==
  ASSUME TypeOK, NEW i \in Request, NEW u \in User,
         ListTasks(i, u) \/ \E op \in Op, t \in Task : GetUser(i, op, u, t)
  PROVE  TypeOK'
  <1>1. started' \in 0 .. MaxRequests
    <2>1. started < MaxRequests /\ started' = started + 1
      BY DEF ListTasks, GetUser
    <2>2. started \in 0 .. MaxRequests
      BY DEF TypeOK
    <2> QED
      BY <2>1, <2>2
  <1>2. CASE ListTasks(i, u)
    <2>1. [user |-> u,
           todo |-> { p \in Available(u) \X Action : p[2] \in ActionsOf[p[1]] },
           seen |-> {}, ask |-> Available(u), found |-> {}] \in List
      BY DEF List, Available
    <2>2. req' \in [Request -> {Idle} \cup Working]
      BY <1>2, <2>1, GoesType DEF ListTasks, Working
    <2> QED
      BY <1>1, <1>2, <2>2 DEF ListTasks, TypeOK
  <1>3. ASSUME NEW op \in Op, NEW t \in Task, GetUser(i, op, u, t)
        PROVE  TypeOK'
    <2>1. [op |-> op, user |-> u, task |-> t, held |-> badges[u]] \in Call
      BY DEF Call, TypeOK
    <2>2. req' \in [Request -> {Idle} \cup Working]
      BY <1>3, <2>1, GoesType DEF GetUser, Working
    <2> QED
      BY <1>1, <1>3, <2>2 DEF GetUser, TypeOK
  <1> QED
    BY <1>2, <1>3

\* The head of the handlers.
LEMMA ReportType ==
  ASSUME TypeOK, NEW i \in Request, AlreadyCompleted(i) \/ LoadReport(i) \/ SaveReport(i)
  PROVE  TypeOK'
  <1>1. req[i].pc \in {"called", "loaded"} /\ req[i].call \in Call
    BY Shapes DEF AlreadyCompleted, LoadReport, SaveReport, TypeOK, Calling
  <1>2. CASE AlreadyCompleted(i)
    <2>1. req' \in [Request -> {Idle} \cup Working]
      BY <1>2, GoesType DEF AlreadyCompleted
    <2> QED
      BY <1>2, <2>1 DEF AlreadyCompleted, TypeOK
  <1>3. CASE LoadReport(i)
    <2>1. req' \in [Request -> {Idle} \cup Working]
      BY <1>1, <1>3, GoesType DEF LoadReport, Working
    <2> QED
      BY <1>3, <2>1 DEF LoadReport, TypeOK
  <1>4. CASE SaveReport(i)
    <2>1. PICK c \in Call : c = req[i].call
      BY <1>1
    <2>2. c.op \in Op /\ c.task \in Task /\ ReportOf(c) \in Reports
      BY CallType
    <2>3. [pc |-> "saved", call |-> c, todo |-> ActionsOf[c.task]] \in Working
      BY <2>2 DEF Working
    <2>4. req' \in [Request -> {Idle} \cup Working]
      BY <1>4, <2>1, <2>3, GoesType DEF SaveReport
    <2>5. outcome' \in [Reports -> [Op -> Nat]] /\ current' \in [Reports -> Op \cup {"none"}]
      BY <1>4, <2>1, <2>2 DEF SaveReport, TypeOK
    <2> QED
      BY <1>4, <2>4, <2>5 DEF SaveReport, TypeOK
  <1> QED
    BY <1>2, <1>3, <1>4

\* A reputation is read, created or updated.
LEMMA ReputationType ==
  ASSUME TypeOK, NEW i \in Request,
         FindReputation(i) \/ CreateReputation(i) \/ UpdateReputation(i)
  PROVE  TypeOK'
  <1>1. /\ req[i].pc \in {"saved", "creating", "updating"}
        /\ req[i].call \in Call /\ req[i].todo \subseteq Action
        /\ req[i].pc # "saved" => req[i].action \in Action
        /\ req[i].pc = "updating" => req[i].row \in ReputationRow
    BY Shapes DEF FindReputation, CreateReputation, UpdateReputation, TypeOK, Calling
  <1>2. PICK c \in Call : c = req[i].call
    BY <1>1
  <1>3. /\ c.op \in Op /\ c.user \in User /\ ReportOf(c) \in Reports
        /\ badges[c.user] \subseteq Badge
    BY CallType DEF TypeOK
  <1>4. ASSUME NEW a \in Action, NEW r \in RowId, NEW v \in Int, Updates(i, a, r, v)
        PROVE  req' \in [Request -> {Idle} \cup Working]
    <2>1. [id |-> r, value |-> v, held |-> badges[c.user]] \in ReputationRow
      BY <1>3 DEF ReputationRow
    <2>2. [pc |-> "updating", call |-> c, todo |-> req[i].todo, action |-> a,
           row |-> [id |-> r, value |-> v, held |-> badges[c.user]]] \in Working
      BY <1>1, <2>1 DEF Working
    <2> QED
      BY <1>2, <1>4, <2>2, GoesType DEF Updates
  <1>5. CASE FindReputation(i)
    <2>1. WorkersType'
      <3>1. PICK a \in req[i].todo :
              LET rows == RowsOf(c.user, TypeOf[a]) IN
                \/ /\ rows = {}
                   /\ Goes(i, [pc |-> "creating", call |-> c, todo |-> req[i].todo, action |-> a])
                   /\ UNCHANGED unpaid
                \/ /\ \E r \in rows : rows = {r} /\ Updates(i, a, r, reputation[r])
                   /\ UNCHANGED unpaid
                \/ Cardinality(rows) > 1 /\ Fails(i)
        BY <1>2, <1>5 DEF FindReputation
      <3>2. a \in Action
        BY <1>1
      <3>3. ASSUME Goes(i, [pc |-> "creating", call |-> c, todo |-> req[i].todo, action |-> a])
            PROVE  req' \in [Request -> {Idle} \cup Working]
        <4>1. [pc |-> "creating", call |-> c, todo |-> req[i].todo, action |-> a] \in Working
          BY <1>1, <3>2 DEF Working
        <4> QED
          BY <3>3, <4>1, GoesType
      <3>4. ASSUME NEW r \in RowsOf(c.user, TypeOf[a]), Updates(i, a, r, reputation[r])
            PROVE  req' \in [Request -> {Idle} \cup Working]
        <4>1. r \in RowId /\ reputation[r] \in Int
          BY DEF RowsOf, TypeOK
        <4> QED
          BY <1>4, <3>2, <3>4, <4>1
      <3> QED
        BY <3>1, <3>3, <3>4, UnpaidType DEF WorkersType, TypeOK
    <2> QED
      BY <1>5, <2>1 DEF FindReputation, WorkersType, TypeOK
  <1>6. CASE CreateReputation(i)
    <2>1. req[i].pc = "creating" /\ req[i].action \in Action
      BY <1>1, <1>6 DEF CreateReputation
    <2>2. TypeOf[req[i].action] \in Type
      BY <2>1
    <2>3. PICK y \in Type : y = TypeOf[req[i].action]
      BY <2>2
    <2>4. PICK r \in RowId : /\ r = << c.user, y, Cardinality(RowsOf(c.user, y)) + 1 >>
                             /\ Updates(i, req[i].action, r, InitReputation)
                             /\ Adds(c.user, y)
      BY <1>2, <1>6, <2>3 DEF CreateReputation, Adds
    <2>5. req' \in [Request -> {Idle} \cup Working]
      BY <1>4, <2>1, <2>4
    <2>6. /\ DOMAIN reputation' \subseteq RowId
          /\ \A q \in DOMAIN reputation' : reputation'[q] \in MinReputation .. MaxReputation
      BY <1>3, <2>4, AddsType
    <2> QED
      BY <1>6, <2>5, <2>6 DEF CreateReputation, TypeOK
  <1>7. CASE UpdateReputation(i)
    <2>1. PICK row \in ReputationRow : row = req[i].row
      BY <1>1, <1>7 DEF UpdateReputation
    <2>2. row.id \in RowId /\ row.value \in Int /\ row.held \subseteq Badge
      BY DEF ReputationRow
    <2>3. row.value + Delta[c.op] \in Int
      BY <1>3, <2>2, Deltas
    <2>4. Clamp(row.value + Delta[c.op]) \in MinReputation .. MaxReputation
      BY <2>3, Clamped
    <2>5. reputation' = [reputation EXCEPT ![row.id] = Clamp(row.value + Delta[c.op])]
      BY <1>2, <1>7, <2>1 DEF UpdateReputation
    <2>6. /\ DOMAIN reputation' \subseteq RowId
          /\ \A q \in DOMAIN reputation' : reputation'[q] \in MinReputation .. MaxReputation
      BY <2>4, <2>5 DEF TypeOK
    <2>7. badges' \in [User -> SUBSET Badge]
      BY <1>2, <1>3, <1>7, <2>1, <2>2 DEF UpdateReputation, TypeOK
    <2>8. [pc |-> "saved", call |-> c, todo |-> req[i].todo \ {req[i].action}] \in Working
      BY <1>1 DEF Working
    <2>9. req' \in [Request -> {Idle} \cup Working]
      BY <1>2, <1>7, <2>8, GoesType DEF UpdateReputation
    <2> QED
      BY <1>7, <2>6, <2>7, <2>9 DEF UpdateReputation, TypeOK
  <1> QED
    BY <1>5, <1>6, <1>7

\* The list of available tasks.
LEMMA ListType ==
  ASSUME TypeOK, NEW i \in Request,
         ReadForList(i) \/ AddForList(i) \/ FindStrategy(i) \/ AnswerList(i)
  PROVE  TypeOK'
  <1>1. /\ req[i].pc \in {"listing", "adding"} /\ req[i].list \in List
        /\ req[i].pc = "adding" => req[i].task \in Task /\ req[i].action \in Action
    BY Shapes DEF ReadForList, AddForList, FindStrategy, AnswerList, TypeOK
  <1>2. PICK l \in List : l = req[i].list
    BY <1>1
  <1>3. /\ l.user \in User /\ l.todo \subseteq Task \X Action
        /\ l.seen \subseteq Task \X Action \X Int /\ l.ask \subseteq Task /\ l.found \subseteq Task
    BY DEF List
  <1>4. ASSUME NEW t \in Task, NEW a \in Action, NEW v \in Int, Sees(i, t, a, v)
        PROVE  req' \in [Request -> {Idle} \cup Working]
    <2>1. PICK m : m = [user |-> l.user, todo |-> l.todo \ { << t, a >> },
                        seen |-> l.seen \cup { << t, a, v >> },
                        ask |-> l.ask, found |-> l.found]
      OBVIOUS
    <2>2. m \in List
      BY <1>3, <2>1 DEF List
    <2>3. [pc |-> "listing", list |-> m] \in Working
      BY <2>2 DEF Working
    <2>4. Goes(i, [pc |-> "listing", list |-> m])
      BY <1>2, <1>4, <2>1 DEF Sees
    <2> QED
      BY <2>3, <2>4, GoesType
  <1>5. CASE ReadForList(i)
    <2>1. req' \in [Request -> {Idle} \cup Working]
      <3>1. PICK t \in Task, a \in Action :
              LET rows == RowsOf(l.user, TypeOf[a]) IN
                \/ Goes(i, [pc |-> "adding", list |-> l, task |-> t, action |-> a])
                \/ \E r \in rows : Sees(i, t, a, reputation[r])
                \/ Goes(i, Idle)
        BY <1>2, <1>5 DEF ReadForList
      <3>2. ASSUME Goes(i, [pc |-> "adding", list |-> l, task |-> t, action |-> a])
            PROVE  req' \in [Request -> {Idle} \cup Working]
        <4>1. [pc |-> "adding", list |-> l, task |-> t, action |-> a] \in Working
          BY DEF Working
        <4> QED
          BY <3>2, <4>1, GoesType
      <3>3. ASSUME NEW r \in RowsOf(l.user, TypeOf[a]), Sees(i, t, a, reputation[r])
            PROVE  req' \in [Request -> {Idle} \cup Working]
        <4>1. reputation[r] \in Int
          BY DEF RowsOf, TypeOK
        <4> QED
          BY <1>4, <3>3, <4>1
      <3> QED
        BY <3>1, <3>2, <3>3, GoesType
    <2> QED
      BY <1>5, <2>1 DEF ReadForList, TypeOK
  <1>6. CASE AddForList(i)
    <2>1. req[i].pc = "adding" /\ req[i].action \in Action /\ req[i].task \in Task
      BY <1>1, <1>6 DEF AddForList
    <2>2. PICK y \in Type : y = TypeOf[req[i].action]
      BY <2>1
    <2>3. Sees(i, req[i].task, req[i].action, InitReputation) /\ Adds(l.user, y)
      BY <1>2, <1>6, <2>2 DEF AddForList, Adds
    <2>4. req' \in [Request -> {Idle} \cup Working]
      BY <1>4, <2>1, <2>3
    <2>5. /\ DOMAIN reputation' \subseteq RowId
          /\ \A q \in DOMAIN reputation' : reputation'[q] \in MinReputation .. MaxReputation
      BY <1>3, <2>3, AddsType
    <2> QED
      BY <1>6, <2>4, <2>5 DEF AddForList, TypeOK
  <1>7. CASE AnswerList(i)
    <2>1. req' \in [Request -> {Idle} \cup Working]
      BY <1>7, GoesType DEF AnswerList
    <2> QED
      BY <1>7, <2>1 DEF AnswerList, TypeOK
  <1>8. CASE FindStrategy(i)
    <2>1. ASSUME NEW t \in Task, NEW found \in {l.found, l.found \cup {t}}
          PROVE  [pc |-> "listing",
                  list |-> [user |-> l.user, todo |-> l.todo, seen |-> l.seen,
                            ask |-> l.ask \ {t}, found |-> found]] \in Working
      <3>1. [user |-> l.user, todo |-> l.todo, seen |-> l.seen,
             ask |-> l.ask \ {t}, found |-> found] \in List
        BY <1>3 DEF List
      <3> QED
        BY <3>1 DEF Working
    <2>2. PICK t \in l.ask :
            \/ Goes(i, [pc |-> "listing",
                        list |-> [user |-> l.user, todo |-> l.todo, seen |-> l.seen,
                                  ask |-> l.ask \ {t},
                                  found |-> IF strategies[t] = 1 THEN l.found \cup {t}
                                                                 ELSE l.found]])
            \/ Goes(i, Idle)
      BY <1>2, <1>8 DEF FindStrategy
    <2>3. t \in Task
      BY <1>3
    <2>4. PICK found \in {l.found, l.found \cup {t}} :
            found = IF strategies[t] = 1 THEN l.found \cup {t} ELSE l.found
      OBVIOUS
    <2>5. req' \in [Request -> {Idle} \cup Working]
      BY <2>1, <2>2, <2>3, <2>4, GoesType
    <2> QED
      BY <1>8, <2>5 DEF FindStrategy, TypeOK
  <1> QED
    BY <1>5, <1>6, <1>7, <1>8

\* What no step of a handler writes is written by these.
LEMMA BesideStands ==
  ASSUME Beside
  PROVE  UNCHANGED << outcome, reputation, paid, shares, req, unpaid, started, crashes,
                      byDefault >>
  <1>1. CASE \E t \in Task : AddStrategy(t)
    BY <1>1 DEF AddStrategy
  <1>2. CASE \E f \in Form, u \in User : HoldUser(f, u)
    BY <1>2 DEF HoldUser
  <1>3. CASE \E f \in Form : MergeUser(f)
    BY <1>3 DEF MergeUser
  <1> QED
    BY <1>1, <1>2, <1>3 DEF Beside

\* Rows of strategies and forms.
LEMMA BesideType == ASSUME TypeOK, Beside PROVE TypeOK'
  <1>1. CASE \E t \in Task : AddStrategy(t)
    <2>1. PICK t \in Task, us \in SUBSET User :
            /\ strategies' = [strategies EXCEPT ![t] = @ + 1]
            /\ current' = [r \in Reports |-> IF r[2] = t /\ r[1] \in us THEN "none"
                                                                   ELSE current[r]]
            /\ AddStrategy(t)
      BY <1>1 DEF AddStrategy
    <2>2. strategies' \in [Task -> Nat]
      BY <2>1 DEF TypeOK
    <2>3. current' \in [Reports -> Op \cup {"none"}]
      BY <2>1 DEF TypeOK
    <2> QED
      BY <2>1, <2>2, <2>3 DEF AddStrategy, TypeOK
  <1>2. CASE \E f \in Form, u \in User : HoldUser(f, u)
    <2>1. PICK f \in Form, u \in User : HoldUser(f, u)
      BY <1>2
    <2>2. PICK o : o = [pc |-> "open", user |-> u, held |-> badges[u]]
      OBVIOUS
    <2>3. o \in OpenForm
      BY <2>2 DEF OpenForm, TypeOK
    <2>4. form' \in [Form -> {Closed} \cup OpenForm]
      BY <2>1, <2>2, <2>3 DEF HoldUser, TypeOK
    <2> QED
      BY <2>1, <2>4 DEF HoldUser, TypeOK
  <1>3. CASE \E f \in Form : MergeUser(f)
    <2>1. PICK f \in Form : MergeUser(f)
      BY <1>3
    <2>2. form[f] \in {Closed} \cup OpenForm /\ form[f].pc = "open"
      BY <2>1 DEF MergeUser, TypeOK
    <2>3. form[f].user \in User /\ form[f].held \subseteq Badge
      BY <2>2 DEF OpenForm, Closed
    <2>4. badges' \in [User -> SUBSET Badge] /\ reverted' \subseteq User
      BY <2>1, <2>3 DEF MergeUser, TypeOK
    <2>5. form' \in [Form -> {Closed} \cup OpenForm]
      BY <2>1 DEF MergeUser, TypeOK
    <2> QED
      BY <2>1, <2>4, <2>5 DEF MergeUser, TypeOK
  <1> QED
    BY <1>1, <1>2, <1>3 DEF Beside

\* A strategy looked for: the list goes on, or is given up.
LEMMA LookMoves ==
  ASSUME NEW i \in Request, FindStrategy(i)
  PROVE  /\ req[i].pc = "listing"
         /\ Goes(i, Idle) \/ \E l : Goes(i, [pc |-> "listing", list |-> l])
         /\ UNCHANGED << outcome, current, reputation, paid, shares, badges, unpaid,
                         started, crashes, beside >>
  BY DEF FindStrategy

\* The group, without the member who was paid.
LEMMA MembersLeave ==
  ASSUME NEW g \in Members, NEW m \in DOMAIN g
  PROVE  /\ m \in User /\ g[m] \subseteq Badge
         /\ [n \in DOMAIN g \ {m} |-> g[n]] \in Members
  <1>1. PICK S \in SUBSET User : g \in [S -> SUBSET Badge]
    BY DEF Members
  <1>2. [n \in DOMAIN g \ {m} |-> g[n]] \in [S \ {m} -> SUBSET Badge]
    BY <1>1
  <1>3. S \ {m} \in SUBSET User
    OBVIOUS
  <1>4. [n \in DOMAIN g \ {m} |-> g[n]] \in Members
    BY <1>2, <1>3 DEF Members
  <1> QED
    BY <1>1, <1>4

\* Whom the strategy of a task pays besides the user.
Receivers(t) == IF GroupOf[t] # {} /\ strategies[t] = 1 THEN GroupOf[t] ELSE {}

\* The points computed, or an exception.
LEMMA ComputeMoves ==
  ASSUME NEW i \in Request, ComputePoints(i)
  PROVE  /\ req[i].pc = "saved" /\ req[i].call.op = "complete"
         /\ UNCHANGED << outcome, current, reputation, paid, shares, badges, started, crashes,
                         strategies, form, reverted >>
         /\ \/ /\ strategies[req[i].call.task] <= 1
               /\ Goes(i, [pc |-> "paying", call |-> req[i].call,
                           group |-> [m \in Receivers(req[i].call.task) |-> badges[m]]])
               /\ byDefault' = [byDefault EXCEPT ![req[i].call.task] =
                                  IF strategies[req[i].call.task] = 0 THEN @ + 1 ELSE @]
               /\ UNCHANGED unpaid
            \/ Fails(i) /\ UNCHANGED byDefault
  <1>1. PICK c : c = req[i].call
    OBVIOUS
  <1>2. Receivers(c.task) =
          LET byGroup == GroupOf[c.task] # {} /\ strategies[c.task] = 1 IN
            IF byGroup THEN GroupOf[c.task] ELSE {}
    BY DEF Receivers
  <1>3. UNCHANGED reputation
    BY DEF ComputePoints, Fails
  <1> QED
    BY <1>1, <1>2, <1>3 DEF ComputePoints

\* Points.
LEMMA PointsType ==
  ASSUME TypeOK, NEW i \in Request,
         Return(i) \/ ComputePoints(i) \/ PayShare(i) \/ PayOwn(i)
  PROVE  TypeOK'
  <1>1. /\ req[i].pc \in {"saved", "paying"} /\ req[i].call \in Call
        /\ req[i].pc = "paying" => req[i].group \in Members
    BY Shapes DEF Return, ComputePoints, PayShare, PayOwn, TypeOK, Calling
  <1>2. PICK c \in Call : c = req[i].call
    BY <1>1
  <1>3. c.user \in User /\ c.task \in Task /\ c.held \subseteq Badge /\ ReportOf(c) \in Reports
    BY CallType
  <1>4. CASE Return(i)
    <2>1. req' \in [Request -> {Idle} \cup Working]
      BY <1>4, GoesType DEF Return
    <2> QED
      BY <1>4, <2>1 DEF Return, TypeOK
  <1>5. CASE ComputePoints(i)
    <2>1. PICK g : g = [m \in Receivers(c.task) |-> badges[m]]
      OBVIOUS
    <2>2. g \in Members
      <3>1. Receivers(c.task) \subseteq User
        BY <1>3 DEF Receivers
      <3>2. g \in [Receivers(c.task) -> SUBSET Badge]
        BY <2>1, <3>1 DEF TypeOK
      <3> QED
        BY <3>1, <3>2 DEF Members
    <2>3. [pc |-> "paying", call |-> c, group |-> g] \in Working
      BY <2>2 DEF Working
    <2>4. \/ /\ Goes(i, [pc |-> "paying", call |-> c, group |-> g])
             /\ byDefault' = [byDefault EXCEPT ![c.task] =
                                IF strategies[c.task] = 0 THEN @ + 1 ELSE @]
             /\ UNCHANGED unpaid
          \/ Fails(i) /\ UNCHANGED byDefault
      BY <1>2, <1>5, <2>1, ComputeMoves
    <2>5. WorkersType'
      BY <2>3, <2>4, GoesType, UnpaidType DEF WorkersType, TypeOK
    <2>6. byDefault' \in [Task -> Nat]
      BY <1>3, <2>4 DEF TypeOK
    <2> QED
      BY <1>5, <2>5, <2>6, ComputeMoves DEF WorkersType, TypeOK
  <1>6. CASE PayShare(i)
    <2>1. req[i].group \in Members
      BY <1>1, <1>6 DEF PayShare
    <2>2. req[i] \in Working /\ req[i].pc = "paying"
      BY <1>6, Shapes DEF PayShare, TypeOK, Idle
    <2>3. PICK m \in DOMAIN req[i].group :
            /\ shares' = [shares EXCEPT ![<< m, req[i].call.task >>] = @ + 1]
            /\ badges' = [badges EXCEPT ![m] = req[i].group[m]]
            /\ req' = [req EXCEPT ![i].group =
                         [n \in DOMAIN req[i].group \ {m} |-> req[i].group[n]]]
      BY <1>6 DEF PayShare
    <2>4. /\ m \in User /\ req[i].group[m] \subseteq Badge
          /\ [n \in DOMAIN req[i].group \ {m} |-> req[i].group[n]] \in Members
      BY <2>1, MembersLeave
    <2>5. [req[i] EXCEPT !.group = [n \in DOMAIN req[i].group \ {m} |-> req[i].group[n]]]
            \in Working
      BY <2>2, <2>4 DEF Working
    <2>6. req' \in [Request -> {Idle} \cup Working]
      BY <2>3, <2>5 DEF TypeOK
    <2>7. << m, c.task >> \in Reports
      BY <1>3, <2>4 DEF Reports
    <2>8. shares' \in [Reports -> Nat] /\ badges' \in [User -> SUBSET Badge]
      BY <1>2, <2>3, <2>4, <2>7 DEF TypeOK
    <2> QED
      BY <1>6, <2>6, <2>8 DEF PayShare, TypeOK
  <1>7. CASE PayOwn(i)
    <2>1. [pc |-> "counting", call |-> c] \in Working
      BY DEF Working
    <2>2. req' \in [Request -> {Idle} \cup Working]
      BY <1>2, <1>7, <2>1, GoesType DEF PayOwn
    <2>3. paid' \in [Reports -> Nat] /\ badges' \in [User -> SUBSET Badge]
      BY <1>2, <1>3, <1>7 DEF PayOwn, TypeOK
    <2> QED
      BY <1>7, <2>2, <2>3 DEF PayOwn, TypeOK
  <1> QED
    BY <1>4, <1>5, <1>6, <1>7

\* Badges.
LEMMA BadgesType ==
  ASSUME TypeOK, NEW i \in Request, CountReports(i) \/ SaveBadges(i)
  PROVE  TypeOK'
  <1>1. /\ req[i].pc \in {"counting", "unlocking"} /\ req[i].call \in Call
        /\ req[i].pc = "unlocking" => req[i].new \subseteq Badge
    BY Shapes DEF CountReports, SaveBadges, TypeOK, Calling
  <1>2. PICK c \in Call : c = req[i].call
    BY <1>1
  <1>3. c.user \in User /\ c.held \subseteq Badge
    BY CallType
  <1>4. CASE CountReports(i)
    <2>1. PICK new : new = Unlocked(c)
      OBVIOUS
    <2>2. new \subseteq Badge
      BY <2>1 DEF Unlocked
    <2>3. Goes(i, Idle) \/ Goes(i, [pc |-> "unlocking", call |-> c, new |-> new])
      BY <1>2, <1>4, <2>1 DEF CountReports
    <2>4. [pc |-> "unlocking", call |-> c, new |-> new] \in Working
      BY <2>2 DEF Working
    <2>5. req' \in [Request -> {Idle} \cup Working]
      BY <2>3, <2>4, GoesType
    <2> QED
      BY <1>4, <2>5 DEF CountReports, TypeOK
  <1>5. CASE SaveBadges(i)
    <2>1. req' \in [Request -> {Idle} \cup Working]
      BY <1>5, GoesType DEF SaveBadges
    <2>2. badges' \in [User -> SUBSET Badge]
      BY <1>1, <1>2, <1>3, <1>5 DEF SaveBadges, TypeOK
    <2> QED
      BY <1>5, <2>1, <2>2 DEF SaveBadges, TypeOK
  <1> QED
    BY <1>4, <1>5

LEMMA CrashType == ASSUME TypeOK, Crash PROVE TypeOK'
  <1>1. crashes' \in 0 .. MaxCrashes
    <2>1. crashes < MaxCrashes /\ crashes' = crashes + 1
      BY DEF Crash
    <2>2. crashes \in 0 .. MaxCrashes
      BY DEF TypeOK
    <2> QED
      BY <2>1, <2>2
  <1>2. unpaid' \in [Reports -> Nat]
    <2>1. ASSUME NEW r \in Reports
          PROVE  unpaid[r] + Cardinality(Owing(r)) \in Nat
      <3>1. Owing(r) \in SUBSET Request
        BY DEF Owing
      <3>2. Cardinality(Owing(r)) \in Nat
        BY <3>1, WorkersAreFinite
      <3>3. unpaid[r] \in Nat
        BY DEF TypeOK
      <3> QED
        BY <3>2, <3>3
    <2>2. unpaid' = [r \in Reports |-> unpaid[r] + Cardinality(Owing(r))]
      BY DEF Crash, Owing
    <2> QED
      BY <2>1, <2>2
  <1>3. req' \in [Request -> {Idle} \cup Working] /\ form' \in [Form -> {Closed} \cup OpenForm]
    BY DEF Crash
  <1> QED
    BY <1>1, <1>2, <1>3 DEF Crash, TypeOK

LEMMA StepType == TypeOK /\ [Next]_vars => TypeOK'
  <1> SUFFICES ASSUME TypeOK, [Next]_vars PROVE TypeOK'
    OBVIOUS
  <1>1. CASE UNCHANGED vars
    BY <1>1 DEF vars, TypeOK
  <1>2. ASSUME NEW i \in Request, Step(i) PROVE TypeOK'
    BY <1>2, ReportType, ReputationType, ListType, PointsType, BadgesType DEF Step
  <1> QED
    BY <1>1, <1>2, BeginType, BesideType, CrashType DEF Next

-----------------------------------------------------------------------------
(* Completions and payments.                                               *)

Balanced(r) == paid[r] + unpaid[r] + Cardinality(Owing(r)) = outcome[r]["complete"]

LEMMA OwingIsFinite ==
  ASSUME NEW r \in Reports
  PROVE  /\ Owing(r) \in SUBSET Request /\ Cardinality(Owing(r)) \in Nat
         /\ Completing(r) \in SUBSET Request /\ Cardinality(Completing(r)) \in Nat
  <1>1. Owing(r) \in SUBSET Request /\ Completing(r) \in SUBSET Request
    BY DEF Owing, Completing
  <1> QED
    BY <1>1, WorkersAreFinite

LEMMA OwingAfter ==
  ASSUME NEW r \in Reports
  PROVE  /\ Owing(r)' \in SUBSET Request /\ Cardinality(Owing(r)') \in Nat
         /\ Completing(r)' \in SUBSET Request /\ Cardinality(Completing(r)') \in Nat
  <1>1. Owing(r)' \in SUBSET Request /\ Completing(r)' \in SUBSET Request
    BY DEF Owing, Completing
  <1> QED
    BY <1>1, WorkersAreFinite

\* A worker begins to owe points with a completion, and pays or fails to.
LEMMA BalanceKept ==
  ASSUME TypeOK, TypeOK', NEW i \in Request, \A j \in Request \ {i} : req'[j] = req[j],
         NEW r \in Reports, Balanced(r),
         \/ /\ Owes(i, r)' <=> Owes(i, r)
            /\ paid'[r] = paid[r] /\ unpaid'[r] = unpaid[r]
            /\ outcome'[r]["complete"] = outcome[r]["complete"]
         \/ /\ ~ Owes(i, r) /\ Owes(i, r)'
            /\ paid'[r] = paid[r] /\ unpaid'[r] = unpaid[r]
            /\ outcome'[r]["complete"] = outcome[r]["complete"] + 1
         \/ /\ Owes(i, r) /\ ~ Owes(i, r)'
            /\ paid'[r] + unpaid'[r] = paid[r] + unpaid[r] + 1
            /\ outcome'[r]["complete"] = outcome[r]["complete"]
  PROVE  Balanced(r)'
  <1>1. Owing(r) \ {i} = Owing(r)' \ {i}
    BY DEF Owing, Owes
  <1>2. /\ Owing(r) \in SUBSET Request /\ Cardinality(Owing(r)) \in Nat
        /\ Owing(r)' \in SUBSET Request /\ Cardinality(Owing(r)') \in Nat
    BY OwingIsFinite, OwingAfter
  <1>3. i \in Owing(r) <=> Owes(i, r)
    BY DEF Owing
  <1>4. i \in Owing(r)' <=> Owes(i, r)'
    BY DEF Owing
  <1>5. /\ (Owes(i, r) <=> Owes(i, r)') => Cardinality(Owing(r)') = Cardinality(Owing(r))
        /\ Owes(i, r) /\ ~ Owes(i, r)' => Cardinality(Owing(r)) = Cardinality(Owing(r)') + 1
        /\ ~ Owes(i, r) /\ Owes(i, r)' => Cardinality(Owing(r)') = Cardinality(Owing(r)) + 1
    BY <1>1, <1>2, <1>3, <1>4, OneMoves
  <1>6. /\ paid[r] \in Nat /\ unpaid[r] \in Nat /\ paid'[r] \in Nat /\ unpaid'[r] \in Nat
        /\ outcome[r]["complete"] \in Nat
    BY DEF TypeOK, Op
  <1>7. PICK m, n : m = Cardinality(Owing(r)) /\ n = Cardinality(Owing(r)')
    OBVIOUS
  <1>8. m \in Nat /\ n \in Nat
    BY <1>2, <1>7
  <1>9. paid'[r] + unpaid'[r] + n = outcome'[r]["complete"]
    <2>1. paid[r] + unpaid[r] + m = outcome[r]["complete"]
      BY <1>7 DEF Balanced
    <2>2. CASE /\ Owes(i, r)' <=> Owes(i, r)
               /\ paid'[r] = paid[r] /\ unpaid'[r] = unpaid[r]
               /\ outcome'[r]["complete"] = outcome[r]["complete"]
      <3>1. m = n
        BY <1>5, <1>7, <2>2
      <3> QED
        BY <1>6, <1>8, <2>1, <2>2, <3>1
    <2>3. CASE /\ ~ Owes(i, r) /\ Owes(i, r)'
               /\ paid'[r] = paid[r] /\ unpaid'[r] = unpaid[r]
               /\ outcome'[r]["complete"] = outcome[r]["complete"] + 1
      <3>1. n = m + 1
        BY <1>5, <1>7, <2>3
      <3> QED
        BY <1>6, <1>8, <2>1, <2>3, <3>1
    <2>4. CASE /\ Owes(i, r) /\ ~ Owes(i, r)'
               /\ paid'[r] + unpaid'[r] = paid[r] + unpaid[r] + 1
               /\ outcome'[r]["complete"] = outcome[r]["complete"]
      <3>1. m = n + 1
        BY <1>5, <1>7, <2>4
      <3> QED
        BY <1>6, <1>8, <2>1, <2>4, <3>1
    <2> QED
      BY <2>2, <2>3, <2>4
  <1> QED
    BY <1>7, <1>9 DEF Balanced

\* A completion is stored by a worker that was to store one; until one is stored, and
\* only until then, others may come to be.
LEMMA CompletionKept ==
  ASSUME TypeOK, TypeOK', NEW i \in Request, \A j \in Request \ {i} : req'[j] = req[j],
         NEW r \in Reports, CompletionsBounded,
         \/ /\ outcome'[r]["complete"] = outcome[r]["complete"]
            /\ outcome[r]["complete"] > 0 /\ i \in Completing(r)' => i \in Completing(r)
         \/ /\ outcome'[r]["complete"] = outcome[r]["complete"] + 1
            /\ i \in Completing(r) /\ i \notin Completing(r)'
  PROVE  outcome'[r]["complete"] > 0 =>
           outcome'[r]["complete"] + Cardinality(Completing(r)') <= Cardinality(Request)
  <1>1. Completing(r) \ {i} = Completing(r)' \ {i}
    BY DEF Completing
  <1>2. Completing(r) \in SUBSET Request /\ Completing(r)' \in SUBSET Request
    BY OwingIsFinite, OwingAfter
  <1>3. outcome[r]["complete"] \in Nat /\ outcome'[r]["complete"] \in Nat
    BY DEF TypeOK, Op
  <1>4. outcome[r]["complete"] > 0 =>
          outcome[r]["complete"] + Cardinality(Completing(r)) <= Cardinality(Request)
    BY DEF CompletionsBounded
  <1>5. PICK S, T, m, n : /\ S = Completing(r) /\ T = Completing(r)'
                         /\ n = outcome[r]["complete"] /\ m = outcome'[r]["complete"]
    OBVIOUS
  <1>6. /\ S \in SUBSET Request /\ T \in SUBSET Request /\ S \ {i} = T \ {i}
        /\ n \in Nat /\ m \in Nat
        /\ n > 0 => n + Cardinality(S) <= Cardinality(Request)
    BY <1>1, <1>2, <1>3, <1>4, <1>5
  <1>7. \/ m = n /\ (n > 0 /\ i \in T => i \in S)
        \/ m = n + 1 /\ i \in S /\ i \notin T
    BY <1>5
  <1>8. m > 0 => m + Cardinality(T) <= Cardinality(Request)
    BY <1>6, <1>7, BoundKept
  <1> QED
    BY <1>5, <1>8

PaymentInv == OnlyCompletionsPay /\ PaymentAccounts /\ CompletionsBounded

LEMMA Balances == PaymentAccounts <=> \A r \in Reports : Balanced(r)
  BY DEF PaymentAccounts, Balanced, Owing

\* A step of worker i that neither stores a completion nor pays for one.
Quiet(i) ==
  /\ UNCHANGED << outcome, paid, unpaid >>
  /\ \A j \in Request \ {i} : req'[j] = req[j]
  /\ \A r \in Reports : /\ Owes(i, r)' <=> Owes(i, r)
                        /\ outcome[r]["complete"] > 0 /\ i \in Completing(r)'
                             => i \in Completing(r)
  /\ req'[i].pc = "paying" => req'[i].call.op = "complete"

LEMMA QuietPays ==
  ASSUME TypeOK, TypeOK', PaymentInv, NEW i \in Request, Quiet(i)
  PROVE  PaymentInv'
  <1>1. OnlyCompletionsPay'
    BY DEF Quiet, PaymentInv, OnlyCompletionsPay
  <1>2. ASSUME NEW r \in Reports PROVE Balanced(r)'
    <2>1. Balanced(r)
      BY Balances DEF PaymentInv
    <2> QED
      BY <2>1, BalanceKept DEF Quiet
  <1>3. PaymentAccounts'
    BY <1>2 DEF PaymentAccounts, Balanced, Owing
  <1>4. ASSUME NEW r \in Reports
        PROVE  outcome'[r]["complete"] > 0 =>
                 outcome'[r]["complete"] + Cardinality(Completing(r)') <= Cardinality(Request)
    BY CompletionKept DEF Quiet, PaymentInv
  <1>5. CompletionsBounded'
    BY <1>4 DEF CompletionsBounded
  <1> QED
    BY <1>1, <1>3, <1>5 DEF PaymentInv

\* A worker that owes nothing and is to store nothing, and goes on so; or one that owes
\* what it owed.
Owed == {"saved", "creating", "updating", "paying"}

LEMMA StaysQuiet ==
  ASSUME NEW i \in Request, UNCHANGED << outcome, paid, unpaid >>,
         \A j \in Request \ {i} : req'[j] = req[j],
         \/ req[i].pc \notin Owed /\ req'[i].pc \notin Owed \cup {"loaded"}
         \/ /\ req[i].pc \in Owed /\ req'[i].pc \in Owed /\ req'[i].call = req[i].call
            /\ req'[i].pc = "paying" => req[i].call.op = "complete"
  PROVE  Quiet(i)
  <1>1. req'[i].pc # "loaded" /\ (req'[i].pc = "paying" => req'[i].call.op = "complete")
    BY DEF Owed
  <1>2. ASSUME NEW r \in Reports PROVE i \notin Completing(r)'
    BY <1>1 DEF Completing
  <1>3. ASSUME NEW r \in Reports PROVE Owes(i, r)' <=> Owes(i, r)
    <2>1. CASE req[i].pc \notin Owed /\ req'[i].pc \notin Owed
      BY <2>1 DEF Owes, Owed
    <2>2. CASE req[i].pc \in Owed /\ req'[i].pc \in Owed /\ req'[i].call = req[i].call
      BY <2>2 DEF Owes, Owed, ReportOf
    <2> QED
      BY <2>1, <2>2
  <1> QED
    BY <1>1, <1>2, <1>3 DEF Quiet

\* The steps of a worker that are quiet.
LEMMA BeginsQuiet ==
  ASSUME TypeOK, NEW i \in Request, NEW u \in User,
         ListTasks(i, u) \/ \E op \in Op, t \in Task : GetUser(i, op, u, t)
  PROVE  Quiet(i)
  <1>1. req[i].pc = "idle"
    <2>1. req[i] = Idle
      BY DEF ListTasks, GetUser
    <2> QED
      BY <2>1 DEF Idle
  <1>2. /\ req'[i].pc \in {"called", "listing"} /\ \A j \in Request \ {i} : req'[j] = req[j]
        /\ UNCHANGED << outcome, paid, unpaid >>
    BY DEF ListTasks, GetUser, Goes, TypeOK
  <1> QED
    BY <1>1, <1>2, StaysQuiet DEF Owed

LEMMA EndsQuiet ==
  ASSUME TypeOK, NEW i \in Request,
         \/ AlreadyCompleted(i) \/ CountReports(i) \/ SaveBadges(i)
         \/ ReadForList(i) \/ AddForList(i) \/ FindStrategy(i) \/ AnswerList(i)
  PROVE  Quiet(i)
  <1>1. req[i].pc \in {"called", "counting", "unlocking", "listing", "adding"}
    BY LookMoves
       DEF AlreadyCompleted, CountReports, SaveBadges, ReadForList, AddForList, AnswerList
  <1>2. \E x : Goes(i, x) /\ x.pc \in {"idle", "unlocking", "listing", "adding"}
    <2>1. CASE Goes(i, Idle)
      BY <2>1 DEF Idle
    <2>2. CASE CountReports(i) /\ ~ Goes(i, Idle)
      BY <2>2 DEF CountReports
    <2>3. CASE (ReadForList(i) \/ AddForList(i)) /\ ~ Goes(i, Idle)
      <3>1. ASSUME NEW t, NEW a, NEW v, Sees(i, t, a, v)
            PROVE  \E x : Goes(i, x) /\ x.pc = "listing"
        <4>1. PICK l : l = [user |-> req[i].list.user, todo |-> req[i].list.todo \ { << t, a >> },
                            seen |-> req[i].list.seen \cup { << t, a, v >> },
                            ask |-> req[i].list.ask, found |-> req[i].list.found]
          OBVIOUS
        <4>2. Goes(i, [pc |-> "listing", list |-> l])
          BY <3>1, <4>1 DEF Sees
        <4> QED
          BY <4>2
      <3>2. CASE AddForList(i)
        <4>1. Sees(i, req[i].task, req[i].action, InitReputation)
          BY <3>2 DEF AddForList
        <4> QED
          BY <3>1, <4>1
      <3>3. CASE ReadForList(i)
        <4>1. \E t, a, v : \/ Sees(i, t, a, v)
                          \/ Goes(i, [pc |-> "adding", list |-> req[i].list, task |-> t,
                                      action |-> a])
          BY <2>3, <3>3 DEF ReadForList
        <4> QED
          BY <3>1, <4>1
      <3> QED
        BY <2>3, <3>2, <3>3
    <2>4. CASE FindStrategy(i) /\ ~ Goes(i, Idle)
      <3>1. PICK l : Goes(i, [pc |-> "listing", list |-> l])
        BY <2>4, LookMoves
      <3> QED
        BY <3>1
    <2> QED
      BY <2>1, <2>2, <2>3, <2>4 DEF AlreadyCompleted, SaveBadges, AnswerList
  <1>5. PICK x : Goes(i, x) /\ x.pc \in {"idle", "unlocking", "listing", "adding"}
    BY <1>2
  <1>3. req'[i].pc = x.pc /\ \A j \in Request \ {i} : req'[j] = req[j]
    BY <1>5 DEF Goes, TypeOK
  <1>4. UNCHANGED << outcome, paid, unpaid >>
    BY LookMoves
       DEF AlreadyCompleted, CountReports, SaveBadges, ReadForList, AddForList, AnswerList
  <1> QED
    BY <1>1, <1>3, <1>4, <1>5, StaysQuiet DEF Owed

LEMMA LoadQuiet ==
  ASSUME TypeOK, NEW i \in Request, LoadReport(i)
  PROVE  Quiet(i)
  <1>1. /\ req[i].pc = "called" /\ UNCHANGED << outcome, paid, unpaid >>
        /\ req[i].call.op = "complete" => ~ HasCompleted(ReportOf(req[i].call))
    BY DEF LoadReport
  <1>2. /\ req'[i] = [pc |-> "loaded", call |-> req[i].call]
        /\ \A j \in Request \ {i} : req'[j] = req[j]
    BY DEF LoadReport, Goes, TypeOK
  <1>3. req'[i].pc = "loaded" /\ req'[i].call = req[i].call
    BY <1>2
  <1>4. ASSUME NEW r \in Reports PROVE Owes(i, r)' <=> Owes(i, r)
    BY <1>1, <1>3 DEF Owes
  <1>5. ASSUME NEW r \in Reports, i \in Completing(r)' PROVE ~ outcome[r]["complete"] > 0
    <2>1. req[i].call.op = "complete" /\ ReportOf(req[i].call) = r
      BY <1>3, <1>5 DEF Completing, ReportOf
    <2> QED
      BY <1>1, <2>1 DEF HasCompleted
  <1> QED
    BY <1>1, <1>2, <1>3, <1>4, <1>5 DEF Quiet

LEMMA ReturnQuiet ==
  ASSUME TypeOK, NEW i \in Request, Return(i)
  PROVE  Quiet(i)
  <1>1. /\ req[i].pc = "saved" /\ req[i].call.op # "complete"
        /\ UNCHANGED << outcome, paid, unpaid >>
    BY DEF Return
  <1>2. req'[i].pc = "idle" /\ \A j \in Request \ {i} : req'[j] = req[j]
    BY DEF Return, Goes, TypeOK, Idle
  <1>3. ASSUME NEW r \in Reports
        PROVE  ~ Owes(i, r) /\ ~ Owes(i, r)' /\ i \notin Completing(r)'
    BY <1>1, <1>2 DEF Owes, Completing
  <1> QED
    BY <1>1, <1>2, <1>3 DEF Quiet

\* Looking for reputations and paying shares: what is owed stays owed, or is lost to an
\* exception.
LEMMA OwingQuiet ==
  ASSUME TypeOK, NEW i \in Request, OnlyCompletionsPay,
         \/ FindReputation(i) \/ CreateReputation(i) \/ UpdateReputation(i)
         \/ ComputePoints(i) \/ PayShare(i),
         ~ Fails(i)
  PROVE  Quiet(i)
  <1>1. req[i].pc \in Owed
    BY DEF FindReputation, CreateReputation, UpdateReputation, ComputePoints, PayShare, Owed
  <1>2. CASE PayShare(i)
    <2>1. /\ req[i].pc = "paying" /\ req[i].call.op = "complete"
          /\ UNCHANGED << outcome, paid, unpaid >>
      BY <1>2 DEF PayShare, OnlyCompletionsPay
    <2>2. PICK m \in DOMAIN req[i].group :
            req' = [req EXCEPT ![i].group =
                      [n \in DOMAIN req[i].group \ {m} |-> req[i].group[n]]]
      BY <1>2 DEF PayShare
    <2>3. PICK g : g = [n \in DOMAIN req[i].group \ {m} |-> req[i].group[n]]
      OBVIOUS
    <2>4. req'[i] = [req[i] EXCEPT !.group = g] /\ \A j \in Request \ {i} : req'[j] = req[j]
      BY <2>2, <2>3 DEF TypeOK
    <2>5. req[i] \in Working
      BY <2>1, Shapes DEF TypeOK, Idle
    <2>6. req'[i].pc = req[i].pc /\ req'[i].call = req[i].call
      BY <2>1, <2>4, <2>5 DEF Working
    <2> QED
      BY <1>1, <2>1, <2>4, <2>6, StaysQuiet DEF Owed
  <1>3. CASE ~ PayShare(i)
    <2>4. \E x : /\ Goes(i, x) /\ x.pc \in Owed /\ x.call = req[i].call
                 /\ x.pc = "paying" => x.call.op = "complete"
      <3>1. ASSUME NEW a, NEW r, NEW v, Updates(i, a, r, v)
            PROVE  \E x : Goes(i, x) /\ x.pc = "updating" /\ x.call = req[i].call
        <4>1. PICK q : q = [id |-> r, value |-> v, held |-> badges[req[i].call.user]]
          OBVIOUS
        <4>2. Goes(i, [pc |-> "updating", call |-> req[i].call, todo |-> req[i].todo,
                       action |-> a, row |-> q])
          BY <3>1, <4>1 DEF Updates
        <4> QED
          BY <4>2
      <3>2. CASE FindReputation(i)
        <4>1. \E a, r, v : \/ Updates(i, a, r, v)
                          \/ Goes(i, [pc |-> "creating", call |-> req[i].call,
                                      todo |-> req[i].todo, action |-> a])
          BY <3>2 DEF FindReputation
        <4> QED
          BY <3>1, <4>1 DEF Owed
      <3>3. CASE CreateReputation(i)
        <4>1. \E r : Updates(i, req[i].action, r, InitReputation)
          BY <3>3 DEF CreateReputation
        <4> QED
          BY <3>1, <4>1 DEF Owed
      <3>4. CASE UpdateReputation(i)
        <4>1. Goes(i, [pc |-> "saved", call |-> req[i].call,
                       todo |-> req[i].todo \ {req[i].action}])
          BY <3>4 DEF UpdateReputation
        <4> QED
          BY <4>1 DEF Owed
      <3>5. CASE ComputePoints(i)
        <4>1. PICK g : g = [m \in Receivers(req[i].call.task) |-> badges[m]]
          OBVIOUS
        <4>2. Goes(i, [pc |-> "paying", call |-> req[i].call, group |-> g])
          BY <3>5, <4>1, ComputeMoves
        <4>3. req[i].call.op = "complete"
          BY <3>5 DEF ComputePoints
        <4> QED
          BY <4>2, <4>3 DEF Owed
      <3> QED
        BY <1>3, <3>2, <3>3, <3>4, <3>5
    <2>1. PICK x : /\ Goes(i, x) /\ x.pc \in Owed /\ x.call = req[i].call
                   /\ x.pc = "paying" => x.call.op = "complete"
      BY <2>4
    <2>2. req'[i] = x /\ \A j \in Request \ {i} : req'[j] = req[j]
      BY <2>1 DEF Goes, TypeOK
    <2>3. UNCHANGED << outcome, paid, unpaid >>
      BY <1>3 DEF FindReputation, CreateReputation, UpdateReputation, ComputePoints
    <2> QED
      BY <1>1, <2>1, <2>2, <2>3, StaysQuiet
  <1> QED
    BY <1>2, <1>3

\* An exception.
LEMMA FailsPays ==
  ASSUME TypeOK, TypeOK', PaymentInv, NEW i \in Request, Fails(i), UNCHANGED << outcome, paid >>
  PROVE  PaymentInv'
  <1>1. req'[i].pc = "idle" /\ \A j \in Request \ {i} : req'[j] = req[j]
    BY DEF Fails, Goes, TypeOK, Idle
  <1>2. OnlyCompletionsPay'
    BY <1>1 DEF PaymentInv, OnlyCompletionsPay
  <1>3. ASSUME NEW r \in Reports PROVE Balanced(r)'
    <2>1. Balanced(r)
      BY Balances DEF PaymentInv
    <2>2. ~ Owes(i, r)'
      BY <1>1 DEF Owes
    <2>3. unpaid'[r] = IF Owes(i, r) THEN unpaid[r] + 1 ELSE unpaid[r]
      BY DEF Fails
    <2>4. paid[r] \in Nat /\ unpaid[r] \in Nat
      BY DEF TypeOK
    <2>5. CASE Owes(i, r)
      <3>1. paid'[r] + unpaid'[r] = paid[r] + unpaid[r] + 1
        BY <2>3, <2>4, <2>5
      <3> QED
        BY <1>1, <2>1, <2>2, <2>5, <3>1, BalanceKept
    <2>6. CASE ~ Owes(i, r)
      <3>1. unpaid'[r] = unpaid[r]
        BY <2>3, <2>6
      <3> QED
        BY <1>1, <2>1, <2>2, <2>6, <3>1, BalanceKept
    <2> QED
      BY <2>5, <2>6
  <1>4. PaymentAccounts'
    BY <1>3 DEF PaymentAccounts, Balanced, Owing
  <1>5. ASSUME NEW r \in Reports
        PROVE  outcome'[r]["complete"] > 0 =>
                 outcome'[r]["complete"] + Cardinality(Completing(r)') <= Cardinality(Request)
    <2>1. i \notin Completing(r)'
      BY <1>1 DEF Completing
    <2> QED
      BY <1>1, <2>1, CompletionKept DEF PaymentInv
  <1>6. CompletionsBounded'
    BY <1>5 DEF CompletionsBounded
  <1> QED
    BY <1>2, <1>4, <1>6 DEF PaymentInv

\* The report is saved: whoever completes it now owes the points.
LEMMA SavePays ==
  ASSUME TypeOK, TypeOK', PaymentInv, NEW i \in Request, SaveReport(i)
  PROVE  PaymentInv'
  <1>1. req[i].pc = "loaded" /\ req[i].call \in Call /\ UNCHANGED << paid, unpaid >>
    BY Shapes DEF SaveReport, TypeOK, Calling
  <1>2. PICK c \in Call : c = req[i].call
    BY <1>1
  <1>3. c.op \in Op /\ ReportOf(c) \in Reports
    BY CallType
  <1>4. /\ req'[i] = [pc |-> "saved", call |-> c, todo |-> ActionsOf[c.task]]
        /\ \A j \in Request \ {i} : req'[j] = req[j]
        /\ outcome' = [outcome EXCEPT ![ReportOf(c)][c.op] = @ + 1]
    BY <1>2 DEF SaveReport, Goes, TypeOK
  <1>5. req'[i].pc = "saved" /\ req'[i].call = c
    BY <1>4
  <1>6. OnlyCompletionsPay'
    BY <1>4, <1>5 DEF PaymentInv, OnlyCompletionsPay
  <1>7. ASSUME NEW r \in Reports
        PROVE  /\ ~ Owes(i, r) /\ i \notin Completing(r)'
               /\ Owes(i, r)' <=> c.op = "complete" /\ ReportOf(c) = r
               /\ i \in Completing(r) <=> c.op = "complete" /\ ReportOf(c) = r
    BY <1>1, <1>2, <1>5 DEF Owes, Completing, ReportOf
  <1>8. ASSUME NEW r \in Reports
        PROVE  outcome'[r]["complete"] =
                 IF c.op = "complete" /\ ReportOf(c) = r THEN outcome[r]["complete"] + 1
                                                         ELSE outcome[r]["complete"]
    BY <1>3, <1>4 DEF TypeOK, Op
  <1>9. ASSUME NEW r \in Reports PROVE Balanced(r)'
    <2>1. Balanced(r)
      BY Balances DEF PaymentInv
    <2>2. CASE c.op = "complete" /\ ReportOf(c) = r
      BY <1>1, <1>4, <1>7, <1>8, <2>1, <2>2, BalanceKept
    <2>3. CASE ~ (c.op = "complete" /\ ReportOf(c) = r)
      BY <1>1, <1>4, <1>7, <1>8, <2>1, <2>3, BalanceKept
    <2> QED
      BY <2>2, <2>3
  <1>10. PaymentAccounts'
    BY <1>9 DEF PaymentAccounts, Balanced, Owing
  <1>11. ASSUME NEW r \in Reports
         PROVE  outcome'[r]["complete"] > 0 =>
                  outcome'[r]["complete"] + Cardinality(Completing(r)') <= Cardinality(Request)
    <2>1. CASE c.op = "complete" /\ ReportOf(c) = r
      BY <1>4, <1>7, <1>8, <2>1, CompletionKept DEF PaymentInv
    <2>2. CASE ~ (c.op = "complete" /\ ReportOf(c) = r)
      BY <1>4, <1>7, <1>8, <2>2, CompletionKept DEF PaymentInv
    <2> QED
      BY <2>1, <2>2
  <1>12. CompletionsBounded'
    BY <1>11 DEF CompletionsBounded
  <1> QED
    BY <1>6, <1>10, <1>12 DEF PaymentInv

\* The points are created: nothing is owed any more.
LEMMA OwnPays ==
  ASSUME TypeOK, TypeOK', PaymentInv, NEW i \in Request, PayOwn(i)
  PROVE  PaymentInv'
  <1>1. /\ req[i].pc = "paying" /\ req[i].call \in Call /\ UNCHANGED << outcome, unpaid >>
        /\ req[i].call.op = "complete"
    BY Shapes DEF PayOwn, TypeOK, Calling, PaymentInv, OnlyCompletionsPay
  <1>2. PICK c \in Call : c = req[i].call
    BY <1>1
  <1>3. ReportOf(c) \in Reports
    BY CallType
  <1>4. /\ req'[i] = [pc |-> "counting", call |-> c]
        /\ \A j \in Request \ {i} : req'[j] = req[j]
        /\ paid' = [paid EXCEPT ![ReportOf(c)] = @ + 1]
    BY <1>2 DEF PayOwn, Goes, TypeOK
  <1>5. req'[i].pc = "counting"
    BY <1>4
  <1>6. OnlyCompletionsPay'
    BY <1>4, <1>5 DEF PaymentInv, OnlyCompletionsPay
  <1>7. ASSUME NEW r \in Reports
        PROVE  ~ Owes(i, r)' /\ i \notin Completing(r)' /\ (Owes(i, r) <=> ReportOf(c) = r)
    BY <1>1, <1>2, <1>5 DEF Owes, Completing
  <1>8. ASSUME NEW r \in Reports PROVE Balanced(r)'
    <2>1. Balanced(r)
      BY Balances DEF PaymentInv
    <2>2. paid[r] \in Nat /\ unpaid[r] \in Nat
      BY DEF TypeOK
    <2>3. paid'[r] = IF ReportOf(c) = r THEN paid[r] + 1 ELSE paid[r]
      BY <1>3, <1>4 DEF TypeOK
    <2>4. CASE ReportOf(c) = r
      <3>1. paid'[r] + unpaid'[r] = paid[r] + unpaid[r] + 1
        BY <1>1, <2>2, <2>3, <2>4
      <3> QED
        BY <1>1, <1>4, <1>7, <2>1, <2>4, <3>1, BalanceKept
    <2>5. CASE ReportOf(c) # r
      BY <1>1, <1>4, <1>7, <2>1, <2>3, <2>5, BalanceKept
    <2> QED
      BY <2>4, <2>5
  <1>9. PaymentAccounts'
    BY <1>8 DEF PaymentAccounts, Balanced, Owing
  <1>10. ASSUME NEW r \in Reports
         PROVE  outcome'[r]["complete"] > 0 =>
                  outcome'[r]["complete"] + Cardinality(Completing(r)') <= Cardinality(Request)
    BY <1>1, <1>4, <1>7, CompletionKept DEF PaymentInv
  <1>11. CompletionsBounded'
    BY <1>10 DEF CompletionsBounded
  <1> QED
    BY <1>6, <1>9, <1>11 DEF PaymentInv

\* A restart: what was owed is lost, and nobody is about to store anything.
LEMMA CrashPays ==
  ASSUME TypeOK, TypeOK', PaymentInv, Crash
  PROVE  PaymentInv'
  <1>1. \A i \in Request : req'[i].pc = "idle"
    BY DEF Crash, Idle
  <1>2. OnlyCompletionsPay'
    BY <1>1 DEF OnlyCompletionsPay
  <1>3. ASSUME NEW r \in Reports
        PROVE  /\ Balanced(r)'
               /\ outcome'[r]["complete"] > 0 =>
                    outcome'[r]["complete"] + Cardinality(Completing(r)') <= Cardinality(Request)
    <2>1. Owing(r)' = {} /\ Completing(r)' = {}
      BY <1>1 DEF Owing, Owes, Completing
    <2>2. Cardinality(Owing(r)') = 0 /\ Cardinality(Completing(r)') = 0
      BY <2>1, FS_EmptySet
    <2>3. /\ unpaid'[r] = unpaid[r] + Cardinality(Owing(r)) /\ paid'[r] = paid[r]
          /\ outcome'[r]["complete"] = outcome[r]["complete"]
      BY DEF Crash, Owing
    <2>4. /\ paid[r] \in Nat /\ unpaid[r] \in Nat /\ outcome[r]["complete"] \in Nat
      BY DEF TypeOK, Op
    <2>5. PICK m, n : m = Cardinality(Owing(r)) /\ n = Cardinality(Completing(r))
      OBVIOUS
    <2>6. m \in Nat /\ n \in Nat /\ Cardinality(Request) \in Nat
      BY <2>5, OwingIsFinite, WorkersAreFinite
    <2>7. paid[r] + unpaid[r] + m = outcome[r]["complete"]
      BY <2>5, Balances DEF PaymentInv, Balanced
    <2>8. outcome[r]["complete"] > 0 => outcome[r]["complete"] + n <= Cardinality(Request)
      BY <2>5 DEF PaymentInv, CompletionsBounded
    <2>9. unpaid'[r] = unpaid[r] + m
      BY <2>3, <2>5
    <2>10. paid'[r] + unpaid'[r] + 0 = outcome'[r]["complete"]
      BY <2>3, <2>4, <2>6, <2>7, <2>9
    <2>11. outcome'[r]["complete"] > 0 => outcome'[r]["complete"] + 0 <= Cardinality(Request)
      BY <2>3, <2>4, <2>6, <2>8
    <2> QED
      BY <2>2, <2>10, <2>11 DEF Balanced
  <1>4. PaymentAccounts'
    BY <1>3 DEF PaymentAccounts, Balanced, Owing
  <1>5. CompletionsBounded'
    BY <1>3 DEF CompletionsBounded
  <1> QED
    BY <1>2, <1>4, <1>5 DEF PaymentInv

LEMMA StepPays ==
  ASSUME TypeOK, TypeOK', PaymentInv, [Next]_vars
  PROVE  PaymentInv'
  <1>1. CASE UNCHANGED vars \/ Beside
    <2>1. UNCHANGED << outcome, paid, unpaid, req >>
      BY <1>1, BesideStands DEF vars
    <2> QED
      BY <2>1 DEF PaymentInv, OnlyCompletionsPay, PaymentAccounts, Owes, CompletionsBounded,
                  Completing
  <1>2. ASSUME NEW i \in Request, NEW u \in User,
               ListTasks(i, u) \/ \E op \in Op, t \in Task : GetUser(i, op, u, t)
        PROVE  PaymentInv'
    BY <1>2, BeginsQuiet, QuietPays
  <1>3. ASSUME NEW i \in Request, Step(i) PROVE PaymentInv'
    <2>1. CASE \/ AlreadyCompleted(i) \/ CountReports(i) \/ SaveBadges(i)
               \/ ReadForList(i) \/ AddForList(i) \/ FindStrategy(i) \/ AnswerList(i)
      BY <2>1, EndsQuiet, QuietPays
    <2>2. CASE LoadReport(i) \/ Return(i)
      BY <2>2, LoadQuiet, ReturnQuiet, QuietPays
    <2>3. CASE \/ FindReputation(i) \/ CreateReputation(i) \/ UpdateReputation(i)
               \/ ComputePoints(i) \/ PayShare(i)
      <3>1. CASE Fails(i)
        <4>1. UNCHANGED << outcome, paid >>
          BY <2>3 DEF FindReputation, CreateReputation, UpdateReputation, ComputePoints, PayShare
        <4> QED
          BY <3>1, <4>1, FailsPays
      <3>2. CASE ~ Fails(i)
        BY <2>3, <3>2, OwingQuiet, QuietPays DEF PaymentInv
      <3> QED
        BY <3>1, <3>2
    <2> QED
      BY <1>3, <2>1, <2>2, <2>3, SavePays, OwnPays DEF Step
  <1> QED
    BY <1>1, <1>2, <1>3, CrashPays DEF Next

-----------------------------------------------------------------------------
(* Reputation rows.                                                        *)

RowsInv == RowsAreFinite /\ RowsInFlight

LEMMA RowsAreCounted ==
  ASSUME RowsAreFinite, NEW u \in User, NEW y \in Type
  PROVE  /\ IsFiniteSet(RowsOf(u, y)) /\ Cardinality(RowsOf(u, y)) \in Nat
         /\ RowsOf(u, y) # {} => Cardinality(RowsOf(u, y)) > 0
  <1>1. RowsOf(u, y) \subseteq DOMAIN reputation
    BY DEF RowsOf
  <1>2. IsFiniteSet(RowsOf(u, y))
    BY <1>1, FS_Subset DEF RowsAreFinite
  <1>3. Cardinality(RowsOf(u, y)) \in Nat /\ (Cardinality(RowsOf(u, y)) = 0 => RowsOf(u, y) = {})
    BY <1>2, FS_CardinalityType, FS_EmptySet
  <1> QED
    BY <1>2, <1>3

\* The rows of u for y are n before a step of worker i and m after it.
LEMMA RowsBoundKept ==
  ASSUME RowsInFlight, NEW i \in Request, \A j \in Request \ {i} : req'[j] = req[j],
         NEW u \in User, NEW y \in Type, NEW n \in Nat, NEW m \in Nat,
         n = Cardinality(RowsOf(u, y)), m = Cardinality(RowsOf(u, y)'),
         \/ m = n /\ (n > 0 /\ Creates(i, u, y)' => Creates(i, u, y))
         \/ m = n + 1 /\ Creates(i, u, y) /\ ~ Creates(i, u, y)'
  PROVE  Cardinality(RowsOf(u, y)') > 0 =>
           Cardinality(RowsOf(u, y)') + Cardinality(Creators(u, y)') <= Cardinality(Request)
  <1>1. PICK S, T : S = Creators(u, y) /\ T = Creators(u, y)'
    OBVIOUS
  <1>2. S \in SUBSET Request /\ T \in SUBSET Request
    BY <1>1 DEF Creators
  <1>3. S \ {i} = T \ {i}
    <2>1. Creators(u, y) \ {i} = Creators(u, y)' \ {i}
      BY DEF Creators, Creates
    <2> QED
      BY <1>1, <2>1
  <1>4. n > 0 => n + Cardinality(S) <= Cardinality(Request)
    BY <1>1 DEF RowsInFlight
  <1>5. (i \in S <=> Creates(i, u, y)) /\ (i \in T <=> Creates(i, u, y)')
    <2>1. i \in Creators(u, y) <=> Creates(i, u, y)
      BY DEF Creators
    <2>2. i \in Creators(u, y)' <=> Creates(i, u, y)'
      BY DEF Creators
    <2> QED
      BY <1>1, <2>1, <2>2
  <1>6. m > 0 => m + Cardinality(T) <= Cardinality(Request)
    BY <1>2, <1>3, <1>4, <1>5, BoundKept
  <1> QED
    BY <1>1, <1>6

\* A step that keeps the rows, by a worker that starts to create a row only where there
\* is none.
LEMMA QuietRows ==
  ASSUME RowsInv, DOMAIN reputation' = DOMAIN reputation, NEW i \in Request,
         \A j \in Request \ {i} : req'[j] = req[j],
         \A u \in User, y \in Type :
           Creates(i, u, y)' => Creates(i, u, y) \/ RowsOf(u, y) = {}
  PROVE  RowsInv'
  <1>1. RowsAreFinite'
    BY DEF RowsInv, RowsAreFinite
  <1>2. ASSUME NEW u \in User, NEW y \in Type
        PROVE  Cardinality(RowsOf(u, y)') > 0 =>
                 Cardinality(RowsOf(u, y)') + Cardinality(Creators(u, y)') <= Cardinality(Request)
    <2>1. RowsOf(u, y)' = RowsOf(u, y)
      BY DEF RowsOf
    <2>2. PICK n : n = Cardinality(RowsOf(u, y))
      OBVIOUS
    <2>3. n \in Nat
      BY <2>2, RowsAreCounted DEF RowsInv
    <2>4. n = Cardinality(RowsOf(u, y)')
      BY <2>1, <2>2
    <2>5. n > 0 /\ Creates(i, u, y)' => Creates(i, u, y)
      <3>1. RowsOf(u, y) = {} => n = 0
        BY <2>2, FS_EmptySet
      <3> QED
        BY <3>1
    <2> QED
      BY <2>2, <2>3, <2>4, <2>5, RowsBoundKept DEF RowsInv
  <1>3. RowsInFlight'
    BY <1>2 DEF RowsInFlight
  <1> QED
    BY <1>1, <1>3 DEF RowsInv

\* The insert, by a worker that was to create the row and is done with it.
LEMMA AddsRow ==
  ASSUME RowsInv, NEW i \in Request, \A j \in Request \ {i} : req'[j] = req[j],
         NEW w \in User, NEW z \in Type, Adds(w, z),
         \A u \in User, y \in Type : ~ Creates(i, u, y)',
         Creates(i, w, z)
  PROVE  RowsInv'
  <1>1. PICK new : /\ new = << w, z, Cardinality(RowsOf(w, z)) + 1 >>
                   /\ DOMAIN reputation' = DOMAIN reputation \cup {new}
    BY DEF Adds
  <1>2. RowsAreFinite'
    <2>1. IsFiniteSet(DOMAIN reputation)
      BY DEF RowsInv, RowsAreFinite
    <2>2. IsFiniteSet(DOMAIN reputation \cup {new})
      BY <2>1, FS_AddElement
    <2> QED
      BY <1>1, <2>2 DEF RowsAreFinite
  <1>3. ASSUME NEW u \in User, NEW y \in Type
        PROVE  Cardinality(RowsOf(u, y)') > 0 =>
                 Cardinality(RowsOf(u, y)') + Cardinality(Creators(u, y)') <= Cardinality(Request)
    <2>1. RowsOf(u, y)' = IF u = w /\ y = z THEN RowsOf(u, y) \cup {new} ELSE RowsOf(u, y)
      <3>1. new[1] = w /\ new[2] = z
        BY <1>1
      <3> QED
        BY <1>1, <3>1 DEF RowsOf
    <2>2. PICK n, m : n = Cardinality(RowsOf(u, y)) /\ m = Cardinality(RowsOf(u, y)')
      OBVIOUS
    <2>3. n \in Nat /\ IsFiniteSet(RowsOf(u, y))
      BY <2>2, RowsAreCounted DEF RowsInv
    <2>4. m = n \/ (m = n + 1 /\ u = w /\ y = z)
      <3>1. CASE u = w /\ y = z
        <4>1. Cardinality(RowsOf(u, y) \cup {new}) \in {n, n + 1}
          BY <2>2, <2>3, FS_AddElement
        <4> QED
          BY <2>1, <2>2, <3>1, <4>1
      <3>2. CASE ~ (u = w /\ y = z)
        BY <2>1, <2>2, <3>2
      <3> QED
        BY <3>1, <3>2
    <2>5. m \in Nat
      BY <2>3, <2>4
    <2>6. \/ m = n /\ (n > 0 /\ Creates(i, u, y)' => Creates(i, u, y))
          \/ m = n + 1 /\ Creates(i, u, y) /\ ~ Creates(i, u, y)'
      BY <2>4
    <2> QED
      BY <2>2, <2>3, <2>5, <2>6, RowsBoundKept DEF RowsInv
  <1>4. RowsInFlight'
    BY <1>3 DEF RowsInFlight
  <1> QED
    BY <1>2, <1>4 DEF RowsInv

\* A worker that creates nothing now.
LEMMA CreatesNothing ==
  ASSUME NEW i \in Request, req'[i].pc \notin {"creating", "adding"}
  PROVE  \A u, y : ~ Creates(i, u, y)'
  BY DEF Creates

LEMMA StepRows ==
  ASSUME TypeOK, RowsInv, [Next]_vars
  PROVE  RowsInv'
  <1>1. CASE UNCHANGED vars \/ Beside
    <2>1. UNCHANGED << req, reputation >>
      BY <1>1, BesideStands DEF vars
    <2> QED
      BY <2>1 DEF RowsInv, RowsAreFinite, RowsInFlight, RowsOf, Creators, Creates
  <1>2. ASSUME NEW i \in Request, UNCHANGED reputation,
               \E x : Goes(i, x) /\ x.pc \notin {"creating", "adding"}
        PROVE  RowsInv'
    <2>1. req'[i].pc \notin {"creating", "adding"} /\ \A j \in Request \ {i} : req'[j] = req[j]
      BY <1>2 DEF Goes, TypeOK
    <2> QED
      BY <1>2, <2>1, CreatesNothing, QuietRows
  <1>3. ASSUME NEW i \in Request, NEW u \in User,
               ListTasks(i, u) \/ \E op \in Op, t \in Task : GetUser(i, op, u, t)
        PROVE  RowsInv'
    <2>1. UNCHANGED reputation
      BY <1>3 DEF ListTasks, GetUser
    <2>2. /\ req'[i].pc \notin {"creating", "adding"} /\ \A j \in Request \ {i} : req'[j] = req[j]
      BY <1>3 DEF ListTasks, GetUser, Goes, TypeOK
    <2> QED
      BY <2>1, <2>2, CreatesNothing, QuietRows
  <1>4. ASSUME NEW i \in Request, Step(i) PROVE RowsInv'
    <2>1. CASE \/ AlreadyCompleted(i) \/ LoadReport(i) \/ SaveReport(i) \/ Return(i)
               \/ PayOwn(i) \/ SaveBadges(i) \/ AnswerList(i)
      <3>1. UNCHANGED reputation
        BY <2>1 DEF AlreadyCompleted, LoadReport, SaveReport, Return, PayOwn, SaveBadges,
                    AnswerList
      <3>2. \E x : Goes(i, x) /\ x.pc \notin {"creating", "adding"}
        <4>1. CASE Goes(i, Idle)
          BY <4>1 DEF Idle
        <4>2. CASE LoadReport(i)
          BY <4>2 DEF LoadReport
        <4>3. CASE SaveReport(i)
          <5>1. Goes(i, [pc |-> "saved", call |-> req[i].call, todo |-> ActionsOf[req[i].call.task]])
            BY <4>3 DEF SaveReport
          <5> QED
            BY <5>1
        <4>4. CASE PayOwn(i)
          BY <4>4 DEF PayOwn
        <4> QED
          BY <2>1, <4>1, <4>2, <4>3, <4>4 DEF AlreadyCompleted, Return, SaveBadges, AnswerList
      <3> QED
        BY <1>2, <3>1, <3>2
    <2>2. CASE FindReputation(i)
      <3>1. PICK a \in req[i].todo :
              LET rows == RowsOf(req[i].call.user, TypeOf[a]) IN
                \/ /\ rows = {}
                   /\ Goes(i, [pc |-> "creating", call |-> req[i].call,
                               todo |-> req[i].todo, action |-> a])
                \/ \E r \in rows : Updates(i, a, r, reputation[r])
                \/ Fails(i)
        BY <2>2 DEF FindReputation
      <3>2. UNCHANGED reputation
        BY <2>2 DEF FindReputation
      <3>3. CASE Fails(i)
        <4>1. Goes(i, Idle)
          BY <3>3 DEF Fails
        <4> QED
          BY <1>2, <3>2, <4>1 DEF Idle
      <3>4. ASSUME NEW r, Updates(i, a, r, reputation[r]) PROVE RowsInv'
        <4>1. PICK q : q = [id |-> r, value |-> reputation[r], held |-> badges[req[i].call.user]]
          OBVIOUS
        <4>2. Goes(i, [pc |-> "updating", call |-> req[i].call, todo |-> req[i].todo,
                       action |-> a, row |-> q])
          BY <3>4, <4>1 DEF Updates
        <4> QED
          BY <1>2, <3>2, <4>2
      <3>5. CASE /\ RowsOf(req[i].call.user, TypeOf[a]) = {}
                 /\ Goes(i, [pc |-> "creating", call |-> req[i].call,
                             todo |-> req[i].todo, action |-> a])
        <4>1. /\ req'[i] = [pc |-> "creating", call |-> req[i].call,
                            todo |-> req[i].todo, action |-> a]
              /\ \A j \in Request \ {i} : req'[j] = req[j]
          BY <3>5 DEF Goes, TypeOK
        <4>2. req'[i].pc = "creating" /\ req'[i].call = req[i].call /\ req'[i].action = a
          BY <4>1
        <4>3. ASSUME NEW u \in User, NEW y \in Type, Creates(i, u, y)'
              PROVE  RowsOf(u, y) = {}
          BY <3>5, <4>2, <4>3 DEF Creates
        <4> QED
          BY <3>2, <4>1, <4>3, QuietRows
      <3> QED
        BY <3>1, <3>3, <3>4, <3>5
    <2>3. CASE CreateReputation(i)
      <3>1. /\ req[i].pc = "creating" /\ req[i].call \in Call /\ req[i].action \in Action
        BY <2>3, Shapes DEF CreateReputation, TypeOK, Calling
      <3>2. PICK w \in User, z \in Type : w = req[i].call.user /\ z = TypeOf[req[i].action]
        BY <3>1, CallType
      <3>3. Adds(w, z) /\ \E r : Updates(i, req[i].action, r, InitReputation)
        BY <2>3, <3>2 DEF CreateReputation, Adds
      <3>4. req'[i].pc = "updating" /\ \A j \in Request \ {i} : req'[j] = req[j]
        BY <3>3 DEF Updates, Goes, TypeOK
      <3>5. Creates(i, w, z)
        BY <3>1, <3>2 DEF Creates
      <3> QED
        BY <3>3, <3>4, <3>5, CreatesNothing, AddsRow
    <2>4. CASE UpdateReputation(i)
      <3>1. PICK q, v : reputation' = [reputation EXCEPT ![q] = v]
        BY <2>4 DEF UpdateReputation
      <3>2. DOMAIN reputation' = DOMAIN reputation
        BY <3>1
      <3>3. Goes(i, [pc |-> "saved", call |-> req[i].call, todo |-> req[i].todo \ {req[i].action}])
        BY <2>4 DEF UpdateReputation
      <3>4. req'[i].pc = "saved" /\ \A j \in Request \ {i} : req'[j] = req[j]
        BY <3>3 DEF Goes, TypeOK
      <3> QED
        BY <3>2, <3>4, CreatesNothing, QuietRows
    <2>5. CASE ComputePoints(i)
      <3>1. PICK g : g = [m \in Receivers(req[i].call.task) |-> badges[m]]
        OBVIOUS
      <3>2. /\ UNCHANGED reputation
            /\ Goes(i, Idle) \/ Goes(i, [pc |-> "paying", call |-> req[i].call, group |-> g])
        BY <2>5, <3>1, ComputeMoves DEF Fails
      <3> QED
        BY <1>2, <3>2 DEF Idle
    <2>6. CASE PayShare(i)
      <3>1. req[i].pc = "paying" /\ UNCHANGED reputation
        BY <2>6 DEF PayShare
      <3>2. PICK m \in DOMAIN req[i].group :
              req' = [req EXCEPT ![i].group =
                        [n \in DOMAIN req[i].group \ {m} |-> req[i].group[n]]]
        BY <2>6 DEF PayShare
      <3>3. PICK g : g = [n \in DOMAIN req[i].group \ {m} |-> req[i].group[n]]
        OBVIOUS
      <3>4. req'[i] = [req[i] EXCEPT !.group = g] /\ \A j \in Request \ {i} : req'[j] = req[j]
        BY <3>2, <3>3 DEF TypeOK
      <3>5. req[i] \in Working
        BY <3>1, Shapes DEF TypeOK, Idle
      <3>6. req'[i].pc = "paying"
        BY <3>1, <3>4, <3>5 DEF Working
      <3> QED
        BY <3>1, <3>4, <3>6, CreatesNothing, QuietRows
    <2>7. CASE CountReports(i)
      <3>1. /\ UNCHANGED reputation
            /\ \/ Goes(i, Idle)
               \/ \E n : Goes(i, [pc |-> "unlocking", call |-> req[i].call, new |-> n])
        BY <2>7 DEF CountReports
      <3>2. CASE Goes(i, Idle)
        BY <1>2, <3>1, <3>2 DEF Idle
      <3>3. ASSUME NEW n, Goes(i, [pc |-> "unlocking", call |-> req[i].call, new |-> n])
            PROVE  RowsInv'
        BY <1>2, <3>1, <3>3
      <3> QED
        BY <3>1, <3>2, <3>3
    <2>8. CASE ReadForList(i)
      <3>1. PICK t \in Task, a \in Action :
              LET rows == RowsOf(req[i].list.user, TypeOf[a]) IN
                \/ /\ rows = {}
                   /\ Goes(i, [pc |-> "adding", list |-> req[i].list, task |-> t, action |-> a])
                \/ \E r \in rows : Sees(i, t, a, reputation[r])
                \/ Goes(i, Idle)
        BY <2>8 DEF ReadForList
      <3>2. UNCHANGED reputation
        BY <2>8 DEF ReadForList
      <3>3. CASE Goes(i, Idle)
        BY <1>2, <3>2, <3>3 DEF Idle
      <3>4. ASSUME NEW r, Sees(i, t, a, reputation[r]) PROVE RowsInv'
        <4>1. PICK l : l = [user |-> req[i].list.user,
                            todo |-> req[i].list.todo \ { << t, a >> },
                            seen |-> req[i].list.seen \cup { << t, a, reputation[r] >> },
                            ask |-> req[i].list.ask, found |-> req[i].list.found]
          OBVIOUS
        <4>2. Goes(i, [pc |-> "listing", list |-> l])
          BY <3>4, <4>1 DEF Sees
        <4> QED
          BY <1>2, <3>2, <4>2
      <3>5. CASE /\ RowsOf(req[i].list.user, TypeOf[a]) = {}
                 /\ Goes(i, [pc |-> "adding", list |-> req[i].list, task |-> t, action |-> a])
        <4>1. /\ req'[i] = [pc |-> "adding", list |-> req[i].list, task |-> t, action |-> a]
              /\ \A j \in Request \ {i} : req'[j] = req[j]
          BY <3>5 DEF Goes, TypeOK
        <4>2. req'[i].pc = "adding" /\ req'[i].list = req[i].list /\ req'[i].action = a
          BY <4>1
        <4>3. ASSUME NEW u \in User, NEW y \in Type, Creates(i, u, y)'
              PROVE  RowsOf(u, y) = {}
          BY <3>5, <4>2, <4>3 DEF Creates
        <4> QED
          BY <3>2, <4>1, <4>3, QuietRows
      <3> QED
        BY <3>1, <3>3, <3>4, <3>5
    <2>9. CASE AddForList(i)
      <3>1. req[i].pc = "adding" /\ req[i].list \in List /\ req[i].action \in Action
        BY <2>9, Shapes DEF AddForList, TypeOK
      <3>2. PICK w \in User, z \in Type : w = req[i].list.user /\ z = TypeOf[req[i].action]
        BY <3>1 DEF List
      <3>3. Adds(w, z) /\ Sees(i, req[i].task, req[i].action, InitReputation)
        BY <2>9, <3>2 DEF AddForList, Adds
      <3>4. req'[i].pc = "listing" /\ \A j \in Request \ {i} : req'[j] = req[j]
        BY <3>3 DEF Sees, Goes, TypeOK
      <3>5. Creates(i, w, z)
        BY <3>1, <3>2 DEF Creates
      <3> QED
        BY <3>3, <3>4, <3>5, CreatesNothing, AddsRow
    <2>10. CASE FindStrategy(i)
      <3>1. CASE Goes(i, Idle)
        BY <1>2, <2>10, <3>1, LookMoves DEF Idle
      <3>2. CASE ~ Goes(i, Idle)
        <4>1. PICK l : Goes(i, [pc |-> "listing", list |-> l])
          BY <2>10, <3>2, LookMoves
        <4> QED
          BY <1>2, <2>10, <4>1, LookMoves
      <3> QED
        BY <3>1, <3>2
    <2> QED
      BY <1>4, <2>1, <2>2, <2>3, <2>4, <2>5, <2>6, <2>7, <2>8, <2>9, <2>10 DEF Step
  <1>5. CASE Crash
    <2>1. UNCHANGED reputation /\ \A i \in Request : req'[i].pc = "idle"
      BY <1>5 DEF Crash, Idle
    <2>2. RowsAreFinite'
      BY <2>1 DEF RowsInv, RowsAreFinite
    <2>3. ASSUME NEW u \in User, NEW y \in Type
          PROVE  Cardinality(RowsOf(u, y)') > 0 =>
                   Cardinality(RowsOf(u, y)') + Cardinality(Creators(u, y)') <= Cardinality(Request)
      <3>1. Creators(u, y)' = {}
        BY <2>1 DEF Creators, Creates
      <3>2. RowsOf(u, y)' = RowsOf(u, y)
        BY <2>1 DEF RowsOf
      <3>3. PICK n, m : n = Cardinality(RowsOf(u, y)) /\ m = Cardinality(Creators(u, y))
        OBVIOUS
      <3>4. Creators(u, y) \in SUBSET Request
        BY DEF Creators
      <3>5. n \in Nat /\ m \in Nat /\ Cardinality(Request) \in Nat
        BY <3>3, <3>4, RowsAreCounted, WorkersAreFinite DEF RowsInv
      <3>6. n > 0 => n + m <= Cardinality(Request)
        BY <3>3 DEF RowsInv, RowsInFlight
      <3>7. n > 0 => n + 0 <= Cardinality(Request)
        BY <3>5, <3>6
      <3> QED
        BY <3>1, <3>2, <3>3, <3>7, FS_EmptySet
    <2> QED
      BY <2>2, <2>3 DEF RowsInv, RowsInFlight
  <1> QED
    BY <1>1, <1>3, <1>4, <1>5 DEF Next

-----------------------------------------------------------------------------
(* The theorems.                                                           *)

LEMMA InitInv == Init => IInv
  <1> SUFFICES ASSUME Init PROVE IInv
    OBVIOUS
  <1>1. TypeOK
    <2>1. outcome \in [Reports -> [Op -> Nat]] /\ current \in [Reports -> Op \cup {"none"}]
      BY DEF Init
    <2>2. /\ paid \in [Reports -> Nat] /\ shares \in [Reports -> Nat]
          /\ unpaid \in [Reports -> Nat] /\ badges \in [User -> SUBSET Badge]
      BY DEF Init
    <2>3. req \in [Request -> {Idle} \cup Working]
      BY DEF Init
    <2>4. started \in 0 .. MaxRequests /\ crashes \in 0 .. MaxCrashes
      BY DEF Init
    <2>5. DOMAIN reputation = {}
      BY DEF Init
    <2>6. /\ strategies \in [Task -> Nat] /\ byDefault \in [Task -> Nat]
          /\ form \in [Form -> {Closed} \cup OpenForm] /\ reverted \subseteq User
      BY DEF Init
    <2> QED
      BY <2>1, <2>2, <2>3, <2>4, <2>5, <2>6 DEF TypeOK
  <1>2. \A i \in Request : req[i].pc = "idle"
    <2>1. \A i \in Request : req[i] = Idle
      BY DEF Init
    <2> QED
      BY <2>1 DEF Idle
  <1>3. OnlyCompletionsPay
    BY <1>2 DEF OnlyCompletionsPay
  <1>4. ASSUME NEW r \in Reports
        PROVE  /\ paid[r] = 0 /\ unpaid[r] = 0 /\ outcome[r]["complete"] = 0
               /\ { i \in Request : Owes(i, r) } = {}
    <2>1. paid[r] = 0 /\ unpaid[r] = 0
      BY DEF Init
    <2>2. outcome[r]["complete"] = 0
      BY DEF Init, Op
    <2>3. \A i \in Request : ~ Owes(i, r)
      BY <1>2 DEF Owes
    <2> QED
      BY <2>1, <2>2, <2>3
  <1>5. PaymentAccounts
    <2>1. ASSUME NEW r \in Reports
          PROVE  paid[r] + unpaid[r] + Cardinality({ i \in Request : Owes(i, r) })
                   = outcome[r]["complete"]
      <3>1. Cardinality({ i \in Request : Owes(i, r) }) = 0
        BY <1>4, FS_EmptySet
      <3>2. paid[r] + unpaid[r] + 0 = outcome[r]["complete"]
        BY <1>4
      <3> QED
        BY <3>1, <3>2
    <2> QED
      BY <2>1 DEF PaymentAccounts
  <1>6. CompletionsBounded
    BY <1>4 DEF CompletionsBounded
  <1>7. DOMAIN reputation = {}
    BY DEF Init
  <1>8. RowsAreFinite
    BY <1>7, FS_EmptySet DEF RowsAreFinite
  <1>9. ASSUME NEW u \in User, NEW y \in Type PROVE Cardinality(RowsOf(u, y)) = 0
    <2>1. RowsOf(u, y) = {}
      BY <1>7 DEF RowsOf
    <2> QED
      BY <2>1, FS_EmptySet
  <1>10. RowsInFlight
    BY <1>9 DEF RowsInFlight
  <1> QED
    BY <1>1, <1>3, <1>5, <1>6, <1>8, <1>10 DEF IInv

LEMMA Invariance == Spec => []IInv
  <1>1. IInv /\ [Next]_vars => IInv'
    <2> SUFFICES ASSUME IInv, [Next]_vars PROVE IInv'
      OBVIOUS
    <2>1. TypeOK'
      BY StepType DEF IInv
    <2>2. PaymentInv'
      BY <2>1, StepPays DEF IInv, PaymentInv
    <2>3. RowsInv'
      BY StepRows DEF IInv, RowsInv
    <2> QED
      BY <2>1, <2>2, <2>3 DEF IInv, PaymentInv, RowsInv
  <1> QED
    BY <1>1, InitInv, PTL DEF Spec

\* Reports, reputations, points, badges and what the handlers carry keep their types; a
\* reputation stays in its range, whoever writes it back and however late.
THEOREM TypeCorrect == Spec => []TypeOK
  <1>1. IInv => TypeOK
    BY DEF IInv
  <1> QED
    BY <1>1, Invariance, PTL

\* Every completion completeTask stored was paid once, is on its way to being paid, or was
\* lost to an exception or a restart.
THEOREM PaymentsAreAccounted == Spec => []PaymentAccounts
  <1>1. IInv => PaymentAccounts
    BY DEF IInv
  <1> QED
    BY <1>1, Invariance, PTL

\* getReputationByUserAndActionType creates no more rows than workers were between its
\* query and its insert when the first was committed.
THEOREM RowsAreBounded == Spec => []OneRowPerWorker
  <1>1. IInv => OneRowPerWorker
    <2> SUFFICES ASSUME IInv, NEW u \in User, NEW y \in Type
                 PROVE  Cardinality(RowsOf(u, y)) <= Cardinality(Request)
      BY DEF OneRowPerWorker
    <2>1. PICK n, m : n = Cardinality(RowsOf(u, y)) /\ m = Cardinality(Creators(u, y))
      OBVIOUS
    <2>2. Creators(u, y) \in SUBSET Request
      BY DEF Creators
    <2>3. n \in Nat /\ m \in Nat /\ Cardinality(Request) \in Nat
      BY <2>1, <2>2, RowsAreCounted, WorkersAreFinite DEF IInv
    <2>4. n > 0 => n + m <= Cardinality(Request)
      BY <2>1 DEF IInv, RowsInFlight
    <2>5. n <= Cardinality(Request)
      BY <2>3, <2>4
    <2> QED
      BY <2>1, <2>5
  <1> QED
    BY <1>1, Invariance, PTL

\* With one worker thread the reputation of a user for an action type is created once, as
\* the code assumes when it asks for a single result.
THEOREM OneRowInTurn == Cardinality(Request) = 1 => (Spec => []OneReputationRow)
  <1> SUFFICES ASSUME Cardinality(Request) = 1 PROVE Spec => []OneReputationRow
    OBVIOUS
  <1>1. OneRowPerWorker => OneReputationRow
    BY DEF OneRowPerWorker, OneReputationRow
  <1> QED
    BY <1>1, RowsAreBounded, PTL

\* With one worker thread completeTask pays a user once for a task, however often the phone
\* repeats the call, whatever it reports in between and wherever a restart cuts it off.
THEOREM PaidInTurn == Cardinality(Request) = 1 => (Spec => []PaidOnce)
  <1> SUFFICES ASSUME Cardinality(Request) = 1 PROVE Spec => []PaidOnce
    OBVIOUS
  <1>1. IInv => PaidOnce
    <2> SUFFICES ASSUME IInv, NEW r \in Reports PROVE paid[r] <= 1
      BY DEF PaidOnce
    <2>1. /\ paid[r] \in Nat /\ unpaid[r] \in Nat /\ outcome[r]["complete"] \in Nat
      BY DEF IInv, TypeOK, Op
    <2>2. PICK n, m : n = Cardinality(Owing(r)) /\ m = Cardinality(Completing(r))
      OBVIOUS
    <2>3. n \in Nat /\ m \in Nat
      BY <2>2, OwingIsFinite
    <2>4. paid[r] + unpaid[r] + n = outcome[r]["complete"]
      BY <2>2, Balances DEF IInv, Balanced
    <2>5. outcome[r]["complete"] > 0 => outcome[r]["complete"] + m <= 1
      BY <2>2 DEF IInv, CompletionsBounded
    <2> QED
      BY <2>1, <2>3, <2>4, <2>5
  <1> QED
    BY <1>1, Invariance, PTL

-----------------------------------------------------------------------------
(* Badges, with one worker thread.                                         *)

\* A copy of the badges of u, but for the users a flow has written back.
Fresh(u, held) == u \notin reverted => held = badges[u]

\* What a worker knows of a user's badges: of the user it serves, of the user object
\* of the reputation it will save, and of the members of a group.
Current(i) ==
  /\ req[i].pc \in Calling => Fresh(req[i].call.user, req[i].call.held)
  /\ req[i].pc = "updating" => Fresh(req[i].call.user, req[i].row.held)
  /\ req[i].pc = "paying" => \A m \in DOMAIN req[i].group : Fresh(m, req[i].group[m])

CopiesAreCurrent == \A i \in Request : Current(i)

BadgesGrow == \A u \in User \ reverted' : badges[u] \subseteq badges'[u]

\* Badges change only where a flow wrote some back.
BadgesStand ==
  /\ reverted \subseteq reverted'
  /\ \A u \in User \ reverted' : badges'[u] = badges[u]

\* The copies of the user a worker serves and of the members it pays stay as they are.
LEMMA CopiesStay ==
  ASSUME TypeOK, NEW i \in Request, Current(i), BadgesStand
  PROVE  /\ req[i].pc \in Calling =>
              (req[i].call.user \notin reverted' => req[i].call.held = badges'[req[i].call.user])
         /\ req[i].pc = "paying" =>
              \A m \in DOMAIN req[i].group :
                m \notin reverted' => req[i].group[m] = badges'[m]
  <1>1. req[i] \in {Idle} \cup Working
    BY DEF TypeOK
  <1>2. req[i].pc \in Calling => req[i].call.user \in User
    BY <1>1, Shapes, CallType
  <1>3. ASSUME req[i].pc = "paying" PROVE DOMAIN req[i].group \subseteq User
    <2>1. req[i].group \in Members
      BY <1>1, <1>3, Shapes
    <2> QED
      BY <2>1 DEF Members
  <1> QED
    BY <1>2, <1>3 DEF Current, BadgesStand, Fresh

\* The steps of a worker, whatever they do to the badges of users written back before.
LEMMA WorkersStayCurrent ==
  ASSUME TypeOK, NEW i \in Request, Current(i), BadgesStand, Step(i)
  PROVE  Current(i)'
  <1>1. req[i] \in {Idle} \cup Working /\ req \in [Request -> {Idle} \cup Working]
    BY DEF TypeOK
  <1>2. Idle.pc = "idle"
    BY DEF Idle
  <1>3. /\ req[i].pc \in Calling =>
             (req[i].call.user \notin reverted' => req[i].call.held = badges'[req[i].call.user])
        /\ req[i].pc = "paying" =>
             \A m \in DOMAIN req[i].group :
               m \notin reverted' => req[i].group[m] = badges'[m]
    BY CopiesStay
  <1>4. ASSUME req'[i].pc \notin Calling PROVE Current(i)'
    BY <1>4 DEF Current, Calling
  <1>5. ASSUME req[i].pc \in Calling, req'[i].call = req[i].call,
               req'[i].pc \notin {"updating", "paying"}
        PROVE  Current(i)'
    BY <1>3, <1>5 DEF Current, Fresh
  <1>6. ASSUME req[i].pc \in Calling, UNCHANGED badges, NEW a, NEW r, NEW v, Updates(i, a, r, v)
        PROVE  Current(i)'
    <2>1. PICK q : q = [id |-> r, value |-> v, held |-> badges[req[i].call.user]]
      OBVIOUS
    <2>2. req'[i] = [pc |-> "updating", call |-> req[i].call, todo |-> req[i].todo,
                     action |-> a, row |-> q]
      BY <1>1, <1>6, <2>1 DEF Updates, Goes
    <2>3. /\ req'[i].pc = "updating" /\ req'[i].call = req[i].call
          /\ req'[i].row.held = badges'[req[i].call.user]
      BY <1>6, <2>1, <2>2
    <2> QED
      BY <1>3, <1>6, <2>3 DEF Current, Fresh
  <1>7. ASSUME Goes(i, Idle) PROVE Current(i)'
    <2>1. req'[i] = Idle
      BY <1>1, <1>7 DEF Goes
    <2> QED
      BY <1>2, <1>4, <2>1 DEF Calling
  <1>8. CASE AlreadyCompleted(i) \/ Return(i) \/ AnswerList(i) \/ SaveBadges(i)
    BY <1>7, <1>8 DEF AlreadyCompleted, Return, AnswerList, SaveBadges
  <1>9. CASE LoadReport(i) \/ SaveReport(i) \/ UpdateReputation(i) \/ PayOwn(i)
    <2>1. \/ req[i].pc = "called" /\ Goes(i, [pc |-> "loaded", call |-> req[i].call])
          \/ /\ req[i].pc = "loaded"
             /\ \E todo : Goes(i, [pc |-> "saved", call |-> req[i].call, todo |-> todo])
          \/ /\ req[i].pc = "updating"
             /\ \E todo : Goes(i, [pc |-> "saved", call |-> req[i].call, todo |-> todo])
          \/ req[i].pc = "paying" /\ Goes(i, [pc |-> "counting", call |-> req[i].call])
      <3>1. CASE LoadReport(i)
        BY <3>1 DEF LoadReport
      <3>2. CASE SaveReport(i)
        BY <3>2 DEF SaveReport
      <3>3. CASE UpdateReputation(i)
        BY <3>3 DEF UpdateReputation
      <3>4. CASE PayOwn(i)
        BY <3>4 DEF PayOwn
      <3> QED
        BY <1>9, <3>1, <3>2, <3>3, <3>4
    <2>2. /\ req[i].pc \in Calling /\ req'[i].call = req[i].call
          /\ req'[i].pc \in {"loaded", "saved", "counting"}
      BY <1>1, <2>1 DEF Goes, Calling
    <2> QED
      BY <1>5, <2>2
  <1>10. CASE FindReputation(i)
    <2>1. req[i].pc \in Calling /\ UNCHANGED badges
      BY <1>10 DEF FindReputation, Calling
    <2>2. \/ Goes(i, Idle)
          \/ \E a : Goes(i, [pc |-> "creating", call |-> req[i].call,
                            todo |-> req[i].todo, action |-> a])
          \/ \E a, r, v : Updates(i, a, r, v)
      BY <1>10 DEF FindReputation, Fails
    <2>3. ASSUME NEW a, Goes(i, [pc |-> "creating", call |-> req[i].call,
                                 todo |-> req[i].todo, action |-> a])
          PROVE  Current(i)'
      <3>1. req'[i].pc = "creating" /\ req'[i].call = req[i].call
        BY <1>1, <2>3 DEF Goes
      <3> QED
        BY <1>5, <2>1, <3>1
    <2> QED
      BY <1>6, <1>7, <2>1, <2>2, <2>3
  <1>11. CASE CreateReputation(i)
    <2>1. req[i].pc \in Calling /\ UNCHANGED badges
      BY <1>11 DEF CreateReputation, Calling
    <2>2. \E a, r, v : Updates(i, a, r, v)
      BY <1>11 DEF CreateReputation
    <2> QED
      BY <1>6, <2>1, <2>2
  <1>12. CASE ComputePoints(i)
    <2>1. /\ req[i].pc \in Calling /\ UNCHANGED badges
          /\ \/ Goes(i, [pc |-> "paying", call |-> req[i].call,
                         group |-> [m \in Receivers(req[i].call.task) |-> badges[m]]])
             \/ Goes(i, Idle)
      BY <1>12, ComputeMoves DEF Fails, Calling
    <2>2. CASE Goes(i, [pc |-> "paying", call |-> req[i].call,
                        group |-> [m \in Receivers(req[i].call.task) |-> badges[m]]])
      <3>1. PICK g : g = [m \in Receivers(req[i].call.task) |-> badges[m]]
        OBVIOUS
      <3>2. req'[i] = [pc |-> "paying", call |-> req[i].call, group |-> g]
        BY <1>1, <2>2, <3>1 DEF Goes
      <3>3. req'[i].pc = "paying" /\ req'[i].call = req[i].call /\ req'[i].group = g
        BY <3>2
      <3>4. \A m \in DOMAIN g : g[m] = badges'[m]
        BY <2>1, <3>1
      <3> QED
        BY <1>3, <2>1, <3>3, <3>4 DEF Current, Fresh
    <2> QED
      BY <1>7, <2>1, <2>2
  <1>13. CASE PayShare(i)
    <2>1. req[i].pc = "paying" /\ req[i] \in Working
      BY <1>1, <1>2, <1>13 DEF PayShare
    <2>2. PICK m \in DOMAIN req[i].group :
            req' = [req EXCEPT ![i].group =
                      [n \in DOMAIN req[i].group \ {m} |-> req[i].group[n]]]
      BY <1>13 DEF PayShare
    <2>3. PICK g : g = [n \in DOMAIN req[i].group \ {m} |-> req[i].group[n]]
      OBVIOUS
    <2>4. req'[i] = [req[i] EXCEPT !.group = g]
      BY <1>1, <2>2, <2>3
    <2>5. req'[i].pc = "paying" /\ req'[i].call = req[i].call /\ req'[i].group = g
      BY <2>1, <2>4 DEF Working
    <2>6. \A n \in DOMAIN g : n \in DOMAIN req[i].group /\ g[n] = req[i].group[n]
      BY <2>3
    <2> QED
      BY <1>3, <2>1, <2>5, <2>6 DEF Current, Fresh, Calling
  <1>14. CASE CountReports(i)
    <2>1. PICK new : new = Unlocked(req[i].call)
      OBVIOUS
    <2>2. /\ req[i].pc \in Calling
          /\ \/ Goes(i, Idle)
             \/ Goes(i, [pc |-> "unlocking", call |-> req[i].call, new |-> new])
      BY <1>14, <2>1 DEF CountReports, Calling
    <2>3. CASE Goes(i, [pc |-> "unlocking", call |-> req[i].call, new |-> new])
      <3>1. req'[i].pc = "unlocking" /\ req'[i].call = req[i].call
        BY <1>1, <2>3 DEF Goes
      <3> QED
        BY <1>5, <2>2, <3>1
    <2> QED
      BY <1>7, <2>2, <2>3
  <1>15. CASE ReadForList(i) \/ AddForList(i) \/ FindStrategy(i)
    <2>1. \/ Goes(i, Idle)
          \/ \E t, a : Goes(i, [pc |-> "adding", list |-> req[i].list, task |-> t, action |-> a])
          \/ \E l : Goes(i, [pc |-> "listing", list |-> l])
      <3>1. CASE ReadForList(i)
        BY <3>1 DEF ReadForList, Sees
      <3>2. CASE AddForList(i)
        BY <3>2 DEF AddForList, Sees
      <3> QED
        BY <1>15, <3>1, <3>2, LookMoves
    <2>2. req'[i].pc \in {"idle", "listing", "adding"}
      BY <1>1, <1>2, <2>1 DEF Goes
    <2> QED
      BY <1>4, <2>2 DEF Calling
  <1> QED
    BY <1>8, <1>9, <1>10, <1>11, <1>12, <1>13, <1>14, <1>15 DEF Step

\* A merge of a fresh copy changes nothing.
LEMMA MergesChangeNothing ==
  ASSUME TypeOK, NEW i \in Request, Current(i),
         UpdateReputation(i) \/ PayShare(i) \/ PayOwn(i)
  PROVE  BadgesStand
  <1>1. badges \in [User -> SUBSET Badge]
    BY DEF TypeOK
  <1>2. UNCHANGED reverted
    BY DEF UpdateReputation, PayShare, PayOwn
  <1>3. PICK u, held : badges' = [badges EXCEPT ![u] = held] /\ Fresh(u, held)
    <2>1. CASE UpdateReputation(i)
      BY <2>1 DEF UpdateReputation, Current
    <2>2. CASE PayShare(i)
      BY <2>2 DEF PayShare, Current
    <2>3. CASE PayOwn(i)
      BY <2>3 DEF PayOwn, Current, Calling
    <2> QED
      BY <2>1, <2>2, <2>3
  <1> QED
    BY <1>1, <1>2, <1>3 DEF BadgesStand, Fresh

\* The only worker takes a step, or a flow does.
LEMMA StepKeepsBadges ==
  ASSUME TypeOK, CopiesAreCurrent, NEW w, Request = {w}, [Next]_vars
  PROVE  CopiesAreCurrent' /\ BadgesGrow
  <1>1. badges \in [User -> SUBSET Badge] /\ req \in [Request -> {Idle} \cup Working]
    BY DEF TypeOK
  <1>2. Current(w) /\ w \in Request
    BY DEF CopiesAreCurrent
  <1>3. SUFFICES Current(w)' /\ BadgesGrow
    BY DEF CopiesAreCurrent
  <1>4. Idle.pc = "idle"
    BY DEF Idle
  <1>5. BadgesStand => BadgesGrow
    BY DEF BadgesStand, BadgesGrow
  <1>6. ASSUME UNCHANGED << req, badges, reverted >> PROVE Current(w)' /\ BadgesGrow
    BY <1>2, <1>6 DEF Current, Fresh, BadgesGrow
  <1>7. CASE UNCHANGED vars
    BY <1>6, <1>7 DEF vars
  <1>8. CASE \E op \in Op, u \in User, t \in Task : GetUser(w, op, u, t)
    <2>1. PICK op \in Op, u \in User, t \in Task : GetUser(w, op, u, t)
      BY <1>8
    <2>2. /\ req'[w] = [pc |-> "called",
                        call |-> [op |-> op, user |-> u, task |-> t, held |-> badges[u]]]
          /\ badges' = badges
      BY <1>1, <1>2, <2>1 DEF GetUser, Goes
    <2> QED
      BY <2>2 DEF Current, Fresh, BadgesGrow
  <1>9. CASE \E u \in User : ListTasks(w, u)
    <2>1. req'[w].pc = "listing" /\ badges' = badges
      BY <1>1, <1>2, <1>9 DEF ListTasks, Goes
    <2> QED
      BY <2>1 DEF Current, Calling, BadgesGrow
  <1>10. CASE Step(w)
    <2>1. CASE SaveBadges(w)
      <3>1. /\ badges' = [badges EXCEPT ![req[w].call.user] = req[w].call.held \cup req[w].new]
            /\ req'[w] = Idle /\ UNCHANGED reverted
        BY <1>1, <1>2, <2>1 DEF SaveBadges, Goes
      <3>2. Fresh(req[w].call.user, req[w].call.held)
        BY <1>2, <2>1 DEF SaveBadges, Current, Calling
      <3> QED
        BY <1>1, <1>4, <3>1, <3>2 DEF Current, Calling, Fresh, BadgesGrow
    <2>2. CASE ~ SaveBadges(w)
      <3>1. BadgesStand
        <4>1. CASE UpdateReputation(w) \/ PayShare(w) \/ PayOwn(w)
          BY <1>2, <4>1, MergesChangeNothing
        <4>2. CASE ~ (UpdateReputation(w) \/ PayShare(w) \/ PayOwn(w))
          <5>1. \/ AlreadyCompleted(w) \/ LoadReport(w) \/ SaveReport(w) \/ Return(w)
                \/ FindReputation(w) \/ CreateReputation(w) \/ ComputePoints(w)
                \/ CountReports(w) \/ ReadForList(w) \/ AddForList(w) \/ FindStrategy(w)
                \/ AnswerList(w)
            BY <1>10, <2>2, <4>2 DEF Step
          <5>2. UNCHANGED << badges, reverted >>
            <6>1. CASE AlreadyCompleted(w) \/ LoadReport(w) \/ SaveReport(w) \/ Return(w)
              BY <6>1 DEF AlreadyCompleted, LoadReport, SaveReport, Return
            <6>2. CASE FindReputation(w) \/ CreateReputation(w) \/ ComputePoints(w)
              BY <6>2 DEF FindReputation, CreateReputation, ComputePoints
            <6>3. CASE \/ CountReports(w) \/ ReadForList(w) \/ AddForList(w)
                       \/ FindStrategy(w) \/ AnswerList(w)
              BY <6>3, LookMoves DEF CountReports, ReadForList, AddForList, AnswerList
            <6> QED
              BY <5>1, <6>1, <6>2, <6>3
          <5> QED
            BY <5>2 DEF BadgesStand
        <4> QED
          BY <4>1, <4>2
      <3> QED
        BY <1>2, <1>5, <1>10, <3>1, WorkersStayCurrent
    <2> QED
      BY <2>1, <2>2
  <1>11. CASE Beside
    <2>1. UNCHANGED req
      BY <1>11, BesideStands
    <2>2. CASE \E t \in Task : AddStrategy(t)
      BY <1>6, <2>2 DEF AddStrategy
    <2>3. CASE \E f \in Form, u \in User : HoldUser(f, u)
      BY <1>6, <2>3 DEF HoldUser
    <2>4. CASE \E f \in Form : MergeUser(f)
      <3>1. BadgesStand
        <4>1. PICK u, held :
                /\ badges' = [badges EXCEPT ![u] = held]
                /\ reverted' = IF held = badges[u] THEN reverted ELSE reverted \cup {u}
          BY <2>4 DEF MergeUser
        <4> QED
          BY <1>1, <4>1 DEF BadgesStand
      <3>2. /\ req[w].pc \in Calling =>
                 (req[w].call.user \notin reverted' =>
                    req[w].call.held = badges'[req[w].call.user])
            /\ req[w].pc = "paying" =>
                 \A m \in DOMAIN req[w].group :
                   m \notin reverted' => req[w].group[m] = badges'[m]
        BY <1>2, <3>1, CopiesStay
      <3>3. req[w].pc = "updating" =>
              (req[w].call.user \notin reverted' => req[w].row.held = badges'[req[w].call.user])
        <4>1. req[w].pc = "updating" => req[w].call.user \in User
          BY <1>1, <1>2, Shapes, CallType DEF Calling
        <4> QED
          BY <1>2, <3>1, <4>1 DEF Current, Fresh, BadgesStand
      <3> QED
        BY <1>5, <2>1, <3>1, <3>2, <3>3 DEF Current, Fresh
    <2> QED
      BY <1>11, <2>2, <2>3, <2>4 DEF Beside
  <1>12. CASE Crash
    <2>1. req'[w] = Idle /\ badges' = badges
      BY <1>2, <1>12 DEF Crash
    <2> QED
      BY <1>4, <2>1 DEF Current, Calling, BadgesGrow
  <1> QED
    BY <1>7, <1>8, <1>9, <1>10, <1>11, <1>12 DEF Next

\* With one worker thread no save of a user, a reputation or points by a handler takes away
\* a badge, although each of them merges the badges it once read; only a flow of the web
\* that kept a user does, once it has written back the badges of an earlier time.
THEOREM BadgesStayInTurn == Cardinality(Request) = 1 => (Spec => BadgesKept)
  <1> SUFFICES ASSUME Cardinality(Request) = 1 PROVE Spec => BadgesKept
    OBVIOUS
  <1>1. PICK w : Request = {w}
    BY FS_Singleton
  <1>2. Init => CopiesAreCurrent
    BY DEF Init, CopiesAreCurrent, Current, Calling, Idle
  <1>3. TypeOK /\ CopiesAreCurrent /\ [Next]_vars => CopiesAreCurrent' /\ BadgesGrow
    BY <1>1, StepKeepsBadges
  <1>4. TypeOK /\ CopiesAreCurrent /\ [Next]_vars
          => CopiesAreCurrent' /\ [\A u \in User \ reverted' : badges[u] \subseteq badges'[u]]_vars
    BY <1>3 DEF BadgesGrow
  <1> QED
    BY <1>2, <1>4, TypeCorrect, PTL DEF Spec, BadgesKept

-----------------------------------------------------------------------------
(* What the workers still have to write.                                   *)

Gains == { "accept", "complete" }
Losses == { "reject", "fail" }

Moving == { "saved", "creating", "updating" }

\* What a handler knows of its own: it updates the reputations of its task, one of which
\* it is at, in a row of its user.
Follows(c) ==
  /\ c.pc \in Moving => c.todo \subseteq ActionsOf[c.call.task]
  /\ c.pc \in {"creating", "updating"} => c.action \in c.todo
  /\ c.pc = "updating" => c.row.id[1] = c.call.user /\ c.row.id[2] = TypeOf[c.action]

HandlersFollow == \A i \in Request : Follows(req[i])

\* What a worker at c will still add to the reputation of u for y, if it reports one of ops.
Pending(c, u, y, ops) ==
  IF c.pc \in Moving /\ c.call.user = u /\ c.call.op \in ops
  THEN Cardinality({ a \in c.todo : TypeOf[a] = y }) * Delta[c.call.op]
  ELSE 0

\* The same for all workers.
PendingOf(q, u, y, ops) == SumFunction([i \in Request |-> Pending(q[i], u, y, ops)])

\* Worth, of any history.
Value(o, u, y, ops) ==
  SumFunction([t \in Task |-> Cardinality(ActionsOfType(t, y))
                              * SumFunction([op \in ops |-> Delta[op] * o[<< u, t >>][op]])])

\* v is a value the reputation of u for y may have, with the updates that are to come.
Justified(v, q, o, u, y) ==
  /\ v + PendingOf(q, u, y, Gains) <= InitReputation + Value(o, u, y, Gains)
  /\ v + PendingOf(q, u, y, Losses) >= InitReputation + Value(o, u, y, Losses)

\* ... the value of a row that may be created, that is there, or that a worker has read.
NewRowsEarned == \A u \in User, y \in Type : Justified(InitReputation, req, outcome, u, y)

RowsEarned ==
  \A r \in DOMAIN reputation : Justified(reputation[r], req, outcome, r[1], r[2])

CopiesEarned ==
  \A i \in Request :
    req[i].pc = "updating" =>
      Justified(req[i].row.value, req, outcome, req[i].call.user, TypeOf[req[i].action])

EarnedInv == HandlersFollow /\ NewRowsEarned /\ RowsEarned /\ CopiesEarned

\* The reports that raise a reputation, and those that lower it.
LEMMA OpKinds ==
  /\ Op = Gains \cup Losses /\ Gains \cap Losses = {}
  /\ Gains \subseteq Op /\ Losses \subseteq Op
  /\ \A op \in Op : Delta[op] \in Int
  /\ \A op \in Gains : Delta[op] > 0
  /\ \A op \in Losses : Delta[op] < 0
  /\ IsFiniteSet(Gains) /\ IsFiniteSet(Losses) /\ Gains # Losses
  <1>1. IsFiniteSet(Gains) /\ IsFiniteSet(Losses)
    <2>1. IsFiniteSet({ "accept" }) /\ IsFiniteSet({ "reject" })
      BY FS_Singleton
    <2>2. Gains = { "accept" } \cup { "complete" } /\ Losses = { "reject" } \cup { "fail" }
      BY DEF Gains, Losses
    <2> QED
      BY <2>1, <2>2, FS_AddElement
  <1>2. /\ Delta["accept"] = 5 /\ Delta["reject"] = -5
        /\ Delta["complete"] = 10 /\ Delta["fail"] = -10
    BY DEF Delta
  <1>3. /\ \A op \in Gains : Delta[op] > 0 /\ Delta[op] \in Int
        /\ \A op \in Losses : Delta[op] < 0 /\ Delta[op] \in Int
    BY <1>2 DEF Gains, Losses
  <1>4. /\ Op = Gains \cup Losses /\ Gains \cap Losses = {}
        /\ Gains \subseteq Op /\ Losses \subseteq Op /\ Gains # Losses
    BY DEF Op, Gains, Losses
  <1> QED
    BY <1>1, <1>3, <1>4

\* n actions of one kind and one more.
LEMMA Products ==
  ASSUME NEW n \in Nat, NEW op \in Op
  PROVE  /\ n * Delta[op] \in Int
         /\ op \in Gains => n * Delta[op] >= 0
         /\ op \in Losses => n * Delta[op] <= 0
         /\ (n + 1) * Delta[op] = n * Delta[op] + Delta[op]
  <1>1. CASE op = "accept"
    <2>1. Delta[op] = 5
      BY <1>1 DEF Delta
    <2> QED
      BY <2>1, <1>1 DEF Gains, Losses
  <1>2. CASE op = "reject"
    <2>1. Delta[op] = -5
      BY <1>2 DEF Delta
    <2> QED
      BY <2>1, <1>2 DEF Gains, Losses
  <1>3. CASE op = "complete"
    <2>1. Delta[op] = 10
      BY <1>3 DEF Delta
    <2> QED
      BY <2>1, <1>3 DEF Gains, Losses
  <1>4. CASE op = "fail"
    <2>1. Delta[op] = -10
      BY <1>4 DEF Delta
    <2> QED
      BY <2>1, <1>4 DEF Gains, Losses
  <1> QED
    BY <1>1, <1>2, <1>3, <1>4 DEF Op

\* The actions of one type among some actions of a task are a number.
LEMMA ActionsAreCounted ==
  ASSUME NEW t \in Task, NEW S \in SUBSET ActionsOf[t], NEW y
  PROVE  /\ IsFiniteSet({ a \in S : TypeOf[a] = y })
         /\ Cardinality({ a \in S : TypeOf[a] = y }) \in Nat
  <1>1. IsFiniteSet(ActionsOf[t])
    OBVIOUS
  <1>2. { a \in S : TypeOf[a] = y } \subseteq ActionsOf[t]
    OBVIOUS
  <1>3. IsFiniteSet({ a \in S : TypeOf[a] = y })
    BY <1>1, <1>2, FS_Subset
  <1> QED
    BY <1>3, FS_CardinalityType

Worker == {Idle} \cup Working

\* What one worker still has to write is an integer, of the sign of its report.
LEMMA PendingType ==
  ASSUME NEW c \in Worker, Follows(c), NEW u, NEW y, NEW ops \in SUBSET Op
  PROVE  /\ Pending(c, u, y, ops) \in Int
         /\ ops = Gains => Pending(c, u, y, ops) >= 0
         /\ ops = Losses => Pending(c, u, y, ops) <= 0
  <1>1. CASE c.pc \in Moving /\ c.call.user = u /\ c.call.op \in ops
    <2>1. c.call \in Call
      BY <1>1, Shapes DEF Moving, Calling, Worker
    <2>2. c.call.task \in Task /\ c.call.op \in Op
      BY <2>1, CallType
    <2>3. Cardinality({ a \in c.todo : TypeOf[a] = y }) \in Nat
      <3>1. PICK t \in Task : t = c.call.task
        BY <2>2
      <3>2. c.todo \in SUBSET ActionsOf[t]
        BY <1>1, <3>1 DEF Follows
      <3> QED
        BY <3>2, ActionsAreCounted
    <2>4. PICK n \in Nat : n = Cardinality({ a \in c.todo : TypeOf[a] = y })
      BY <2>3
    <2>5. Pending(c, u, y, ops) = n * Delta[c.call.op]
      BY <1>1, <2>4 DEF Pending
    <2>6. /\ n * Delta[c.call.op] \in Int
          /\ c.call.op \in Gains => n * Delta[c.call.op] >= 0
          /\ c.call.op \in Losses => n * Delta[c.call.op] <= 0
      BY <2>2, Products
    <2> QED
      BY <1>1, <2>5, <2>6
  <1>2. CASE ~ (c.pc \in Moving /\ c.call.user = u /\ c.call.op \in ops)
    BY <1>2 DEF Pending
  <1> QED
    BY <1>1, <1>2

\* One worker goes from q[i] to p[i].
LEMMA PendingChanges ==
  ASSUME NEW q \in [Request -> Worker], NEW p \in [Request -> Worker],
         \A j \in Request : Follows(q[j]) /\ Follows(p[j]),
         NEW i \in Request, \A j \in Request \ {i} : p[j] = q[j],
         NEW u, NEW y, NEW ops \in SUBSET Op
  PROVE  /\ PendingOf(q, u, y, ops) \in Int /\ PendingOf(p, u, y, ops) \in Int
         /\ PendingOf(p, u, y, ops) =
              PendingOf(q, u, y, ops) + (Pending(p[i], u, y, ops) - Pending(q[i], u, y, ops))
  <1> DEFINE f == [j \in Request |-> Pending(q[j], u, y, ops)]
             g == [j \in Request |-> Pending(p[j], u, y, ops)]
  <1>1. f \in [Request -> Int] /\ g \in [Request -> Int]
    BY PendingType
  <1>2. \A j \in Request \ {i} : g[j] = f[j]
    OBVIOUS
  <1>3. IsFiniteSet(Request)
    OBVIOUS
  <1>4. f[i] = Pending(q[i], u, y, ops) /\ g[i] = Pending(p[i], u, y, ops)
    OBVIOUS
  <1> HIDE DEF f, g
  <1>5. SumFunction(g) = SumFunction(f) + (g[i] - f[i])
    BY <1>1, <1>2, <1>3, TotalChanges
  <1>6. SumFunction(f) \in Int /\ SumFunction(g) \in Int
    BY <1>1, <1>3, TotalIsInt
  <1>7. SumFunction(f) = PendingOf(q, u, y, ops) /\ SumFunction(g) = PendingOf(p, u, y, ops)
    BY DEF f, g, PendingOf
  <1> QED
    BY <1>4, <1>5, <1>6, <1>7

-----------------------------------------------------------------------------
(* What the steps of a worker leave.                                       *)

Stands(i) == \A j \in Request \ {i} : req'[j] = req[j]

\* The handlers before they have saved a report and after the last reputation, and lists.
LEMMA Leaves ==
  ASSUME TypeOK, NEW i \in Request,
         \/ \E u \in User : ListTasks(i, u) \/ \E op \in Op, t \in Task : GetUser(i, op, u, t)
         \/ AlreadyCompleted(i) \/ LoadReport(i) \/ Return(i)
         \/ ComputePoints(i) \/ PayShare(i) \/ PayOwn(i) \/ CountReports(i) \/ SaveBadges(i)
         \/ ReadForList(i) \/ AddForList(i) \/ FindStrategy(i) \/ AnswerList(i)
  PROVE  /\ Stands(i) /\ UNCHANGED outcome /\ req'[i].pc \notin Moving
         /\ UNCHANGED byDefault \/ ComputePoints(i)
         /\ req'[i].pc = "paying" => ComputePoints(i) \/ PayShare(i)
  <1>1. CASE PayShare(i)
    <2>1. req[i].pc = "paying" /\ UNCHANGED << outcome, byDefault >>
      BY <1>1 DEF PayShare
    <2>2. PICK m \in DOMAIN req[i].group :
            req' = [req EXCEPT ![i].group =
                      [n \in DOMAIN req[i].group \ {m} |-> req[i].group[n]]]
      BY <1>1 DEF PayShare
    <2>3. PICK g : g = [n \in DOMAIN req[i].group \ {m} |-> req[i].group[n]]
      OBVIOUS
    <2>4. req'[i] = [req[i] EXCEPT !.group = g] /\ Stands(i)
      BY <2>2, <2>3 DEF TypeOK, Stands
    <2>5. req[i] \in Working
      BY <2>1, Shapes DEF TypeOK, Idle
    <2>6. req'[i].pc = "paying"
      BY <2>1, <2>4, <2>5 DEF Working
    <2> QED
      BY <1>1, <2>1, <2>4, <2>6 DEF Moving
  <1>2. CASE ~ PayShare(i)
    <2>1. \E x : /\ Goes(i, x) /\ x.pc \notin Moving
                 /\ x.pc = "paying" => ComputePoints(i)
      <3>1. CASE Goes(i, Idle)
        BY <3>1 DEF Idle, Moving
      <3>2. CASE \E u \in User : ListTasks(i, u)
        <4>1. \E l : Goes(i, [pc |-> "listing", list |-> l])
          BY <3>2 DEF ListTasks
        <4> QED
          BY <4>1 DEF Moving
      <3>3. CASE \E u \in User, op \in Op, t \in Task : GetUser(i, op, u, t)
        <4>1. \E c : Goes(i, [pc |-> "called", call |-> c])
          BY <3>3 DEF GetUser
        <4> QED
          BY <4>1 DEF Moving
      <3>4. CASE LoadReport(i) \/ PayOwn(i)
        BY <3>4 DEF LoadReport, PayOwn, Moving
      <3>5. CASE ComputePoints(i) /\ ~ Goes(i, Idle)
        <4>1. \E g : Goes(i, [pc |-> "paying", call |-> req[i].call, group |-> g])
          BY <3>5, ComputeMoves DEF Fails
        <4> QED
          BY <3>5, <4>1 DEF Moving
      <3>6. CASE CountReports(i) /\ ~ Goes(i, Idle)
        BY <3>6 DEF CountReports, Moving
      <3>7. ASSUME NEW t, NEW a, NEW v, Sees(i, t, a, v)
            PROVE  \E x : Goes(i, x) /\ x.pc = "listing"
        <4>1. \E l : Goes(i, [pc |-> "listing", list |-> l])
          BY <3>7 DEF Sees
        <4> QED
          BY <4>1
      <3>8. CASE AddForList(i)
        <4>1. Sees(i, req[i].task, req[i].action, InitReputation)
          BY <3>8 DEF AddForList
        <4> QED
          BY <3>7, <4>1 DEF Moving
      <3>9. CASE ReadForList(i) /\ ~ Goes(i, Idle)
        <4>1. \E t, a, v : \/ Sees(i, t, a, v)
                          \/ Goes(i, [pc |-> "adding", list |-> req[i].list, task |-> t,
                                      action |-> a])
          BY <3>9 DEF ReadForList
        <4> QED
          BY <3>7, <4>1 DEF Moving
      <3>10. AlreadyCompleted(i) \/ Return(i) \/ SaveBadges(i) \/ AnswerList(i) => Goes(i, Idle)
        BY DEF AlreadyCompleted, Return, SaveBadges, AnswerList
      <3>11. CASE FindStrategy(i) /\ ~ Goes(i, Idle)
        <4>1. \E l : Goes(i, [pc |-> "listing", list |-> l])
          BY <3>11, LookMoves
        <4> QED
          BY <4>1 DEF Moving
      <3> QED
        BY <1>2, <3>1, <3>2, <3>3, <3>4, <3>5, <3>6, <3>8, <3>9, <3>10, <3>11
    <2>2. PICK x : /\ Goes(i, x) /\ x.pc \notin Moving
                   /\ x.pc = "paying" => ComputePoints(i)
      BY <2>1
    <2>3. req'[i] = x /\ Stands(i)
      BY <2>2 DEF Goes, TypeOK, Stands
    <2>4. UNCHANGED outcome /\ (UNCHANGED byDefault \/ ComputePoints(i))
      <3>1. CASE ComputePoints(i) \/ FindStrategy(i)
        BY <3>1, ComputeMoves, LookMoves
      <3>2. CASE ~ (ComputePoints(i) \/ FindStrategy(i))
        BY <1>2, <3>2
          DEF ListTasks, GetUser, AlreadyCompleted, LoadReport, Return, PayOwn, CountReports,
              SaveBadges, ReadForList, AddForList, AnswerList
      <3> QED
        BY <3>1, <3>2
    <2> QED
      BY <2>2, <2>3, <2>4
  <1> QED
    BY <1>1, <1>2

\* A report saved: the worker has the reputations of all its actions to update.
LEMMA SaveMoves ==
  ASSUME TypeOK, NEW i \in Request, SaveReport(i)
  PROVE  /\ Stands(i) /\ UNCHANGED << reputation, paid, shares, byDefault >>
         /\ req[i].pc = "loaded" /\ req'[i].pc = "saved" /\ req'[i].call = req[i].call
         /\ req'[i].todo = ActionsOf[req[i].call.task]
         /\ outcome' = [outcome EXCEPT ![ReportOf(req[i].call)][req[i].call.op] = @ + 1]
  <1>1. Goes(i, [pc |-> "saved", call |-> req[i].call, todo |-> ActionsOf[req[i].call.task]])
    BY DEF SaveReport
  <1>2. /\ Stands(i)
        /\ req'[i] = [pc |-> "saved", call |-> req[i].call, todo |-> ActionsOf[req[i].call.task]]
    BY <1>1 DEF Goes, TypeOK, Stands
  <1> QED
    BY <1>2 DEF SaveReport

\* A row looked up and not unique: the handler ends there.
LEMMA FailsMoves ==
  ASSUME TypeOK, NEW i \in Request, Fails(i), FindReputation(i) \/ ComputePoints(i)
  PROVE  /\ Stands(i) /\ UNCHANGED << outcome, reputation, paid, shares >>
         /\ UNCHANGED byDefault \/ ComputePoints(i)
         /\ req'[i].pc = "idle"
  <1>1. Goes(i, Idle) /\ UNCHANGED reputation
    BY DEF Fails
  <1>2. Stands(i) /\ req'[i] = Idle
    BY <1>1 DEF Goes, TypeOK, Stands
  <1>3. CASE FindReputation(i)
    <2>1. UNCHANGED << outcome, paid, shares, byDefault >>
      BY <1>3 DEF FindReputation
    <2> QED
      BY <1>1, <1>2, <2>1 DEF Idle
  <1>4. CASE ComputePoints(i)
    <2>1. UNCHANGED << outcome, paid, shares >>
      BY <1>4, ComputeMoves
    <2> QED
      BY <1>1, <1>2, <1>4, <2>1 DEF Idle
  <1> QED
    BY <1>3, <1>4

\* The worker has read row r, with value v, for action a.
LEMMA UpdatesMoves ==
  ASSUME TypeOK, NEW i \in Request, NEW a, NEW r, NEW v, Updates(i, a, r, v)
  PROVE  /\ Stands(i) /\ req'[i].pc = "updating" /\ req'[i].call = req[i].call
         /\ req'[i].todo = req[i].todo /\ req'[i].action = a
         /\ req'[i].row.id = r /\ req'[i].row.value = v
  <1>1. PICK q : q = [id |-> r, value |-> v, held |-> badges[req[i].call.user]]
    OBVIOUS
  <1>2. Goes(i, [pc |-> "updating", call |-> req[i].call, todo |-> req[i].todo,
                 action |-> a, row |-> q])
    BY <1>1 DEF Updates
  <1>3. /\ Stands(i)
        /\ req'[i] = [pc |-> "updating", call |-> req[i].call, todo |-> req[i].todo,
                      action |-> a, row |-> q]
    BY <1>2 DEF Goes, TypeOK, Stands
  <1> QED
    BY <1>1, <1>3

\* A row looked up: the worker has read the only one, or is to create one.
LEMMA FindMoves ==
  ASSUME TypeOK, NEW i \in Request, FindReputation(i), ~ Fails(i)
  PROVE  /\ Stands(i) /\ UNCHANGED << outcome, reputation, paid, shares, byDefault >>
         /\ req[i].pc = "saved" /\ req'[i].pc \in {"creating", "updating"}
         /\ req'[i].call = req[i].call /\ req'[i].todo = req[i].todo
         /\ req'[i].action \in req[i].todo
         /\ req'[i].pc = "updating" =>
              /\ req'[i].row.id \in RowsOf(req[i].call.user, TypeOf[req'[i].action])
              /\ req'[i].row.value = reputation[req'[i].row.id]
  <1>1. req[i].pc = "saved" /\ UNCHANGED << outcome, reputation, paid, shares, byDefault >>
    BY DEF FindReputation, Fails
  <1>2. PICK a \in req[i].todo :
          \/ Goes(i, [pc |-> "creating", call |-> req[i].call, todo |-> req[i].todo, action |-> a])
          \/ \E r \in RowsOf(req[i].call.user, TypeOf[a]) : Updates(i, a, r, reputation[r])
    BY DEF FindReputation
  <1>3. CASE Goes(i, [pc |-> "creating", call |-> req[i].call, todo |-> req[i].todo, action |-> a])
    <2>1. /\ Stands(i)
          /\ req'[i] = [pc |-> "creating", call |-> req[i].call, todo |-> req[i].todo,
                        action |-> a]
      BY <1>3 DEF Goes, TypeOK, Stands
    <2> QED
      BY <1>1, <2>1
  <1>4. ASSUME NEW r \in RowsOf(req[i].call.user, TypeOf[a]), Updates(i, a, r, reputation[r])
        PROVE  /\ Stands(i) /\ req'[i].pc = "updating" /\ req'[i].call = req[i].call
               /\ req'[i].todo = req[i].todo /\ req'[i].action = a
               /\ req'[i].row.id = r /\ req'[i].row.value = reputation[r]
    BY <1>4, UpdatesMoves
  <1> QED
    BY <1>1, <1>2, <1>3, <1>4

\* A row created: the worker has read it.
LEMMA CreateMoves ==
  ASSUME TypeOK, NEW i \in Request, CreateReputation(i)
  PROVE  /\ Stands(i) /\ UNCHANGED << outcome, paid, shares, byDefault >>
         /\ req[i].pc = "creating" /\ req'[i].pc = "updating"
         /\ req'[i].call = req[i].call /\ req'[i].todo = req[i].todo
         /\ req'[i].action = req[i].action
         /\ req'[i].row.id[1] = req[i].call.user
         /\ req'[i].row.id[2] = TypeOf[req[i].action]
         /\ req'[i].row.value = InitReputation
         /\ Adds(req[i].call.user, TypeOf[req[i].action])
  <1>1. /\ req[i].pc = "creating" /\ UNCHANGED << outcome, paid, shares, byDefault >>
        /\ Adds(req[i].call.user, TypeOf[req[i].action])
    BY DEF CreateReputation, Adds
  <1>2. PICK n : n = Cardinality(RowsOf(req[i].call.user, TypeOf[req[i].action])) + 1
    OBVIOUS
  <1>3. Updates(i, req[i].action, << req[i].call.user, TypeOf[req[i].action], n >>,
                InitReputation)
    BY <1>2 DEF CreateReputation
  <1> QED
    BY <1>1, <1>3, UpdatesMoves

\* A row written: one action less to do.
LEMMA UpdateMoves ==
  ASSUME TypeOK, NEW i \in Request, UpdateReputation(i)
  PROVE  /\ Stands(i) /\ UNCHANGED << outcome, paid, shares, byDefault >>
         /\ req[i].pc = "updating" /\ req'[i].pc = "saved"
         /\ req'[i].call = req[i].call /\ req'[i].todo = req[i].todo \ {req[i].action}
         /\ reputation' = [reputation EXCEPT ![req[i].row.id] =
                             Clamp(req[i].row.value + Delta[req[i].call.op])]
  <1>1. Goes(i, [pc |-> "saved", call |-> req[i].call, todo |-> req[i].todo \ {req[i].action}])
    BY DEF UpdateReputation
  <1>2. /\ Stands(i)
        /\ req'[i] = [pc |-> "saved", call |-> req[i].call,
                      todo |-> req[i].todo \ {req[i].action}]
    BY <1>1 DEF Goes, TypeOK, Stands
  <1> QED
    BY <1>2 DEF UpdateReputation

\* What a handler knows, over every step.
LEMMA StepFollows ==
  ASSUME TypeOK, HandlersFollow, [Next]_vars
  PROVE  HandlersFollow'
  <1>1. CASE UNCHANGED vars \/ Beside
    <2>1. UNCHANGED req
      BY <1>1, BesideStands DEF vars
    <2> QED
      BY <2>1 DEF HandlersFollow
  <1>2. ASSUME NEW i \in Request, Stands(i), Follows(req'[i]) PROVE HandlersFollow'
    BY <1>2 DEF HandlersFollow, Stands
  <1>3. ASSUME NEW i \in Request, Stands(i), req'[i].pc \notin Moving PROVE HandlersFollow'
    <2>1. Follows(req'[i])
      BY <1>3 DEF Follows, Moving
    <2> QED
      BY <1>2, <1>3, <2>1
  <1>4. ASSUME NEW i \in Request, NEW u \in User,
               ListTasks(i, u) \/ \E op \in Op, t \in Task : GetUser(i, op, u, t)
        PROVE  HandlersFollow'
    BY <1>3, <1>4, Leaves
  <1>5. ASSUME NEW i \in Request, Step(i) PROVE HandlersFollow'
    <2>0. Follows(req[i])
      BY DEF HandlersFollow
    <2>1. CASE \/ AlreadyCompleted(i) \/ LoadReport(i) \/ Return(i)
               \/ ComputePoints(i) \/ PayShare(i) \/ PayOwn(i) \/ CountReports(i) \/ SaveBadges(i)
               \/ ReadForList(i) \/ AddForList(i) \/ FindStrategy(i) \/ AnswerList(i)
      BY <1>3, <2>1, Leaves
    <2>2. CASE SaveReport(i)
      <3>1. /\ req'[i].pc = "saved" /\ req'[i].call = req[i].call
            /\ req'[i].todo = ActionsOf[req[i].call.task]
        BY <2>2, SaveMoves
      <3>2. Follows(req'[i])
        BY <3>1 DEF Follows
      <3> QED
        BY <1>2, <2>2, <3>2, SaveMoves
    <2>3. CASE FindReputation(i) /\ Fails(i)
      BY <1>3, <2>3, FailsMoves DEF Moving
    <2>4. CASE FindReputation(i) /\ ~ Fails(i)
      <3>1. Follows(req'[i])
        BY <2>0, <2>4, FindMoves DEF Follows, Moving, RowsOf
      <3> QED
        BY <1>2, <2>4, <3>1, FindMoves
    <2>5. CASE CreateReputation(i)
      <3>1. Follows(req'[i])
        BY <2>0, <2>5, CreateMoves DEF Follows, Moving
      <3> QED
        BY <1>2, <2>5, <3>1, CreateMoves
    <2>6. CASE UpdateReputation(i)
      <3>1. Follows(req'[i])
        BY <2>0, <2>6, UpdateMoves DEF Follows, Moving
      <3> QED
        BY <1>2, <2>6, <3>1, UpdateMoves
    <2> QED
      BY <1>5, <2>1, <2>2, <2>3, <2>4, <2>5, <2>6 DEF Step
  <1>6. CASE Crash
    <2>1. \A i \in Request : req'[i].pc = "idle"
      BY <1>6 DEF Crash, Idle
    <2> QED
      BY <2>1 DEF HandlersFollow, Follows, Moving
  <1> QED
    BY <1>1, <1>4, <1>5, <1>6 DEF Next

-----------------------------------------------------------------------------
(* What a history is worth.                                                *)

Histories == [Reports -> [Op -> Nat]]

\* The part of one task, in the reports of each kind.
Entries(o, u, t, ops) == [op \in ops |-> Delta[op] * o[<< u, t >>][op]]

\* The tasks' parts.
Parts(o, u, y, ops) ==
  [t \in Task |-> Cardinality(ActionsOfType(t, y)) * SumFunction(Entries(o, u, t, ops))]

\* A value is the sum of the parts that the tasks have in it.
LEMMA PartsOfValue ==
  ASSUME NEW o, NEW u, NEW y, NEW ops
  PROVE  Value(o, u, y, ops) = SumFunction(Parts(o, u, y, ops))
  BY DEF Value, Parts, Entries

\* The actions of a type in a task are a number.
LEMMA TypesAreCounted ==
  ASSUME NEW t \in Task, NEW y
  PROVE  Cardinality(ActionsOfType(t, y)) \in Nat
  BY ActionsAreCounted DEF ActionsOfType

\* What the reports of a user about a task were worth, each and together.
LEMMA EntriesType ==
  ASSUME NEW o \in Histories, NEW u \in User, NEW t \in Task, NEW ops \in {Gains, Losses}
  PROVE  /\ Entries(o, u, t, ops) \in [ops -> Int]
         /\ SumFunction(Entries(o, u, t, ops)) \in Int
         /\ IsFiniteSet(ops) /\ ops \in SUBSET Op
  <1>1. IsFiniteSet(ops) /\ ops \in SUBSET Op
    BY OpKinds
  <1>2. ASSUME NEW op \in ops PROVE Delta[op] * o[<< u, t >>][op] \in Int
    <2>1. o[<< u, t >>][op] \in Nat /\ Delta[op] \in Int
      BY <1>1, OpKinds DEF Histories, Reports
    <2> QED
      BY <2>1
  <1>3. Entries(o, u, t, ops) \in [ops -> Int]
    BY <1>2 DEF Entries
  <1> QED
    BY <1>1, <1>3, TotalIsInt

\* A value is an integer.
LEMMA ValueType ==
  ASSUME NEW o \in Histories, NEW u \in User, NEW y, NEW ops \in {Gains, Losses}
  PROVE  /\ Parts(o, u, y, ops) \in [Task -> Int]
         /\ Value(o, u, y, ops) \in Int
  <1>1. ASSUME NEW t \in Task
        PROVE  Cardinality(ActionsOfType(t, y)) * SumFunction(Entries(o, u, t, ops)) \in Int
    BY TypesAreCounted, EntriesType
  <1>2. Parts(o, u, y, ops) \in [Task -> Int]
    BY <1>1 DEF Parts
  <1>3. IsFiniteSet(Task)
    OBVIOUS
  <1> QED
    BY <1>2, <1>3, TotalIsInt, PartsOfValue

\* n more of something that counts d.
LEMMA Distributes ==
  ASSUME NEW k \in Int, NEW a \in Int, NEW d \in Int
  PROVE  k * (a + d) = k * a + k * d
  OBVIOUS

\* From o to p: one more entry of kind k in the history of w for s.
Stores(o, p, w, s, k) == p = [o EXCEPT ![<< w, s >>][k] = @ + 1]

\* One more report adds its delta for each action of the type.
LEMMA ValueGrows ==
  ASSUME NEW o \in Histories, NEW w \in User, NEW s \in Task, NEW k \in Op,
         NEW p \in Histories, Stores(o, p, w, s, k),
         NEW u \in User, NEW y, NEW ops \in {Gains, Losses}
  PROVE  Value(p, u, y, ops) =
           Value(o, u, y, ops)
             + (IF u = w /\ k \in ops THEN Cardinality(ActionsOfType(s, y)) * Delta[k] ELSE 0)
  <1>1. \A v \in User, t \in Task, op \in Op :
          p[<< v, t >>][op] =
            IF v = w /\ t = s /\ op = k THEN o[<< v, t >>][op] + 1 ELSE o[<< v, t >>][op]
    BY DEF Histories, Reports, Stores
  <1>2. ops \in SUBSET Op /\ IsFiniteSet(ops)
    BY OpKinds
  <1>3. ASSUME NEW t \in Task, ~ (u = w /\ t = s /\ k \in ops)
        PROVE  Entries(p, u, t, ops) = Entries(o, u, t, ops)
    <2>1. ASSUME NEW op \in ops PROVE p[<< u, t >>][op] = o[<< u, t >>][op]
      BY <1>1, <1>2, <1>3
    <2> QED
      BY <2>1 DEF Entries
  <1>4. ASSUME u = w, k \in ops
        PROVE  SumFunction(Entries(p, u, s, ops)) = SumFunction(Entries(o, u, s, ops)) + Delta[k]
    <2>1. PICK f, g : f = Entries(o, u, s, ops) /\ g = Entries(p, u, s, ops)
      OBVIOUS
    <2>2. f \in [ops -> Int] /\ g \in [ops -> Int]
      BY <2>1, EntriesType
    <2>3. \A op \in ops \ {k} : g[op] = f[op]
      BY <1>1, <1>2, <2>1 DEF Entries
    <2>4. g[k] - f[k] = Delta[k]
      <3>1. o[<< u, s >>][k] \in Int /\ Delta[k] \in Int
        BY OpKinds DEF Histories, Reports
      <3>2. p[<< u, s >>][k] = o[<< u, s >>][k] + 1
        BY <1>1, <1>4
      <3>3. Delta[k] * (o[<< u, s >>][k] + 1) = Delta[k] * o[<< u, s >>][k] + Delta[k] * 1
        BY <3>1, Distributes
      <3>4. g[k] = Delta[k] * p[<< u, s >>][k] /\ f[k] = Delta[k] * o[<< u, s >>][k]
        BY <1>4, <2>1 DEF Entries
      <3>5. g[k] = f[k] + Delta[k] * 1
        BY <3>2, <3>3, <3>4
      <3>6. Delta[k] * 1 = Delta[k]
        BY <3>1
      <3> QED
        BY <1>4, <2>2, <3>1, <3>5, <3>6
    <2>5. SumFunction(g) = SumFunction(f) + (g[k] - f[k])
      BY <1>2, <1>4, <2>2, <2>3, TotalChanges
    <2> QED
      BY <2>1, <2>4, <2>5
  <1>5. PICK n, d : n = Cardinality(ActionsOfType(s, y)) /\ d = Delta[k]
    OBVIOUS
  <1>6. n \in Int /\ d \in Int /\ n * d \in Int
    BY <1>5, TypesAreCounted, OpKinds
  <1>7. PICK F, G : F = Parts(o, u, y, ops) /\ G = Parts(p, u, y, ops)
    OBVIOUS
  <1>8. F \in [Task -> Int] /\ G \in [Task -> Int] /\ IsFiniteSet(Task)
    BY <1>7, ValueType
  <1>9. \A t \in Task \ {s} : G[t] = F[t]
    BY <1>3, <1>7 DEF Parts
  <1>10. G[s] = F[s] + (IF u = w /\ k \in ops THEN n * d ELSE 0)
    <2>1. PICK a, b : /\ a = SumFunction(Entries(o, u, s, ops))
                      /\ b = SumFunction(Entries(p, u, s, ops))
      OBVIOUS
    <2>2. a \in Int /\ b \in Int
      BY <2>1, EntriesType
    <2>3. F[s] = n * a /\ G[s] = n * b
      BY <1>5, <1>7, <2>1 DEF Parts
    <2>4. CASE u = w /\ k \in ops
      <3>1. b = a + d
        BY <1>4, <1>5, <2>1, <2>4
      <3>2. n * (a + d) = n * a + n * d
        BY <1>6, <2>2, Distributes
      <3> QED
        BY <2>3, <2>4, <3>1, <3>2
    <2>5. CASE ~ (u = w /\ k \in ops)
      <3>1. b = a
        BY <1>3, <2>1, <2>5
      <3>2. F[s] \in Int
        BY <1>8
      <3> QED
        BY <2>3, <2>5, <3>1, <3>2
    <2> QED
      BY <2>4, <2>5
  <1>11. F[s] \in Int /\ G[s] \in Int
    BY <1>8
  <1>12. SumFunction(G) = SumFunction(F) + (G[s] - F[s])
    BY <1>8, <1>9, TotalChanges
  <1>13. SumFunction(F) \in Int
    BY <1>8, TotalIsInt
  <1>14. Value(o, u, y, ops) = SumFunction(F) /\ Value(p, u, y, ops) = SumFunction(G)
    BY <1>7, PartsOfValue
  <1> QED
    BY <1>5, <1>6, <1>10, <1>11, <1>12, <1>13, <1>14

-----------------------------------------------------------------------------
(* Justified values.                                                       *)

\* From q and o to p and n: what the workers still have to write grows no more than what
\* the history is worth.
Slack(q, o, p, n, u, y) ==
  /\ PendingOf(p, u, y, Gains) + Value(o, u, y, Gains)
       <= PendingOf(q, u, y, Gains) + Value(n, u, y, Gains)
  /\ PendingOf(p, u, y, Losses) + Value(o, u, y, Losses)
       >= PendingOf(q, u, y, Losses) + Value(n, u, y, Losses)

\* What the workers still have to write is an integer.
LEMMA PendingIsInt ==
  ASSUME NEW q \in [Request -> Worker], \A j \in Request : Follows(q[j]),
         NEW u, NEW y, NEW ops \in {Gains, Losses}
  PROVE  PendingOf(q, u, y, ops) \in Int
  <1> DEFINE f == [j \in Request |-> Pending(q[j], u, y, ops)]
  <1>1. f \in [Request -> Int] /\ IsFiniteSet(Request)
    BY PendingType, OpKinds
  <1> HIDE DEF f
  <1>2. SumFunction(f) \in Int
    BY <1>1, TotalIsInt
  <1> QED
    BY <1>2 DEF f, PendingOf

\* A value stays justified where the history grows no less than the updates to come.
LEMMA JustifiedStays ==
  ASSUME NEW q \in [Request -> Worker], \A j \in Request : Follows(q[j]), NEW o \in Histories,
         NEW p \in [Request -> Worker], \A j \in Request : Follows(p[j]), NEW n \in Histories,
         NEW u \in User, NEW y, Slack(q, o, p, n, u, y),
         NEW v \in Int, Justified(v, q, o, u, y)
  PROVE  Justified(v, p, n, u, y)
  <1>1. ASSUME NEW ops \in {Gains, Losses}
        PROVE  /\ PendingOf(q, u, y, ops) \in Int /\ PendingOf(p, u, y, ops) \in Int
               /\ Value(o, u, y, ops) \in Int /\ Value(n, u, y, ops) \in Int
    BY PendingIsInt, ValueType
  <1> QED
    BY <1>1 DEF Slack, Justified

\* A worker that drops what it had to write, or keeps it, or writes some of it.
LEMMA Drops ==
  ASSUME NEW q \in [Request -> Worker], NEW p \in [Request -> Worker],
         \A j \in Request : Follows(q[j]) /\ Follows(p[j]), NEW o \in Histories,
         NEW i \in Request, \A j \in Request \ {i} : p[j] = q[j],
         p[i].pc \notin Moving,
         NEW u \in User, NEW y
  PROVE  Slack(q, o, p, o, u, y)
  <1>1. ASSUME NEW ops \in {Gains, Losses}
        PROVE  /\ Value(o, u, y, ops) \in Int /\ PendingOf(q, u, y, ops) \in Int
               /\ Pending(q[i], u, y, ops) \in Int
               /\ PendingOf(p, u, y, ops) = PendingOf(q, u, y, ops) - Pending(q[i], u, y, ops)
    <2>1. Pending(p[i], u, y, ops) = 0
      BY DEF Pending
    <2>2. ops \in SUBSET Op
      BY OpKinds
    <2>3. /\ PendingOf(q, u, y, ops) \in Int
          /\ PendingOf(p, u, y, ops) =
              PendingOf(q, u, y, ops) + (Pending(p[i], u, y, ops) - Pending(q[i], u, y, ops))
      BY <2>2, PendingChanges
    <2>4. Pending(q[i], u, y, ops) \in Int
      BY <2>2, PendingType
    <2>5. Value(o, u, y, ops) \in Int
      BY ValueType
    <2> QED
      BY <2>1, <2>3, <2>4, <2>5
  <1>2. Pending(q[i], u, y, Gains) >= 0 /\ Pending(q[i], u, y, Losses) <= 0
    BY PendingType, OpKinds
  <1> QED
    BY <1>1, <1>2 DEF Slack

\* A worker on its way to an update still has all of them to do.
LEMMA Keeps ==
  ASSUME NEW q \in [Request -> Worker], NEW p \in [Request -> Worker],
         \A j \in Request : Follows(q[j]) /\ Follows(p[j]), NEW o \in Histories,
         NEW i \in Request, \A j \in Request \ {i} : p[j] = q[j],
         q[i].pc \in Moving, p[i].pc \in Moving,
         p[i].call = q[i].call, p[i].todo = q[i].todo,
         NEW u \in User, NEW y
  PROVE  Slack(q, o, p, o, u, y)
  <1>1. ASSUME NEW ops \in {Gains, Losses}
        PROVE  /\ Value(o, u, y, ops) \in Int /\ PendingOf(q, u, y, ops) \in Int
               /\ PendingOf(p, u, y, ops) = PendingOf(q, u, y, ops)
    <2>1. Pending(p[i], u, y, ops) = Pending(q[i], u, y, ops)
      BY DEF Pending
    <2>2. ops \in SUBSET Op
      BY OpKinds
    <2>3. /\ PendingOf(q, u, y, ops) \in Int
          /\ PendingOf(p, u, y, ops) =
              PendingOf(q, u, y, ops) + (Pending(p[i], u, y, ops) - Pending(q[i], u, y, ops))
      BY <2>2, PendingChanges
    <2>4. Pending(q[i], u, y, ops) \in Int
      BY <2>2, PendingType
    <2>5. Value(o, u, y, ops) \in Int
      BY ValueType
    <2> QED
      BY <2>1, <2>3, <2>4, <2>5
  <1> QED
    BY <1>1 DEF Slack

\* A report of kind k by w for s is saved, and the updates it calls for are to come.
LEMMA Announces ==
  ASSUME NEW q \in [Request -> Worker], NEW p \in [Request -> Worker],
         \A j \in Request : Follows(q[j]) /\ Follows(p[j]), NEW o \in Histories,
         NEW i \in Request, \A j \in Request \ {i} : p[j] = q[j],
         NEW w \in User, NEW s \in Task, NEW k \in Op,
         NEW n \in Histories, Stores(o, n, w, s, k),
         q[i].pc \notin Moving, p[i].pc = "saved", p[i].todo = ActionsOf[s],
         p[i].call.user = w, p[i].call.op = k,
         NEW u \in User, NEW y
  PROVE  Slack(q, o, p, n, u, y)
  <1>1. ASSUME NEW ops \in {Gains, Losses}
        PROVE  /\ Value(o, u, y, ops) \in Int /\ Value(n, u, y, ops) \in Int
               /\ PendingOf(q, u, y, ops) \in Int /\ PendingOf(p, u, y, ops) \in Int
               /\ PendingOf(p, u, y, ops) + Value(o, u, y, ops)
                    = PendingOf(q, u, y, ops) + Value(n, u, y, ops)
    <2>1. Pending(q[i], u, y, ops) = 0
      BY DEF Pending
    <2>2. ops \in SUBSET Op
      BY OpKinds
    <2>3. /\ PendingOf(q, u, y, ops) \in Int
          /\ PendingOf(p, u, y, ops) =
              PendingOf(q, u, y, ops) + (Pending(p[i], u, y, ops) - Pending(q[i], u, y, ops))
      BY <2>2, PendingChanges
    <2>4. Pending(p[i], u, y, ops) \in Int
      BY <2>2, PendingType
    <2>5. Value(o, u, y, ops) \in Int
      BY ValueType
    <2>6. Pending(p[i], u, y, ops) =
            IF u = w /\ k \in ops THEN Cardinality(ActionsOfType(s, y)) * Delta[k] ELSE 0
      BY DEF Pending, Moving, ActionsOfType
    <2>7. Value(n, u, y, ops) =
            Value(o, u, y, ops)
              + (IF u = w /\ k \in ops THEN Cardinality(ActionsOfType(s, y)) * Delta[k] ELSE 0)
      BY ValueGrows
    <2>8. Value(n, u, y, ops) = Value(o, u, y, ops) + Pending(p[i], u, y, ops)
      BY <2>6, <2>7
    <2> QED
      BY <2>1, <2>3, <2>4, <2>5, <2>8
  <1> QED
    BY <1>1 DEF Slack

\* One of the updates is written: of a worker at action a of its user w.
Written(q, p, i, w, k, a) ==
  /\ \A j \in Request \ {i} : p[j] = q[j]
  /\ q[i].pc = "updating" /\ q[i].action = a /\ q[i].call.user = w /\ q[i].call.op = k
  /\ p[i].pc = "saved" /\ p[i].call = q[i].call /\ p[i].todo = q[i].todo \ {a}

\* A worker that writes one update has that much less to do.
LEMMA Writes ==
  ASSUME NEW q \in [Request -> Worker], NEW p \in [Request -> Worker],
         \A j \in Request : Follows(q[j]) /\ Follows(p[j]),
         NEW i \in Request, NEW w \in User, NEW k \in Op, NEW a \in Action,
         Written(q, p, i, w, k, a),
         NEW u \in User, NEW y, NEW ops \in {Gains, Losses}
  PROVE  /\ PendingOf(q, u, y, ops) \in Int
         /\ PendingOf(p, u, y, ops) =
              PendingOf(q, u, y, ops)
                - (IF u = w /\ y = TypeOf[a] /\ k \in ops THEN Delta[k] ELSE 0)
  <1>1. ops \in SUBSET Op /\ Delta[k] \in Int
    BY OpKinds
  <1>2. /\ PendingOf(q, u, y, ops) \in Int
        /\ PendingOf(p, u, y, ops) =
             PendingOf(q, u, y, ops) + (Pending(p[i], u, y, ops) - Pending(q[i], u, y, ops))
    BY <1>1, PendingChanges DEF Written
  <1>3. Pending(q[i], u, y, ops) \in Int /\ Pending(p[i], u, y, ops) \in Int
    BY <1>1, PendingType
  <1>4. q[i].call.task \in Task /\ q[i].todo \subseteq ActionsOf[q[i].call.task] /\ a \in q[i].todo
    <2>1. q[i].pc = "updating" /\ q[i].action = a
      BY DEF Written
    <2>2. q[i].call \in Call
      BY <2>1, Shapes DEF Calling, Worker
    <2> QED
      BY <2>1, <2>2, CallType DEF Follows, Moving
  <1>5. PICK S, T : /\ S = { b \in q[i].todo : TypeOf[b] = y }
                    /\ T = { b \in p[i].todo : TypeOf[b] = y }
    OBVIOUS
  <1>6. /\ IsFiniteSet(S) /\ Cardinality(S) \in Nat /\ Cardinality(T) \in Nat
        /\ Cardinality(S) = IF y = TypeOf[a] THEN Cardinality(T) + 1 ELSE Cardinality(T)
    <2>1. p[i].todo = q[i].todo \ {a}
      BY DEF Written
    <2>2. IsFiniteSet(S) /\ Cardinality(S) \in Nat
      BY <1>4, <1>5, ActionsAreCounted
    <2>3. p[i].todo \subseteq ActionsOf[q[i].call.task]
      BY <1>4, <2>1
    <2>4. IsFiniteSet(T) /\ Cardinality(T) \in Nat
      BY <1>4, <1>5, <2>3, ActionsAreCounted
    <2>5. CASE y = TypeOf[a]
      <3>1. T = S \ {a} /\ a \in S
        BY <1>4, <1>5, <2>1, <2>5
      <3>2. Cardinality(T) = Cardinality(S) - 1
        BY <2>2, <3>1, FS_RemoveElement
      <3> QED
        BY <2>2, <2>4, <2>5, <3>2
    <2>6. CASE y # TypeOf[a]
      <3>1. T = S
        BY <1>5, <2>1, <2>6
      <3> QED
        BY <2>2, <2>4, <2>6, <3>1
    <2> QED
      BY <2>2, <2>4, <2>5, <2>6
  <1>7. /\ Pending(q[i], u, y, ops) = IF u = w /\ k \in ops THEN Cardinality(S) * Delta[k] ELSE 0
        /\ Pending(p[i], u, y, ops) = IF u = w /\ k \in ops THEN Cardinality(T) * Delta[k] ELSE 0
    BY <1>5 DEF Pending, Moving, Written
  <1>8. (Cardinality(T) + 1) * Delta[k] = Cardinality(T) * Delta[k] + Delta[k]
    BY <1>6, Products
  <1>9. Pending(p[i], u, y, ops) =
          Pending(q[i], u, y, ops)
            - (IF u = w /\ y = TypeOf[a] /\ k \in ops THEN Delta[k] ELSE 0)
    <2>1. CASE u = w /\ y = TypeOf[a] /\ k \in ops
      BY <1>1, <1>3, <1>6, <1>7, <1>8, <2>1
    <2>2. CASE ~ (u = w /\ y = TypeOf[a] /\ k \in ops)
      BY <1>1, <1>3, <1>6, <1>7, <2>2
    <2> QED
      BY <2>1, <2>2
  <1> QED
    BY <1>1, <1>2, <1>3, <1>9

\* So the other values are no worse off by the write,
LEMMA WritesKeep ==
  ASSUME NEW q \in [Request -> Worker], NEW p \in [Request -> Worker],
         \A j \in Request : Follows(q[j]) /\ Follows(p[j]), NEW o \in Histories,
         NEW i \in Request, NEW w \in User, NEW k \in Op, NEW a \in Action,
         Written(q, p, i, w, k, a),
         NEW u \in User, NEW y
  PROVE  Slack(q, o, p, o, u, y)
  <1>1. ASSUME NEW ops \in {Gains, Losses}
        PROVE  /\ Value(o, u, y, ops) \in Int /\ PendingOf(q, u, y, ops) \in Int
               /\ PendingOf(p, u, y, ops) =
                    PendingOf(q, u, y, ops)
                      - (IF u = w /\ y = TypeOf[a] /\ k \in ops THEN Delta[k] ELSE 0)
    BY ValueType, Writes
  <1>2. /\ k \in Gains => k \notin Losses /\ Delta[k] > 0
        /\ k \in Losses => k \notin Gains /\ Delta[k] < 0
        /\ Delta[k] \in Int
    BY OpKinds
  <1> QED
    BY <1>1, <1>2 DEF Slack

\* and the value written, clamped or not, is as justified as the one it was made of.
LEMMA WrittenIsJustified ==
  ASSUME NEW q \in [Request -> Worker], NEW p \in [Request -> Worker],
         \A j \in Request : Follows(q[j]) /\ Follows(p[j]), NEW o \in Histories,
         NEW i \in Request, NEW w \in User, NEW k \in Op, NEW a \in Action,
         Written(q, p, i, w, k, a), NEW v \in Int,
         Justified(v, q, o, w, TypeOf[a]), Justified(InitReputation, q, o, w, TypeOf[a])
  PROVE  Justified(Clamp(v + Delta[k]), p, o, w, TypeOf[a])
  <1>1. ASSUME NEW ops \in {Gains, Losses}
        PROVE  /\ Value(o, w, TypeOf[a], ops) \in Int /\ PendingOf(q, w, TypeOf[a], ops) \in Int
               /\ PendingOf(p, w, TypeOf[a], ops) =
                    PendingOf(q, w, TypeOf[a], ops) - (IF k \in ops THEN Delta[k] ELSE 0)
    BY ValueType, Writes
  <1>2. /\ k \in Gains => k \notin Losses /\ Delta[k] > 0
        /\ k \in Losses => k \notin Gains /\ Delta[k] < 0
        /\ Delta[k] \in Int /\ (k \in Gains \/ k \in Losses)
    BY OpKinds
  <1>3. PICK g, l, G, L : /\ g = PendingOf(q, w, TypeOf[a], Gains) /\ G = Value(o, w, TypeOf[a], Gains)
                          /\ l = PendingOf(q, w, TypeOf[a], Losses) /\ L = Value(o, w, TypeOf[a], Losses)
    OBVIOUS
  <1>4. PICK d \in Int : d = Delta[k]
    BY <1>2
  <1>5. g \in Int /\ l \in Int /\ G \in Int /\ L \in Int
    BY <1>1, <1>3
  <1>6. /\ v + g <= InitReputation + G /\ InitReputation + g <= InitReputation + G
        /\ v + l >= InitReputation + L /\ InitReputation + l >= InitReputation + L
    BY <1>3 DEF Justified
  <1>7. Clamp(v + d) = IF v + d < MinReputation THEN MinReputation
                       ELSE IF v + d > MaxReputation THEN MaxReputation ELSE v + d
    BY DEF Clamp
  <1>8. CASE k \in Gains
    <2>1. /\ PendingOf(p, w, TypeOf[a], Gains) = g - d /\ PendingOf(p, w, TypeOf[a], Losses) = l
          /\ d > 0
      BY <1>1, <1>2, <1>3, <1>4, <1>5, <1>8
    <2>2. Clamp(v + d) + (g - d) <= InitReputation + G /\ Clamp(v + d) + l >= InitReputation + L
      BY <1>5, <1>6, <1>7, <2>1
    <2> QED
      BY <1>3, <1>4, <2>1, <2>2 DEF Justified
  <1>9. CASE k \in Losses
    <2>1. /\ PendingOf(p, w, TypeOf[a], Gains) = g /\ PendingOf(p, w, TypeOf[a], Losses) = l - d
          /\ d < 0
      BY <1>1, <1>2, <1>3, <1>4, <1>5, <1>9
    <2>2. Clamp(v + d) + g <= InitReputation + G /\ Clamp(v + d) + (l - d) >= InitReputation + L
      BY <1>5, <1>6, <1>7, <2>1
    <2> QED
      BY <1>3, <1>4, <2>1, <2>2 DEF Justified
  <1> QED
    BY <1>2, <1>8, <1>9

\* Nobody has anything to write.
LEMMA NothingPending ==
  ASSUME NEW q, \A j \in Request : q[j].pc \notin Moving, NEW u, NEW y, NEW ops
  PROVE  PendingOf(q, u, y, ops) = 0
  <1>1. PICK f : f = [j \in Request |-> Pending(q[j], u, y, ops)]
    OBVIOUS
  <1>2. f \in [Request -> {0}] /\ IsFiniteSet(Request)
    BY <1>1 DEF Pending
  <1> QED
    BY <1>1, <1>2, TotalOfZeros DEF PendingOf

\* What is still to come can only raise one bound and lower the other.
LEMMA PendingSigns ==
  ASSUME NEW q \in [Request -> Worker], \A j \in Request : Follows(q[j]), NEW u, NEW y
  PROVE  PendingOf(q, u, y, Gains) >= 0 /\ PendingOf(q, u, y, Losses) <= 0
  <1>1. PICK z : z = [j \in Request |-> 0]
    OBVIOUS
  <1>2. z \in [Request -> {0}] /\ z \in [Request -> Int] /\ IsFiniteSet(Request)
    BY <1>1
  <1>3. SumFunction(z) = 0
    BY <1>2, TotalOfZeros
  <1>4. PICK f, g : /\ f = [j \in Request |-> Pending(q[j], u, y, Gains)]
                    /\ g = [j \in Request |-> Pending(q[j], u, y, Losses)]
    OBVIOUS
  <1>5. /\ f \in [Request -> Int] /\ \A j \in Request : z[j] <= f[j]
        /\ g \in [Request -> Int] /\ \A j \in Request : g[j] <= z[j]
    BY <1>1, <1>4, PendingType, OpKinds
  <1>6. SumFunction(z) <= SumFunction(f) /\ SumFunction(g) <= SumFunction(z)
    BY <1>2, <1>5, TotalGrows
  <1>7. SumFunction(f) \in Int /\ SumFunction(g) \in Int
    BY <1>2, <1>5, TotalIsInt
  <1>8. SumFunction(f) >= 0 /\ SumFunction(g) <= 0
    BY <1>3, <1>6, <1>7
  <1> QED
    BY <1>4, <1>8 DEF PendingOf

\* Workers that lose what they had to write: values are bounded as before, or better.
LEMMA Forgets ==
  ASSUME NEW q \in [Request -> Worker], \A j \in Request : Follows(q[j]), NEW o \in Histories,
         NEW p, \A j \in Request : p[j].pc \notin Moving, NEW u \in User, NEW y
  PROVE  Slack(q, o, p, o, u, y)
  <1>1. \A ops \in {Gains, Losses} : PendingOf(q, u, y, ops) \in Int /\ Value(o, u, y, ops) \in Int
    BY PendingIsInt, ValueType
  <1>2. PendingOf(q, u, y, Gains) >= 0 /\ PendingOf(q, u, y, Losses) <= 0
    BY PendingSigns
  <1>3. PendingOf(p, u, y, Gains) = 0 /\ PendingOf(p, u, y, Losses) = 0
    BY NothingPending
  <1> QED
    BY <1>1, <1>2, <1>3 DEF Slack

-----------------------------------------------------------------------------
(* What the steps do to the values.                                        *)

\* The types of the two variables that values depend on.
LEMMA StateTypes ==
  ASSUME TypeOK
  PROVE  req \in [Request -> Worker] /\ outcome \in Histories
  BY DEF TypeOK, Worker, Histories

\* The workers' updates and the history grow together.
Kept == \A u \in User, y \in Type : Slack(req, outcome, req', outcome', u, y)

\* JustifiedStays, of a step.
LEMMA JustifiedNext ==
  ASSUME TypeOK, TypeOK', HandlersFollow, HandlersFollow', Kept,
         NEW u \in User, NEW y \in Type, NEW v \in Int, Justified(v, req, outcome, u, y)
  PROVE  Justified(v, req', outcome', u, y)
  <1>1. /\ req \in [Request -> Worker] /\ outcome \in Histories
        /\ req' \in [Request -> Worker] /\ outcome' \in Histories
    BY StateTypes DEF TypeOK, Worker, Histories
  <1>2. \A j \in Request : Follows(req[j]) /\ Follows(req'[j])
    BY DEF HandlersFollow, Follows
  <1>3. Slack(req, outcome, req', outcome', u, y)
    BY DEF Kept
  <1>4. PICK q, o, p, n : q = req /\ o = outcome /\ p = req' /\ n = outcome'
    OBVIOUS
  <1> QED
    BY <1>1, <1>2, <1>3, <1>4, JustifiedStays

\* A step that writes no value it did not find.
LEMMA Unmoved ==
  ASSUME TypeOK, TypeOK', EarnedInv, HandlersFollow', Kept,
         \A r \in DOMAIN reputation' :
           \/ r \in DOMAIN reputation /\ reputation'[r] = reputation[r]
           \/ reputation'[r] = InitReputation,
         \A i \in Request :
           req'[i].pc = "updating" =>
             \/ req'[i] = req[i]
             \/ req'[i].row.value = InitReputation
             \/ \E r \in DOMAIN reputation :
                  /\ req'[i].row.value = reputation[r]
                  /\ r[1] = req'[i].call.user /\ r[2] = TypeOf[req'[i].action]
  PROVE  EarnedInv'
  <1>1. ASSUME NEW u \in User, NEW y \in Type
        PROVE  Justified(InitReputation, req', outcome', u, y)
    BY JustifiedNext DEF EarnedInv, NewRowsEarned
  <1>2. ASSUME NEW r \in DOMAIN reputation
        PROVE  /\ r[1] \in User /\ r[2] \in Type /\ reputation[r] \in Int
               /\ Justified(reputation[r], req', outcome', r[1], r[2])
    <2>1. r \in RowId /\ reputation[r] \in Int
      BY DEF TypeOK
    <2>2. r[1] \in User /\ r[2] \in Type
      BY <2>1 DEF RowId
    <2>3. PICK v \in Int : v = reputation[r]
      BY <2>1
    <2>4. Justified(v, req, outcome, r[1], r[2])
      BY <2>3 DEF EarnedInv, RowsEarned
    <2>5. Justified(v, req', outcome', r[1], r[2])
      BY <2>2, <2>4, JustifiedNext DEF EarnedInv
    <2> QED
      BY <2>1, <2>2, <2>3, <2>5
  <1>3. ASSUME NEW r \in DOMAIN reputation'
        PROVE  Justified(reputation'[r], req', outcome', r[1], r[2])
    <2>1. r \in RowId
      BY DEF TypeOK
    <2>2. r[1] \in User /\ r[2] \in Type
      BY <2>1 DEF RowId
    <2> QED
      BY <1>1, <1>2, <2>2
  <1>4. ASSUME NEW i \in Request, req'[i].pc = "updating"
        PROVE  Justified(req'[i].row.value, req', outcome', req'[i].call.user, TypeOf[req'[i].action])
    <2>1. req'[i].call \in Call /\ req'[i].action \in Action
      BY <1>4, Shapes DEF TypeOK, Calling
    <2>2. req'[i].call.user \in User /\ TypeOf[req'[i].action] \in Type
      BY <2>1, CallType
    <2>3. CASE req'[i] = req[i]
      <3>1. req[i].pc = "updating"
        BY <1>4, <2>3
      <3>2. req[i].row \in ReputationRow
        BY <3>1, Shapes DEF TypeOK
      <3>3. PICK v \in Int : v = req[i].row.value
        BY <3>2 DEF ReputationRow
      <3>4. Justified(v, req, outcome, req[i].call.user, TypeOf[req[i].action])
        BY <3>1, <3>3 DEF EarnedInv, CopiesEarned
      <3>5. Justified(v, req', outcome', req[i].call.user, TypeOf[req[i].action])
        BY <2>2, <2>3, <3>4, JustifiedNext DEF EarnedInv
      <3> QED
        BY <2>3, <3>3, <3>5
    <2>4. CASE req'[i].row.value = InitReputation
      BY <1>1, <2>2, <2>4
    <2>5. CASE \E r \in DOMAIN reputation :
                  /\ req'[i].row.value = reputation[r]
                  /\ r[1] = req'[i].call.user /\ r[2] = TypeOf[req'[i].action]
      BY <1>2, <2>5
    <2> QED
      BY <1>4, <2>3, <2>4, <2>5
  <1>5. NewRowsEarned' /\ RowsEarned' /\ CopiesEarned'
    BY <1>1, <1>3, <1>4 DEF NewRowsEarned, RowsEarned, CopiesEarned
  <1> QED
    BY <1>5 DEF EarnedInv

\* A worker that drops what it had to write, or had nothing to write.
LEMMA DropKept ==
  ASSUME TypeOK, TypeOK', HandlersFollow, HandlersFollow', NEW i \in Request, Stands(i),
         UNCHANGED outcome,
         \/ req'[i].pc \notin Moving
         \/ /\ req[i].pc \in Moving /\ req'[i].pc \in Moving
            /\ req'[i].call = req[i].call /\ req'[i].todo = req[i].todo
  PROVE  Kept
  <1>1. PICK q, o, p : q = req /\ o = outcome /\ p = req'
    OBVIOUS
  <1>2. q \in [Request -> Worker] /\ o \in Histories /\ p \in [Request -> Worker]
    BY <1>1 DEF TypeOK, Worker, Histories
  <1>3. \A j \in Request : Follows(q[j]) /\ Follows(p[j])
    BY <1>1 DEF HandlersFollow, Follows
  <1>4. \A j \in Request \ {i} : p[j] = q[j]
    BY <1>1 DEF Stands
  <1>5. ASSUME NEW u \in User, NEW y \in Type PROVE Slack(q, o, p, o, u, y)
    <2>1. CASE p[i].pc \notin Moving
      BY <1>2, <1>3, <1>4, <2>1, Drops
    <2>2. CASE /\ q[i].pc \in Moving /\ p[i].pc \in Moving
               /\ p[i].call = q[i].call /\ p[i].todo = q[i].todo
      BY <1>2, <1>3, <1>4, <2>2, Keeps
    <2> QED
      BY <1>1, <2>1, <2>2
  <1> QED
    BY <1>1, <1>5 DEF Kept

\* The step of Announces.
LEMMA SaveKept ==
  ASSUME TypeOK, TypeOK', HandlersFollow, HandlersFollow', NEW i \in Request, SaveReport(i)
  PROVE  Kept
  <1>1. PICK q, o, p, n : q = req /\ o = outcome /\ p = req' /\ n = outcome'
    OBVIOUS
  <1>2. /\ q \in [Request -> Worker] /\ o \in Histories
        /\ p \in [Request -> Worker] /\ n \in Histories
    BY <1>1 DEF TypeOK, Worker, Histories
  <1>3. \A j \in Request : Follows(q[j]) /\ Follows(p[j])
    BY <1>1 DEF HandlersFollow, Follows
  <1>4. req[i].pc = "loaded"
    BY SaveMoves
  <1>5. req[i].call \in Call
    BY <1>4, Shapes DEF TypeOK, Calling
  <1>6. PICK w \in User, s \in Task, k \in Op :
          w = req[i].call.user /\ s = req[i].call.task /\ k = req[i].call.op
    BY <1>5, CallType
  <1>7. /\ Stores(o, n, w, s, k) /\ \A j \in Request \ {i} : p[j] = q[j]
        /\ q[i].pc \notin Moving /\ p[i].pc = "saved" /\ p[i].todo = ActionsOf[s]
        /\ p[i].call.user = w /\ p[i].call.op = k
    BY <1>1, <1>4, <1>6, SaveMoves DEF Stores, Stands, ReportOf, Moving
  <1>8. ASSUME NEW u \in User, NEW y \in Type PROVE Slack(q, o, p, n, u, y)
    BY <1>2, <1>3, <1>7, Announces
  <1> QED
    BY <1>1, <1>8 DEF Kept

\* The update itself.
LEMMA UpdateEarned ==
  ASSUME TypeOK, TypeOK', EarnedInv, HandlersFollow', NEW i \in Request, UpdateReputation(i)
  PROVE  EarnedInv'
  <1>1. PICK q, o, p : q = req /\ o = outcome /\ p = req'
    OBVIOUS
  <1>2. q \in [Request -> Worker] /\ o \in Histories /\ p \in [Request -> Worker] /\ outcome' = o
    BY <1>1, UpdateMoves DEF TypeOK, Worker, Histories
  <1>3. \A j \in Request : Follows(q[j]) /\ Follows(p[j])
    BY <1>1 DEF EarnedInv, HandlersFollow, Follows
  <1>4. /\ req[i].call \in Call /\ req[i].action \in Action /\ req[i].row \in ReputationRow
        /\ Follows(req[i]) /\ req[i].pc = "updating"
    BY <1>1, <1>3, UpdateMoves, Shapes DEF TypeOK, Calling
  <1>5. PICK w \in User, k \in Op, a \in Action, v \in Int, id \in RowId :
          /\ w = req[i].call.user /\ k = req[i].call.op /\ a = req[i].action
          /\ v = req[i].row.value /\ id = req[i].row.id
    BY <1>4, CallType DEF ReputationRow
  <1>6. Written(q, p, i, w, k, a)
    BY <1>1, <1>5, UpdateMoves DEF Written, Stands
  <1>7. id[1] = w /\ id[2] = TypeOf[a] /\ TypeOf[a] \in Type
    BY <1>4, <1>5 DEF Follows
  <1>8. Kept
    <2>1. ASSUME NEW u \in User, NEW y \in Type PROVE Slack(q, o, p, o, u, y)
      BY <1>2, <1>3, <1>6, WritesKeep
    <2> QED
      BY <1>1, <1>2, <2>1 DEF Kept
  <1>9. Justified(Clamp(v + Delta[k]), p, o, w, TypeOf[a])
    <2>1. Justified(v, q, o, w, TypeOf[a])
      BY <1>1, <1>4, <1>5 DEF EarnedInv, CopiesEarned
    <2>2. Justified(InitReputation, q, o, w, TypeOf[a])
      BY <1>1, <1>7 DEF EarnedInv, NewRowsEarned
    <2> QED
      BY <1>2, <1>3, <1>6, <2>1, <2>2, WrittenIsJustified
  <1>10. reputation' = [reputation EXCEPT ![id] = Clamp(v + Delta[k])]
    BY <1>5, UpdateMoves
  <1>11. ASSUME NEW r \in DOMAIN reputation'
         PROVE  Justified(reputation'[r], req', outcome', r[1], r[2])
    <2>1. r \in DOMAIN reputation /\ r \in RowId /\ reputation[r] \in Int
      BY <1>10 DEF TypeOK
    <2>2. r[1] \in User /\ r[2] \in Type
      BY <2>1 DEF RowId
    <2>3. CASE r = id
      BY <1>1, <1>2, <1>7, <1>9, <1>10, <2>1, <2>3
    <2>4. CASE r # id
      <3>1. PICK x \in Int : x = reputation[r]
        BY <2>1
      <3>2. Justified(x, req, outcome, r[1], r[2])
        BY <2>1, <3>1 DEF EarnedInv, RowsEarned
      <3>3. Justified(x, req', outcome', r[1], r[2])
        BY <1>8, <2>2, <3>2, JustifiedNext DEF EarnedInv
      <3>4. reputation'[r] = x
        BY <1>10, <2>1, <2>4, <3>1
      <3> QED
        BY <3>3, <3>4
    <2> QED
      BY <2>3, <2>4
  <1>12. ASSUME NEW u \in User, NEW y \in Type
         PROVE  Justified(InitReputation, req', outcome', u, y)
    BY <1>8, JustifiedNext DEF EarnedInv, NewRowsEarned
  <1>13. ASSUME NEW j \in Request, req'[j].pc = "updating"
         PROVE  Justified(req'[j].row.value, req', outcome', req'[j].call.user, TypeOf[req'[j].action])
    <2>1. req'[j] = req[j]
      BY <1>13, UpdateMoves DEF Stands
    <2>2. req[j].pc = "updating"
      BY <1>13, <2>1
    <2>3. req[j].row \in ReputationRow /\ req[j].call \in Call /\ req[j].action \in Action
      BY <2>2, Shapes DEF TypeOK, Calling
    <2>4. PICK x \in Int : x = req[j].row.value
      BY <2>3 DEF ReputationRow
    <2>5. Justified(x, req, outcome, req[j].call.user, TypeOf[req[j].action])
      BY <2>2, <2>4 DEF EarnedInv, CopiesEarned
    <2>6. req[j].call.user \in User /\ TypeOf[req[j].action] \in Type
      BY <2>3, CallType
    <2>7. Justified(x, req', outcome', req[j].call.user, TypeOf[req[j].action])
      BY <1>8, <2>5, <2>6, JustifiedNext DEF EarnedInv
    <2> QED
      BY <2>1, <2>4, <2>7
  <1>14. NewRowsEarned' /\ RowsEarned' /\ CopiesEarned'
    BY <1>11, <1>12, <1>13 DEF NewRowsEarned, RowsEarned, CopiesEarned
  <1> QED
    BY <1>14 DEF EarnedInv

\* What earned the reputations, over every step.
LEMMA StepEarned ==
  ASSUME TypeOK, TypeOK', EarnedInv, [Next]_vars
  PROVE  EarnedInv'
  <1>0. HandlersFollow /\ HandlersFollow'
    BY StepFollows DEF EarnedInv
  <1>1. CASE UNCHANGED vars \/ Beside
    <2>1. UNCHANGED << req, reputation, outcome >>
      BY <1>1, BesideStands DEF vars
    <2> QED
      BY <2>1 DEF EarnedInv, HandlersFollow, NewRowsEarned, RowsEarned, CopiesEarned
  <1>2. ASSUME NEW i \in Request, Stands(i), UNCHANGED << outcome, reputation >>,
               req'[i].pc \notin Moving
        PROVE  EarnedInv'
    <2>1. Kept
      BY <1>0, <1>2, DropKept
    <2>2. ASSUME NEW j \in Request, req'[j].pc = "updating" PROVE req'[j] = req[j]
      BY <1>2, <2>2 DEF Stands, Moving
    <2> QED
      BY <1>0, <1>2, <2>1, <2>2, Unmoved
  <1>3. ASSUME NEW i \in Request, NEW u \in User,
               ListTasks(i, u) \/ \E op \in Op, t \in Task : GetUser(i, op, u, t)
        PROVE  EarnedInv'
    <2>1. UNCHANGED reputation
      BY <1>3 DEF ListTasks, GetUser
    <2> QED
      BY <1>2, <1>3, <2>1, Leaves
  <1>4. ASSUME NEW i \in Request, Step(i) PROVE EarnedInv'
    <2>1. CASE \/ AlreadyCompleted(i) \/ LoadReport(i) \/ Return(i)
               \/ PayShare(i) \/ PayOwn(i) \/ CountReports(i) \/ SaveBadges(i)
               \/ ReadForList(i) \/ FindStrategy(i) \/ AnswerList(i)
      <3>1. UNCHANGED reputation
        BY <2>1, LookMoves DEF AlreadyCompleted, LoadReport, Return, PayShare, PayOwn,
                               CountReports, SaveBadges, ReadForList, AnswerList
      <3> QED
        BY <1>2, <2>1, <3>1, Leaves
    <2>2. CASE ComputePoints(i)
      <3>1. UNCHANGED reputation
        BY <2>2 DEF ComputePoints, Fails
      <3> QED
        BY <1>2, <2>2, <3>1, Leaves
    <2>3. CASE FindReputation(i) /\ Fails(i)
      BY <1>2, <2>3, FailsMoves DEF Moving
    <2>4. CASE SaveReport(i)
      <3>1. Kept
        BY <1>0, <2>4, SaveKept
      <3>2. ASSUME NEW j \in Request, req'[j].pc = "updating" PROVE req'[j] = req[j]
        BY <2>4, <3>2, SaveMoves DEF Stands
      <3>3. UNCHANGED reputation
        BY <2>4, SaveMoves
      <3> QED
        BY <1>0, <3>1, <3>2, <3>3, Unmoved
    <2>5. CASE FindReputation(i) /\ ~ Fails(i)
      <3>1. Kept
        BY <1>0, <2>5, FindMoves, DropKept DEF Moving
      <3>2. ASSUME NEW j \in Request, req'[j].pc = "updating"
            PROVE  \/ req'[j] = req[j]
                   \/ \E r \in DOMAIN reputation :
                        /\ req'[j].row.value = reputation[r]
                        /\ r[1] = req'[j].call.user /\ r[2] = TypeOf[req'[j].action]
        <4>1. CASE j # i
          BY <2>5, <4>1, FindMoves DEF Stands
        <4>2. CASE j = i
          <5>1. PICK r : /\ r = req'[i].row.id
                         /\ r \in RowsOf(req[i].call.user, TypeOf[req'[i].action])
                         /\ req'[i].row.value = reputation[r] /\ req'[i].call = req[i].call
            BY <2>5, <3>2, <4>2, FindMoves
          <5>2. r \in DOMAIN reputation /\ r[1] = req'[i].call.user /\ r[2] = TypeOf[req'[i].action]
            BY <5>1 DEF RowsOf
          <5> QED
            BY <4>2, <5>1, <5>2
        <4> QED
          BY <4>1, <4>2
      <3>3. UNCHANGED reputation
        BY <2>5, FindMoves
      <3> QED
        BY <1>0, <3>1, <3>2, <3>3, Unmoved
    <2>6. CASE CreateReputation(i)
      <3>1. Kept
        BY <1>0, <2>6, CreateMoves, DropKept DEF Moving
      <3>2. ASSUME NEW j \in Request, req'[j].pc = "updating"
            PROVE  req'[j] = req[j] \/ req'[j].row.value = InitReputation
        BY <2>6, <3>2, CreateMoves DEF Stands
      <3>3. ASSUME NEW r \in DOMAIN reputation'
            PROVE  \/ r \in DOMAIN reputation /\ reputation'[r] = reputation[r]
                   \/ reputation'[r] = InitReputation
        <4>1. \E q : reputation' = [x \in DOMAIN reputation \cup {q} |->
                                   IF x = q THEN InitReputation ELSE reputation[x]]
          BY <2>6 DEF CreateReputation
        <4> QED
          BY <4>1
      <3> QED
        BY <1>0, <3>1, <3>2, <3>3, Unmoved
    <2>7. CASE AddForList(i)
      <3>1. Kept
        <4>1. Stands(i) /\ UNCHANGED outcome /\ req'[i].pc \notin Moving
          BY <2>7, Leaves
        <4> QED
          BY <1>0, <4>1, DropKept
      <3>2. ASSUME NEW j \in Request, req'[j].pc = "updating" PROVE req'[j] = req[j]
        BY <2>7, <3>2, Leaves DEF Stands, Moving
      <3>3. ASSUME NEW r \in DOMAIN reputation'
            PROVE  \/ r \in DOMAIN reputation /\ reputation'[r] = reputation[r]
                   \/ reputation'[r] = InitReputation
        BY <2>7 DEF AddForList
      <3> QED
        BY <1>0, <3>1, <3>2, <3>3, Unmoved
    <2> QED
      BY <1>4, <2>1, <2>2, <2>3, <2>4, <2>5, <2>6, <2>7, UpdateEarned, <1>0 DEF Step
  <1>5. CASE Crash
    <2>1. UNCHANGED << reputation, outcome >> /\ \A i \in Request : req'[i].pc = "idle"
      BY <1>5 DEF Crash, Idle
    <2>2. PICK q, o, p : q = req /\ o = outcome /\ p = req'
      OBVIOUS
    <2>3. /\ q \in [Request -> Worker] /\ o \in Histories
          /\ \A j \in Request : Follows(q[j]) /\ p[j].pc \notin Moving
      BY <1>0, <2>1, <2>2 DEF TypeOK, Worker, Histories, HandlersFollow, Moving
    <2>4. ASSUME NEW u \in User, NEW y \in Type PROVE Slack(q, o, p, o, u, y)
      BY <2>3, Forgets
    <2>5. Kept
      BY <2>1, <2>2, <2>4 DEF Kept
    <2> QED
      BY <1>0, <2>1, <2>5, Unmoved
  <1> QED
    BY <1>1, <1>3, <1>4, <1>5 DEF Next

\* ... and at the start, with no report saved.
LEMMA InitEarned ==
  ASSUME Init
  PROVE  EarnedInv
  <1>1. \A i \in Request : req[i].pc = "idle"
    <2>1. \A i \in Request : req[i] = Idle
      BY DEF Init
    <2> QED
      BY <2>1 DEF Idle
  <1>2. HandlersFollow /\ CopiesEarned
    BY <1>1 DEF HandlersFollow, CopiesEarned, Follows, Moving
  <1>3. RowsEarned
    BY DEF Init, RowsEarned
  <1>4. ASSUME NEW u \in User, NEW y \in Type, NEW ops \in {Gains, Losses}
        PROVE  PendingOf(req, u, y, ops) = 0 /\ Value(outcome, u, y, ops) = 0
    <2>1. PendingOf(req, u, y, ops) = 0
      BY <1>1, NothingPending DEF Moving
    <2>2. ASSUME NEW t \in Task PROVE SumFunction(Entries(outcome, u, t, ops)) = 0
      <3>1. IsFiniteSet(ops) /\ ops \in SUBSET Op
        BY OpKinds
      <3>2. ASSUME NEW op \in ops PROVE Delta[op] * outcome[<< u, t >>][op] = 0
        <4>1. outcome[<< u, t >>][op] = 0 /\ Delta[op] \in Int
          BY <3>1, OpKinds DEF Init, Reports
        <4> QED
          BY <4>1
      <3>3. Entries(outcome, u, t, ops) \in [ops -> {0}]
        BY <3>2 DEF Entries
      <3> QED
        BY <3>1, <3>3, TotalOfZeros
    <2>3. ASSUME NEW t \in Task
          PROVE  Cardinality(ActionsOfType(t, y)) * SumFunction(Entries(outcome, u, t, ops)) = 0
      BY <2>2, TypesAreCounted
    <2>4. Parts(outcome, u, y, ops) \in [Task -> {0}] /\ IsFiniteSet(Task)
      BY <2>3 DEF Parts
    <2>5. Value(outcome, u, y, ops) = 0
      BY <2>4, TotalOfZeros, PartsOfValue
    <2> QED
      BY <2>1, <2>5
  <1>5. NewRowsEarned
    BY <1>4 DEF NewRowsEarned, Justified
  <1> QED
    BY <1>2, <1>3, <1>5 DEF EarnedInv

\* updateReputation reads a row, adds the delta of the report and writes it back: with
\* workers that overwrite each other, crash in between or clamp, updates may be lost, but
\* none is counted that no saved report calls for, and none is counted twice.
THEOREM ReputationsAreEarned == Spec => []ReputationEarned
  <1>1. Init => TypeOK /\ EarnedInv
    BY InitInv, InitEarned DEF IInv
  <1>2. TypeOK /\ TypeOK' /\ EarnedInv /\ [Next]_vars => EarnedInv'
    BY StepEarned
  <1>3. TypeOK /\ EarnedInv => ReputationEarned
    <2> SUFFICES ASSUME TypeOK, EarnedInv, NEW r \in DOMAIN reputation
                 PROVE  /\ reputation[r] <= InitReputation + Worth(r[1], r[2], Gains)
                        /\ reputation[r] >= InitReputation + Worth(r[1], r[2], Losses)
      BY DEF ReputationEarned, Gains, Losses
    <2>1. r \in RowId /\ reputation[r] \in Int
      BY DEF TypeOK
    <2>2. r[1] \in User /\ r[2] \in Type
      BY <2>1 DEF RowId
    <2>3. Justified(reputation[r], req, outcome, r[1], r[2])
      BY DEF EarnedInv, RowsEarned
    <2>4. /\ Worth(r[1], r[2], Gains) = Value(outcome, r[1], r[2], Gains)
          /\ Worth(r[1], r[2], Losses) = Value(outcome, r[1], r[2], Losses)
      BY DEF Worth, Value
    <2>5. \A j \in Request : Follows(req[j])
      BY DEF EarnedInv, HandlersFollow
    <2>6. /\ PendingOf(req, r[1], r[2], Gains) >= 0
          /\ PendingOf(req, r[1], r[2], Losses) <= 0
          /\ PendingOf(req, r[1], r[2], Gains) \in Int
          /\ PendingOf(req, r[1], r[2], Losses) \in Int
      BY <2>5, StateTypes, PendingSigns, PendingIsInt
    <2>7. /\ Value(outcome, r[1], r[2], Gains) \in Int
          /\ Value(outcome, r[1], r[2], Losses) \in Int
      BY <2>2, StateTypes, ValueType
    <2> QED
      BY <2>1, <2>3, <2>4, <2>6, <2>7 DEF Justified
  <1> QED
    BY <1>1, <1>2, <1>3, TypeCorrect, PTL DEF Spec

-----------------------------------------------------------------------------
(* Shares.                                                                 *)

\* The workers that have paid member m its share of t and not yet the user they serve.
Holds(c, t, m) == c.pc = "paying" /\ c.call.task = t /\ m \notin DOMAIN c.group

Holding(t, m) == { i \in Request : Holds(req[i], t, m) }

PaidFor(t) == SumFunction([u \in User |-> paid[<< u, t >>]])

\* A share is there for every payment made, and for every one to come once it was its turn,
\* but for those by the default strategy.
SharesPaid ==
  \A t \in Task : \A m \in GroupOf[t] :
    PaidFor(t) + Cardinality(Holding(t, m)) <= shares[<< m, t >>] + byDefault[t]

\* The payments for a task are a number.
LEMMA PaidForType == ASSUME TypeOK, NEW t \in Task PROVE PaidFor(t) \in Int
  <1>1. [u \in User |-> paid[<< u, t >>]] \in [User -> Int] /\ IsFiniteSet(User)
    BY DEF TypeOK, Reports
  <1> QED
    BY <1>1, TotalIsInt DEF PaidFor

\* The shares of the members are numbers.
LEMMA SharesType ==
  ASSUME TypeOK, NEW t \in Task, NEW m \in GroupOf[t]
  PROVE  << m, t >> \in Reports /\ shares[<< m, t >>] \in Int /\ byDefault[t] \in Int
  BY DEF TypeOK, Reports

\* Nobody comes to hold a share, and nothing is paid.
LEMMA SharesStay ==
  ASSUME TypeOK, SharesPaid, UNCHANGED << paid, shares, byDefault >>,
         \A j \in Request, t \in Task : \A m \in GroupOf[t] :
           Holds(req'[j], t, m) => Holds(req[j], t, m)
  PROVE  SharesPaid'
  <1> SUFFICES ASSUME NEW t \in Task, NEW m \in GroupOf[t]
               PROVE  PaidFor(t)' + Cardinality(Holding(t, m)')
                        <= shares'[<< m, t >>] + byDefault'[t]
    BY DEF SharesPaid
  <1>1. PICK S, T : S = Holding(t, m) /\ T = Holding(t, m)'
    OBVIOUS
  <1>2. S \in SUBSET Request /\ T \in SUBSET Request /\ T \subseteq S
    BY <1>1 DEF Holding
  <1>3. Cardinality(S) \in Nat /\ Cardinality(T) \in Nat /\ Cardinality(T) <= Cardinality(S)
    BY <1>2, WorkersAreFinite, FS_Subset
  <1>4. PaidFor(t) + Cardinality(S) <= shares[<< m, t >>] + byDefault[t]
    BY <1>1 DEF SharesPaid
  <1>5. PaidFor(t)' = PaidFor(t)
    BY DEF PaidFor
  <1>6. PaidFor(t) \in Int /\ shares[<< m, t >>] \in Int /\ byDefault[t] \in Int
    BY PaidForType, SharesType
  <1> QED
    BY <1>1, <1>3, <1>4, <1>5, <1>6

\* One more share of member m, which the worker holds now.
LEMMA SharePaid ==
  ASSUME TypeOK, TypeOK', SharesPaid, NEW i \in Request, PayShare(i)
  PROVE  SharesPaid'
  <1>1. req[i].pc = "paying" /\ UNCHANGED << paid, byDefault >>
    BY DEF PayShare
  <1>2. PICK m \in DOMAIN req[i].group :
          /\ shares' = [shares EXCEPT ![<< m, req[i].call.task >>] = @ + 1]
          /\ req' = [req EXCEPT ![i].group =
                       [n \in DOMAIN req[i].group \ {m} |-> req[i].group[n]]]
    BY DEF PayShare
  <1>3. PICK g : g = [n \in DOMAIN req[i].group \ {m} |-> req[i].group[n]]
    OBVIOUS
  <1>4. req'[i] = [req[i] EXCEPT !.group = g] /\ Stands(i)
    BY <1>2, <1>3 DEF TypeOK, Stands
  <1>5. req[i] \in Working
    BY <1>1, Shapes DEF TypeOK, Idle
  <1>6. /\ req'[i].pc = "paying" /\ req'[i].call = req[i].call /\ req'[i].group = g
    BY <1>1, <1>4, <1>5 DEF Working
  <1>7. PICK s : s = req[i].call.task
    OBVIOUS
  <1> SUFFICES ASSUME NEW t \in Task, NEW n \in GroupOf[t]
               PROVE  PaidFor(t)' + Cardinality(Holding(t, n)')
                        <= shares'[<< n, t >>] + byDefault'[t]
    BY DEF SharesPaid
  <1>8. PICK S, T : S = Holding(t, n) /\ T = Holding(t, n)'
    OBVIOUS
  <1>9. S \in SUBSET Request /\ T \in SUBSET Request /\ S \ {i} = T \ {i}
    BY <1>4, <1>8 DEF Holding, Stands
  <1>10. /\ i \in S <=> s = t /\ n \notin DOMAIN req[i].group
         /\ i \in T <=> s = t /\ (n \notin DOMAIN req[i].group \/ n = m)
    BY <1>1, <1>3, <1>6, <1>7, <1>8 DEF Holding, Holds
  <1>11. Cardinality(S) \in Nat /\ Cardinality(T) \in Nat
    BY <1>9, WorkersAreFinite
  <1>12. PaidFor(t) + Cardinality(S) <= shares[<< n, t >>] + byDefault[t]
    BY <1>8 DEF SharesPaid
  <1>13. PaidFor(t)' = PaidFor(t)
    BY <1>1 DEF PaidFor
  <1>14. PaidFor(t) \in Int /\ shares[<< n, t >>] \in Int /\ byDefault[t] \in Int
    BY PaidForType, SharesType
  <1>15. CASE s = t /\ n = m
    <2>1. Cardinality(T) = Cardinality(S) + 1
      BY <1>9, <1>10, <1>15, OneMoves
    <2>2. shares'[<< n, t >>] = shares[<< n, t >>] + 1
      BY <1>2, <1>7, <1>15, SharesType DEF TypeOK
    <2> QED
      BY <1>1, <1>8, <1>11, <1>12, <1>13, <1>14, <2>1, <2>2
  <1>16. CASE ~ (s = t /\ n = m)
    <2>1. Cardinality(T) = Cardinality(S)
      BY <1>9, <1>10, <1>16, OneMoves
    <2>2. shares'[<< n, t >>] = shares[<< n, t >>]
      BY <1>2, <1>7, <1>16, SharesType DEF TypeOK
    <2> QED
      BY <1>1, <1>8, <1>11, <1>12, <1>13, <1>14, <2>1, <2>2
  <1> QED
    BY <1>15, <1>16

\* The points of the user, by a worker that holds all the shares.
LEMMA OwnPaid ==
  ASSUME TypeOK, TypeOK', SharesPaid, NEW i \in Request, PayOwn(i)
  PROVE  SharesPaid'
  <1>1. /\ req[i].pc = "paying" /\ req[i].call \in Call /\ DOMAIN req[i].group = {}
        /\ UNCHANGED << shares, byDefault >>
    BY Shapes DEF PayOwn, TypeOK, Calling
  <1>2. PICK w \in User, s \in Task : w = req[i].call.user /\ s = req[i].call.task
    BY <1>1, CallType
  <1>3. paid' = [paid EXCEPT ![<< w, s >>] = @ + 1]
    BY <1>2 DEF PayOwn, ReportOf
  <1>4. req'[i].pc = "counting" /\ Stands(i)
    BY DEF PayOwn, Goes, TypeOK, Stands
  <1> SUFFICES ASSUME NEW t \in Task, NEW n \in GroupOf[t]
               PROVE  PaidFor(t)' + Cardinality(Holding(t, n)')
                        <= shares'[<< n, t >>] + byDefault'[t]
    BY DEF SharesPaid
  <1>5. PICK S, T : S = Holding(t, n) /\ T = Holding(t, n)'
    OBVIOUS
  <1>6. S \in SUBSET Request /\ T \in SUBSET Request /\ S \ {i} = T \ {i}
    BY <1>4, <1>5 DEF Holding, Stands
  <1>7. (i \in S <=> s = t) /\ i \notin T
    BY <1>1, <1>2, <1>4, <1>5 DEF Holding, Holds
  <1>8. Cardinality(S) \in Nat /\ Cardinality(T) \in Nat
    BY <1>6, WorkersAreFinite
  <1>9. PaidFor(t) + Cardinality(S) <= shares[<< n, t >>] + byDefault[t]
    BY <1>5 DEF SharesPaid
  <1>10. PaidFor(t) \in Int /\ shares[<< n, t >>] \in Int /\ byDefault[t] \in Int
    BY PaidForType, SharesType
  <1>11. CASE s = t
    <2>1. Cardinality(S) = Cardinality(T) + 1
      BY <1>6, <1>7, <1>11, OneMoves
    <2>2. PICK f, g : /\ f = [u \in User |-> paid[<< u, t >>]]
                      /\ g = [u \in User |-> paid'[<< u, t >>]]
      OBVIOUS
    <2>3. f \in [User -> Int] /\ g \in [User -> Int] /\ IsFiniteSet(User)
      BY <2>2 DEF TypeOK, Reports
    <2>4. \A u \in User \ {w} : g[u] = f[u]
      BY <1>3, <2>2
    <2>5. g[w] = f[w] + 1
      <3>1. << w, s >> \in Reports
        BY DEF Reports
      <3> QED
        BY <1>3, <1>11, <2>2, <3>1 DEF TypeOK
    <2>6. SumFunction(g) = SumFunction(f) + (g[w] - f[w])
      BY <2>3, <2>4, TotalChanges
    <2>7. f[w] \in Int /\ SumFunction(f) \in Int
      BY <2>3, TotalIsInt
    <2>8. PaidFor(t) = SumFunction(f) /\ PaidFor(t)' = SumFunction(g)
      BY <2>2 DEF PaidFor
    <2>9. PaidFor(t)' = PaidFor(t) + 1
      BY <2>5, <2>6, <2>7, <2>8
    <2> QED
      BY <1>1, <1>5, <1>8, <1>9, <1>10, <2>1, <2>9
  <1>12. CASE s # t
    <2>1. Cardinality(T) = Cardinality(S)
      BY <1>6, <1>7, <1>12, OneMoves
    <2>2. \A u \in User : paid'[<< u, t >>] = paid[<< u, t >>]
      BY <1>3, <1>12
    <2>3. PaidFor(t)' = PaidFor(t)
      BY <2>2 DEF PaidFor
    <2> QED
      BY <1>1, <1>5, <1>8, <1>9, <1>10, <2>1, <2>3
  <1> QED
    BY <1>11, <1>12

\* The strategy asked: the group's members have their shares to come, or there will be none.
LEMMA StrategyAsked ==
  ASSUME TypeOK, TypeOK', SharesPaid, NEW i \in Request, ComputePoints(i), ~ Fails(i)
  PROVE  SharesPaid'
  <1>1. /\ UNCHANGED << paid, shares >> /\ req[i].pc = "saved" /\ req[i] \in {Idle} \cup Working
        /\ strategies[req[i].call.task] <= 1
        /\ byDefault' = [byDefault EXCEPT ![req[i].call.task] =
                           IF strategies[req[i].call.task] = 0 THEN @ + 1 ELSE @]
        /\ Goes(i, [pc |-> "paying", call |-> req[i].call,
                    group |-> [m \in Receivers(req[i].call.task) |-> badges[m]]])
    BY ComputeMoves DEF TypeOK
  <1>2. req[i].call \in Call
    BY <1>1, Shapes DEF Calling
  <1>3. PICK s \in Task : s = req[i].call.task
    BY <1>2, CallType
  <1>4. PICK g : g = [m \in Receivers(s) |-> badges[m]]
    OBVIOUS
  <1>5. Stands(i) /\ req'[i] = [pc |-> "paying", call |-> req[i].call, group |-> g]
    BY <1>1, <1>3, <1>4 DEF Goes, TypeOK, Stands
  <1>6. req'[i].pc = "paying" /\ req'[i].call = req[i].call /\ DOMAIN req'[i].group = Receivers(s)
    BY <1>4, <1>5
  <1>7. strategies[s] \in {0, 1}
    <2>1. strategies \in [Task -> Nat]
      BY DEF TypeOK
    <2>2. strategies[s] \in Nat /\ strategies[s] <= 1
      BY <1>1, <1>3, <2>1
    <2> QED
      BY <2>2
  <1> SUFFICES ASSUME NEW t \in Task, NEW n \in GroupOf[t]
               PROVE  PaidFor(t)' + Cardinality(Holding(t, n)')
                        <= shares'[<< n, t >>] + byDefault'[t]
    BY DEF SharesPaid
  <1>8. PICK S, T : S = Holding(t, n) /\ T = Holding(t, n)'
    OBVIOUS
  <1>9. S \in SUBSET Request /\ T \in SUBSET Request /\ S \ {i} = T \ {i}
    BY <1>5, <1>8 DEF Holding, Stands
  <1>10. i \notin S /\ (i \in T <=> s = t /\ strategies[t] = 0)
    <2>1. i \in T <=> s = t /\ n \notin Receivers(s)
      BY <1>3, <1>6, <1>8 DEF Holding, Holds
    <2> QED
      BY <1>1, <1>7, <1>8, <2>1 DEF Holding, Holds, Receivers
  <1>11. Cardinality(S) \in Nat /\ Cardinality(T) \in Nat
    BY <1>9, WorkersAreFinite
  <1>12. PaidFor(t) + Cardinality(S) <= shares[<< n, t >>] + byDefault[t]
    BY <1>8 DEF SharesPaid
  <1>13. PaidFor(t)' = PaidFor(t)
    BY <1>1 DEF PaidFor
  <1>14. PaidFor(t) \in Int /\ shares[<< n, t >>] \in Int /\ byDefault[t] \in Int
    BY PaidForType, SharesType
  <1>15. CASE s = t /\ strategies[t] = 0
    <2>1. Cardinality(T) = Cardinality(S) + 1
      BY <1>9, <1>10, <1>15, OneMoves
    <2>2. byDefault'[t] = byDefault[t] + 1
      BY <1>1, <1>3, <1>15 DEF TypeOK
    <2> QED
      BY <1>1, <1>8, <1>11, <1>12, <1>13, <1>14, <2>1, <2>2
  <1>16. CASE ~ (s = t /\ strategies[t] = 0)
    <2>1. Cardinality(T) = Cardinality(S)
      BY <1>9, <1>10, <1>16, OneMoves
    <2>2. byDefault'[t] = byDefault[t]
      BY <1>1, <1>3, <1>16 DEF TypeOK
    <2> QED
      BY <1>1, <1>8, <1>11, <1>12, <1>13, <1>14, <2>1, <2>2
  <1> QED
    BY <1>15, <1>16

\* The shares, over every step.
LEMMA StepShares ==
  ASSUME TypeOK, TypeOK', SharesPaid, [Next]_vars
  PROVE  SharesPaid'
  <1>1. CASE UNCHANGED vars \/ Beside
    <2>1. UNCHANGED << req, paid, shares, byDefault >>
      BY <1>1, BesideStands DEF vars
    <2> QED
      BY <2>1, SharesStay
  <1>2. ASSUME NEW i \in Request, Stands(i), UNCHANGED << paid, shares, byDefault >>,
               req'[i].pc # "paying"
        PROVE  SharesPaid'
    <2>1. ASSUME NEW j \in Request, NEW t, NEW m, Holds(req'[j], t, m) PROVE Holds(req[j], t, m)
      BY <1>2, <2>1 DEF Stands, Holds
    <2> QED
      BY <1>2, <2>1, SharesStay
  <1>3. ASSUME NEW i \in Request, NEW u \in User,
               ListTasks(i, u) \/ \E op \in Op, t \in Task : GetUser(i, op, u, t)
        PROVE  SharesPaid'
    <2>1. UNCHANGED << paid, shares, byDefault >>
      BY <1>3 DEF ListTasks, GetUser
    <2>2. Stands(i) /\ req'[i].pc # "paying"
      BY <1>3 DEF ListTasks, GetUser, Goes, TypeOK, Stands
    <2> QED
      BY <1>2, <2>1, <2>2
  <1>4. ASSUME NEW i \in Request, Step(i) PROVE SharesPaid'
    <2>1. CASE \/ AlreadyCompleted(i) \/ LoadReport(i) \/ Return(i)
               \/ CountReports(i) \/ SaveBadges(i)
               \/ ReadForList(i) \/ AddForList(i) \/ FindStrategy(i) \/ AnswerList(i)
      <3>1. /\ UNCHANGED << paid, shares >> /\ req[i].pc \notin {"paying"}
            /\ ~ (req[i].pc = "saved" /\ req[i].call.op = "complete")
        BY <2>1, LookMoves DEF AlreadyCompleted, LoadReport, Return, CountReports, SaveBadges,
                               ReadForList, AddForList, AnswerList
      <3>2. ~ PayShare(i) /\ ~ ComputePoints(i)
        BY <3>1 DEF PayShare, ComputePoints
      <3>3. Stands(i) /\ req'[i].pc # "paying" /\ UNCHANGED byDefault
        BY <2>1, <3>2, Leaves
      <3> QED
        BY <1>2, <3>1, <3>3
    <2>2. CASE SaveReport(i)
      BY <1>2, <2>2, SaveMoves
    <2>3. CASE FindReputation(i)
      <3>1. UNCHANGED byDefault
        BY <2>3 DEF FindReputation
      <3> QED
        BY <1>2, <2>3, <3>1, FailsMoves, FindMoves
    <2>4. CASE CreateReputation(i) \/ UpdateReputation(i)
      BY <1>2, <2>4, CreateMoves, UpdateMoves
    <2>5. CASE ComputePoints(i)
      <3>1. Fails(i) => UNCHANGED << paid, shares, byDefault >>
        BY <2>5 DEF ComputePoints, Goes, Fails, Idle, TypeOK
      <3> QED
        BY <1>2, <2>5, <3>1, FailsMoves, StrategyAsked
    <2> QED
      BY <1>4, <2>1, <2>2, <2>3, <2>4, <2>5, SharePaid, OwnPaid DEF Step
  <1>5. CASE Crash
    <2>1. UNCHANGED << paid, shares, byDefault >> /\ \A i \in Request : req'[i].pc = "idle"
      BY <1>5 DEF Crash, Idle
    <2>2. \A j \in Request, t \in Task : \A m \in GroupOf[t] : ~ Holds(req'[j], t, m)
      BY <2>1 DEF Holds
    <2> QED
      BY <2>1, <2>2, SharesStay
  <1> QED
    BY <1>1, <1>3, <1>4, <1>5 DEF Next

\* ... and at the start, with none paid.
LEMMA InitShares ==
  ASSUME Init
  PROVE  SharesPaid
  <1> SUFFICES ASSUME NEW t \in Task, NEW m \in GroupOf[t]
               PROVE  PaidFor(t) + Cardinality(Holding(t, m)) <= shares[<< m, t >>] + byDefault[t]
    BY DEF SharesPaid
  <1>1. \A i \in Request : req[i].pc = "idle"
    <2>1. \A i \in Request : req[i] = Idle
      BY DEF Init
    <2> QED
      BY <2>1 DEF Idle
  <1>2. Holding(t, m) = {}
    BY <1>1 DEF Holding, Holds
  <1>3. Cardinality(Holding(t, m)) = 0
    BY <1>2, FS_EmptySet
  <1>4. [u \in User |-> paid[<< u, t >>]] \in [User -> {0}] /\ IsFiniteSet(User)
    BY DEF Init, Reports
  <1>5. PaidFor(t) = 0
    BY <1>4, TotalOfZeros DEF PaidFor
  <1>6. shares[<< m, t >>] = 0 /\ byDefault[t] = 0
    BY DEF Init, Reports
  <1>7. 0 + 0 <= 0 + 0
    OBVIOUS
  <1> QED
    BY <1>3, <1>5, <1>6, <1>7

\* Over any interleaving of the workers' payments and restarts half way, each member of a
\* group has a share for every completion of the group's step that was paid, but for those
\* the default strategy was asked about, in the time when the step had no strategy row.
THEOREM SharesComeFirst == Spec => []SharesBeforeOwn
  <1>1. Init => SharesPaid
    BY InitShares
  <1>2. TypeOK /\ TypeOK' /\ SharesPaid /\ [Next]_vars => SharesPaid'
    BY StepShares
  <1>3. TypeOK /\ SharesPaid => SharesBeforeOwn
    <2> SUFFICES ASSUME TypeOK, SharesPaid, NEW t \in Task, NEW m \in GroupOf[t]
                 PROVE  SumFunction([u \in User |-> paid[<< u, t >>]])
                          <= shares[<< m, t >>] + byDefault[t]
      BY DEF SharesBeforeOwn
    <2>1. PICK n : n = Cardinality(Holding(t, m))
      OBVIOUS
    <2>2. Holding(t, m) \in SUBSET Request
      BY DEF Holding
    <2>3. n \in Nat
      BY <2>1, <2>2, WorkersAreFinite
    <2>4. PaidFor(t) + n <= shares[<< m, t >>] + byDefault[t]
      BY <2>1 DEF SharesPaid
    <2>5. PaidFor(t) <= shares[<< m, t >>] + byDefault[t]
      BY <2>3, <2>4, PaidForType, SharesType
    <2> QED
      BY <2>5 DEF PaidFor
  <1> QED
    BY <1>1, <1>2, <1>3, TypeCorrect, PTL DEF Spec
=============================================================================
