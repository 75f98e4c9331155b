-------------------------- MODULE PipelineTaskProofs --------------------------
(***************************************************************************)
(* Theorems about PipelineTask, for every value of its constants: any      *)
(* number of groups, members, steps, worker threads and restarts.          *)
(***************************************************************************)
EXTENDS PipelineTask, FiniteSetTheorems, TLAPS

USE PipelineAssumption

-----------------------------------------------------------------------------
(* The inductive invariant.                                                *)

\* Tasks are numbered in the order they are created, so the next is new.
TasksAreNumbered == \E n \in 0 .. MaxTasks : DOMAIN sent = 1 .. n

\* A progress row says of its task what the task is.
Describes(p) ==
  /\ p.task \in DOMAIN sent
  /\ sent[p.task].group = p.group
  /\ sent[p.task].step = p.step

RowsAreTrue == \A p \in progress : Describes(p)

\* Only tasks that were sent are completed.
CompletedWereSent == \A c \in completed : c[2] \in DOMAIN sent

\* The steps of a group have no gap.
NoGap(g) == \E h \in 0 .. Steps : StepsOf(g) = 1 .. h

StepsHaveNoGaps == \A g \in Group : NoGap(g)

\* The administrator's loop comes to a group before anything is known of it.
AdminIsFirst ==
  admin.pc # "idle" =>
    /\ \A g \in admin.todo : StepsOf(g) = {}
    /\ admin.pc \in {"ruling", "saving"} =>
         /\ Describes(admin.row)
         /\ admin.row.step = 1
         /\ admin.row.group \notin admin.todo
         /\ StepsOf(admin.row.group) = {}

\* What a handler holds is still true, however long ago it was read.
Agrees(i) ==
  req[i].pc # "idle" =>
    /\ req[i].task \in DOMAIN sent
    /\ req[i].pc # "loaded" => << req[i].user, req[i].task >> \in completed
    /\ req[i].pc \in {"found", "closing", "assigning"} =>
         /\ req[i].row \in progress
         /\ req[i].row.task = req[i].task
    /\ req[i].pc \in {"closing", "assigning"} => req[i].row.step < Steps
    /\ req[i].pc \in {"ruling", "saving"} =>
         /\ Describes(req[i].new)
         /\ sent[req[i].task].group = req[i].new.group
         /\ sent[req[i].task].step = req[i].new.step - 1
         /\ req[i].new.step - 1 \in StepsOf(req[i].new.group)

WorkersAgree == \A i \in Request : Agrees(i)

\* A completion that was not early found a row, and rows stay.
LateHaveRows == \A c \in completed \ early : RowsOf(c[2]) # {}

\* The parts of the invariant that only speak of the tables.
TablesInv ==
  /\ TasksAreNumbered
  /\ RowsAreTrue
  /\ CompletedWereSent
  /\ StepsHaveNoGaps
  /\ LateHaveRows
  /\ FollowsAnAnswer

IInv ==
  /\ TypeOK
  /\ TablesInv
  /\ AdminIsFirst
  /\ WorkersAgree
  /\ OnlyEarlyIsUnpaid

-----------------------------------------------------------------------------
(* Facts about the operators.                                              *)

\* The number of the next task.
LEMMA NextTaskIsNew ==
  ASSUME TasksAreNumbered
  PROVE  \E n \in 0 .. MaxTasks : DOMAIN sent = 1 .. n /\ NextTask = n + 1
<1>1. PICK n \in 0 .. MaxTasks : DOMAIN sent = 1 .. n
  BY DEF TasksAreNumbered
<1>2. Cardinality(1 .. n) = n
  <2>1. Cardinality(1 .. n) = IF 1 > n THEN 0 ELSE n - 1 + 1
    BY <1>1, FS_Interval
  <2>2. QED
    BY <1>1, <2>1
<1>3. QED
  BY <1>1, <1>2 DEF NextTask

\* The largest step without gaps is the number of steps.
LEMMA MaxOfInterval ==
  ASSUME NEW h \in Nat \ {0}
  PROVE  Max(1 .. h) = h
<1> DEFINE IsMax(x) == \A y \in 1 .. h : x >= y
<1>1. h \in 1 .. h /\ IsMax(h)
  OBVIOUS
<1>2. \A x \in 1 .. h : IsMax(x) => x = h
  OBVIOUS
<1>3. Max(1 .. h) = CHOOSE x \in 1 .. h : IsMax(x)
  BY DEF Max
<1>4. QED
  BY <1>1, <1>2, <1>3

-----------------------------------------------------------------------------
(* What the statements that write a table leave true.                      *)

\* Nothing is taken out of the tables.
Grows ==
  /\ DOMAIN sent \subseteq DOMAIN sent'
  /\ \A t \in DOMAIN sent : sent'[t] = sent[t]
  /\ progress \subseteq progress'
  /\ completed \subseteq completed'

\* A statement that writes no table keeps all that is said of them.
LEMMA SameTables ==
  ASSUME TablesInv, UNCHANGED << sent, progress, completed, early >>
  PROVE  /\ TablesInv'
         /\ Grows
         /\ \A g : StepsOf(g)' = StepsOf(g)
BY DEF TablesInv, Grows, TasksAreNumbered, RowsAreTrue, Describes,
       CompletedWereSent, StepsHaveNoGaps, NoGap, StepsOf, LateHaveRows, RowsOf,
       FollowsAnAnswer

\* A handler that did not move still agrees with tables that grew.
LEMMA OthersAgree ==
  ASSUME Grows, NEW i \in Request, Agrees(i), req'[i] = req[i]
  PROVE  Agrees(i)'
<1>1. \A g : StepsOf(g) \subseteq StepsOf(g)'
  BY DEF Grows, StepsOf
<1>2. QED
  BY <1>1 DEF Grows, Agrees, Describes

\* Creating a task keeps the tables' invariant, if the task follows an answer.
LEMMA SendKeeps ==
  ASSUME TypeOK, TablesInv, NEW task \in Sent, Send(task),
         UNCHANGED << progress, completed, early >>,
         task.step > 1 =>
           \E u \in User : /\ << u, task.after >> \in completed
                           /\ u \notin task.to
                           /\ sent[task.after].group = task.group
                           /\ sent[task.after].step = task.step - 1
  PROVE  /\ TablesInv'
         /\ Grows
         /\ DOMAIN sent' \subseteq StepTask
         /\ sent' \in [DOMAIN sent' -> Sent]
         /\ NextTask \in DOMAIN sent'
         /\ NextTask \in StepTask
         /\ sent'[NextTask] = task
         /\ \A g : StepsOf(g)' = StepsOf(g)
<1>1. PICK n \in 0 .. MaxTasks : DOMAIN sent = 1 .. n /\ NextTask = n + 1
  BY NextTaskIsNew DEF TablesInv
<1> DEFINE x == n + 1
<1>2. /\ x \in StepTask
      /\ x \notin DOMAIN sent
      /\ sent' = [t \in DOMAIN sent \cup {x} |-> IF t = x THEN task ELSE sent[t]]
  BY <1>1 DEF Send
<1> HIDE DEF x
<1>3. /\ DOMAIN sent' = DOMAIN sent \cup {x}
      /\ sent'[x] = task
      /\ \A t \in DOMAIN sent : sent'[t] = sent[t]
  BY <1>2
<1>4. Grows
  BY <1>3 DEF Grows
<1>5. \A g : StepsOf(g)' = StepsOf(g)
  BY DEF StepsOf
<1>6. sent' \in [DOMAIN sent' -> Sent] /\ DOMAIN sent' \subseteq StepTask
  BY <1>2, <1>3 DEF TypeOK
<1>7. TasksAreNumbered'
  <2>1. DOMAIN sent' = 1 .. x /\ x \in 0 .. MaxTasks
    BY <1>1, <1>2, <1>3 DEF x, StepTask
  <2>2. QED
    BY <2>1 DEF TasksAreNumbered
<1>8. RowsAreTrue' /\ CompletedWereSent'
  BY <1>3 DEF TablesInv, RowsAreTrue, Describes, CompletedWereSent
<1>9. StepsHaveNoGaps' /\ LateHaveRows'
  BY <1>5 DEF TablesInv, StepsHaveNoGaps, NoGap, LateHaveRows, RowsOf
<1>10. FollowsAnAnswer'
  <2>1. \A u, t : << u, t >> \in completed => t \in DOMAIN sent
    BY DEF TablesInv, CompletedWereSent
  <2>2. ASSUME NEW t \in DOMAIN sent', sent'[t].step > 1
        PROVE  \E u \in User : /\ << u, sent'[t].after >> \in completed'
                               /\ u \notin sent'[t].to
                               /\ sent'[sent'[t].after].group = sent'[t].group
                               /\ sent'[sent'[t].after].step = sent'[t].step - 1
    <3>1. CASE t = x
      BY <3>1, <2>1, <2>2, <1>3
    <3>2. CASE t \in DOMAIN sent
      <4>1. sent'[t] = sent[t]
        BY <3>2, <1>3
      <4>2. PICK u \in User : /\ << u, sent[t].after >> \in completed
                              /\ u \notin sent[t].to
                              /\ sent[sent[t].after].group = sent[t].group
                              /\ sent[sent[t].after].step = sent[t].step - 1
        BY <4>1, <3>2, <2>2 DEF TablesInv, FollowsAnAnswer
      <4>3. sent'[sent[t].after] = sent[sent[t].after]
        BY <4>2, <2>1, <1>3
      <4>4. QED
        BY <4>1, <4>2, <4>3
    <3>3. QED
      BY <3>1, <3>2, <1>3
  <2>3. QED
    BY <2>2 DEF FollowsAnAnswer
<1>11. QED
  BY <1>1, <1>2, <1>3, <1>4, <1>5, <1>6, <1>7, <1>8, <1>9, <1>10 DEF TablesInv, x

\* A row for the first step of a new group, or for the step after one that is
\* there, leaves no gap.
LEMMA RowLeavesNoGap ==
  ASSUME TypeOK, TablesInv, NEW p \in ProgressRow, progress' = progress \cup {p},
         \/ StepsOf(p.group) = {} /\ p.step = 1
         \/ p.step - 1 \in StepsOf(p.group)
  PROVE  /\ StepsHaveNoGaps'
         /\ \A g : g # p.group => StepsOf(g)' = StepsOf(g)
         /\ StepsOf(p.group)' = StepsOf(p.group) \cup {p.step}
<1>1. \A g : g # p.group => StepsOf(g)' = StepsOf(g)
  BY DEF StepsOf
<1>2. StepsOf(p.group)' = StepsOf(p.group) \cup {p.step}
  BY DEF StepsOf
<1>3. p.group \in Group /\ p.step \in 1 .. Steps
  BY DEF ProgressRow
<1>4. PICK h \in 0 .. Steps : StepsOf(p.group) = 1 .. h
  BY <1>3 DEF TablesInv, StepsHaveNoGaps, NoGap
<1>5. p.step \in 1 .. h + 1
  BY <1>3, <1>4
<1>6. \E k \in 0 .. Steps : StepsOf(p.group)' = 1 .. k
  <2>1. CASE p.step = h + 1
    BY <2>1, <1>2, <1>3, <1>4
  <2>2. CASE p.step \in 1 .. h
    BY <2>2, <1>2, <1>4
  <2>3. QED
    BY <1>5, <2>1, <2>2
<1>7. ASSUME NEW g \in Group PROVE NoGap(g)'
  BY <1>1, <1>6 DEF NoGap, TablesInv, StepsHaveNoGaps
<1>8. QED
  BY <1>1, <1>2, <1>7 DEF StepsHaveNoGaps

\* Writing such a row keeps the tables' invariant.
LEMMA RowKeeps ==
  ASSUME TypeOK, TablesInv, NEW p \in ProgressRow, progress' = progress \cup {p},
         UNCHANGED << sent, completed, early >>, Describes(p),
         \/ StepsOf(p.group) = {} /\ p.step = 1
         \/ p.step - 1 \in StepsOf(p.group)
  PROVE  /\ TablesInv'
         /\ Grows
         /\ \A g : g # p.group => StepsOf(g)' = StepsOf(g)
<1>1. /\ StepsHaveNoGaps'
      /\ \A g : g # p.group => StepsOf(g)' = StepsOf(g)
  BY RowLeavesNoGap
<1>2. Grows
  BY DEF Grows
<1>3. RowsAreTrue'
  BY DEF TablesInv, RowsAreTrue, Describes
<1>4. LateHaveRows'
  BY DEF TablesInv, LateHaveRows, RowsOf
<1>5. TasksAreNumbered' /\ CompletedWereSent' /\ FollowsAnAnswer'
  BY DEF TablesInv, TasksAreNumbered, CompletedWereSent, FollowsAnAnswer
<1>6. QED
  BY <1>1, <1>2, <1>3, <1>4, <1>5 DEF TablesInv

-----------------------------------------------------------------------------
(* The steps.                                                              *)

\* Nothing is known of the pipeline in the beginning.
LEMMA InitInv == Init => IInv
<1> SUFFICES ASSUME Init PROVE IInv
  OBVIOUS
<1> USE DEF Init
<1>1. TypeOK
  BY DEF TypeOK, Creating, Idle
<1>2. TasksAreNumbered /\ StepsHaveNoGaps
  <2>1. DOMAIN sent = 1 .. 0 /\ \A g : StepsOf(g) = 1 .. 0
    BY DEF StepsOf
  <2>2. 0 \in 0 .. MaxTasks /\ 0 \in 0 .. Steps
    OBVIOUS
  <2>3. \E n \in 0 .. MaxTasks : DOMAIN sent = 1 .. n
    BY <2>1, <2>2
  <2>4. \A g : NoGap(g)
    BY <2>1, <2>2 DEF NoGap
  <2>5. QED
    BY <2>3, <2>4 DEF TasksAreNumbered, StepsHaveNoGaps
<1>3. TablesInv
  BY <1>2 DEF TablesInv, RowsAreTrue, CompletedWereSent, LateHaveRows, FollowsAnAnswer
<1>4. AdminIsFirst /\ WorkersAgree /\ OnlyEarlyIsUnpaid
  BY DEF AdminIsFirst, StepsOf, WorkersAgree, Agrees, Idle, OnlyEarlyIsUnpaid
<1>5. QED
  BY <1>1, <1>3, <1>4 DEF IInv

\* The administrator sends a group its first step.
LEMMA AssignFirstKeeps ==
  ASSUME IInv, NEW g \in Group, AssignFirst(g)
  PROVE  IInv' /\ Grows
<1> USE DEF IInv
<1>0. PICK k : k = NextTask
  OBVIOUS
<1> DEFINE task == [group |-> g, step |-> 1, to |-> Members[g], after |-> 0]
           row == [group |-> g, step |-> 1, task |-> k]
<1>1. task \in Sent
  BY DEF Sent
<1>2. Send(task) /\ task.step = 1 /\ UNCHANGED << progress, completed, early >>
  BY DEF AssignFirst
<1> HIDE DEF task
<1>3. /\ TablesInv' /\ Grows
      /\ DOMAIN sent' \subseteq StepTask /\ sent' \in [DOMAIN sent' -> Sent]
      /\ k \in DOMAIN sent' /\ k \in StepTask
      /\ sent'[k] = task
      /\ \A x : StepsOf(x)' = StepsOf(x)
  BY <1>0, <1>1, <1>2, SendKeeps
<1>4. /\ g \in admin.todo /\ admin.pc = "groups"
      /\ admin' = [pc |-> "ruling", todo |-> admin.todo \ {g}, row |-> row]
      /\ UNCHANGED << ruled, progress, completed, early, closed, unpaid, thrown, req, crashes >>
  BY <1>0 DEF AssignFirst
<1>5. row \in ProgressRow
  BY <1>3 DEF ProgressRow
<1>6. admin.todo \in SUBSET Group
  BY <1>4 DEF TypeOK, Idle, Creating
<1>7. admin' \in Creating
  BY <1>4, <1>5, <1>6 DEF Creating
<1>8. TypeOK'
  BY <1>3, <1>4, <1>7 DEF TypeOK, Grows
<1>9. AdminIsFirst'
  <2>1. Describes(row)'
    BY <1>3 DEF Describes, task
  <2>2. \A x \in admin.todo : StepsOf(x)' = {}
    BY <1>3, <1>4 DEF AdminIsFirst
  <2>3. admin'.row = row /\ row.group = g
    BY <1>4
  <2>4. Describes(admin.row)' /\ admin'.row.step = 1
    BY <2>1, <2>3 DEF Describes
  <2>5. admin'.row.group \notin admin'.todo /\ StepsOf(admin.row.group)' = {}
    BY <2>2, <2>3, <1>4 DEF StepsOf
  <2>6. QED
    BY <2>2, <2>4, <2>5, <1>4 DEF AdminIsFirst
<1>10. WorkersAgree'
  BY <1>3, <1>4, OthersAgree DEF WorkersAgree
<1>11. OnlyEarlyIsUnpaid'
  BY <1>4 DEF OnlyEarlyIsUnpaid
<1>12. QED
  BY <1>3, <1>8, <1>9, <1>10, <1>11

\* It gets the strategy of groups.
LEMMA RuleFirstKeeps ==
  ASSUME IInv, RuleFirst
  PROVE  IInv' /\ Grows
<1> USE DEF IInv
<1>1. /\ admin.pc = "ruling" /\ admin' = [admin EXCEPT !.pc = "saving"]
      /\ ruled' = ruled \cup {admin.row.task}
      /\ UNCHANGED << sent, progress, completed, early, closed, unpaid, thrown, req, crashes >>
  BY DEF RuleFirst
<1>2. TablesInv' /\ Grows /\ \A g : StepsOf(g)' = StepsOf(g)
  BY <1>1, SameTables
<1>3. admin \in [pc : {"ruling", "saving"}, todo : SUBSET Group, row : ProgressRow]
  BY <1>1 DEF TypeOK, Idle, Creating
<1>4. /\ admin' \in [pc : {"ruling", "saving"}, todo : SUBSET Group, row : ProgressRow]
      /\ admin'.row = admin.row /\ admin'.todo = admin.todo /\ admin'.pc = "saving"
  BY <1>1, <1>3
<1>5. Describes(admin.row) /\ admin.row.task \in DOMAIN sent
  BY <1>1 DEF AdminIsFirst, Describes
<1>6. TypeOK'
  BY <1>1, <1>4, <1>5 DEF TypeOK, Creating
<1>7. AdminIsFirst'
  <2>1. \A g \in admin'.todo : StepsOf(g)' = {}
    BY <1>1, <1>2, <1>4 DEF AdminIsFirst
  <2>2. Describes(admin.row)' /\ StepsOf(admin.row.group)' = {}
    BY <1>1, <1>4, <1>5 DEF AdminIsFirst, Describes, StepsOf
  <2>3. admin'.row.step = 1 /\ admin'.row.group \notin admin'.todo
    BY <1>1, <1>4 DEF AdminIsFirst
  <2>4. QED
    BY <2>1, <2>2, <2>3 DEF AdminIsFirst
<1>8. WorkersAgree'
  BY <1>1, <1>2, OthersAgree DEF WorkersAgree
<1>9. OnlyEarlyIsUnpaid'
  BY <1>1 DEF OnlyEarlyIsUnpaid
<1>10. QED
  BY <1>2, <1>6, <1>7, <1>8, <1>9

\* Its progress is written, the loop goes on.
LEMMA SaveFirstKeeps ==
  ASSUME IInv, SaveFirst
  PROVE  IInv' /\ Grows
<1> USE DEF IInv
<1>1. /\ admin.pc = "saving" /\ admin' = [pc |-> "groups", todo |-> admin.todo]
      /\ progress' = progress \cup {admin.row}
      /\ UNCHANGED << sent, ruled, completed, early, closed, unpaid, thrown, req, crashes >>
  BY DEF SaveFirst
<1>2. admin.row \in ProgressRow /\ admin.todo \in SUBSET Group
  BY <1>1 DEF TypeOK, Idle, Creating
<1>3. /\ Describes(admin.row) /\ admin.row.step = 1
      /\ admin.row.group \notin admin.todo /\ StepsOf(admin.row.group) = {}
  BY <1>1 DEF AdminIsFirst
<1>4. /\ TablesInv' /\ Grows
      /\ \A g : g # admin.row.group => StepsOf(g)' = StepsOf(g)
  BY <1>1, <1>2, <1>3, RowKeeps
<1>5. TypeOK'
  BY <1>1, <1>2 DEF TypeOK, Creating
<1>6. AdminIsFirst'
  BY <1>1, <1>3, <1>4 DEF AdminIsFirst
<1>7. WorkersAgree'
  BY <1>1, <1>4, OthersAgree DEF WorkersAgree
<1>8. OnlyEarlyIsUnpaid'
  BY <1>1 DEF OnlyEarlyIsUnpaid
<1>9. QED
  BY <1>4, <1>5, <1>6, <1>7, <1>8

\* When one worker moves and the tables only grow, the others agree.
LEMMA OneMoves ==
  ASSUME TypeOK, WorkersAgree, Grows, NEW i \in Request, NEW x, Goes(i, x),
         Agrees(i)'
  PROVE  WorkersAgree'
<1>1. \A j \in Request \ {i} : req'[j] = req[j]
  BY DEF Goes, TypeOK
<1>2. ASSUME NEW j \in Request \ {i} PROVE Agrees(j)'
  BY <1>1, OthersAgree DEF WorkersAgree
<1>3. QED
  BY <1>2 DEF WorkersAgree

\* What a worker does leaves the administrator's loop alone, if it starts no
\* group.
LEMMA AdminWaits ==
  ASSUME TypeOK, AdminIsFirst, Grows, admin' = admin,
         \A g : StepsOf(g) = {} => StepsOf(g)' = {}
  PROVE  AdminIsFirst'
<1>1. ASSUME admin.pc \in {"ruling", "saving"}
      PROVE  Describes(admin.row)' /\ StepsOf(admin.row.group)' = {}
  <2>1. Describes(admin.row) /\ StepsOf(admin.row.group) = {}
    BY <1>1 DEF AdminIsFirst
  <2>2. QED
    BY <2>1 DEF Describes, Grows, StepsOf
<1>2. QED
  BY <1>1 DEF AdminIsFirst

\* The shapes of what a worker is doing.
LEMMA CalledShape ==
  ASSUME TypeOK, NEW i \in Request, req[i].pc \in {"loaded", "saved", "rewarding"}
  PROVE  req[i] \in Called
BY DEF TypeOK, Idle, Called, Advancing, Recording

LEMMA AdvancingShape ==
  ASSUME TypeOK, NEW i \in Request, req[i].pc \in {"found", "closing", "assigning"}
  PROVE  req[i] \in Advancing
BY DEF TypeOK, Idle, Called, Advancing, Recording

LEMMA RecordingShape ==
  ASSUME TypeOK, NEW i \in Request, req[i].pc \in {"ruling", "saving"}
  PROVE  req[i] \in Recording
BY DEF TypeOK, Idle, Called, Advancing, Recording

\* A call begins.
LEMMA LoadKeeps ==
  ASSUME IInv, NEW i \in Request, NEW u \in User, NEW t \in StepTask, Load(i, u, t)
  PROVE  IInv' /\ Grows
<1> USE DEF IInv
<1> DEFINE x == [pc |-> "loaded", user |-> u, task |-> t]
<1>1. /\ t \in DOMAIN sent /\ Goes(i, x) /\ req'[i] = x
      /\ UNCHANGED << sent, ruled, progress, completed, early, closed, unpaid, thrown,
                      admin, crashes >>
  BY DEF Load, Goes, TypeOK
<1>2. TablesInv' /\ Grows /\ \A g : StepsOf(g)' = StepsOf(g)
  BY <1>1, SameTables
<1>3. TypeOK'
  <2>1. x \in Called
    BY DEF Called
  <2>2. QED
    BY <1>1, <2>1 DEF TypeOK, Goes
<1>4. Agrees(i)'
  BY <1>1 DEF Agrees
<1>5. WorkersAgree'
  BY <1>1, <1>2, <1>4, OneMoves
<1>6. AdminIsFirst' /\ OnlyEarlyIsUnpaid'
  BY <1>1, <1>2, AdminWaits DEF OnlyEarlyIsUnpaid
<1>7. QED
  BY <1>2, <1>3, <1>5, <1>6

\* The report is saved as completed.
LEMMA SaveKeeps ==
  ASSUME IInv, NEW i \in Request, Save(i)
  PROVE  IInv' /\ Grows
<1> USE DEF IInv
<1> DEFINE q == req[i]
           c == << q.user, q.task >>
<1>1. q \in Called /\ q.pc = "loaded" /\ q.task \in DOMAIN sent
  BY CalledShape DEF Save, WorkersAgree, Agrees
<1>2. /\ completed' = completed \cup {c}
      /\ early' = IF RowsOf(q.task) = {} THEN early \cup {c} ELSE early
      /\ Goes(i, [q EXCEPT !.pc = "saved"])
      /\ UNCHANGED << sent, ruled, progress, closed, unpaid, thrown, admin, crashes >>
  BY DEF Save
<1>3. c \in User \X StepTask /\ c[2] = q.task
  BY <1>1 DEF Called
<1>4. /\ [q EXCEPT !.pc = "saved"] \in Called
      /\ [q EXCEPT !.pc = "saved"] = [pc |-> "saved", user |-> q.user, task |-> q.task]
  BY <1>1 DEF Called
<1>5. req'[i] = [pc |-> "saved", user |-> q.user, task |-> q.task]
  BY <1>2, <1>4 DEF Goes, TypeOK
<1>6. Grows
  BY <1>2 DEF Grows
<1>7. TypeOK'
  <2>1. completed' \subseteq User \X StepTask /\ early' \subseteq completed'
    BY <1>2, <1>3 DEF TypeOK
  <2>2. unpaid' \subseteq completed' /\ thrown' \subseteq completed'
    BY <1>2 DEF TypeOK
  <2>3. req' \in [Request -> {Idle} \cup Called \cup Advancing \cup Recording]
    BY <1>2, <1>4 DEF TypeOK, Goes
  <2>4. QED
    BY <1>2, <2>1, <2>2, <2>3 DEF TypeOK
<1>8. TablesInv'
  <2>1. TasksAreNumbered' /\ RowsAreTrue' /\ StepsHaveNoGaps'
    BY <1>2 DEF TablesInv, TasksAreNumbered, RowsAreTrue, Describes, StepsHaveNoGaps,
                NoGap, StepsOf
  <2>2. CompletedWereSent'
    BY <1>1, <1>2, <1>3 DEF TablesInv, CompletedWereSent
  <2>3. LateHaveRows'
    <3>1. ASSUME NEW d \in completed' \ early' PROVE RowsOf(d[2]) # {}
      BY <3>1, <1>2, <1>3 DEF TablesInv, LateHaveRows
    <3>2. QED
      BY <3>1, <1>2 DEF LateHaveRows, RowsOf
  <2>4. FollowsAnAnswer'
    <3>1. completed \subseteq completed' /\ sent' = sent
      BY <1>2
    <3>2. QED
      BY <3>1 DEF TablesInv, FollowsAnAnswer
  <2>5. QED
    BY <2>1, <2>2, <2>3, <2>4 DEF TablesInv
<1>9. WorkersAgree'
  <2>1. Agrees(i)'
    BY <1>1, <1>2, <1>5 DEF Agrees
  <2>2. QED
    BY <1>2, <1>6, <2>1, OneMoves
<1>10. AdminIsFirst'
  <2>1. \A g : StepsOf(g)' = StepsOf(g)
    BY <1>2 DEF StepsOf
  <2>2. QED
    BY <1>2, <1>6, <2>1, AdminWaits
<1>11. OnlyEarlyIsUnpaid'
  BY <1>2 DEF OnlyEarlyIsUnpaid
<1>12. QED
  BY <1>6, <1>7, <1>8, <1>9, <1>10, <1>11

\* A step that only moves worker i, and the bookkeeping no handler reads.
LEMMA MoveKeeps ==
  ASSUME IInv, NEW i \in Request, NEW x \in Called \cup Advancing, Goes(i, x),
         UNCHANGED << sent, ruled, progress, completed, early, unpaid, thrown, admin, crashes >>,
         closed' \subseteq StepTask,
         x.task \in DOMAIN sent,
         x.pc # "loaded" => << x.user, x.task >> \in completed,
         x.pc \in {"found", "closing", "assigning"} =>
           x.row \in progress /\ x.row.task = x.task,
         x.pc \in {"closing", "assigning"} => x.row.step < Steps
  PROVE  IInv' /\ Grows
<1> USE DEF IInv
<1>1. req'[i] = x /\ x.pc \notin {"idle", "ruling", "saving"}
  BY DEF Goes, TypeOK, Called, Advancing
<1>2. TablesInv' /\ Grows /\ \A g : StepsOf(g)' = StepsOf(g)
  BY SameTables
<1>3. TypeOK'
  BY DEF TypeOK, Goes
<1>4. Agrees(i)'
  BY <1>1 DEF Agrees
<1>5. WorkersAgree'
  BY <1>2, <1>4, OneMoves
<1>6. AdminIsFirst' /\ OnlyEarlyIsUnpaid'
  BY <1>2, AdminWaits DEF OnlyEarlyIsUnpaid
<1>7. QED
  BY <1>2, <1>3, <1>5, <1>6

\* A reputation throws, and the worker is free.
LEMMA ThrowReputationKeeps ==
  ASSUME IInv, NEW i \in Request, ThrowReputation(i)
  PROVE  IInv' /\ Grows
<1> USE DEF IInv
<1>1. PICK q : q = req[i]
  OBVIOUS
<1>2. q \in Called /\ q.pc = "saved" /\ << q.user, q.task >> \in completed
  BY <1>1, CalledShape DEF ThrowReputation, WorkersAgree, Agrees
<1>3. /\ thrown' = thrown \cup {<< q.user, q.task >>} /\ Goes(i, Idle)
      /\ UNCHANGED << sent, ruled, progress, completed, early, closed, unpaid, admin, crashes >>
  BY <1>1 DEF ThrowReputation
<1>4. TablesInv' /\ Grows /\ \A g : StepsOf(g)' = StepsOf(g)
  BY <1>3, SameTables
<1>5. TypeOK'
  BY <1>2, <1>3 DEF TypeOK, Goes
<1>6. Agrees(i)'
  BY <1>3 DEF Goes, TypeOK, Agrees, Idle
<1>7. WorkersAgree'
  BY <1>3, <1>4, <1>6, OneMoves
<1>8. AdminIsFirst' /\ OnlyEarlyIsUnpaid'
  BY <1>3, <1>4, AdminWaits DEF OnlyEarlyIsUnpaid
<1>9. QED
  BY <1>4, <1>5, <1>7, <1>8

\* The row of the completed task is read, or there is none.
LEMMA FindProgressKeeps ==
  ASSUME IInv, NEW i \in Request, FindProgress(i)
  PROVE  IInv' /\ Grows
<1> DEFINE q == req[i]
<1>1. /\ q \in Called /\ q.pc = "saved"
      /\ q.task \in DOMAIN sent /\ << q.user, q.task >> \in completed
  BY CalledShape DEF FindProgress, IInv, WorkersAgree, Agrees
<1>2. UNCHANGED << sent, ruled, progress, completed, early, closed, unpaid, thrown, admin, crashes >>
  BY DEF FindProgress
<1>3. closed' \subseteq StepTask
  BY <1>2 DEF IInv, TypeOK
<1>4. ASSUME NEW p \in RowsOf(q.task),
             Goes(i, [pc |-> "found", user |-> q.user, task |-> q.task, row |-> p])
      PROVE  IInv' /\ Grows
  <2> DEFINE x == [pc |-> "found", user |-> q.user, task |-> q.task, row |-> p]
  <2>1. p \in progress /\ p.task = q.task
    BY DEF RowsOf
  <2>2. x \in Advancing
    BY <1>1, <2>1 DEF Called, Advancing, IInv, TypeOK
  <2> HIDE DEF x
  <2>3. x.pc = "found" /\ x.user = q.user /\ x.task = q.task /\ x.row = p
    BY DEF x
  <2>4. Goes(i, x)
    BY <1>4 DEF x
  <2>5. QED
    BY <1>1, <1>2, <1>3, <2>1, <2>2, <2>3, <2>4, MoveKeeps
<1>5. ASSUME Goes(i, [q EXCEPT !.pc = "rewarding"])
      PROVE  IInv' /\ Grows
  <2> DEFINE x == [q EXCEPT !.pc = "rewarding"]
  <2>1. x \in Called /\ x.pc = "rewarding" /\ x.user = q.user /\ x.task = q.task
    BY <1>1 DEF Called
  <2>2. Goes(i, x)
    BY <1>5
  <2> HIDE DEF x
  <2>3. QED
    BY <1>1, <1>2, <1>3, <2>1, <2>2, MoveKeeps
<1>6. QED
  BY <1>4, <1>5 DEF FindProgress

\* The step is the current one and not the last, or there is nothing to send.
LEMMA ReadMaxKeeps ==
  ASSUME IInv, NEW i \in Request, ReadMax(i)
  PROVE  IInv' /\ Grows
<1> DEFINE q == req[i]
<1>1. /\ q \in Advancing /\ q.pc = "found"
      /\ q.task \in DOMAIN sent /\ << q.user, q.task >> \in completed
      /\ q.row \in progress /\ q.row.task = q.task
  BY AdvancingShape DEF ReadMax, IInv, WorkersAgree, Agrees
<1>2. UNCHANGED << sent, ruled, progress, completed, early, closed, unpaid, thrown, admin, crashes >>
  BY DEF ReadMax
<1>3. closed' \subseteq StepTask
  BY <1>2 DEF IInv, TypeOK
<1>4. ASSUME IsCurrent(q.row), Goes(i, [q EXCEPT !.pc = "closing"])
      PROVE  IInv' /\ Grows
  <2> DEFINE x == [q EXCEPT !.pc = "closing"]
  <2>1. /\ x \in Advancing /\ x.pc = "closing"
        /\ x.user = q.user /\ x.task = q.task /\ x.row = q.row
    BY <1>1 DEF Advancing
  <2>2. Goes(i, x)
    BY <1>4
  <2> HIDE DEF x
  <2>3. q.row.step < Steps
    BY <1>4 DEF IsCurrent
  <2>4. QED
    BY <1>1, <1>2, <1>3, <2>1, <2>2, <2>3, MoveKeeps
<1>5. ASSUME Goes(i, [pc |-> "rewarding", user |-> q.user, task |-> q.task])
      PROVE  IInv' /\ Grows
  <2> DEFINE x == [pc |-> "rewarding", user |-> q.user, task |-> q.task]
  <2>1. x \in Called /\ x.pc = "rewarding" /\ x.user = q.user /\ x.task = q.task
    BY <1>1 DEF Called, Advancing
  <2>2. Goes(i, x)
    BY <1>5
  <2> HIDE DEF x
  <2>3. QED
    BY <1>1, <1>2, <1>3, <2>1, <2>2, MoveKeeps
<1>6. QED
  BY <1>4, <1>5 DEF ReadMax

\* The deadline of the completed step is moved.
LEMMA CloseStepKeeps ==
  ASSUME IInv, NEW i \in Request, CloseStep(i)
  PROVE  IInv' /\ Grows
<1> DEFINE q == req[i]
           x == [q EXCEPT !.pc = "assigning"]
<1>1. /\ q \in Advancing /\ q.pc = "closing"
      /\ q.task \in DOMAIN sent /\ << q.user, q.task >> \in completed
      /\ q.row \in progress /\ q.row.task = q.task /\ q.row.step < Steps
  BY AdvancingShape DEF CloseStep, IInv, WorkersAgree, Agrees
<1>2. /\ UNCHANGED << sent, ruled, progress, completed, early, unpaid, thrown, admin, crashes >>
      /\ closed' \subseteq StepTask
  BY <1>1 DEF CloseStep, IInv, TypeOK, Advancing
<1>3. /\ x \in Advancing /\ x.pc = "assigning"
      /\ x.user = q.user /\ x.task = q.task /\ x.row = q.row
  BY <1>1 DEF Advancing
<1>4. Goes(i, x)
  BY DEF CloseStep
<1> HIDE DEF x
<1>5. QED
  BY <1>1, <1>2, <1>3, <1>4, MoveKeeps

\* The next step is sent to the others.
LEMMA AssignNextKeeps ==
  ASSUME IInv, NEW i \in Request, AssignNext(i)
  PROVE  IInv' /\ Grows
<1> USE DEF IInv
<1>0. PICK k : k = NextTask
  OBVIOUS
<1>1. PICK q : q = req[i]
  OBVIOUS
<1>2. /\ q \in Advancing /\ q.pc = "assigning"
      /\ q.task \in DOMAIN sent /\ << q.user, q.task >> \in completed
      /\ q.row \in progress /\ q.row.task = q.task /\ q.row.step < Steps
  BY <1>1, AdvancingShape DEF AssignNext, WorkersAgree, Agrees
<1> DEFINE g == q.row.group
           n == q.row.step + 1
           task == [group |-> g, step |-> n, to |-> Members[g] \ {q.user},
                    after |-> q.task]
           row == [group |-> g, step |-> n, task |-> k]
           x == [pc |-> "ruling", user |-> q.user, task |-> q.task, new |-> row]
<1>3. /\ Send(task) /\ Goes(i, x)
      /\ UNCHANGED << ruled, progress, completed, early, closed, unpaid, thrown, admin, crashes >>
  BY <1>0, <1>1 DEF AssignNext, NextStep, Receivers
<1>4. /\ q.user \in User /\ q.task \in StepTask /\ q.row \in ProgressRow
      /\ g \in Group /\ n \in 1 .. Steps /\ n - 1 = q.row.step
  BY <1>2 DEF Advancing, ProgressRow
<1>5. sent[q.task].group = g /\ sent[q.task].step = n - 1
  BY <1>2, <1>4 DEF TablesInv, RowsAreTrue, Describes
<1>6. task \in Sent
  BY <1>4 DEF Sent, StepTask
<1>7. task.group = g /\ task.step = n /\ task.after = q.task /\ q.user \notin task.to
  OBVIOUS
<1> HIDE DEF task
<1>8. task.step > 1 =>
        \E u \in User : /\ << u, task.after >> \in completed
                        /\ u \notin task.to
                        /\ sent[task.after].group = task.group
                        /\ sent[task.after].step = task.step - 1
  BY <1>2, <1>4, <1>5, <1>7
<1>9. /\ TablesInv' /\ Grows
      /\ DOMAIN sent' \subseteq StepTask /\ sent' \in [DOMAIN sent' -> Sent]
      /\ k \in DOMAIN sent' /\ k \in StepTask
      /\ sent'[k] = task
      /\ \A y : StepsOf(y)' = StepsOf(y)
  BY <1>0, <1>3, <1>6, <1>8, SendKeeps
<1>10. row \in ProgressRow /\ x \in Recording
  BY <1>4, <1>9 DEF ProgressRow, Recording
<1>11. TypeOK'
  BY <1>3, <1>9, <1>10 DEF TypeOK, Goes, Grows
<1>12. Agrees(i)'
  <2>1. Describes(row)'
    BY <1>7, <1>9 DEF Describes
  <2>2. n - 1 \in StepsOf(g)'
    <3>1. q.row.step \in StepsOf(g)
      BY <1>2 DEF StepsOf
    <3>2. StepsOf(g)' = StepsOf(g) /\ n - 1 = q.row.step
      BY <1>4, <1>9
    <3>3. QED
      BY <3>1, <3>2
  <2>3. sent'[q.task] = sent[q.task] /\ q.task \in DOMAIN sent'
    BY <1>2, <1>9 DEF Grows
  <2>4. req'[i] = x /\ x.new = row /\ x.task = q.task /\ x.user = q.user /\ x.pc = "ruling"
    BY <1>3 DEF Goes, TypeOK
  <2>5. row.group = g /\ row.step = n
    OBVIOUS
  <2>6. << q.user, q.task >> \in completed'
    BY <1>2, <1>9 DEF Grows
  <2> HIDE DEF x, row, g, n
  <2>7. Describes(req[i].new)'
    BY <2>1, <2>4 DEF Describes
  <2>8. req'[i].new.step - 1 \in StepsOf(req[i].new.group)'
    BY <2>2, <2>4, <2>5 DEF StepsOf
  <2>9. QED
    BY <1>5, <2>3, <2>4, <2>5, <2>6, <2>7, <2>8 DEF Agrees
<1>13. WorkersAgree'
  BY <1>3, <1>9, <1>12, OneMoves
<1>14. AdminIsFirst' /\ OnlyEarlyIsUnpaid'
  BY <1>3, <1>9, AdminWaits DEF OnlyEarlyIsUnpaid
<1>15. QED
  BY <1>9, <1>11, <1>13, <1>14

\* A step that only moves a worker that has a row to write.
LEMMA RecordingAgrees ==
  ASSUME IInv, NEW i \in Request, req[i].pc \in {"ruling", "saving"}
  PROVE  /\ req[i] \in Recording
         /\ req[i].task \in DOMAIN sent
         /\ << req[i].user, req[i].task >> \in completed
         /\ Describes(req[i].new)
         /\ sent[req[i].task].group = req[i].new.group
         /\ sent[req[i].task].step = req[i].new.step - 1
         /\ req[i].new.step - 1 \in StepsOf(req[i].new.group)
BY RecordingShape DEF IInv, WorkersAgree, Agrees

\* The next step gets the strategy of groups.
LEMMA RuleNextKeeps ==
  ASSUME IInv, NEW i \in Request, RuleNext(i)
  PROVE  IInv' /\ Grows
<1> USE DEF IInv
<1>1. PICK q : q = req[i]
  OBVIOUS
<1>2. /\ q \in Recording /\ q.task \in DOMAIN sent /\ << q.user, q.task >> \in completed
      /\ Describes(q.new)
      /\ sent[q.task].group = q.new.group /\ sent[q.task].step = q.new.step - 1
      /\ q.new.step - 1 \in StepsOf(q.new.group)
  BY <1>1, RecordingAgrees DEF RuleNext
<1> DEFINE x == [q EXCEPT !.pc = "saving"]
<1>3. /\ Goes(i, x) /\ ruled' = ruled \cup {q.new.task}
      /\ UNCHANGED << sent, progress, completed, early, closed, unpaid, thrown, admin, crashes >>
  BY <1>1 DEF RuleNext
<1>4. /\ x \in Recording /\ x.pc = "saving"
      /\ x.user = q.user /\ x.task = q.task /\ x.new = q.new
  BY <1>2 DEF Recording
<1> HIDE DEF x
<1>5. TablesInv' /\ Grows /\ \A g : StepsOf(g)' = StepsOf(g)
  BY <1>3, SameTables
<1>6. q.new.task \in DOMAIN sent
  BY <1>2 DEF Describes
<1>7. TypeOK'
  BY <1>3, <1>4, <1>6 DEF TypeOK, Goes
<1>8. Agrees(i)'
  <2>1. req'[i] = x
    BY <1>3 DEF Goes, TypeOK
  <2>2. Describes(req[i].new)' /\ req'[i].new.step - 1 \in StepsOf(req[i].new.group)'
    BY <2>1, <1>2, <1>3, <1>4 DEF Describes, StepsOf
  <2>3. QED
    BY <2>1, <2>2, <1>2, <1>3, <1>4 DEF Agrees
<1>9. WorkersAgree'
  BY <1>3, <1>5, <1>8, OneMoves
<1>10. AdminIsFirst' /\ OnlyEarlyIsUnpaid'
  BY <1>3, <1>5, AdminWaits DEF OnlyEarlyIsUnpaid
<1>11. QED
  BY <1>5, <1>7, <1>9, <1>10

\* Its progress is written.
LEMMA SaveNextKeeps ==
  ASSUME IInv, NEW i \in Request, SaveNext(i)
  PROVE  IInv' /\ Grows
<1> USE DEF IInv
<1>1. PICK q : q = req[i]
  OBVIOUS
<1>2. /\ q \in Recording /\ q.task \in DOMAIN sent /\ << q.user, q.task >> \in completed
      /\ Describes(q.new)
      /\ q.new.step - 1 \in StepsOf(q.new.group)
  BY <1>1, RecordingAgrees DEF SaveNext
<1> DEFINE x == [pc |-> "rewarding", user |-> q.user, task |-> q.task]
<1>3. /\ Goes(i, x) /\ progress' = progress \cup {q.new}
      /\ UNCHANGED << sent, ruled, completed, early, closed, unpaid, thrown, admin, crashes >>
  BY <1>1 DEF SaveNext
<1>4. q.new \in ProgressRow /\ x \in Called
  BY <1>2 DEF Recording, Called
<1>5. TablesInv' /\ Grows /\ \A g : g # q.new.group => StepsOf(g)' = StepsOf(g)
  BY <1>2, <1>3, <1>4, RowKeeps
<1>6. \A g : StepsOf(g) = {} => StepsOf(g)' = {}
  BY <1>2, <1>5
<1>7. TypeOK'
  BY <1>3, <1>4 DEF TypeOK, Goes
<1>8. Agrees(i)'
  <2>1. req'[i] = x
    BY <1>3 DEF Goes, TypeOK
  <2>2. QED
    BY <2>1, <1>2, <1>3 DEF Agrees
<1>9. WorkersAgree'
  BY <1>3, <1>5, <1>8, OneMoves
<1>10. AdminIsFirst' /\ OnlyEarlyIsUnpaid'
  BY <1>3, <1>5, <1>6, AdminWaits DEF OnlyEarlyIsUnpaid
<1>11. QED
  BY <1>5, <1>7, <1>9, <1>10

\* The user is paid, or the handler fails.
LEMMA RewardKeeps ==
  ASSUME IInv, NEW i \in Request, Reward(i)
  PROVE  IInv' /\ Grows
<1> USE DEF IInv
<1>1. PICK q : q = req[i]
  OBVIOUS
<1>2. q \in Called /\ q.pc = "rewarding" /\ << q.user, q.task >> \in completed
  BY <1>1, CalledShape DEF Reward, WorkersAgree, Agrees
<1> DEFINE c == << q.user, q.task >>
<1>3. /\ unpaid' = IF q.task \in ruled /\ RowsOf(q.task) = {}
                     THEN unpaid \cup {c} ELSE unpaid
      /\ Goes(i, Idle)
      /\ UNCHANGED << sent, ruled, progress, completed, early, closed, thrown, admin, crashes >>
  BY <1>1 DEF Reward
<1>4. TablesInv' /\ Grows /\ \A g : StepsOf(g)' = StepsOf(g)
  BY <1>3, SameTables
<1>5. c \in completed /\ c[2] = q.task
  BY <1>2
<1>6. TypeOK'
  BY <1>3, <1>5 DEF TypeOK, Goes
<1>7. Agrees(i)'
  BY <1>3 DEF Goes, TypeOK, Agrees, Idle
<1>8. WorkersAgree'
  BY <1>3, <1>4, <1>7, OneMoves
<1>9. AdminIsFirst'
  BY <1>3, <1>4, AdminWaits
<1>10. OnlyEarlyIsUnpaid'
  <2>1. RowsOf(q.task) = {} => c \in early
    BY <1>5 DEF TablesInv, LateHaveRows
  <2>2. QED
    BY <2>1, <1>3 DEF OnlyEarlyIsUnpaid
<1>11. QED
  BY <1>4, <1>6, <1>8, <1>9, <1>10

\* The server stops and starts.
LEMMA CrashKeeps ==
  ASSUME IInv, Crash
  PROVE  IInv' /\ Grows
<1> USE DEF IInv
<1>1. /\ crashes < MaxCrashes /\ crashes' = crashes + 1
      /\ admin' = Idle /\ req' = [i \in Request |-> Idle]
      /\ UNCHANGED << sent, ruled, progress, completed, early, closed, unpaid, thrown >>
  BY DEF Crash
<1>2. TablesInv' /\ Grows
  BY <1>1, SameTables
<1>3. crashes' \in 0 .. MaxCrashes
  BY <1>1 DEF TypeOK
<1>4. TypeOK'
  BY <1>1, <1>3 DEF TypeOK
<1>5. AdminIsFirst' /\ WorkersAgree' /\ OnlyEarlyIsUnpaid'
  BY <1>1 DEF AdminIsFirst, WorkersAgree, Agrees, Idle, OnlyEarlyIsUnpaid
<1>6. QED
  BY <1>2, <1>4, <1>5

\* Every step keeps the invariant, and takes nothing out of the tables.
LEMMA NextInv == IInv /\ [Next]_vars => IInv' /\ Grows
<1> SUFFICES ASSUME IInv, [Next]_vars PROVE IInv' /\ Grows
  OBVIOUS
<1>1. CASE AdminStep
  BY <1>1, AssignFirstKeeps, RuleFirstKeeps, SaveFirstKeeps DEF AdminStep
<1>2. CASE \E i \in Request, u \in User, t \in StepTask : Load(i, u, t)
  BY <1>2, LoadKeeps
<1>3. ASSUME NEW i \in Request, Step(i)
      PROVE  IInv' /\ Grows
  BY <1>3, SaveKeeps, ThrowReputationKeeps, FindProgressKeeps, ReadMaxKeeps, CloseStepKeeps,
     AssignNextKeeps, RuleNextKeeps, SaveNextKeeps, RewardKeeps DEF Step
<1>4. CASE Crash
  BY <1>4, CrashKeeps
<1>5. CASE UNCHANGED vars
  <2>1. TablesInv' /\ Grows /\ \A g : StepsOf(g)' = StepsOf(g)
    BY <1>5, SameTables DEF vars, IInv
  <2>2. TypeOK' /\ OnlyEarlyIsUnpaid'
    BY <1>5 DEF vars, IInv, TypeOK, OnlyEarlyIsUnpaid
  <2>3. WorkersAgree'
    BY <1>5, <2>1, OthersAgree DEF vars, IInv, WorkersAgree
  <2>4. AdminIsFirst'
    BY <1>5, <2>1, AdminWaits DEF vars, IInv
  <2>5. QED
    BY <2>1, <2>2, <2>3, <2>4 DEF IInv
<1>6. QED
  BY <1>1, <1>2, <1>3, <1>4, <1>5 DEF Next

\* The invariant holds in every reachable state.
LEMMA Invariant == Spec => []IInv
BY InitInv, NextInv, PTL DEF Spec

-----------------------------------------------------------------------------
(* The theorems.                                                           *)

\* Every reachable state of the pipeline has its type: in particular no step
\* beyond the last is ever created.
THEOREM TypeCorrect == Spec => []TypeOK
BY Invariant, PTL DEF IInv

\* Every later step was sent because somebody completed the step before it, and
\* not to that somebody, whoever else completed it at the same time
\* (sendNextStepOfPipelineTask).
THEOREM StepsFollowAnswers == Spec => []FollowsAnAnswer
BY Invariant, PTL DEF IInv, TablesInv

\* A completed step is left without points only if it was completed before its
\* progress row was written.
THEOREM LateStepsArePaid == Spec => []OnlyEarlyIsUnpaid
BY Invariant, PTL DEF IInv

-----------------------------------------------------------------------------
(* The progress table implements the chain of steps.                       *)

\* The height of a group whose steps have no gap is their number.
LEMMA HeightIs ==
  ASSUME NEW g \in Group, NEW h \in Nat, StepsOf(g) = 1 .. h
  PROVE  height[g] = h
<1>1. height[g] = IF StepsOf(g) = {} THEN 0 ELSE Max(StepsOf(g))
  BY DEF height, MaxStep
<1>2. CASE h = 0
  <2>1. StepsOf(g) = {}
    BY <1>2
  <2>2. QED
    BY <1>1, <1>2, <2>1
<1>3. CASE h # 0
  <2>1. 1 \in StepsOf(g)
    BY <1>3
  <2>2. Max(1 .. h) = h
    BY <1>3, MaxOfInterval
  <2>3. QED
    BY <1>1, <2>1, <2>2
<1>4. QED
  BY <1>2, <1>3

\* A step that leaves the progress table alone leaves the heights alone.
LEMMA SameHeight == ASSUME progress' = progress PROVE height' = height
BY DEF height, MaxStep, StepsOf

\* A step that completes nothing answers nothing, even if it creates a task.
LEMMA SameAnswers ==
  ASSUME IInv, Grows, completed' = completed
  PROVE  answered' = answered
<1> DEFINE T(g) == { s \in DOMAIN sent :
                       sent[s].group = g /\ \E u \in User : << u, s >> \in completed }
<1>1. \A u, t : << u, t >> \in completed => t \in DOMAIN sent
  BY DEF IInv, TablesInv, CompletedWereSent
<1>2. ASSUME NEW g \in Group
      PROVE  { sent[t].step : t \in T(g) }' = { sent[t].step : t \in T(g) }
  <2>1. T(g)' = T(g) /\ T(g) \subseteq DOMAIN sent
    BY <1>1 DEF Grows
  <2>2. \A t \in T(g) : sent'[t] = sent[t]
    BY <2>1 DEF Grows
  <2>3. QED
    BY <2>1, <2>2
<1>3. QED
  BY <1>2 DEF answered

\* The first step of a group starts its chain.
LEMMA SaveFirstStarts ==
  ASSUME IInv, SaveFirst
  PROVE  \E g \in Group : Chain!Start(g)
<1>0. PICK p : p = admin.row
  OBVIOUS
<1>1. /\ p \in ProgressRow /\ p.group \in Group
      /\ p.step = 1 /\ StepsOf(p.group) = {}
      /\ progress' = progress \cup {p} /\ completed' = completed
  BY <1>0 DEF SaveFirst, IInv, TypeOK, Idle, Creating, AdminIsFirst, ProgressRow
<1>2. /\ StepsOf(p.group)' = {1}
      /\ \A g : g # p.group => StepsOf(g)' = StepsOf(g)
  BY <1>1, RowLeavesNoGap DEF IInv
<1>3. height[p.group] = 0 /\ height = [g \in Group |-> height[g]]
  BY <1>1 DEF height
<1>4. Max({1}) = 1
  BY DEF Max
<1>5. height' = [height EXCEPT ![p.group] = 1]
  <2>1. height' = [g \in Group |-> IF StepsOf(g)' = {} THEN 0 ELSE Max(StepsOf(g)')]
    BY DEF height, MaxStep
  <2>2. height = [g \in Group |-> IF StepsOf(g) = {} THEN 0 ELSE Max(StepsOf(g))]
    BY DEF height, MaxStep
  <2>3. \A g \in Group : g # p.group => height'[g] = height[g]
    BY <2>1, <2>2, <1>2
  <2>4. height'[p.group] = 1
    BY <2>1, <1>1, <1>2, <1>4
  <2>5. QED
    BY <2>1, <2>2, <2>3, <2>4
<1>6. answered' = answered
  BY <1>1, SaveFirstKeeps, SameAnswers
<1>7. QED
  BY <1>1, <1>3, <1>5, <1>6 DEF Chain!Start

\* The row of a next step advances the chain, unless another worker's did.
LEMMA SaveNextAdvances ==
  ASSUME IInv, NEW i \in Request, SaveNext(i)
  PROVE  \/ \E g \in Group : Chain!Advance(g)
         \/ UNCHANGED << height, answered >>
<1>0. PICK p, t : p = req[i].new /\ t = req[i].task
  OBVIOUS
<1> DEFINE q == p.group
<1>1. /\ req[i] \in Recording /\ t \in DOMAIN sent
      /\ << req[i].user, t >> \in completed
      /\ sent[t].group = q /\ sent[t].step = p.step - 1
      /\ p.step - 1 \in StepsOf(q)
  BY <1>0, RecordingAgrees DEF SaveNext
<1>2. /\ p \in ProgressRow /\ q \in Group /\ p.step \in 1 .. Steps
      /\ req[i].user \in User
      /\ progress' = progress \cup {p} /\ completed' = completed
  BY <1>0, <1>1 DEF SaveNext, Recording, ProgressRow
<1>3. /\ StepsOf(q)' = StepsOf(q) \cup {p.step}
      /\ \A g : g # q => StepsOf(g)' = StepsOf(g)
  BY <1>1, <1>2, RowLeavesNoGap DEF IInv
<1>4. answered' = answered
  BY <1>2, SaveNextKeeps, SameAnswers
<1>5. PICK h \in 0 .. Steps : StepsOf(q) = 1 .. h
  BY <1>2 DEF IInv, TablesInv, StepsHaveNoGaps, NoGap
<1>6. height[q] = h
  BY <1>2, <1>5, HeightIs
<1>7. /\ height' = [g \in Group |-> IF StepsOf(g)' = {} THEN 0 ELSE Max(StepsOf(g)')]
      /\ height = [g \in Group |-> IF StepsOf(g) = {} THEN 0 ELSE Max(StepsOf(g))]
  BY DEF height, MaxStep
<1>8. \A g \in Group : g # q => height'[g] = height[g]
  BY <1>3, <1>7
<1>9. CASE p.step \in 1 .. h
  <2>1. StepsOf(q)' = StepsOf(q)
    BY <1>3, <1>5, <1>9
  <2>2. height' = height
    BY <1>3, <1>7, <2>1
  <2>3. QED
    BY <1>4, <2>2
<1>10. CASE p.step = h + 1
  <2>1. StepsOf(q)' = 1 .. h + 1
    BY <1>3, <1>5, <1>10
  <2>2. Max(1 .. h + 1) = h + 1
    BY MaxOfInterval
  <2>3. height'[q] = h + 1
    <3>1. 1 \in StepsOf(q)'
      BY <2>1
    <3>2. QED
      BY <3>1, <2>1, <2>2, <1>2, <1>7
  <2>4. height' = [height EXCEPT ![q] = @ + 1]
    BY <2>3, <1>2, <1>6, <1>7, <1>8
  <2>5. h \in answered[q]
    <3>1. sent[t].step = h
      BY <1>1, <1>10
    <3>2. t \in { s \in DOMAIN sent :
                   sent[s].group = q /\ \E u \in User : << u, s >> \in completed }
      BY <1>1, <1>2
    <3>3. QED
      BY <3>1, <3>2, <1>2 DEF answered
  <2>6. h < Steps
    BY <1>2, <1>10
  <2>7. Chain!Advance(q)
    BY <2>4, <2>5, <2>6, <1>4, <1>6 DEF Chain!Advance
  <2>8. QED
    BY <2>7, <1>2
<1>11. p.step \in 1 .. h + 1
  BY <1>1, <1>2, <1>5
<1>12. QED
  BY <1>9, <1>10, <1>11

\* Completing a task answers its step.
LEMMA SaveAnswers ==
  ASSUME IInv, NEW i \in Request, Save(i)
  PROVE  \E g \in Group : \E k \in 1 .. Steps : Chain!Answer(g, k)
<1> DEFINE t == req[i].task
           u == req[i].user
           T(g) == { s \in DOMAIN sent :
                       sent[s].group = g /\ \E v \in User : << v, s >> \in completed }
<1>1. /\ t \in DOMAIN sent /\ u \in User
      /\ completed' = completed \cup {<< u, t >>}
      /\ sent' = sent /\ progress' = progress
  BY CalledShape DEF Save, IInv, WorkersAgree, Agrees, Called
<1>2. PICK g : g = sent[t].group
  OBVIOUS
<1>3. PICK k : k = sent[t].step
  OBVIOUS
<1>4. g \in Group /\ k \in 1 .. Steps
  BY <1>1, <1>2, <1>3 DEF IInv, TypeOK, Sent
<1>5. height' = height
  BY <1>1, SameHeight
<1>6. T(g)' = T(g) \cup {t} /\ \A x : x # g => T(x)' = T(x)
  BY <1>1, <1>2
<1>7. /\ answered = [x \in Group |-> { sent[s].step : s \in T(x) }]
      /\ answered' = [x \in Group |-> { sent[s].step : s \in T(x)' }]
  BY <1>1 DEF answered
<1> HIDE DEF T
<1>8. { sent[s].step : s \in T(g)' } = { sent[s].step : s \in T(g) } \cup {k}
  BY <1>3, <1>6
<1>9. answered' = [answered EXCEPT ![g] = @ \cup {k}]
  BY <1>4, <1>6, <1>7, <1>8
<1>10. QED
  BY <1>4, <1>5, <1>9 DEF Chain!Answer

\* Every other step leaves the chain as it is.
LEMMA NextChain ==
  ASSUME IInv, [Next]_vars
  PROVE  [Chain!Next]_<< height, answered >>
<1>1. Grows
  BY NextInv
<1>2. ASSUME progress' = progress, completed' = completed
      PROVE  UNCHANGED << height, answered >>
  BY <1>1, <1>2, SameHeight, SameAnswers
<1>3. CASE AdminStep
  <2>1. ASSUME NEW g \in Group, AssignFirst(g) PROVE UNCHANGED << height, answered >>
    BY <2>1, <1>2 DEF AssignFirst
  <2>2. CASE RuleFirst
    BY <2>2, <1>2 DEF RuleFirst
  <2>3. CASE SaveFirst
    BY <2>3, SaveFirstStarts DEF Chain!Next
  <2>4. QED
    BY <1>3, <2>1, <2>2, <2>3 DEF AdminStep
<1>4. ASSUME NEW i \in Request, NEW u \in User, NEW t \in StepTask, Load(i, u, t)
      PROVE  UNCHANGED << height, answered >>
  BY <1>4, <1>2 DEF Load
<1>5. ASSUME NEW i \in Request, Step(i)
      PROVE  [Chain!Next]_<< height, answered >>
  <2>1. CASE Save(i)
    BY <2>1, SaveAnswers DEF Chain!Next
  <2>2. CASE SaveNext(i)
    BY <2>2, SaveNextAdvances DEF Chain!Next
  <2>3. CASE FindProgress(i) \/ ReadMax(i) \/ CloseStep(i)
    BY <2>3, <1>2 DEF FindProgress, ReadMax, CloseStep
  <2>4. CASE AssignNext(i) \/ RuleNext(i) \/ Reward(i) \/ ThrowReputation(i)
    BY <2>4, <1>2 DEF AssignNext, RuleNext, Reward, ThrowReputation
  <2>5. QED
    BY <1>5, <2>1, <2>2, <2>3, <2>4 DEF Step
<1>6. CASE Crash
  BY <1>6, <1>2 DEF Crash
<1>7. CASE UNCHANGED vars
  BY <1>7, <1>2 DEF vars
<1>8. QED
  BY <1>3, <1>4, <1>5, <1>6, <1>7 DEF Next

\* The chains begin empty.
LEMMA InitChain == Init => Chain!Init
<1> SUFFICES ASSUME Init PROVE Chain!Init
  OBVIOUS
<1>1. \A g : StepsOf(g) = {}
  BY DEF Init, StepsOf
<1>2. height = [g \in Group |-> 0]
  BY <1>1 DEF height
<1>3. answered = [g \in Group |-> {}]
  BY DEF Init, answered
<1>4. QED
  BY <1>2, <1>3 DEF Chain!Init

\* The progress table of every group implements the chain of steps, however many
\* members complete a step together and wherever the server stops.
THEOREM ProgressImplementsChain == Spec => ImplementsChain
<1>1. IInv /\ [Next]_vars => [Chain!Next]_<< height, answered >>
  BY NextChain
<1>2. QED
  BY InitChain, Invariant, <1>1, PTL DEF Spec, ImplementsChain, Chain!Spec

-----------------------------------------------------------------------------
(* How often a step is created.                                            *)

\* A worker that will create step k of group g: it found the step before to be
\* the current one.  And one that did, and has yet to write the progress row.
IsAdvancing(x, g, k) ==
  /\ x.pc \in {"closing", "assigning"}
  /\ x.row.group = g /\ x.row.step = k - 1

IsRecording(x, g, k) ==
  /\ x.pc \in {"ruling", "saving"}
  /\ x.new.group = g /\ x.new.step = k

Advancers(g, k) == { i \in Request : IsAdvancing(req[i], g, k) }
Recorders(g, k) == { i \in Request : IsRecording(req[i], g, k) }

\* Until the table knows of the step, all its tasks but those of workers a
\* restart cut off belong to workers that still hold them; from then on nobody
\* begins to create it.  A row belongs to a worker that has left for good.
Bounded(g, k) ==
  /\ k \notin StepsOf(g) =>
       Cardinality(SentAt(g, k))
         <= Cardinality(Request) * crashes + Cardinality(Recorders(g, k))
  /\ k \in StepsOf(g) =>
       Cardinality(SentAt(g, k)) + Cardinality(Advancers(g, k))
         <= Cardinality(Request) * crashes + Cardinality(Request)
  /\ Cardinality(RowsAt(g, k)) + Cardinality(Advancers(g, k))
       + Cardinality(Recorders(g, k)) <= Cardinality(Request)

BoundsInv ==
  /\ IsFiniteSet(progress)
  /\ \A g \in Group, k \in 2 .. Steps : Bounded(g, k)

\* Workers that do one of two things are not more than the workers.
LEMMA BusyFit ==
  ASSUME NEW A \in SUBSET Request, NEW W \in SUBSET Request, A \cap W = {}
  PROVE  /\ IsFiniteSet(A) /\ Cardinality(A) \in Nat
         /\ IsFiniteSet(W) /\ Cardinality(W) \in Nat
         /\ Cardinality(Request) \in Nat
         /\ Cardinality(A) + Cardinality(W) <= Cardinality(Request)
<1>1. IsFiniteSet(A) /\ IsFiniteSet(W)
  BY FS_Subset
<1>2. /\ Cardinality(A) \in Nat /\ Cardinality(W) \in Nat
      /\ Cardinality(Request) \in Nat
  BY <1>1, FS_CardinalityType
<1>3. Cardinality(A \cup W) <= Cardinality(Request)
  <2>1. A \cup W \in SUBSET Request
    OBVIOUS
  <2>2. QED
    BY <2>1, FS_Subset
<1>4. Cardinality(A \cup W) = Cardinality(A) + Cardinality(W) - Cardinality(A \cap W)
  BY <1>1, FS_Union
<1>5. Cardinality(A \cap W) = 0
  BY FS_EmptySet
<1>6. QED
  BY <1>1, <1>2, <1>3, <1>4, <1>5

\* All that is counted is finite, and a worker does one thing at a time.
LEMMA Counted ==
  ASSUME IInv, IsFiniteSet(progress), NEW g, NEW k
  PROVE  /\ Cardinality(Request) \in Nat
         /\ Cardinality(Request) * crashes \in Nat
         /\ IsFiniteSet(SentAt(g, k)) /\ Cardinality(SentAt(g, k)) \in Nat
         /\ IsFiniteSet(RowsAt(g, k)) /\ Cardinality(RowsAt(g, k)) \in Nat
         /\ IsFiniteSet(Advancers(g, k)) /\ Cardinality(Advancers(g, k)) \in Nat
         /\ IsFiniteSet(Recorders(g, k)) /\ Cardinality(Recorders(g, k)) \in Nat
         /\ Cardinality(Advancers(g, k)) + Cardinality(Recorders(g, k))
              <= Cardinality(Request)
<1>1. Cardinality(Request) \in Nat
  BY FS_CardinalityType
<1>2. crashes \in Nat
  BY DEF IInv, TypeOK
<1>3. Cardinality(Request) * crashes \in Nat
  BY <1>1, <1>2
<1>4. IsFiniteSet(SentAt(g, k))
  <2>1. PICK n \in 0 .. MaxTasks : DOMAIN sent = 1 .. n
    BY DEF IInv, TablesInv, TasksAreNumbered
  <2>2. IsFiniteSet(1 .. n)
    BY FS_Interval
  <2>3. SentAt(g, k) \in SUBSET (1 .. n)
    BY <2>1 DEF SentAt
  <2>4. QED
    BY <2>2, <2>3, FS_Subset
<1>5. IsFiniteSet(RowsAt(g, k))
  <2>1. RowsAt(g, k) \in SUBSET progress
    BY DEF RowsAt
  <2>2. QED
    BY <2>1, FS_Subset
<1>6. /\ Advancers(g, k) \in SUBSET Request
      /\ Recorders(g, k) \in SUBSET Request
      /\ Advancers(g, k) \cap Recorders(g, k) = {}
  BY DEF Advancers, Recorders, IsAdvancing, IsRecording
<1>7. Cardinality(SentAt(g, k)) \in Nat /\ Cardinality(RowsAt(g, k)) \in Nat
  BY <1>4, <1>5, FS_CardinalityType
<1>8. QED
  BY <1>1, <1>3, <1>4, <1>5, <1>6, <1>7, BusyFit

\* What a move of one worker does to the two sets.
LEMMA Moves ==
  ASSUME TypeOK, NEW i \in Request, NEW x, Goes(i, x), NEW g, NEW k
  PROVE  /\ Advancers(g, k)' = IF IsAdvancing(x, g, k) THEN Advancers(g, k) \cup {i}
                                                     ELSE Advancers(g, k) \ {i}
         /\ Recorders(g, k)' = IF IsRecording(x, g, k) THEN Recorders(g, k) \cup {i}
                                                     ELSE Recorders(g, k) \ {i}
<1>1. req'[i] = x /\ \A j \in Request : j # i => req'[j] = req[j]
  BY DEF Goes, TypeOK
<1>2. QED
  BY <1>1 DEF Advancers, Recorders, IsAdvancing, IsRecording

\* A step that changes none of the sets.
LEMMA SameBounds ==
  ASSUME NEW g, NEW k, Bounded(g, k), crashes' = crashes,
         SentAt(g, k)' = SentAt(g, k), RowsAt(g, k)' = RowsAt(g, k),
         Advancers(g, k)' = Advancers(g, k), Recorders(g, k)' = Recorders(g, k),
         (k \in StepsOf(g)') = (k \in StepsOf(g))
  PROVE  Bounded(g, k)'
<1>1. PICK S, R, A, W : /\ S = SentAt(g, k) /\ R = RowsAt(g, k)
                        /\ A = Advancers(g, k) /\ W = Recorders(g, k)
  OBVIOUS
<1>2. /\ SentAt(g, k)' = S /\ RowsAt(g, k)' = R
      /\ Advancers(g, k)' = A /\ Recorders(g, k)' = W
  BY <1>1
<1>3. /\ k \notin StepsOf(g) =>
           Cardinality(S) <= Cardinality(Request) * crashes + Cardinality(W)
      /\ k \in StepsOf(g) =>
           Cardinality(S) + Cardinality(A)
             <= Cardinality(Request) * crashes + Cardinality(Request)
      /\ Cardinality(R) + Cardinality(A) + Cardinality(W) <= Cardinality(Request)
  BY <1>1 DEF Bounded
<1>4. QED
  BY <1>2, <1>3 DEF Bounded

\* The tables a worker leaves alone.
LEMMA SameCounts ==
  ASSUME UNCHANGED << sent, progress >>, NEW g, NEW k
  PROVE  /\ SentAt(g, k)' = SentAt(g, k)
         /\ RowsAt(g, k)' = RowsAt(g, k)
         /\ StepsOf(g)' = StepsOf(g)
BY DEF SentAt, RowsAt, StepsOf

\* A worker that is in neither set before nor after its statement.
LEMMA MoveBounds ==
  ASSUME TypeOK, NEW i \in Request, NEW x, Goes(i, x),
         UNCHANGED << sent, progress, crashes >>, NEW g, NEW k, Bounded(g, k),
         IsAdvancing(x, g, k) <=> IsAdvancing(req[i], g, k),
         IsRecording(x, g, k) <=> IsRecording(req[i], g, k)
  PROVE  Bounded(g, k)'
<1>1. /\ i \in Advancers(g, k) <=> IsAdvancing(req[i], g, k)
      /\ i \in Recorders(g, k) <=> IsRecording(req[i], g, k)
  BY DEF Advancers, Recorders
<1>2. Advancers(g, k)' = Advancers(g, k) /\ Recorders(g, k)' = Recorders(g, k)
  BY <1>1, Moves
<1>3. QED
  BY <1>2, SameCounts, SameBounds

\* The first steps are none of those counted.
LEMMA FirstBounds ==
  ASSUME IInv, NEW g \in Group, NEW k \in 2 .. Steps, Bounded(g, k), AdminStep
  PROVE  Bounded(g, k)'
<1>0. k # 1
  OBVIOUS
<1>1. crashes' = crashes /\ req' = req
  BY DEF AdminStep, AssignFirst, RuleFirst, SaveFirst
<1>2. Advancers(g, k)' = Advancers(g, k) /\ Recorders(g, k)' = Recorders(g, k)
  BY <1>1 DEF Advancers, Recorders
<1>3. ASSUME NEW h \in Group, AssignFirst(h) PROVE Bounded(g, k)'
  <2>1. PICK t : t = NextTask
    OBVIOUS
  <2>2. t \notin DOMAIN sent
    BY <2>1, NextTaskIsNew DEF IInv, TablesInv
  <2>3. /\ progress' = progress
        /\ sent' = [y \in DOMAIN sent \cup {t} |->
                      IF y = t THEN [group |-> h, step |-> 1, to |-> Members[h],
                                     after |-> 0]
                               ELSE sent[y]]
    BY <1>3, <2>1 DEF AssignFirst, Send
  <2>4. SentAt(g, k)' = SentAt(g, k)
    BY <1>0, <2>2, <2>3 DEF SentAt
  <2>5. RowsAt(g, k)' = RowsAt(g, k) /\ StepsOf(g)' = StepsOf(g)
    BY <2>3 DEF RowsAt, StepsOf
  <2>6. QED
    BY <1>1, <1>2, <2>4, <2>5, SameBounds
<1>4. CASE RuleFirst
  BY <1>1, <1>2, <1>4, SameCounts, SameBounds DEF RuleFirst
<1>5. CASE SaveFirst
  <2>1. PICK p : p = admin.row
    OBVIOUS
  <2>2. p.step = 1 /\ progress' = progress \cup {p} /\ sent' = sent
    BY <1>5, <2>1 DEF SaveFirst, IInv, AdminIsFirst
  <2>3. SentAt(g, k)' = SentAt(g, k)
    BY <2>2 DEF SentAt
  <2>4. RowsAt(g, k)' = RowsAt(g, k)
    BY <1>0, <2>2 DEF RowsAt
  <2>5. (k \in StepsOf(g)') = (k \in StepsOf(g))
    BY <1>0, <2>2 DEF StepsOf
  <2>6. QED
    BY <1>1, <1>2, <2>3, <2>4, <2>5, SameBounds
<1>6. QED
  BY <1>3, <1>4, <1>5 DEF AdminStep

\* A worker joins only while the table does not know of the step.
LEMMA ReadMaxBounds ==
  ASSUME IInv, NEW g \in Group, NEW k \in 2 .. Steps, Bounded(g, k),
         NEW i \in Request, ReadMax(i)
  PROVE  Bounded(g, k)'
<1>1. PICK q : q = req[i]
  OBVIOUS
<1>2. /\ q \in Advancing /\ q.pc = "found" /\ q.row \in progress
      /\ UNCHANGED << sent, progress, crashes >>
  BY <1>1, AdvancingShape DEF ReadMax, IInv, WorkersAgree, Agrees
<1>3. ~ IsAdvancing(q, g, k) /\ ~ IsRecording(q, g, k)
  BY <1>2 DEF IsAdvancing, IsRecording
<1>4. CASE Goes(i, [pc |-> "rewarding", user |-> q.user, task |-> q.task])
  <2>1. PICK x : x = [pc |-> "rewarding", user |-> q.user, task |-> q.task]
    OBVIOUS
  <2>2. ~ IsAdvancing(x, g, k) /\ ~ IsRecording(x, g, k) /\ Goes(i, x)
    BY <1>4, <2>1 DEF IsAdvancing, IsRecording
  <2>3. QED
    BY <1>1, <1>2, <1>3, <2>2, MoveBounds DEF IInv
<1>5. CASE IsCurrent(q.row) /\ Goes(i, [q EXCEPT !.pc = "closing"])
  <2>1. PICK x : x = [q EXCEPT !.pc = "closing"]
    OBVIOUS
  <2>2. x.pc = "closing" /\ x.row = q.row /\ Goes(i, x)
    BY <1>2, <1>5, <2>1 DEF Advancing
  <2>3. ~ IsRecording(x, g, k)
    BY <2>2 DEF IsRecording
  <2>4. CASE ~ IsAdvancing(x, g, k)
    BY <1>1, <1>2, <1>3, <2>2, <2>3, <2>4, MoveBounds DEF IInv
  <2>5. CASE IsAdvancing(x, g, k)
    <3>1. q.row.group = g /\ q.row.step = k - 1
      BY <2>2, <2>5 DEF IsAdvancing
    <3>2. PICK h \in 0 .. Steps : StepsOf(g) = 1 .. h
      BY DEF IInv, TablesInv, StepsHaveNoGaps, NoGap
    <3>3. k - 1 \in StepsOf(g)
      BY <1>2, <3>1 DEF StepsOf
    <3>4. h \in Nat \ {0}
      BY <3>2, <3>3
    <3>5. MaxStep(g) = h
      BY <3>2, <3>4, MaxOfInterval DEF MaxStep
    <3>6. k \notin StepsOf(g)
      BY <1>5, <3>1, <3>2, <3>5 DEF IsCurrent
    <3>7. Recorders(g, k)' = Recorders(g, k)
      <4>1. i \notin Recorders(g, k)
        BY <1>1, <1>3 DEF Recorders
      <4>2. QED
        BY <2>2, <2>3, <4>1, Moves DEF IInv
    <3>8. SentAt(g, k)' = SentAt(g, k) /\ StepsOf(g)' = StepsOf(g)
      BY <1>2, SameCounts
    <3>9. RowsAt(g, k)' = {}
      BY <1>2, <3>6, <3>8 DEF RowsAt, StepsOf
    <3>10. Cardinality(RowsAt(g, k)') = 0
      BY <3>9, FS_EmptySet
    <3>11. /\ Cardinality(Advancers(g, k)') \in Nat
           /\ Cardinality(Recorders(g, k)') \in Nat
           /\ Cardinality(Advancers(g, k)') + Cardinality(Recorders(g, k)')
                <= Cardinality(Request)
      <4>1. /\ Advancers(g, k)' \in SUBSET Request
            /\ Recorders(g, k)' \in SUBSET Request
            /\ Advancers(g, k)' \cap Recorders(g, k)' = {}
        BY DEF Advancers, Recorders, IsAdvancing, IsRecording
      <4>2. QED
        BY <4>1, BusyFit
    <3>12. QED
      BY <1>2, <3>6, <3>7, <3>8, <3>10, <3>11 DEF Bounded
  <2>6. QED
    BY <2>4, <2>5
<1>6. QED
  BY <1>1, <1>4, <1>5 DEF ReadMax

\* A task is created by an advancer, which becomes a recorder.
LEMMA AssignNextBounds ==
  ASSUME IInv, IsFiniteSet(progress), NEW g \in Group, NEW k \in 2 .. Steps,
         Bounded(g, k), NEW i \in Request, AssignNext(i)
  PROVE  Bounded(g, k)'
<1>1. PICK q, t : q = req[i] /\ t = NextTask
  OBVIOUS
<1>2. q \in Advancing /\ q.pc = "assigning" /\ q.row \in ProgressRow
  BY <1>1, AdvancingShape DEF AssignNext, IInv, Advancing
<1>3. t \notin DOMAIN sent
  BY <1>1, NextTaskIsNew DEF IInv, TablesInv
<1>4. PICK row, x, to :
        /\ row = [group |-> q.row.group, step |-> q.row.step + 1, task |-> t]
        /\ x = [pc |-> "ruling", user |-> q.user, task |-> q.task, new |-> row]
        /\ to = Members[q.row.group] \ {q.user}
  OBVIOUS
<1>5. /\ Goes(i, x) /\ progress' = progress /\ crashes' = crashes
      /\ sent' = [y \in DOMAIN sent \cup {t} |->
                    IF y = t THEN [group |-> q.row.group, step |-> q.row.step + 1,
                                   to |-> to, after |-> q.task]
                             ELSE sent[y]]
  BY <1>1, <1>4 DEF AssignNext, Send, NextStep, Receivers
<1>6. /\ x.pc = "ruling" /\ x.new.group = q.row.group /\ x.new.step = q.row.step + 1
      /\ q.row.step \in Int
  BY <1>2, <1>4 DEF ProgressRow
<1>7. RowsAt(g, k)' = RowsAt(g, k) /\ StepsOf(g)' = StepsOf(g)
  BY <1>5 DEF RowsAt, StepsOf
<1>8. ~ IsAdvancing(x, g, k) /\ ~ IsRecording(q, g, k)
  BY <1>2, <1>6 DEF IsAdvancing, IsRecording
<1>9. CASE q.row.group = g /\ q.row.step = k - 1
  <2>1. IsAdvancing(q, g, k) /\ IsRecording(x, g, k)
    BY <1>2, <1>6, <1>9 DEF IsAdvancing, IsRecording
  <2>2. /\ Advancers(g, k)' = Advancers(g, k) \ {i} /\ i \in Advancers(g, k)
        /\ Recorders(g, k)' = Recorders(g, k) \cup {i} /\ i \notin Recorders(g, k)
    <3>1. i \in Advancers(g, k) /\ i \notin Recorders(g, k)
      BY <1>1, <1>8, <2>1 DEF Advancers, Recorders
    <3>2. QED
      BY <1>5, <1>8, <2>1, <3>1, Moves DEF IInv
  <2>3. SentAt(g, k)' = SentAt(g, k) \cup {t} /\ t \notin SentAt(g, k)
    BY <1>3, <1>5, <1>9 DEF SentAt
  <2>4. /\ Cardinality(SentAt(g, k)') = Cardinality(SentAt(g, k)) + 1
        /\ Cardinality(Advancers(g, k)') = Cardinality(Advancers(g, k)) - 1
        /\ Cardinality(Recorders(g, k)') = Cardinality(Recorders(g, k)) + 1
    <3>1. /\ IsFiniteSet(SentAt(g, k)) /\ IsFiniteSet(Advancers(g, k))
          /\ IsFiniteSet(Recorders(g, k))
      BY Counted
    <3>2. Cardinality(SentAt(g, k) \cup {t}) = Cardinality(SentAt(g, k)) + 1
      BY <2>3, <3>1, FS_AddElement
    <3>3. Cardinality(Advancers(g, k) \ {i}) = Cardinality(Advancers(g, k)) - 1
      BY <2>2, <3>1, FS_RemoveElement
    <3>4. Cardinality(Recorders(g, k) \cup {i}) = Cardinality(Recorders(g, k)) + 1
      BY <2>2, <3>1, FS_AddElement
    <3>5. QED
      BY <2>2, <2>3, <3>2, <3>3, <3>4
  <2>5. PICK n, m, s0, r0, a0, w0 \in Nat :
          /\ n = Cardinality(Request) /\ m = Cardinality(Request) * crashes
          /\ s0 = Cardinality(SentAt(g, k)) /\ r0 = Cardinality(RowsAt(g, k))
          /\ a0 = Cardinality(Advancers(g, k)) /\ w0 = Cardinality(Recorders(g, k))
    BY Counted
  <2>6. /\ k \notin StepsOf(g) => s0 <= m + w0
        /\ k \in StepsOf(g) => s0 + a0 <= m + n
        /\ r0 + a0 + w0 <= n
    BY <2>5 DEF Bounded
  <2>7. /\ k \notin StepsOf(g) => s0 + 1 <= m + (w0 + 1)
        /\ k \in StepsOf(g) => (s0 + 1) + (a0 - 1) <= m + n
        /\ r0 + (a0 - 1) + (w0 + 1) <= n
    BY <2>6
  <2>8. QED
    BY <1>5, <1>7, <2>4, <2>5, <2>7 DEF Bounded
<1>10. CASE ~ (q.row.group = g /\ q.row.step = k - 1)
  <2>1. ~ IsAdvancing(q, g, k) /\ ~ IsRecording(x, g, k)
    BY <1>6, <1>10 DEF IsAdvancing, IsRecording
  <2>2. Advancers(g, k)' = Advancers(g, k) /\ Recorders(g, k)' = Recorders(g, k)
    BY <1>1, <1>5, <1>8, <2>1, Moves DEF IInv, Advancers, Recorders
  <2>3. SentAt(g, k)' = SentAt(g, k)
    BY <1>3, <1>5, <1>6, <1>10 DEF SentAt
  <2>4. QED
    BY <1>5, <1>7, <2>2, <2>3, SameBounds
<1>11. QED
  BY <1>9, <1>10

\* A recorder leaves, with a row.
LEMMA SaveNextBounds ==
  ASSUME IInv, IsFiniteSet(progress), NEW g \in Group, NEW k \in 2 .. Steps,
         Bounded(g, k), NEW i \in Request, SaveNext(i)
  PROVE  Bounded(g, k)'
<1>1. PICK q, x : /\ q = req[i]
                  /\ x = [pc |-> "rewarding", user |-> q.user, task |-> q.task]
  OBVIOUS
<1>2. q.pc = "saving" /\ x.pc = "rewarding"
  BY <1>1 DEF SaveNext
<1>3. /\ Goes(i, x) /\ progress' = progress \cup {q.new}
      /\ sent' = sent /\ crashes' = crashes
  BY <1>1 DEF SaveNext
<1>4. ~ IsAdvancing(x, g, k) /\ ~ IsRecording(x, g, k) /\ ~ IsAdvancing(q, g, k)
  BY <1>2 DEF IsAdvancing, IsRecording
<1>5. SentAt(g, k)' = SentAt(g, k)
  BY <1>3 DEF SentAt
<1>6. Advancers(g, k)' = Advancers(g, k)
  BY <1>1, <1>3, <1>4, Moves DEF IInv, Advancers
<1>7. CASE q.new.group = g /\ q.new.step = k
  <2>1. i \in Recorders(g, k)
    BY <1>1, <1>2, <1>7 DEF Recorders, IsRecording
  <2>2. Recorders(g, k)' = Recorders(g, k) \ {i}
    BY <1>3, <1>4, Moves DEF IInv
  <2>3. RowsAt(g, k)' = RowsAt(g, k) \cup {q.new} /\ k \in StepsOf(g)'
    BY <1>3, <1>7 DEF RowsAt, StepsOf
  <2>4. /\ Cardinality(RowsAt(g, k)') \in Nat
        /\ Cardinality(RowsAt(g, k)') <= Cardinality(RowsAt(g, k)) + 1
        /\ Cardinality(Recorders(g, k)') = Cardinality(Recorders(g, k)) - 1
    <3>1. /\ IsFiniteSet(RowsAt(g, k)) /\ Cardinality(RowsAt(g, k)) \in Nat
          /\ IsFiniteSet(Recorders(g, k))
      BY Counted
    <3>2. Cardinality(RowsAt(g, k) \cup {q.new}) =
            IF q.new \in RowsAt(g, k) THEN Cardinality(RowsAt(g, k))
                                      ELSE Cardinality(RowsAt(g, k)) + 1
      BY <3>1, FS_AddElement
    <3>3. Cardinality(Recorders(g, k) \ {i}) = Cardinality(Recorders(g, k)) - 1
      BY <2>1, <3>1, FS_RemoveElement
    <3>4. QED
      BY <2>2, <2>3, <3>1, <3>2, <3>3
  <2>5. PICK n, m, s0, r0, a0, w0 \in Nat :
          /\ n = Cardinality(Request) /\ m = Cardinality(Request) * crashes
          /\ s0 = Cardinality(SentAt(g, k)) /\ r0 = Cardinality(RowsAt(g, k))
          /\ a0 = Cardinality(Advancers(g, k)) /\ w0 = Cardinality(Recorders(g, k))
    BY Counted
  <2>6. PICK r1 \in Nat : r1 = Cardinality(RowsAt(g, k)') /\ r1 <= r0 + 1
    BY <2>4, <2>5
  <2>7. /\ k \notin StepsOf(g) => s0 <= m + w0
        /\ k \in StepsOf(g) => s0 + a0 <= m + n
        /\ r0 + a0 + w0 <= n
    BY <2>5 DEF Bounded
  <2>8. s0 + a0 <= m + n /\ r1 + a0 + (w0 - 1) <= n
    BY <2>6, <2>7
  <2>9. /\ Cardinality(Recorders(g, k)') = w0 - 1
        /\ Cardinality(SentAt(g, k)') = s0 /\ Cardinality(Advancers(g, k)') = a0
        /\ Cardinality(Request) * crashes' = m
    BY <1>3, <1>5, <1>6, <2>4, <2>5
  <2>10. QED
    BY <2>3, <2>5, <2>6, <2>8, <2>9 DEF Bounded
<1>8. CASE ~ (q.new.group = g /\ q.new.step = k)
  <2>1. i \notin Recorders(g, k)
    BY <1>1, <1>8 DEF Recorders, IsRecording
  <2>2. Recorders(g, k)' = Recorders(g, k)
    BY <1>3, <1>4, <2>1, Moves DEF IInv
  <2>3. RowsAt(g, k)' = RowsAt(g, k) /\ (k \in StepsOf(g)') = (k \in StepsOf(g))
    BY <1>3, <1>8 DEF RowsAt, StepsOf
  <2>4. QED
    BY <1>3, <1>5, <1>6, <2>2, <2>3, SameBounds
<1>9. QED
  BY <1>7, <1>8

\* A restart cuts off at most every worker.
LEMMA CrashBounds ==
  ASSUME IInv, IsFiniteSet(progress), NEW g \in Group, NEW k \in 2 .. Steps,
         Bounded(g, k), Crash
  PROVE  Bounded(g, k)'
<1>1. /\ sent' = sent /\ progress' = progress /\ crashes' = crashes + 1
      /\ req' = [j \in Request |-> Idle]
  BY DEF Crash
<1>2. Advancers(g, k)' = {} /\ Recorders(g, k)' = {}
  BY <1>1 DEF Advancers, Recorders, IsAdvancing, IsRecording, Idle
<1>3. /\ SentAt(g, k)' = SentAt(g, k) /\ RowsAt(g, k)' = RowsAt(g, k)
      /\ StepsOf(g)' = StepsOf(g)
  BY <1>1, SameCounts
<1>4. Cardinality(Advancers(g, k)') = 0 /\ Cardinality(Recorders(g, k)') = 0
  BY <1>2, FS_EmptySet
<1>5. PICK n, m, s0, r0, a0, w0 \in Nat :
        /\ n = Cardinality(Request) /\ m = Cardinality(Request) * crashes
        /\ s0 = Cardinality(SentAt(g, k)) /\ r0 = Cardinality(RowsAt(g, k))
        /\ a0 = Cardinality(Advancers(g, k)) /\ w0 = Cardinality(Recorders(g, k))
  BY Counted
<1>6. Cardinality(Request) * crashes' = m + n
  <2>1. \A c \in Nat : n * (c + 1) = n * c + n
    OBVIOUS
  <2>2. crashes \in Nat
    BY DEF IInv, TypeOK
  <2>3. n * (crashes + 1) = n * crashes + n
    BY <2>1, <2>2
  <2>4. QED
    BY <1>1, <1>5, <2>3
<1>7. /\ k \notin StepsOf(g) => s0 <= m + w0
      /\ k \in StepsOf(g) => s0 + a0 <= m + n
      /\ r0 + a0 + w0 <= n
  BY <1>5 DEF Bounded
<1>8. s0 <= (m + n) + 0 /\ s0 + 0 <= (m + n) + n /\ r0 + 0 + 0 <= n
  BY <1>7
<1>9. QED
  BY <1>3, <1>4, <1>5, <1>6, <1>8 DEF Bounded

\* Every step keeps the bounds.
LEMMA BoundsStep ==
  ASSUME IInv, BoundsInv, [Next]_vars
  PROVE  BoundsInv'
<1>1. IsFiniteSet(progress)
  BY DEF BoundsInv
<1>2. IsFiniteSet(progress')
  <2>1. \/ progress' = progress
        \/ \E p : progress' = progress \cup {p}
    BY DEF Next, AdminStep, AssignFirst, RuleFirst, SaveFirst, Load, Step, Save,
           FindProgress, ReadMax, CloseStep, AssignNext, RuleNext, SaveNext, Reward,
           ThrowReputation, Crash, vars
  <2>2. QED
    BY <1>1, <2>1, FS_AddElement
<1>3. ASSUME NEW g \in Group, NEW k \in 2 .. Steps
      PROVE  Bounded(g, k)'
  <2>1. Bounded(g, k)
    BY DEF BoundsInv
  <2>2. CASE AdminStep
    BY <2>1, <2>2, FirstBounds
  <2>3. ASSUME NEW i \in Request, NEW x, Goes(i, x),
               UNCHANGED << sent, progress, crashes >>,
               req[i].pc \in {"idle", "loaded", "saved", "rewarding"},
               x.pc \in {"idle", "loaded", "saved", "found", "rewarding"}
        PROVE  Bounded(g, k)'
    <3>1. /\ ~ IsAdvancing(x, g, k) /\ ~ IsAdvancing(req[i], g, k)
          /\ ~ IsRecording(x, g, k) /\ ~ IsRecording(req[i], g, k)
      BY <2>3 DEF IsAdvancing, IsRecording
    <3>2. QED
      BY <2>1, <2>3, <3>1, MoveBounds DEF IInv
  <2>4. ASSUME NEW i \in Request, NEW u, NEW t, Load(i, u, t)
        PROVE  Bounded(g, k)'
    <3>1. req[i].pc = "idle"
      BY <2>4 DEF Load, Idle
    <3>2. QED
      BY <2>3, <2>4, <3>1 DEF Load
  <2>5. ASSUME NEW i \in Request, Step(i)
        PROVE  Bounded(g, k)'
    <3>1. CASE Save(i)
      <4>1. req[i] \in Called
        BY <3>1, CalledShape DEF Save, IInv
      <4>2. [req[i] EXCEPT !.pc = "saved"].pc = "saved"
        BY <4>1 DEF Called
      <4>3. QED
        BY <2>3, <3>1, <4>2 DEF Save
    <3>2. CASE FindProgress(i)
      <4>1. req[i] \in Called
        BY <3>2, CalledShape DEF FindProgress, IInv
      <4>2. [req[i] EXCEPT !.pc = "rewarding"].pc = "rewarding"
        BY <4>1 DEF Called
      <4>3. QED
        BY <2>3, <3>2, <4>2 DEF FindProgress
    <3>3. CASE ReadMax(i)
      BY <2>1, <3>3, ReadMaxBounds
    <3>4. CASE CloseStep(i)
      <4>1. req[i] \in Advancing
        BY <3>4, AdvancingShape DEF CloseStep, IInv
      <4>2. PICK x : x = [req[i] EXCEPT !.pc = "assigning"]
        OBVIOUS
      <4>3. x.pc = "assigning" /\ x.row = req[i].row
        BY <4>1, <4>2 DEF Advancing
      <4>4. /\ IsAdvancing(x, g, k) <=> IsAdvancing(req[i], g, k)
            /\ IsRecording(x, g, k) <=> IsRecording(req[i], g, k)
        BY <3>4, <4>3 DEF CloseStep, IsAdvancing, IsRecording
      <4>5. QED
        BY <2>1, <3>4, <4>2, <4>4, MoveBounds DEF CloseStep, IInv
    <3>5. CASE AssignNext(i)
      BY <1>1, <2>1, <3>5, AssignNextBounds
    <3>6. CASE RuleNext(i)
      <4>1. req[i] \in Recording
        BY <3>6, RecordingShape DEF RuleNext, IInv
      <4>2. PICK x : x = [req[i] EXCEPT !.pc = "saving"]
        OBVIOUS
      <4>3. x.pc = "saving" /\ x.new = req[i].new
        BY <4>1, <4>2 DEF Recording
      <4>4. /\ IsAdvancing(x, g, k) <=> IsAdvancing(req[i], g, k)
            /\ IsRecording(x, g, k) <=> IsRecording(req[i], g, k)
        BY <3>6, <4>3 DEF RuleNext, IsAdvancing, IsRecording
      <4>5. QED
        BY <2>1, <3>6, <4>2, <4>4, MoveBounds DEF RuleNext, IInv
    <3>7. CASE SaveNext(i)
      BY <1>1, <2>1, <3>7, SaveNextBounds
    <3>8. CASE Reward(i)
      <4>1. Idle.pc = "idle"
        BY DEF Idle
      <4>2. QED
        BY <2>3, <3>8, <4>1 DEF Reward
    <3>9. CASE ThrowReputation(i)
      <4>1. Idle.pc = "idle"
        BY DEF Idle
      <4>2. QED
        BY <2>3, <3>9, <4>1 DEF ThrowReputation
    <3>10. QED
      BY <2>5, <3>1, <3>2, <3>3, <3>4, <3>5, <3>6, <3>7, <3>8, <3>9 DEF Step
  <2>6. CASE Crash
    BY <1>1, <2>1, <2>6, CrashBounds
  <2>7. CASE UNCHANGED vars
    <3>1. UNCHANGED << sent, progress, crashes, req >>
      BY <2>7 DEF vars
    <3>2. Advancers(g, k)' = Advancers(g, k) /\ Recorders(g, k)' = Recorders(g, k)
      BY <3>1 DEF Advancers, Recorders
    <3>3. QED
      BY <2>1, <3>1, <3>2, SameCounts, SameBounds
  <2>8. QED
    BY <2>2, <2>4, <2>5, <2>6, <2>7 DEF Next
<1>4. QED
  BY <1>2, <1>3 DEF BoundsInv

\* However many members complete a step together, the next step is created at most
\* once for each worker thread and once more for each after a restart, and the
\* table never has more rows for it than there are threads
\* (sendNextStepOfPipelineTask).
THEOREM StepsAreBounded == Spec => []DuplicatesBounded
<1>1. Init => BoundsInv
  <2> SUFFICES ASSUME Init PROVE BoundsInv
    OBVIOUS
  <2>1. IsFiniteSet(progress)
    BY FS_EmptySet DEF Init
  <2>2. ASSUME NEW g \in Group, NEW k \in 2 .. Steps
        PROVE  Bounded(g, k)
    <3>1. /\ SentAt(g, k) = {} /\ RowsAt(g, k) = {} /\ StepsOf(g) = {}
          /\ Advancers(g, k) = {} /\ Recorders(g, k) = {} /\ crashes = 0
      BY DEF Init, SentAt, RowsAt, StepsOf, Advancers, Recorders, IsAdvancing,
             IsRecording, Idle
    <3>2. Cardinality(Request) \in Nat
      BY FS_CardinalityType
    <3>3. Cardinality(Request) * crashes = 0
      BY <3>1, <3>2
    <3>4. Cardinality({}) = 0
      BY FS_EmptySet
    <3>5. QED
      BY <3>1, <3>2, <3>3, <3>4 DEF Bounded
  <2>3. QED
    BY <2>1, <2>2 DEF BoundsInv
<1>2. IInv /\ BoundsInv /\ [Next]_vars => BoundsInv'
  BY BoundsStep
<1>3. IInv /\ BoundsInv => DuplicatesBounded
  <2> SUFFICES ASSUME IInv, BoundsInv, NEW g \in Group, NEW k \in 2 .. Steps
               PROVE  /\ Cardinality(SentAt(g, k)) <= Cardinality(Request) * (crashes + 1)
                      /\ Cardinality(RowsAt(g, k)) <= Cardinality(Request)
    BY DEF DuplicatesBounded
  <2>1. PICK n, m, s0, r0, a0, w0 \in Nat :
          /\ n = Cardinality(Request) /\ m = Cardinality(Request) * crashes
          /\ s0 = Cardinality(SentAt(g, k)) /\ r0 = Cardinality(RowsAt(g, k))
          /\ a0 = Cardinality(Advancers(g, k)) /\ w0 = Cardinality(Recorders(g, k))
    BY Counted DEF BoundsInv
  <2>2. /\ k \notin StepsOf(g) => s0 <= m + w0
        /\ k \in StepsOf(g) => s0 + a0 <= m + n
        /\ r0 + a0 + w0 <= n
    BY <2>1 DEF Bounded, BoundsInv
  <2>3. s0 <= m + n /\ r0 <= n
    BY <2>2
  <2>4. Cardinality(Request) * (crashes + 1) = m + n
    <3>1. \A c \in Nat : n * (c + 1) = n * c + n
      OBVIOUS
    <3>2. crashes \in Nat
      BY DEF IInv, TypeOK
    <3>3. QED
      BY <2>1, <3>1, <3>2
  <2>5. QED
    BY <2>1, <2>3, <2>4
<1>4. QED
  BY <1>1, <1>2, <1>3, Invariant, PTL DEF Spec

=============================================================================
