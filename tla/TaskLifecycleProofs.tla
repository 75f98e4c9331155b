------------------------- MODULE TaskLifecycleProofs -------------------------
(***************************************************************************)
(* Theorems about TaskLifecycle, for every value of its constants.         *)
(***************************************************************************)
EXTENDS TaskLifecycle, FiniteSetTheorems, TLAPS

USE ConstantsAssumption

-----------------------------------------------------------------------------
(* Facts about the operators.                                              *)

\* A history entry of a legal writer at a legal time is an Entry; StateOf
\* gives each call of a phone a state.
LEMMA StateOfType == \A op \in UserOp : StateOf[op] \in TaskState
BY DEF UserOp, StateOf, TaskState

\* Saving a legal copy over a legal row gives a legal row.
LEMMA MergeType ==
  ASSUME NEW row \in Row, NEW snap \in Row, NEW e \in Entry
  PROVE  Merge(row, snap, e) \in Row
BY DEF Merge, Row, Entry

\* The columns acceptTask sets keep a copy legal.
LEMMA EditedType ==
  ASSUME NEW op, NEW r \in ReportId, NEW snap \in Row, now \in Time
  PROVE  Edited(op, r, snap) \in Row
<1>1. now \in Nat /\ now + Duration[r[2]] \in Nat
  BY DEF Time, ReportId
<1>2. QED
  BY <1>1 DEF Edited, Row

\* A row a transaction inserts is legal.
LEMMA NewRowType == now \in Time => NewRow \in Row
BY DEF NewRow, Row, Entry, Writer, TaskState, Time, Null

\* Inserting rows keeps the table legal and leaves the old rows alone.
LEMMA InsertType ==
  ASSUME NEW us, NEW t, Insert(us, t), now \in Time,
         DOMAIN report \subseteq ReportId, report \in [DOMAIN report -> Row]
  PROVE  /\ DOMAIN report' \subseteq ReportId
         /\ report' \in [DOMAIN report' -> Row]
         /\ DOMAIN report \subseteq DOMAIN report'
         /\ \A r \in DOMAIN report : report'[r] = report[r]
         /\ \A r \in DOMAIN report' \ DOMAIN report : report'[r] = NewRow
<1> DEFINE new == { FreshId(u, t) : u \in us }
<1>1. /\ new \subseteq ReportId \ DOMAIN report
      /\ report' = [r \in DOMAIN report \cup new |->
                      IF r \in new THEN NewRow ELSE report[r]]
  BY DEF Insert
<1>2. NewRow \in Row
  BY NewRowType
<1> HIDE DEF new
<1>3. DOMAIN report' = DOMAIN report \cup new
  BY <1>1
<1>4. QED
  BY <1>1, <1>2, <1>3

-----------------------------------------------------------------------------
(* Type correctness.                                                       *)

\* The empty server has its type.
LEMMA InitType == Init => TypeOK
BY DEF Init, TypeOK, Time, Null, Idle, NoTx

\* What a step of a handler finds in its own slot.
LEMMA LoadedShape ==
  ASSUME TypeOK, NEW i \in Request, req[i].pc = "loaded"
  PROVE  req[i] \in Loaded
BY DEF TypeOK, Idle, Loaded, Saved

\* ... and after its save.
LEMMA SavedShape ==
  ASSUME TypeOK, NEW i \in Request, req[i].pc = "saved"
  PROVE  req[i] \in Saved
BY DEF TypeOK, Idle, Loaded, Saved

\* Every action keeps the type.
LEMMA NextType == TypeOK /\ [Next]_vars => TypeOK'
<1> SUFFICES ASSUME TypeOK, [Next]_vars PROVE TypeOK'
  OBVIOUS
<1> USE DEF TypeOK
<1>1. ASSUME NEW t \in Task, NEW us \in SUBSET User, NEW d \in Deadlines,
             AssignTask(t, us, d)
      PROVE  TypeOK'
  <2>1. d \in Time
    OBVIOUS
  <2>2. DOMAIN report' \subseteq ReportId /\ report' \in [DOMAIN report' -> Row]
    BY <1>1, InsertType DEF AssignTask
  <2>3. DOMAIN report \subseteq DOMAIN report' /\ { FreshId(u, t) : u \in us } \subseteq DOMAIN report'
    BY <1>1, InsertType DEF AssignTask, Insert
  <2>4. assigning' \subseteq Assignment'
    BY <1>1, <2>1, <2>3 DEF AssignTask, Assignment
  <2>5. reset' \subseteq DOMAIN report'
    BY <1>1, <2>3 DEF AssignTask
  <2>6. QED
    BY <1>1, <2>1, <2>2, <2>4, <2>5 DEF AssignTask
<1>1a. CASE EndAssignment
  <2>1. PICK h \in assigning :
          /\ report' = [r \in DOMAIN report |->
               IF r \in h.reports
                 THEN [report[r] EXCEPT !.currentState = "AVAILABLE",
                                        !.accepted = Null, !.expiration = Null]
                 ELSE report[r]]
          /\ reset' = reset \cup { r \in h.reports : report[r].currentState # "AVAILABLE" }
          /\ deadline' = [deadline EXCEPT ![h.task] = h.deadline]
          /\ assigning' = assigning \ {h}
    BY <1>1a DEF EndAssignment
  <2>2. h \in Assignment
    OBVIOUS
  <2>3. \A row \in Row : [row EXCEPT !.currentState = "AVAILABLE", !.accepted = Null,
                                     !.expiration = Null] \in Row
    BY DEF Row, TaskState, Null
  <2>4. DOMAIN report' = DOMAIN report /\ report' \in [DOMAIN report' -> Row]
    BY <2>1, <2>3
  <2>5. assigning' \subseteq Assignment' /\ reset' \subseteq DOMAIN report'
    BY <2>1, <2>2, <2>4 DEF Assignment
  <2>6. deadline' \in [Task -> Time \cup {Null}]
    BY <2>1, <2>2 DEF Assignment
  <2>7. QED
    BY <1>1a, <2>4, <2>5, <2>6 DEF EndAssignment
<1>2. ASSUME NEW a \in Admin, NEW t \in Task, NEW us \in SUBSET User,
             AddUsersCheck(a, t, us)
      PROVE  TypeOK'
  BY <1>2 DEF AddUsersCheck, OpenTx, Assignment
<1>3. ASSUME NEW a \in Admin, AddUsersCommit(a)
      PROVE  TypeOK'
  <2>1. DOMAIN report' \subseteq ReportId /\ report' \in [DOMAIN report' -> Row]
    BY <1>3, InsertType DEF AddUsersCommit
  <2>2. DOMAIN report \subseteq DOMAIN report'
    BY <1>3, InsertType DEF AddUsersCommit
  <2>3. assigning' \subseteq Assignment' /\ reset' \subseteq DOMAIN report'
    BY <1>3, <2>2 DEF AddUsersCommit, Assignment
  <2>4. QED
    BY <1>3, <2>1, <2>3 DEF AddUsersCommit
<1>4. ASSUME NEW i \in Request, NEW r \in DOMAIN report, NEW s \in AdminState,
             AdminLoad(i, r, s)
      PROVE  TypeOK'
  <2>1. [pc |-> "loaded", op |-> "admin", id |-> r, state |-> s,
         snap |-> report[r]] \in Loaded
    BY DEF Loaded
  <2>2. started' \in 0 .. MaxRequests
    BY <1>4 DEF AdminLoad
  <2>3. QED
    BY <1>4, <2>1, <2>2 DEF AdminLoad, Assignment
<1>5. ASSUME NEW i \in Request, NEW op \in UserOp, NEW u \in User, NEW t \in Task,
             Load(i, op, u, t)
      PROVE  TypeOK'
  <2>1. PICK r \in ReportId :
          /\ RowsOf(u, t) = {r}
          /\ req' = [req EXCEPT ![i] = [pc |-> "loaded", op |-> op, id |-> r,
                                        state |-> StateOf[op], snap |-> report[r]]]
    BY <1>5 DEF Load
  <2>2. r \in DOMAIN report
    BY <2>1 DEF RowsOf
  <2>3. [pc |-> "loaded", op |-> op, id |-> r, state |-> StateOf[op],
         snap |-> report[r]] \in Loaded
    BY <2>2, StateOfType DEF Loaded
  <2>4. started' \in 0 .. MaxRequests
    BY <1>5 DEF Load
  <2>5. QED
    BY <1>5, <2>1, <2>3, <2>4 DEF Load, Assignment
<1>6. ASSUME NEW i \in Request, Save(i)
      PROVE  TypeOK'
  <2> DEFINE q == req[i]
             e == [state |-> q.state, timestamp |-> now, by |-> q.op]
  <2>1. q \in Loaded
    BY <1>6, LoadedShape DEF Save
  <2>2. e \in Entry
    BY <2>1 DEF Loaded, Entry, Writer, Time
  <2>3. Edited(q.op, q.id, q.snap) \in Row
    BY <2>1, EditedType DEF Loaded
  <2>4. report' = [report EXCEPT ![q.id] = Merge(@, Edited(q.op, q.id, q.snap), e)]
    BY <1>6 DEF Save
  <2>5. DOMAIN report' = DOMAIN report
    BY <2>4
  <2>6. report' \in [DOMAIN report' -> Row]
    <3>1. q.id \in DOMAIN report =>
            Merge(report[q.id], Edited(q.op, q.id, q.snap), e) \in Row
      BY <2>2, <2>3, MergeType
    <3>2. QED
      BY <2>4, <2>5, <3>1
  <2>7. [pc |-> "saved", op |-> q.op, id |-> q.id, deadline |-> deadline[q.id[2]]]
          \in Saved
    <3>1. q.id[2] \in Task
      BY <2>1 DEF Loaded, ReportId
    <3>2. QED
      BY <2>1, <3>1 DEF Loaded, Saved
  <2>8. QED
    BY <1>6, <2>5, <2>6, <2>7 DEF Save, Assignment
<1>7. ASSUME NEW i \in Request, Finish(i)
      PROVE  TypeOK'
  <2>1. req[i] \in Saved
    BY <1>7, SavedShape DEF Finish
  <2>2. QED
    BY <1>7, <2>1 DEF Finish, Saved, Assignment
<1>7a. ASSUME NEW i \in Request, CloseStep(i)
      PROVE  TypeOK'
  <2>1. req[i] \in Saved
    BY <1>7a, SavedShape DEF CloseStep
  <2>2. [req[i] EXCEPT !.deadline = now] \in Saved
    BY <2>1 DEF Saved
  <2>3. QED
    BY <1>7a, <2>2 DEF CloseStep, Assignment
<1>8. CASE JobScan
  <2>1. \A r \in DOMAIN report : Expired(r) =>
          [id |-> r, snap |-> report[r], deadline |-> deadline[r[2]]] \in Pending
    <3> TAKE r \in DOMAIN report
    <3>1. r[2] \in Task
      BY DEF ReportId
    <3>2. QED
      BY <3>1 DEF Pending, Expired
  <2>2. QED
    BY <1>8, <2>1 DEF JobScan, Assignment
<1>9. CASE JobSave
  <2>1. PICK p \in job :
          /\ report' = [report EXCEPT ![p.id] =
               Merge(@, p.snap, [state |-> "IGNORED", timestamp |-> p.deadline,
                                 by |-> "job"])]
          /\ job' = job \ {p}
    BY <1>9 DEF JobSave
  <2>2. [state |-> "IGNORED", timestamp |-> p.deadline, by |-> "job"] \in Entry
    BY DEF Pending, Entry, TaskState, Writer, Time, Null
  <2>3. p.id \in DOMAIN report =>
          Merge(report[p.id], p.snap, [state |-> "IGNORED", timestamp |-> p.deadline,
                                       by |-> "job"]) \in Row
    BY <2>2, MergeType DEF Pending
  <2>4. DOMAIN report' = DOMAIN report /\ report' \in [DOMAIN report' -> Row]
    BY <2>1, <2>3
  <2>5. QED
    BY <1>9, <2>1, <2>4 DEF JobSave, Assignment
<1>10. CASE Tick
  BY <1>10 DEF Tick, Time, Assignment
<1>11. CASE Crash
  BY <1>11 DEF Crash, Idle, NoTx
<1>12. CASE UNCHANGED vars
  BY <1>12 DEF vars, Assignment
<1>13. QED
  BY <1>1, <1>1a, <1>2, <1>3, <1>4, <1>5, <1>6, <1>7, <1>8, <1>9, <1>10, <1>11, <1>12, <1>7a
     DEF Next, AssignNext, AdminNext, LoadNext

\* Every reachable state has its type: in particular every row is complete,
\* every copy a handler or the job holds is one, and the table never holds an
\* id outside (user, task, copy).
THEOREM TypeCorrect == Spec => []TypeOK
<1>1. QED
  BY InitType, NextType, PTL DEF Spec
-----------------------------------------------------------------------------
(* The kinds of steps, for the invariants about rows and copies.           *)

Quiet == UNCHANGED << report, req, job, reset >> /\ now' >= now

Inserts ==
  /\ DOMAIN report \subseteq DOMAIN report'
  /\ \A r \in DOMAIN report : report'[r] = report[r]
  /\ \A r \in DOMAIN report' \ DOMAIN report : report'[r] = NewRow
  /\ UNCHANGED << now, req, job, reset >>

\* The assignment h ends: its reports are AVAILABLE again, with no window.
Resets(h) ==
  /\ DOMAIN report' = DOMAIN report
  /\ \A r \in DOMAIN report : /\ report'[r].history = report[r].history
                              /\ r \notin h.reports => report'[r] = report[r]
  /\ \A r \in h.reports : /\ r \in DOMAIN report
                          /\ report'[r].currentState = "AVAILABLE"
                          /\ report'[r].accepted = Null
                          /\ report'[r].expiration = Null
  /\ reset' = reset \cup { r \in h.reports : report[r].currentState # "AVAILABLE" }
  /\ assigning' = assigning \ {h}
  /\ UNCHANGED << now, req, job >>

Copies(i, op, r, s) ==
  /\ req[i] = Idle
  /\ op = "complete" => /\ s = "COMPLETED_WITH_SUCCESS"
                        /\ ~ HasState(report[r], "COMPLETED_WITH_SUCCESS")
  /\ req' = [req EXCEPT ![i] = [pc |-> "loaded", op |-> op, id |-> r,
                                state |-> s, snap |-> report[r]]]
  /\ UNCHANGED << now, report, job, reset >>

Drops(i) ==
  /\ req[i].pc = "saved"
  /\ \E x \in {Idle} \cup Saved : x.pc # "loaded" /\ req' = [req EXCEPT ![i] = x]
  /\ UNCHANGED << now, report, job, reset >>

\* Every step of the specification is of one of nine kinds.
LEMMA StepKinds ==
  ASSUME TypeOK, [Next]_vars
  PROVE  \/ Quiet
         \/ Inserts
         \/ \E h \in assigning : Resets(h)
         \/ \E i \in Request, op \in UserOp \cup {"admin"}, r \in DOMAIN report,
               s \in TaskState : Copies(i, op, r, s)
         \/ \E i \in Request : Save(i)
         \/ \E i \in Request : Drops(i)
         \/ JobScan
         \/ JobSave
         \/ Crash
<1>1. ASSUME NEW t \in Task, NEW us \in SUBSET User, NEW d \in Deadlines,
             AssignTask(t, us, d)
      PROVE  Inserts
  BY <1>1, InsertType DEF AssignTask, Inserts, TypeOK
<1>1a. ASSUME EndAssignment
       PROVE  \E h \in assigning : Resets(h)
  <2>1. PICK h \in assigning :
          /\ report' = [r \in DOMAIN report |->
               IF r \in h.reports
                 THEN [report[r] EXCEPT !.currentState = "AVAILABLE",
                                        !.accepted = Null, !.expiration = Null]
                 ELSE report[r]]
          /\ reset' = reset \cup { r \in h.reports : report[r].currentState # "AVAILABLE" }
          /\ assigning' = assigning \ {h}
    BY <1>1a DEF EndAssignment
  <2>2. h.reports \subseteq DOMAIN report
    BY DEF TypeOK, Assignment
  <2>3. \A row \in Row :
          LET back == [row EXCEPT !.currentState = "AVAILABLE", !.accepted = Null,
                                  !.expiration = Null]
          IN  /\ back.currentState = "AVAILABLE" /\ back.accepted = Null
              /\ back.expiration = Null /\ back.history = row.history
    BY DEF Row
  <2>4. \A r \in DOMAIN report : report[r] \in Row
    BY DEF TypeOK
  <2>5. Resets(h)
    BY <1>1a, <2>1, <2>2, <2>3, <2>4 DEF EndAssignment, Resets
  <2>6. QED
    BY <2>5
<1>2. ASSUME NEW a \in Admin, NEW t \in Task, NEW us \in SUBSET User,
             AddUsersCheck(a, t, us)
      PROVE  Quiet
  BY <1>2 DEF AddUsersCheck, Quiet, TypeOK, Time
<1>3. ASSUME NEW a \in Admin, AddUsersCommit(a)
      PROVE  Inserts
  BY <1>3, InsertType DEF AddUsersCommit, Inserts, TypeOK
<1>4. ASSUME NEW i \in Request, NEW r \in DOMAIN report, NEW s \in AdminState,
             AdminLoad(i, r, s)
      PROVE  s \in TaskState /\ Copies(i, "admin", r, s)
  BY <1>4 DEF AdminLoad, Copies
<1>5. ASSUME NEW i \in Request, NEW op \in UserOp, NEW u \in User, NEW t \in Task,
             Load(i, op, u, t)
      PROVE  \E r \in DOMAIN report : Copies(i, op, r, StateOf[op])
  <2>1. PICK r \in ReportId :
          /\ RowsOf(u, t) = {r}
          /\ op = "complete" => ~ HasState(report[r], "COMPLETED_WITH_SUCCESS")
          /\ req' = [req EXCEPT ![i] = [pc |-> "loaded", op |-> op, id |-> r,
                                        state |-> StateOf[op], snap |-> report[r]]]
    BY <1>5 DEF Load
  <2>2. r \in DOMAIN report
    BY <2>1 DEF RowsOf
  <2>3. op = "complete" => StateOf[op] = "COMPLETED_WITH_SUCCESS"
    BY DEF StateOf
  <2>4. QED
    BY <1>5, <2>1, <2>2, <2>3 DEF Load, Copies
<1>6. ASSUME NEW i \in Request, Finish(i)
      PROVE  Drops(i)
  BY <1>6 DEF Finish, Drops, Idle
<1>6a. ASSUME NEW i \in Request, CloseStep(i)
      PROVE  Drops(i)
  <2>1. req[i] \in Saved
    BY <1>6a, SavedShape DEF CloseStep
  <2>2. /\ [req[i] EXCEPT !.deadline = now] \in Saved
        /\ [req[i] EXCEPT !.deadline = now].pc # "loaded"
    BY <2>1 DEF Saved, TypeOK
  <2>3. req' = [req EXCEPT ![i] = [req[i] EXCEPT !.deadline = now]]
    BY <1>6a DEF CloseStep
  <2>4. QED
    BY <1>6a, <2>2, <2>3 DEF CloseStep, Drops
<1>7. ASSUME Tick
      PROVE  Quiet
  BY <1>7 DEF Tick, Quiet, TypeOK, Time
<1>8. ASSUME UNCHANGED vars
      PROVE  Quiet
  BY <1>8 DEF vars, Quiet, TypeOK, Time
<1>9. QED
  BY <1>1, <1>1a, <1>2, <1>3, <1>4, <1>5, <1>6, <1>7, <1>8, <1>6a, StateOfType
     DEF Next, AssignNext, AdminNext, LoadNext

\* What Save does to the table, and to the slot of its handler.
LEMMA SaveEffect ==
  ASSUME TypeOK, NEW i \in Request, Save(i), req[i].id \in DOMAIN report
  PROVE  \E e \in Entry :
           LET q == req[i]
               edited == Edited(q.op, q.id, q.snap)
           IN  /\ q \in Loaded
               /\ edited \in Row
               /\ e = [state |-> q.state, timestamp |-> now, by |-> q.op]
               /\ DOMAIN report' = DOMAIN report
               /\ report'[q.id] = Merge(report[q.id], edited, e)
               /\ \A r \in DOMAIN report : r # q.id => report'[r] = report[r]
               /\ req'[i].pc = "saved"
               /\ \A j \in Request : j # i => req'[j] = req[j]
               /\ UNCHANGED << now, job >>
<1> DEFINE q == req[i]
           edited == Edited(q.op, q.id, q.snap)
           e == [state |-> q.state, timestamp |-> now, by |-> q.op]
<1>1. q \in Loaded
  BY LoadedShape DEF Save
<1>2. edited \in Row
  BY <1>1, EditedType DEF Loaded, TypeOK
<1>3. e \in Entry
  BY <1>1 DEF Loaded, Entry, Writer, Time, TypeOK
<1>4. /\ report' = [report EXCEPT ![q.id] = Merge(@, edited, e)]
      /\ req' = [req EXCEPT ![i] = [pc |-> "saved", op |-> q.op, id |-> q.id,
                                    deadline |-> deadline[q.id[2]]]]
      /\ UNCHANGED << now, job >>
  BY DEF Save
<1> HIDE DEF edited, e
<1>5. /\ DOMAIN report' = DOMAIN report
      /\ report'[q.id] = Merge(report[q.id], edited, e)
      /\ \A r \in DOMAIN report : r # q.id => report'[r] = report[r]
      /\ req'[i].pc = "saved"
      /\ \A j \in Request : j # i => req'[j] = req[j]
  BY <1>4 DEF TypeOK
<1>6. QED
  BY <1>1, <1>2, <1>3, <1>4, <1>5 DEF edited, e

\* What JobSave does to the table, and to the job's list.
LEMMA JobSaveEffect ==
  ASSUME TypeOK, JobSave, \A p \in job : p.id \in DOMAIN report
  PROVE  \E p \in job, e \in Entry :
           /\ e = [state |-> "IGNORED", timestamp |-> p.deadline, by |-> "job"]
           /\ p \in Pending
           /\ DOMAIN report' = DOMAIN report
           /\ report'[p.id] = Merge(report[p.id], p.snap, e)
           /\ \A r \in DOMAIN report : r # p.id => report'[r] = report[r]
           /\ job' = job \ {p}
           /\ UNCHANGED << now, req >>
<1>1. PICK p \in job :
        /\ report' = [report EXCEPT ![p.id] =
             Merge(@, p.snap, [state |-> "IGNORED", timestamp |-> p.deadline,
                               by |-> "job"])]
        /\ job' = job \ {p}
  BY DEF JobSave
<1> DEFINE e == [state |-> "IGNORED", timestamp |-> p.deadline, by |-> "job"]
<1>2. p \in Pending /\ e \in Entry
  BY DEF TypeOK, Pending, Entry, TaskState, Writer, Time, Null
<1>3. UNCHANGED << now, req >>
  BY DEF JobSave
<1>4. report' = [report EXCEPT ![p.id] = Merge(@, p.snap, e)]
  BY <1>1
<1> HIDE DEF e
<1>5. /\ DOMAIN report' = DOMAIN report
      /\ report'[p.id] = Merge(report[p.id], p.snap, e)
      /\ \A r \in DOMAIN report : r # p.id => report'[r] = report[r]
  BY <1>4 DEF TypeOK
<1>6. QED
  BY <1>1, <1>2, <1>3, <1>5 DEF e
-----------------------------------------------------------------------------
(* Copies are past values of their rows.                                   *)

\* Appending to a history keeps its beginning.
LEMMA MergeGrows ==
  ASSUME NEW row \in Row, NEW snap \in Row, NEW e \in Entry
  PROVE  LET h == row.history
             g == Merge(row, snap, e).history
         IN  /\ Len(g) = Len(h) + 1
             /\ DOMAIN g = DOMAIN h \cup {Len(h) + 1}
             /\ Len(h) + 1 \notin DOMAIN h
             /\ g[Len(h) + 1] = e
             /\ \A k \in DOMAIN h : g[k] = h[k]
<1> DEFINE h == row.history
<1>1. h \in Seq(Entry)
  BY DEF Row
<1>2. Merge(row, snap, e).history = Append(h, e)
  BY DEF Merge
<1> HIDE DEF h
<1>3. /\ Len(Append(h, e)) = Len(h) + 1
      /\ DOMAIN Append(h, e) = DOMAIN h \cup {Len(h) + 1}
      /\ Len(h) + 1 \notin DOMAIN h
      /\ Append(h, e)[Len(h) + 1] = e
      /\ \A k \in DOMAIN h : Append(h, e)[k] = h[k]
  BY <1>1
<1>4. QED
  BY <1>2, <1>3 DEF h

\* A row never leaves the table and its history keeps its beginning.
Grows ==
  \A r \in DOMAIN report :
    /\ r \in DOMAIN report'
    /\ Len(report[r].history) <= Len(report'[r].history)
    /\ \A k \in DOMAIN report[r].history :
         /\ k \in DOMAIN report'[r].history
         /\ report'[r].history[k] = report[r].history[k]

\* No step takes a row or an entry away.
LEMMA RowsGrow ==
  ASSUME TypeOK, CopiesArePast, [Next]_vars
  PROVE  Grows
<1>1. \A r \in DOMAIN report : Len(report[r].history) \in Nat
  BY DEF TypeOK, Row
<1>2. CASE UNCHANGED report
  BY <1>1, <1>2 DEF Grows
<1>3. CASE Inserts
  BY <1>1, <1>3 DEF Grows, Inserts
<1>3a. ASSUME NEW h \in assigning, Resets(h)
       PROVE  Grows
  BY <1>1, <1>3a DEF Grows, Resets
<1>4. ASSUME NEW i \in Request, Save(i)
      PROVE  Grows
  <2>1. req[i].id \in DOMAIN report
    BY <1>4 DEF CopiesArePast, IsPast, Save
  <2>2. PICK e \in Entry, edited \in Row :
          /\ DOMAIN report' = DOMAIN report
          /\ report'[req[i].id] = Merge(report[req[i].id], edited, e)
          /\ \A r \in DOMAIN report : r # req[i].id => report'[r] = report[r]
    BY <1>4, <2>1, SaveEffect
  <2>3. report[req[i].id] \in Row
    BY <2>1 DEF TypeOK
  <2>4. LET h == report[req[i].id].history
            g == report'[req[i].id].history
        IN  /\ Len(g) = Len(h) + 1
            /\ DOMAIN g = DOMAIN h \cup {Len(h) + 1}
            /\ \A k \in DOMAIN h : g[k] = h[k]
    BY <2>2, <2>3, MergeGrows
  <2>5. QED
    BY <1>1, <2>1, <2>2, <2>4 DEF Grows
<1>5. CASE JobSave
  <2>1. \A p \in job : p.id \in DOMAIN report
    BY DEF CopiesArePast, IsPast
  <2>2. PICK p \in job, e \in Entry :
          /\ p \in Pending
          /\ DOMAIN report' = DOMAIN report
          /\ report'[p.id] = Merge(report[p.id], p.snap, e)
          /\ \A r \in DOMAIN report : r # p.id => report'[r] = report[r]
    BY <1>5, <2>1, JobSaveEffect
  <2>3. report[p.id] \in Row /\ p.snap \in Row
    BY <2>1, <2>2 DEF TypeOK, Pending
  <2>4. LET h == report[p.id].history
            g == report'[p.id].history
        IN  /\ Len(g) = Len(h) + 1
            /\ DOMAIN g = DOMAIN h \cup {Len(h) + 1}
            /\ \A k \in DOMAIN h : g[k] = h[k]
    BY <2>2, <2>3, MergeGrows
  <2>5. QED
    BY <1>1, <2>1, <2>2, <2>4 DEF Grows
<1>6. QED
  BY <1>2, <1>3, <1>3a, <1>4, <1>5, StepKinds DEF Quiet, Copies, Drops, JobScan, Crash

\* IsPast of a fixed copy in the next state.
PastNext(r, snap) ==
  /\ r \in DOMAIN report'
  /\ Len(snap.history) <= Len(report'[r].history)
  /\ \A k \in DOMAIN snap.history : snap.history[k] = report'[r].history[k]

\* A past value of a row stays one.
LEMMA PastStaysPast ==
  ASSUME TypeOK, CopiesArePast, [Next]_vars,
         NEW r, NEW snap \in Row, IsPast(r, snap)
  PROVE  PastNext(r, snap)
<1>1. r \in DOMAIN report /\ Grows
  BY RowsGrow DEF IsPast
<1>2. TypeOK'
  BY NextType
<1>3. r \in DOMAIN report'
  BY <1>1 DEF Grows
<1>4. /\ snap.history \in Seq(Entry)
      /\ report[r].history \in Seq(Entry)
      /\ report'[r].history \in Seq(Entry)
  BY <1>1, <1>2, <1>3 DEF TypeOK, Row
<1>5. \A k \in DOMAIN snap.history : k \in DOMAIN report[r].history
  BY <1>4 DEF IsPast
<1>6. Len(snap.history) <= Len(report'[r].history)
  BY <1>1, <1>4 DEF Grows, IsPast
<1>7. QED
  BY <1>1, <1>3, <1>5, <1>6 DEF IsPast, PastNext, Grows

\* A row is a past value of itself.
LEMMA RowIsPast ==
  ASSUME TypeOK, NEW r \in DOMAIN report
  PROVE  report[r] \in Row /\ IsPast(r, report[r])
<1>1. report[r] \in Row /\ Len(report[r].history) \in Nat
  BY DEF TypeOK, Row
<1>2. QED
  BY <1>1 DEF IsPast

\* Every copy a handler or the job holds is a past value of its row.
LEMMA CopiesStayPast ==
  ASSUME TypeOK, CopiesArePast, [Next]_vars
  PROVE  CopiesArePast'
<1>1. ASSUME NEW i \in Request, req'[i].pc = "loaded"
      PROVE  PastNext(req'[i].id, req'[i].snap)
  <2>1. CASE req'[i] = req[i]
    <3>1. req[i].snap \in Row
      BY <1>1, <2>1, LoadedShape DEF Loaded
    <3>2. IsPast(req[i].id, req[i].snap)
      BY <1>1, <2>1 DEF CopiesArePast
    <3>3. QED
      BY <2>1, <3>1, <3>2, PastStaysPast
  <2>2. ASSUME NEW j \in Request, NEW op \in UserOp \cup {"admin"},
               NEW r \in DOMAIN report, NEW s \in TaskState, Copies(j, op, r, s)
        PROVE  PastNext(req'[i].id, req'[i].snap)
    <3>1. CASE i # j
      <4>1. req'[i] = req[i]
        BY <2>2, <3>1 DEF Copies, TypeOK
      <4>2. QED
        BY <4>1, <2>1
    <3>2. CASE i = j
      <4>1. req'[i].id = r /\ req'[i].snap = report[r]
        BY <2>2, <3>2 DEF Copies, TypeOK
      <4>2. QED
        BY <4>1, RowIsPast, PastStaysPast
    <3>3. QED
      BY <3>1, <3>2
  <2>3. ASSUME NEW j \in Request, Save(j)
        PROVE  req'[i] = req[i]
    BY <1>1, <2>3 DEF Save, TypeOK
  <2>4. ASSUME NEW j \in Request, Drops(j)
        PROVE  req'[i] = req[i]
    BY <1>1, <2>4 DEF Drops, TypeOK, Idle
  <2>5. ~ Crash
    BY <1>1 DEF Crash, Idle
  <2>6. QED
    BY <2>1, <2>2, <2>3, <2>4, <2>5, StepKinds
       DEF Quiet, Inserts, Resets, JobScan, JobSave
<1>2. ASSUME NEW p \in job'
      PROVE  PastNext(p.id, p.snap)
  <2>1. CASE p \in job
    BY <2>1, PastStaysPast DEF CopiesArePast, TypeOK, Pending
  <2>2. CASE JobScan
    <3>1. p.id \in DOMAIN report /\ p.snap = report[p.id]
      BY <1>2, <2>2 DEF JobScan
    <3>2. QED
      BY <3>1, RowIsPast, PastStaysPast
  <2>3. JobSave => p \in job
    BY <1>2 DEF JobSave
  <2>4. QED
    BY <1>2, <2>1, <2>2, <2>3, StepKinds
       DEF Quiet, Inserts, Resets, Copies, Save, Drops, Crash
<1>3. QED
  BY <1>1, <1>2 DEF CopiesArePast, IsPast, PastNext
-----------------------------------------------------------------------------
(* Where a history entry comes from.                                       *)

\* An entry was there before, or a step of four kinds wrote it.
LEMMA EntryOrigin ==
  ASSUME TypeOK, CopiesArePast, [Next]_vars,
         NEW r \in DOMAIN report', NEW k \in DOMAIN report'[r].history
  PROVE  LET e == report'[r].history[k]
         IN  \/ /\ r \in DOMAIN report
                /\ k \in DOMAIN report[r].history
                /\ e = report[r].history[k]
             \/ e = [state |-> "AVAILABLE", timestamp |-> now, by |-> "assign"]
             \/ \E i \in Request :
                  /\ Save(i)
                  /\ req[i] \in Loaded
                  /\ e = [state |-> req[i].state, timestamp |-> now,
                          by |-> req[i].op]
             \/ \E p \in job :
                  e = [state |-> "IGNORED", timestamp |-> p.deadline, by |-> "job"]
<1> DEFINE e == report'[r].history[k]
           Old == /\ r \in DOMAIN report
                  /\ k \in DOMAIN report[r].history
                  /\ e = report[r].history[k]
<1>1. CASE UNCHANGED report
  BY <1>1
<1>2. CASE Inserts
  <2>1. CASE r \in DOMAIN report
    BY <1>2, <2>1 DEF Inserts
  <2>2. CASE r \notin DOMAIN report
    <3>1. report'[r] = NewRow
      BY <1>2, <2>2 DEF Inserts
    <3>2. DOMAIN NewRow.history = {1}
      BY DEF NewRow
    <3>3. QED
      BY <3>1, <3>2 DEF NewRow
  <2>3. QED
    BY <2>1, <2>2
<1>2a. ASSUME NEW h \in assigning, Resets(h)
       PROVE  Old
  BY <1>2a DEF Resets
<1>3. ASSUME NEW i \in Request, Save(i)
      PROVE  \/ Old
             \/ /\ req[i] \in Loaded
                /\ e = [state |-> req[i].state, timestamp |-> now,
                        by |-> req[i].op]
  <2>1. req[i].id \in DOMAIN report
    BY <1>3 DEF CopiesArePast, IsPast, Save
  <2>2. PICK en \in Entry :
          LET edited == Edited(req[i].op, req[i].id, req[i].snap)
          IN  /\ req[i] \in Loaded
              /\ edited \in Row
              /\ en = [state |-> req[i].state, timestamp |-> now, by |-> req[i].op]
              /\ DOMAIN report' = DOMAIN report
              /\ report'[req[i].id] = Merge(report[req[i].id], edited, en)
              /\ \A x \in DOMAIN report : x # req[i].id => report'[x] = report[x]
    BY <1>3, <2>1, SaveEffect
  <2>3. report[req[i].id] \in Row
    BY <2>1 DEF TypeOK
  <2>4. LET h == report[req[i].id].history
            g == report'[req[i].id].history
        IN  /\ DOMAIN g = DOMAIN h \cup {Len(h) + 1}
            /\ g[Len(h) + 1] = en
            /\ \A x \in DOMAIN h : g[x] = h[x]
    BY <2>2, <2>3, MergeGrows
  <2>5. QED
    BY <2>2, <2>4
<1>4. CASE JobSave
  <2>1. \A p \in job : p.id \in DOMAIN report
    BY DEF CopiesArePast, IsPast
  <2>2. PICK p \in job, en \in Entry :
          /\ en = [state |-> "IGNORED", timestamp |-> p.deadline, by |-> "job"]
          /\ p \in Pending
          /\ DOMAIN report' = DOMAIN report
          /\ report'[p.id] = Merge(report[p.id], p.snap, en)
          /\ \A x \in DOMAIN report : x # p.id => report'[x] = report[x]
    BY <1>4, <2>1, JobSaveEffect
  <2>3. report[p.id] \in Row /\ p.snap \in Row
    BY <2>1, <2>2 DEF TypeOK, Pending
  <2>4. LET h == report[p.id].history
            g == report'[p.id].history
        IN  /\ DOMAIN g = DOMAIN h \cup {Len(h) + 1}
            /\ g[Len(h) + 1] = en
            /\ \A x \in DOMAIN h : g[x] = h[x]
    BY <2>2, <2>3, MergeGrows
  <2>5. CASE r # p.id
    <3>1. Old
      BY <2>2, <2>5
    <3>2. QED
      BY <3>1
  <2>6. CASE r = p.id /\ k \in DOMAIN report[r].history
    <3>1. Old
      BY <2>1, <2>4, <2>6
    <3>2. QED
      BY <3>1
  <2>7. CASE r = p.id /\ k = Len(report[r].history) + 1
    <3>1. e = [state |-> "IGNORED", timestamp |-> p.deadline, by |-> "job"]
      BY <2>2, <2>4, <2>7
    <3>2. QED
      BY <3>1
  <2>8. QED
    BY <2>4, <2>5, <2>6, <2>7
<1>5. QED
  BY <1>1, <1>2, <1>2a, <1>3, <1>4, StepKinds DEF Quiet, Copies, Drops, JobScan, Crash

-----------------------------------------------------------------------------
(* The job ignores nothing before its deadline.                            *)

\* The clock never goes back.
LEMMA NowGrows ==
  ASSUME TypeOK, [Next]_vars
  PROVE  now' >= now
<1>1. now \in Nat
  BY DEF TypeOK, Time
<1>2. now' = now => now' >= now
  BY <1>1
<1>3. ASSUME NEW i \in Request, Save(i)
      PROVE  now' = now
  BY <1>3 DEF Save
<1>4. JobScan \/ JobSave \/ Crash => now' = now
  BY DEF JobScan, JobSave, Crash
<1>5. QED
  BY <1>2, <1>3, <1>4, StepKinds DEF Quiet, Inserts, Resets, Copies, Drops

\* The job's list and what it wrote are of passed deadlines.
LEMMA PastDeadlineStep ==
  ASSUME TypeOK, CopiesArePast, JobReadExpired, IgnoredPastDeadline, [Next]_vars
  PROVE  JobReadExpired' /\ IgnoredPastDeadline'
<1>1. /\ now' >= now /\ now \in Nat /\ now' \in Nat
      /\ \A p \in job : p.deadline \in Nat
      /\ TypeOK'
  BY NowGrows, NextType DEF TypeOK, Time, Pending, Null
<1>2. ASSUME NEW p \in job' PROVE p.deadline < now'
  <2>1. CASE p \in job
    BY <1>1, <2>1 DEF JobReadExpired
  <2>2. CASE JobScan
    <3>1. p.deadline < now /\ now' = now
      BY <1>2, <2>2 DEF JobScan, Expired
    <3>2. QED
      BY <3>1
  <2>3. JobSave => p \in job
    BY <1>2 DEF JobSave
  <2>4. QED
    BY <1>2, <2>1, <2>2, <2>3, StepKinds
       DEF Quiet, Inserts, Resets, Copies, Save, Drops, Crash
<1>3. ASSUME NEW r \in DOMAIN report', NEW k \in DOMAIN report'[r].history,
             report'[r].history[k].by = "job"
      PROVE  report'[r].history[k].timestamp < now'
  <2> DEFINE e == report'[r].history[k]
  <2>1. CASE /\ r \in DOMAIN report
             /\ k \in DOMAIN report[r].history
             /\ e = report[r].history[k]
    <3>1. report[r].history[k].timestamp < now
      BY <1>3, <2>1 DEF IgnoredPastDeadline, ByJob
    <3>2. report[r].history[k].timestamp \in Nat
      <4>1. report[r].history \in Seq(Entry)
        BY <2>1 DEF TypeOK, Row
      <4>2. report[r].history[k] \in Entry
        BY <2>1, <4>1
      <4>3. QED
        BY <4>2 DEF Entry
    <3>3. QED
      BY <1>1, <2>1, <3>1, <3>2
  <2>2. CASE \E p \in job :
               e = [state |-> "IGNORED", timestamp |-> p.deadline, by |-> "job"]
    BY <1>1, <2>2 DEF JobReadExpired
  <2>3. ~ \E i \in Request :
            /\ req[i] \in Loaded
            /\ e = [state |-> req[i].state, timestamp |-> now, by |-> req[i].op]
    <3>1. ASSUME NEW i \in Request, req[i] \in Loaded,
                 e = [state |-> req[i].state, timestamp |-> now, by |-> req[i].op]
          PROVE  FALSE
      <4>1. req[i].op # "job"
        BY <3>1 DEF Loaded, UserOp
      <4>2. e.by = req[i].op
        BY <3>1
      <4>3. QED
        BY <1>3, <4>1, <4>2
    <3>2. QED
      BY <3>1
  <2>4. e # [state |-> "AVAILABLE", timestamp |-> now, by |-> "assign"]
    BY <1>3
  <2>5. QED
    BY <2>1, <2>2, <2>3, <2>4, EntryOrigin
<1>4. QED
  BY <1>2, <1>3 DEF JobReadExpired, IgnoredPastDeadline, ByJob

-----------------------------------------------------------------------------
(* Acceptance windows.                                                     *)

\* A window stays one as the row's history grows.
LEMMA WindowGrows ==
  ASSUME NEW r, NEW row, NEW wide, WindowOf(r, row),
         wide.accepted = row.accepted, wide.expiration = row.expiration,
         \A k \in DOMAIN row.history : /\ k \in DOMAIN wide.history
                                       /\ wide.history[k] = row.history[k]
  PROVE  WindowOf(r, wide)
BY DEF WindowOf

\* Windows stay windows, in rows and in copies.
LEMMA WindowStep ==
  ASSUME TypeOK, CopiesArePast, CopiesHaveWindows, AcceptanceWindow, [Next]_vars
  PROVE  CopiesHaveWindows' /\ AcceptanceWindow'
<1>1. ASSUME NEW i \in Request, req'[i].pc = "loaded"
      PROVE  WindowOf(req'[i].id, req'[i].snap)
  <2>1. CASE req'[i] = req[i]
    BY <1>1, <2>1 DEF CopiesHaveWindows
  <2>2. ASSUME NEW j \in Request, NEW op \in UserOp \cup {"admin"},
               NEW r \in DOMAIN report, NEW s \in TaskState, Copies(j, op, r, s)
        PROVE  WindowOf(req'[i].id, req'[i].snap)
    <3>1. i # j => req'[i] = req[i]
      BY <2>2 DEF Copies, TypeOK
    <3>2. i = j => req'[i].id = r /\ req'[i].snap = report[r]
      BY <2>2 DEF Copies, TypeOK
    <3>3. QED
      BY <2>1, <3>1, <3>2 DEF AcceptanceWindow
  <2>3. ASSUME NEW j \in Request, Save(j) \/ Drops(j)
        PROVE  req'[i] = req[i]
    BY <1>1, <2>3 DEF Save, Drops, TypeOK, Idle
  <2>4. ~ Crash
    BY <1>1 DEF Crash, Idle
  <2>5. QED
    BY <2>1, <2>2, <2>3, <2>4, StepKinds DEF Quiet, Inserts, Resets, JobScan, JobSave
<1>2. ASSUME NEW p \in job'
      PROVE  WindowOf(p.id, p.snap)
  <2>1. CASE p \in job
    BY <2>1 DEF CopiesHaveWindows
  <2>2. CASE JobScan
    BY <1>2, <2>2 DEF JobScan, AcceptanceWindow
  <2>3. JobSave => p \in job
    BY <1>2 DEF JobSave
  <2>4. QED
    BY <1>2, <2>1, <2>2, <2>3, StepKinds
       DEF Quiet, Inserts, Resets, Copies, Save, Drops, Crash
<1>3. ASSUME NEW r \in DOMAIN report'
      PROVE  WindowOf(r, report'[r])
  <2>1. CASE r \in DOMAIN report /\ report'[r] = report[r]
    BY <2>1 DEF AcceptanceWindow
  <2>2. CASE Inserts
    <3>1. WindowOf(r, NewRow)
      BY DEF WindowOf, NewRow
    <3>2. QED
      BY <1>3, <2>1, <2>2, <3>1 DEF Inserts
  <2>2a. ASSUME NEW h \in assigning, Resets(h)
         PROVE  WindowOf(r, report'[r])
    BY <1>3, <2>1, <2>2a DEF Resets, WindowOf
  <2>3. ASSUME NEW i \in Request, Save(i)
        PROVE  WindowOf(r, report'[r])
    <3> DEFINE q == req[i]
               edited == Edited(q.op, q.id, q.snap)
    <3>1. IsPast(q.id, q.snap) /\ WindowOf(q.id, q.snap)
      BY <2>3 DEF CopiesArePast, CopiesHaveWindows, Save
    <3>2. PICK e \in Entry :
            /\ q \in Loaded
            /\ edited \in Row
            /\ e = [state |-> q.state, timestamp |-> now, by |-> q.op]
            /\ DOMAIN report' = DOMAIN report
            /\ report'[q.id] = Merge(report[q.id], edited, e)
            /\ \A x \in DOMAIN report : x # q.id => report'[x] = report[x]
      BY <2>3, <3>1, SaveEffect DEF IsPast
    <3>3. CASE r # q.id
      BY <1>3, <2>1, <3>2, <3>3
    <3>4. CASE r = q.id
      <4> DEFINE h == report[r].history
                 g == report'[r].history
      <4>1. report[r] \in Row /\ q.snap \in Row
        BY <3>1, <3>2, <3>4 DEF IsPast, TypeOK, Loaded
      <4>2. /\ DOMAIN g = DOMAIN h \cup {Len(h) + 1}
            /\ g[Len(h) + 1] = e
            /\ \A k \in DOMAIN h : g[k] = h[k]
        BY <3>2, <3>4, <4>1, MergeGrows
      <4>3. /\ report'[r].accepted = edited.accepted
            /\ report'[r].expiration = edited.expiration
        BY <3>2, <3>4 DEF Merge
      <4>4. CASE q.op = "accept"
        <5>1. /\ edited.accepted = now
              /\ edited.expiration = now + Duration[r[2]]
          BY <3>4, <4>1, <4>4 DEF Edited, Row
        <5>2. now # Null
          BY DEF TypeOK, Time, Null
        <5>3. e.by = "accept" /\ e.timestamp = now
          BY <3>2, <4>4
        <5>4. Len(h) + 1 \in DOMAIN g
          BY <4>2
        <5>5. QED
          BY <4>2, <4>3, <5>1, <5>2, <5>3, <5>4 DEF WindowOf
      <4>5. CASE q.op # "accept"
        <5>1. edited = q.snap
          BY <4>5 DEF Edited
        <5>2. \A k \in DOMAIN q.snap.history :
                k \in DOMAIN h /\ q.snap.history[k] = h[k]
          BY <3>1, <3>4, <4>1 DEF IsPast, Row
        <5>3. \A k \in DOMAIN q.snap.history :
                k \in DOMAIN g /\ g[k] = q.snap.history[k]
          BY <4>2, <5>2
        <5>4. QED
          BY <3>1, <3>4, <4>3, <5>1, <5>3, WindowGrows
      <4>6. QED
        BY <4>4, <4>5
    <3>5. QED
      BY <3>3, <3>4
  <2>4. CASE JobSave
    <3>1. \A p \in job : p.id \in DOMAIN report
      BY DEF CopiesArePast, IsPast
    <3>2. PICK p \in job, e \in Entry :
            /\ p \in Pending
            /\ DOMAIN report' = DOMAIN report
            /\ report'[p.id] = Merge(report[p.id], p.snap, e)
            /\ \A x \in DOMAIN report : x # p.id => report'[x] = report[x]
      BY <2>4, <3>1, JobSaveEffect
    <3>3. CASE r # p.id
      BY <1>3, <2>1, <3>2, <3>3
    <3>4. CASE r = p.id
      <4> DEFINE h == report[r].history
                 g == report'[r].history
      <4>1. report[r] \in Row /\ p.snap \in Row
        BY <3>1, <3>2, <3>4 DEF TypeOK, Pending
      <4>2. /\ DOMAIN g = DOMAIN h \cup {Len(h) + 1}
            /\ \A k \in DOMAIN h : g[k] = h[k]
        BY <3>2, <3>4, <4>1, MergeGrows
      <4>3. /\ report'[r].accepted = p.snap.accepted
            /\ report'[r].expiration = p.snap.expiration
        BY <3>2, <3>4 DEF Merge
      <4>4. IsPast(r, p.snap) /\ WindowOf(r, p.snap)
        BY <3>2, <3>4 DEF CopiesArePast, CopiesHaveWindows
      <4>5. \A k \in DOMAIN p.snap.history :
              k \in DOMAIN h /\ p.snap.history[k] = h[k]
        BY <4>1, <4>4 DEF IsPast, Row
      <4>6. \A k \in DOMAIN p.snap.history :
              k \in DOMAIN g /\ g[k] = p.snap.history[k]
        BY <4>2, <4>5
      <4>7. QED
        BY <4>3, <4>4, <4>6, WindowGrows
    <3>5. QED
      BY <3>3, <3>4
  <2>5. QED
    BY <1>3, <2>1, <2>2, <2>2a, <2>3, <2>4, StepKinds
       DEF Quiet, Copies, Drops, JobScan, Crash
<1>4. QED
  BY <1>1, <1>2, <1>3 DEF CopiesHaveWindows, AcceptanceWindow, WindowOf

-----------------------------------------------------------------------------
(* What the first invariants give.                                         *)

WindowInv ==
  /\ TypeOK
  /\ CopiesArePast
  /\ JobReadExpired
  /\ IgnoredPastDeadline
  /\ CopiesHaveWindows
  /\ AcceptanceWindow

\* The two invariants and what they rest on, from the start.
LEMMA WindowInvHolds == Spec => []WindowInv
<1>1. Init => WindowInv
  <2> SUFFICES ASSUME Init PROVE WindowInv
    OBVIOUS
  <2>1. /\ DOMAIN report = {} /\ job = {}
        /\ \A i \in Request : req[i].pc # "loaded"
    BY DEF Init, Idle
  <2>2. QED
    BY <2>1, InitType DEF WindowInv, CopiesArePast, JobReadExpired,
                          IgnoredPastDeadline, CopiesHaveWindows, AcceptanceWindow
<1>2. WindowInv /\ [Next]_vars => WindowInv'
  BY NextType, CopiesStayPast, PastDeadlineStep, WindowStep DEF WindowInv
<1>3. QED
  BY <1>1, <1>2, PTL DEF Spec

\* The job never ignores a report before its deadline is past, for any number
\* of workers, restarts and deadlines that pipelines move under it.
THEOREM JobWaitsForDeadline == Spec => []IgnoredPastDeadline
<1>1. WindowInv => IgnoredPastDeadline
  BY DEF WindowInv
<1>2. QED
  BY <1>1, WindowInvHolds, PTL

\* The acceptance window of every report is consistent, however many stale
\* copies handlers and the job write over each other's columns.
THEOREM WindowsStayConsistent == Spec => []AcceptanceWindow
<1>1. WindowInv => AcceptanceWindow
  BY DEF WindowInv
<1>2. QED
  BY <1>1, WindowInvHolds, PTL

-----------------------------------------------------------------------------
(* Counting the entries of a history.                                      *)

\* The sets counted are finite.
LEMMA CountsAreFinite ==
  ASSUME NEW h \in Seq(Entry)
  PROVE  /\ IsFiniteSet(ByJob(h)) /\ Cardinality(ByJob(h)) \in Nat
         /\ IsFiniteSet(MadeAvailable(h)) /\ Cardinality(MadeAvailable(h)) \in Nat
         /\ IsFiniteSet(ByComplete(h)) /\ Cardinality(ByComplete(h)) \in Nat
<1>1. DOMAIN h = 1 .. Len(h) /\ Len(h) \in Nat
  OBVIOUS
<1>2. IsFiniteSet(DOMAIN h)
  BY <1>1, FS_Interval
<1>3. /\ ByJob(h) \in SUBSET DOMAIN h
      /\ MadeAvailable(h) \in SUBSET DOMAIN h
      /\ ByComplete(h) \in SUBSET DOMAIN h
  BY DEF ByJob, MadeAvailable, ByComplete
<1>4. /\ IsFiniteSet(ByJob(h))
      /\ IsFiniteSet(MadeAvailable(h))
      /\ IsFiniteSet(ByComplete(h))
  BY <1>2, <1>3, FS_Subset
<1>5. QED
  BY <1>4, FS_CardinalityType

\* A merge adds one to the counts its entry belongs to, and to no other.
LEMMA MergeCounts ==
  ASSUME NEW row \in Row, NEW snap \in Row, NEW e \in Entry
  PROVE  LET h == row.history
             g == Merge(row, snap, e).history
         IN  /\ Cardinality(ByJob(g)) =
                  Cardinality(ByJob(h)) + (IF e.by = "job" THEN 1 ELSE 0)
             /\ Cardinality(MadeAvailable(g)) =
                  Cardinality(MadeAvailable(h))
                    + (IF e.state = "AVAILABLE" THEN 1 ELSE 0)
             /\ Cardinality(ByComplete(g)) =
                  Cardinality(ByComplete(h))
                    + (IF e.by = "complete" THEN 1 ELSE 0)
<1> DEFINE h == row.history
           g == Merge(row, snap, e).history
           n == Len(h) + 1
<1>1. h \in Seq(Entry)
  BY DEF Row
<1>2. /\ DOMAIN g = DOMAIN h \cup {n}
      /\ n \notin DOMAIN h
      /\ g[n] = e
      /\ \A k \in DOMAIN h : g[k] = h[k]
  BY MergeGrows
<1> HIDE DEF h, g, n
<1>3. Cardinality(ByJob(g)) = Cardinality(ByJob(h)) + (IF e.by = "job" THEN 1 ELSE 0)
  <2>1. ByJob(g) = IF e.by = "job" THEN ByJob(h) \cup {n} ELSE ByJob(h)
    BY <1>2 DEF ByJob
  <2>2. n \notin ByJob(h)
    BY <1>2 DEF ByJob
  <2>3. IsFiniteSet(ByJob(h)) /\ Cardinality(ByJob(h)) \in Nat
    BY <1>1, CountsAreFinite
  <2>4. Cardinality(ByJob(h) \cup {n}) = Cardinality(ByJob(h)) + 1
    BY <2>2, <2>3, FS_AddElement
  <2>5. QED
    BY <2>1, <2>3, <2>4
<1>4. Cardinality(MadeAvailable(g)) =
        Cardinality(MadeAvailable(h)) + (IF e.state = "AVAILABLE" THEN 1 ELSE 0)
  <2>1. MadeAvailable(g) = IF e.state = "AVAILABLE" THEN MadeAvailable(h) \cup {n}
                                                    ELSE MadeAvailable(h)
    BY <1>2 DEF MadeAvailable
  <2>2. n \notin MadeAvailable(h)
    BY <1>2 DEF MadeAvailable
  <2>3. IsFiniteSet(MadeAvailable(h)) /\ Cardinality(MadeAvailable(h)) \in Nat
    BY <1>1, CountsAreFinite
  <2>4. Cardinality(MadeAvailable(h) \cup {n}) = Cardinality(MadeAvailable(h)) + 1
    BY <2>2, <2>3, FS_AddElement
  <2>5. QED
    BY <2>1, <2>3, <2>4
<1>5. Cardinality(ByComplete(g)) =
        Cardinality(ByComplete(h)) + (IF e.by = "complete" THEN 1 ELSE 0)
  <2>1. ByComplete(g) = IF e.by = "complete" THEN ByComplete(h) \cup {n}
                                             ELSE ByComplete(h)
    BY <1>2 DEF ByComplete
  <2>2. n \notin ByComplete(h)
    BY <1>2 DEF ByComplete
  <2>3. IsFiniteSet(ByComplete(h)) /\ Cardinality(ByComplete(h)) \in Nat
    BY <1>1, CountsAreFinite
  <2>4. Cardinality(ByComplete(h) \cup {n}) = Cardinality(ByComplete(h)) + 1
    BY <2>2, <2>3, FS_AddElement
  <2>5. QED
    BY <2>1, <2>3, <2>4
<1>6. QED
  BY <1>3, <1>4, <1>5 DEF h, g

\* A new row has been made AVAILABLE once, and nothing else happened to it.
LEMMA NewRowCounts ==
  /\ Cardinality(ByJob(NewRow.history)) = 0
  /\ Cardinality(MadeAvailable(NewRow.history)) = 1
  /\ ByComplete(NewRow.history) = {}
<1>1. /\ ByJob(NewRow.history) = {}
      /\ MadeAvailable(NewRow.history) = {1}
      /\ ByComplete(NewRow.history) = {}
  BY DEF NewRow, ByJob, MadeAvailable, ByComplete
<1>2. QED
  BY <1>1, FS_EmptySet, FS_Singleton

-----------------------------------------------------------------------------
(* Ignored at most once for each time a report was made AVAILABLE.         *)

\* The two counts of a row, now and in the next state.
Ignored(r) == Cardinality(ByJob(report[r].history))
Offered(r) == Availabilities(r)
IgnoredNext(r) == Cardinality(ByJob(report'[r].history))
OfferedNext(r) ==
  Cardinality(MadeAvailable(report'[r].history)) + (IF r \in reset' THEN 1 ELSE 0)

\* The counts are numbers.
LEMMA CountsAreNat ==
  ASSUME TypeOK, NEW r \in DOMAIN report
  PROVE  Ignored(r) \in Nat /\ Offered(r) \in Nat
<1>1. report[r].history \in Seq(Entry)
  BY DEF TypeOK, Row
<1>2. QED
  BY <1>1, CountsAreFinite DEF Ignored, Offered, Availabilities

\* Save changes the counts of one row, and only the second.
LEMMA SaveCounts ==
  ASSUME TypeOK, CopiesArePast, NEW i \in Request, Save(i)
  PROVE  /\ DOMAIN report' = DOMAIN report
         /\ req[i].id \in DOMAIN report
         /\ \A r \in DOMAIN report : r # req[i].id => report'[r] = report[r]
         /\ report'[req[i].id].currentState = req[i].state
         /\ IgnoredNext(req[i].id) = Ignored(req[i].id)
         /\ OfferedNext(req[i].id) = Offered(req[i].id)
                                + (IF req[i].state = "AVAILABLE" THEN 1 ELSE 0)
         /\ job' = job
<1> DEFINE q == req[i]
<1>1. q.id \in DOMAIN report
  BY DEF CopiesArePast, IsPast, Save
<1>2. PICK e \in Entry, edited \in Row :
        /\ q \in Loaded
        /\ e = [state |-> q.state, timestamp |-> now, by |-> q.op]
        /\ DOMAIN report' = DOMAIN report
        /\ report'[q.id] = Merge(report[q.id], edited, e)
        /\ \A r \in DOMAIN report : r # q.id => report'[r] = report[r]
        /\ job' = job
  BY <1>1, SaveEffect
<1>3. report[q.id] \in Row
  BY <1>1 DEF TypeOK
<1>4. e.by # "job" /\ e.state = q.state
  BY <1>2 DEF Loaded, UserOp
<1>5. report'[q.id].currentState = q.state
  BY <1>2, <1>4 DEF Merge
<1>6. Ignored(q.id) \in Nat /\ Offered(q.id) \in Nat
  BY <1>1, CountsAreNat
<1>7. /\ IgnoredNext(q.id) = Ignored(q.id)
      /\ OfferedNext(q.id) = Offered(q.id) + (IF q.state = "AVAILABLE" THEN 1 ELSE 0)
  <2>1. /\ Cardinality(ByJob(Merge(report[q.id], edited, e).history)) =
             Cardinality(ByJob(report[q.id].history)) + (IF e.by = "job" THEN 1 ELSE 0)
        /\ Cardinality(MadeAvailable(Merge(report[q.id], edited, e).history)) =
             Cardinality(MadeAvailable(report[q.id].history))
               + (IF e.state = "AVAILABLE" THEN 1 ELSE 0)
    BY <1>3, MergeCounts
  <2>2. IgnoredNext(q.id) = Ignored(q.id) + (IF e.by = "job" THEN 1 ELSE 0)
    BY <1>2, <2>1 DEF Ignored, IgnoredNext
  <2>3. OfferedNext(q.id) = Offered(q.id) + (IF e.state = "AVAILABLE" THEN 1 ELSE 0)
    <3>1. reset' = reset
      BY DEF Save
    <3>2. Cardinality(MadeAvailable(report[q.id].history)) \in Nat
      BY <1>3, CountsAreFinite DEF Row
    <3>3. QED
      BY <1>2, <2>1, <3>1, <3>2 DEF Offered, OfferedNext, Availabilities
  <2>4. QED
    BY <1>4, <1>6, <2>2, <2>3
<1>8. QED
  BY <1>1, <1>2, <1>5, <1>7

\* JobSave changes the counts of one row, and only the first.
LEMMA JobSaveCounts ==
  ASSUME TypeOK, CopiesArePast, JobSave
  PROVE  \E p \in job :
           /\ DOMAIN report' = DOMAIN report
           /\ p.id \in DOMAIN report
           /\ \A r \in DOMAIN report : r # p.id => report'[r] = report[r]
           /\ report'[p.id].currentState = "IGNORED"
           /\ IgnoredNext(p.id) = Ignored(p.id) + 1
           /\ OfferedNext(p.id) = Offered(p.id)
           /\ job' = job \ {p}
<1>1. \A p \in job : p.id \in DOMAIN report
  BY DEF CopiesArePast, IsPast
<1>2. PICK p \in job, e \in Entry :
        /\ e = [state |-> "IGNORED", timestamp |-> p.deadline, by |-> "job"]
        /\ p \in Pending
        /\ DOMAIN report' = DOMAIN report
        /\ report'[p.id] = Merge(report[p.id], p.snap, e)
        /\ \A r \in DOMAIN report : r # p.id => report'[r] = report[r]
        /\ job' = job \ {p}
  BY <1>1, JobSaveEffect
<1>3. report[p.id] \in Row /\ p.snap \in Row
  BY <1>1, <1>2 DEF TypeOK, Pending
<1>4. e.by = "job" /\ e.state = "IGNORED"
  BY <1>2
<1>5. report'[p.id].currentState = "IGNORED"
  BY <1>2, <1>4 DEF Merge
<1>6. Ignored(p.id) \in Nat /\ Offered(p.id) \in Nat
  BY <1>1, CountsAreNat
<1>7. /\ IgnoredNext(p.id) = Ignored(p.id) + 1
      /\ OfferedNext(p.id) = Offered(p.id)
  <2>1. /\ Cardinality(ByJob(Merge(report[p.id], p.snap, e).history)) =
             Cardinality(ByJob(report[p.id].history)) + (IF e.by = "job" THEN 1 ELSE 0)
        /\ Cardinality(MadeAvailable(Merge(report[p.id], p.snap, e).history)) =
             Cardinality(MadeAvailable(report[p.id].history))
               + (IF e.state = "AVAILABLE" THEN 1 ELSE 0)
    BY <1>3, MergeCounts
  <2>2. IgnoredNext(p.id) = Ignored(p.id) + (IF e.by = "job" THEN 1 ELSE 0)
    BY <1>2, <2>1 DEF Ignored, IgnoredNext
  <2>3. OfferedNext(p.id) = Offered(p.id) + (IF e.state = "AVAILABLE" THEN 1 ELSE 0)
    <3>1. reset' = reset
      BY DEF JobSave
    <3>2. Cardinality(MadeAvailable(report[p.id].history)) \in Nat
      BY <1>3, CountsAreFinite DEF Row
    <3>3. QED
      BY <1>2, <2>1, <3>1, <3>2 DEF Offered, OfferedNext, Availabilities
  <2>4. QED
    BY <1>4, <1>6, <2>2, <2>3
<1>8. QED
  BY <1>1, <1>2, <1>5, <1>7

\* The job's list never names a report twice.
LEMMA JobListStep ==
  ASSUME TypeOK, IgnorableAgain, [Next]_vars
  PROVE  \A p, q \in job' : p.id = q.id => p = q
<1>1. \A p, q \in job : p.id = q.id => p = q
  BY DEF IgnorableAgain
<1>2. CASE JobScan
  BY <1>2 DEF JobScan
<1>3. CASE JobSave
  BY <1>1, <1>3 DEF JobSave
<1>4. CASE Crash
  BY <1>4 DEF Crash
<1>5. ASSUME NEW i \in Request, Save(i)
      PROVE  job' = job
  BY <1>5 DEF Save
<1>6. QED
  BY <1>1, <1>2, <1>3, <1>4, <1>5, StepKinds DEF Quiet, Inserts, Resets, Copies, Drops

\* No two assignments put the same report back.
LEMMA ApartStep ==
  ASSUME TypeOK, AssignmentsApart, [Next]_vars
  PROVE  AssignmentsApart'
<1>1. ASSUME NEW t \in Task, NEW us \in SUBSET User, NEW d \in Deadlines,
             AssignTask(t, us, d)
      PROVE  AssignmentsApart'
  <2> DEFINE ids == { FreshId(u, t) : u \in us }
             new == [task |-> t, reports |-> ids, deadline |-> d]
  <2>0. ids \cap DOMAIN report = {} /\ assigning' = assigning \cup {new}
    BY <1>1 DEF AssignTask, Insert
  <2> HIDE DEF ids
  <2>1. new.reports \cap DOMAIN report = {} /\ assigning' = assigning \cup {new}
    BY <2>0
  <2>2. reset \subseteq DOMAIN report /\ \A h \in assigning : h.reports \subseteq DOMAIN report
    BY DEF TypeOK, Assignment
  <2>3. reset' = reset
    BY <1>1 DEF AssignTask
  <2>4. QED
    BY <2>1, <2>2, <2>3 DEF AssignmentsApart
<1>2. CASE EndAssignment
  <2>1. PICK h \in assigning :
          /\ reset' = reset \cup { r \in h.reports : report[r].currentState # "AVAILABLE" }
          /\ assigning' = assigning \ {h}
    BY <1>2 DEF EndAssignment
  <2>2. QED
    BY <2>1 DEF AssignmentsApart
<1>3. CASE assigning' = {}
  BY <1>3 DEF AssignmentsApart
<1>4. CASE UNCHANGED << assigning, reset >>
  BY <1>4 DEF AssignmentsApart
<1>5. QED
  BY <1>1, <1>2, <1>3, <1>4
     DEF Next, vars, AssignNext, AdminNext, LoadNext, AddUsersCheck, AddUsersCommit,
         AdminLoad, Load, Save, CloseStep, Finish, JobScan, JobSave, Tick, Crash

\* Every step keeps the counts in order.
LEMMA IgnorableStep ==
  ASSUME TypeOK, CopiesArePast, AssignmentsApart, IgnorableAgain,
         IgnoredOncePerAvailability, [Next]_vars
  PROVE  IgnorableAgain' /\ IgnoredOncePerAvailability'
<1> DEFINE Waits(r) == \E p \in job : p.id = r
           Good(r) == /\ IgnoredNext(r) <= OfferedNext(r)
                      /\ (report'[r].currentState = "AVAILABLE"
                            \/ \E p \in job' : p.id = r)
                           => IgnoredNext(r) < OfferedNext(r)
<1>1. \A r \in DOMAIN report :
        /\ Ignored(r) \in Nat /\ Offered(r) \in Nat
        /\ Ignored(r) <= Offered(r)
        /\ report[r].currentState = "AVAILABLE" \/ Waits(r) => Ignored(r) < Offered(r)
  BY CountsAreNat DEF IgnorableAgain, IgnoredOncePerAvailability, Ignored, Offered
<1>2. ASSUME NEW r \in DOMAIN report, report'[r] = report[r],
             \A p \in job' : p.id = r => p \in job, r \in reset' <=> r \in reset
      PROVE  Good(r)
  BY <1>1, <1>2 DEF Ignored, Offered, Availabilities, IgnoredNext, OfferedNext
<1>3. \A r \in DOMAIN report' : Good(r)
  <2>1. CASE UNCHANGED << report, job, reset >>
    BY <1>2, <2>1
  <2>2. CASE Inserts
    <3>1. ASSUME NEW r \in DOMAIN report' \ DOMAIN report
          PROVE  Good(r)
      <4>1. report'[r] = NewRow
        BY <2>2, <3>1 DEF Inserts
      <4>2. IgnoredNext(r) = 0 /\ OfferedNext(r) = 1
        BY <2>2, <3>1, <4>1, NewRowCounts DEF Inserts, IgnoredNext, OfferedNext, TypeOK
      <4>3. QED
        BY <4>2
    <3>2. QED
      BY <1>2, <2>2, <3>1 DEF Inserts
  <2>2a. ASSUME NEW h \in assigning, Resets(h), NEW r \in DOMAIN report'
         PROVE  Good(r)
    <3>1. r \in DOMAIN report /\ report'[r].history = report[r].history /\ job' = job
      BY <2>2a DEF Resets
    <3>2. IgnoredNext(r) = Ignored(r) /\ Ignored(r) \in Nat /\ Offered(r) \in Nat
      BY <1>1, <3>1 DEF Ignored, IgnoredNext
    <3>3. CASE r \in h.reports /\ report[r].currentState # "AVAILABLE"
      <4>1. r \notin reset /\ r \in reset'
        BY <2>2a, <3>3 DEF Resets, AssignmentsApart
      <4>2. Cardinality(MadeAvailable(report[r].history)) \in Nat
        BY <3>1, CountsAreFinite DEF TypeOK, Row
      <4>3. OfferedNext(r) = Offered(r) + 1
        BY <3>1, <4>1, <4>2 DEF Offered, Availabilities, OfferedNext
      <4>4. QED
        BY <1>1, <3>1, <3>2, <4>3
    <3>4. CASE ~ (r \in h.reports /\ report[r].currentState # "AVAILABLE")
      <4>1. r \in reset' <=> r \in reset
        BY <2>2a, <3>4 DEF Resets
      <4>2. OfferedNext(r) = Offered(r)
        BY <3>1, <4>1 DEF Offered, Availabilities, OfferedNext
      <4>3. report'[r].currentState = report[r].currentState
        BY <2>2a, <3>1, <3>4 DEF Resets
      <4>4. QED
        BY <1>1, <3>1, <3>2, <4>2, <4>3
    <3>5. QED
      BY <3>3, <3>4
  <2>3. ASSUME NEW i \in Request, Save(i), NEW r \in DOMAIN report'
        PROVE  Good(r)
    <3>1. CASE r # req[i].id
      BY <1>2, <2>3, <3>1, SaveCounts DEF Save
    <3>2. CASE r = req[i].id
      <4>1. /\ r \in DOMAIN report
            /\ report'[r].currentState = req[i].state
            /\ IgnoredNext(r) = Ignored(r)
            /\ OfferedNext(r) = Offered(r)
                                + (IF req[i].state = "AVAILABLE" THEN 1 ELSE 0)
            /\ job' = job
        BY <2>3, <3>2, SaveCounts
      <4>2. CASE req[i].state = "AVAILABLE"
        BY <1>1, <4>1, <4>2
      <4>3. CASE req[i].state # "AVAILABLE"
        BY <1>1, <4>1, <4>3
      <4>4. QED
        BY <4>2, <4>3
    <3>3. QED
      BY <3>1, <3>2
  <2>4. CASE JobScan
    <3>1. \A p \in job' : report[p.id].currentState = "AVAILABLE"
      BY <2>4 DEF JobScan, Expired
    <3>2. report' = report /\ reset' = reset
      BY <2>4 DEF JobScan
    <3>3. QED
      BY <1>1, <3>1, <3>2 DEF Ignored, Offered, Availabilities, IgnoredNext, OfferedNext
  <2>5. CASE JobSave
    <3>1. PICK p \in job :
            /\ DOMAIN report' = DOMAIN report
            /\ p.id \in DOMAIN report
            /\ \A r \in DOMAIN report : r # p.id => report'[r] = report[r]
            /\ report'[p.id].currentState = "IGNORED"
            /\ IgnoredNext(p.id) = Ignored(p.id) + 1
            /\ OfferedNext(p.id) = Offered(p.id)
            /\ job' = job \ {p}
      BY <2>5, JobSaveCounts
    <3>2. Good(p.id)
      <4>1. Ignored(p.id) + 1 <= Offered(p.id)
        BY <1>1, <3>1
      <4>2. ~ \E q \in job' : q.id = p.id
        BY <3>1 DEF IgnorableAgain
      <4>3. QED
        BY <3>1, <4>1, <4>2
    <3>3. reset' = reset
      BY <2>5 DEF JobSave
    <3>4. QED
      BY <1>2, <3>1, <3>2, <3>3
  <2>6. CASE Crash
    BY <1>2, <2>6 DEF Crash
  <2>7. QED
    BY <2>1, <2>2, <2>2a, <2>3, <2>4, <2>5, <2>6, StepKinds DEF Quiet, Copies, Drops
<1>4. QED
  BY <1>3, JobListStep DEF IgnorableAgain, IgnoredOncePerAvailability,
                           Availabilities, IgnoredNext, OfferedNext

IgnoreInv ==
  /\ TypeOK
  /\ CopiesArePast
  /\ AssignmentsApart
  /\ IgnorableAgain
  /\ IgnoredOncePerAvailability

\* The job ignores a report at most once each time it was made AVAILABLE, by an
\* entry of its history or by the end of its assignment: no restart in the middle
\* of a list, and no stale copy written back, makes it ignore the report again.
THEOREM JobIgnoresOnce == Spec => []IgnoredOncePerAvailability
<1>1. Init => IgnoreInv
  <2> SUFFICES ASSUME Init PROVE IgnoreInv
    OBVIOUS
  <2>1. /\ DOMAIN report = {} /\ job = {} /\ assigning = {}
        /\ \A i \in Request : req[i].pc # "loaded"
    BY DEF Init, Idle
  <2>2. QED
    BY <2>1, InitType DEF IgnoreInv, CopiesArePast, AssignmentsApart, IgnorableAgain,
                          IgnoredOncePerAvailability
<1>2. IgnoreInv /\ [Next]_vars => IgnoreInv'
  BY NextType, CopiesStayPast, ApartStep, IgnorableStep DEF IgnoreInv
<1>3. IgnoreInv => IgnoredOncePerAvailability
  BY DEF IgnoreInv
<1>4. QED
  BY <1>1, <1>2, <1>3, PTL DEF Spec

-----------------------------------------------------------------------------
(* Completions of a report.                                                *)

Done(r) == ByComplete(report[r].history)
DoneNext(r) == ByComplete(report'[r].history)
CompletingNext(r) ==
  { i \in Request :
      req'[i].pc = "loaded" /\ req'[i].op = "complete" /\ req'[i].id = r }

\* Stored completions and completions under way fit the workers.
Fits(r) == Cardinality(Done(r)) + Cardinality(Completing(r)) <= Cardinality(Request)
FitsNext(r) ==
  Cardinality(DoneNext(r)) + Cardinality(CompletingNext(r)) <= Cardinality(Request)

\* There are finitely many workers.
LEMMA WorkersAreFinite ==
  ASSUME NEW S \in SUBSET Request
  PROVE  /\ IsFiniteSet(S)
         /\ Cardinality(S) \in Nat
         /\ Cardinality(Request) \in Nat
         /\ Cardinality(S) <= Cardinality(Request)
BY FS_Subset, FS_CardinalityType

\* A report has finitely many completions.
LEMMA DoneIsFinite ==
  ASSUME TypeOK, NEW r \in DOMAIN report
  PROVE  IsFiniteSet(Done(r)) /\ Cardinality(Done(r)) \in Nat
<1>1. report[r].history \in Seq(Entry)
  BY DEF TypeOK, Row
<1>2. QED
  BY <1>1, CountsAreFinite DEF Done

\* What completeTask holds is a COMPLETED_WITH_SUCCESS to be written, and what
\* it wrote is one.
CompleteMeansSuccess ==
  /\ \A i \in Request : req[i].pc = "loaded" /\ req[i].op = "complete"
                          => req[i].state = "COMPLETED_WITH_SUCCESS"
  /\ \A r \in DOMAIN report : \A k \in Done(r) :
       report[r].history[k].state = "COMPLETED_WITH_SUCCESS"

\* completeTask never writes another state.
LEMMA SuccessStep ==
  ASSUME TypeOK, CopiesArePast, CompleteMeansSuccess, [Next]_vars
  PROVE  CompleteMeansSuccess'
<1>1. ASSUME NEW i \in Request, req'[i].pc = "loaded", req'[i].op = "complete"
      PROVE  req'[i].state = "COMPLETED_WITH_SUCCESS"
  <2>1. CASE req'[i] = req[i]
    BY <1>1, <2>1 DEF CompleteMeansSuccess
  <2>2. ASSUME NEW j \in Request, NEW op \in UserOp \cup {"admin"},
               NEW r \in DOMAIN report, NEW s \in TaskState, Copies(j, op, r, s)
        PROVE  req'[i].state = "COMPLETED_WITH_SUCCESS"
    <3>1. CASE i # j
      <4>1. req'[i] = req[i]
        BY <2>2, <3>1 DEF Copies, TypeOK
      <4>2. QED
        BY <4>1, <2>1
    <3>2. CASE i = j
      BY <1>1, <2>2, <3>2 DEF Copies, TypeOK
    <3>3. QED
      BY <3>1, <3>2
  <2>3. ASSUME NEW j \in Request, Save(j) \/ Drops(j)
        PROVE  req'[i] = req[i]
    BY <1>1, <2>3 DEF Save, Drops, TypeOK, Idle
  <2>4. ~ Crash
    BY <1>1 DEF Crash, Idle
  <2>5. QED
    BY <2>1, <2>2, <2>3, <2>4, StepKinds DEF Quiet, Inserts, Resets, JobScan, JobSave
<1>2. ASSUME NEW r \in DOMAIN report', NEW k \in DoneNext(r)
      PROVE  report'[r].history[k].state = "COMPLETED_WITH_SUCCESS"
  <2> DEFINE e == report'[r].history[k]
  <2>1. k \in DOMAIN report'[r].history /\ e.by = "complete"
    BY <1>2 DEF DoneNext, ByComplete
  <2>2. CASE /\ r \in DOMAIN report
             /\ k \in DOMAIN report[r].history
             /\ e = report[r].history[k]
    BY <2>1, <2>2 DEF CompleteMeansSuccess, Done, ByComplete
  <2>3. ASSUME NEW i \in Request, Save(i),
               e = [state |-> req[i].state, timestamp |-> now, by |-> req[i].op]
        PROVE  e.state = "COMPLETED_WITH_SUCCESS"
    <3>1. req[i].pc = "loaded"
      BY <2>3 DEF Save
    <3>2. req[i].op = "complete" /\ e.state = req[i].state
      BY <2>1, <2>3
    <3>3. QED
      BY <3>1, <3>2 DEF CompleteMeansSuccess
  <2>4. /\ e # [state |-> "AVAILABLE", timestamp |-> now, by |-> "assign"]
        /\ ~ \E p \in job :
               e = [state |-> "IGNORED", timestamp |-> p.deadline, by |-> "job"]
    <3>1. e # [state |-> "AVAILABLE", timestamp |-> now, by |-> "assign"]
      BY <2>1
    <3>2. ASSUME NEW p \in job,
                 e = [state |-> "IGNORED", timestamp |-> p.deadline, by |-> "job"]
          PROVE  FALSE
      <4>1. e.by = "job"
        BY <3>2
      <4>2. QED
        BY <2>1, <4>1
    <3>3. QED
      BY <3>1, <3>2
  <2>5. QED
    BY <2>1, <2>2, <2>3, <2>4, EntryOrigin
<1>3. QED
  BY <1>1, <1>2 DEF CompleteMeansSuccess, Done, DoneNext

\* Copying a row for completeTask: nothing is stored yet, so the workers fit.
LEMMA CopiesFit ==
  ASSUME TypeOK, CompleteMeansSuccess, NEW i \in Request,
         NEW op \in UserOp \cup {"admin"}, NEW r \in DOMAIN report,
         NEW s \in TaskState, Copies(i, op, r, s),
         NEW x \in DOMAIN report, Fits(x)
  PROVE  FitsNext(x)
<1>1. DoneNext(x) = Done(x)
  BY DEF Copies, Done, DoneNext
<1>2. CASE op = "complete" /\ x = r
  <2>1. Done(x) = {}
    BY <1>2 DEF Copies, HasState, CompleteMeansSuccess, Done, ByComplete
  <2>2. CompletingNext(x) \in SUBSET Request
    BY DEF CompletingNext
  <2>3. QED
    BY <1>1, <2>1, <2>2, WorkersAreFinite, FS_EmptySet DEF FitsNext
<1>3. CASE op # "complete" \/ x # r
  <2>1. ~ (req'[i].pc = "loaded" /\ req'[i].op = "complete" /\ req'[i].id = x)
    BY <1>3 DEF Copies, TypeOK
  <2>2. \A j \in Request : j # i => req'[j] = req[j]
    BY DEF Copies, TypeOK
  <2>3. req[i].pc # "loaded"
    BY DEF Copies, Idle
  <2>4. CompletingNext(x) = Completing(x)
    BY <2>1, <2>2, <2>3 DEF CompletingNext, Completing
  <2>5. QED
    BY <1>1, <2>4 DEF Fits, FitsNext
<1>4. QED
  BY <1>2, <1>3

\* Saving a completion moves it from those under way to those stored.
LEMMA SaveFits ==
  ASSUME TypeOK, CopiesArePast, NEW i \in Request, Save(i),
         NEW x \in DOMAIN report, Fits(x)
  PROVE  FitsNext(x)
<1> DEFINE q == req[i]
<1>1. q.id \in DOMAIN report
  BY DEF CopiesArePast, IsPast, Save
<1>2. PICK e \in Entry, edited \in Row :
        /\ q \in Loaded
        /\ e = [state |-> q.state, timestamp |-> now, by |-> q.op]
        /\ report'[q.id] = Merge(report[q.id], edited, e)
        /\ \A r \in DOMAIN report : r # q.id => report'[r] = report[r]
        /\ req'[i].pc = "saved"
        /\ \A j \in Request : j # i => req'[j] = req[j]
  BY <1>1, SaveEffect
<1>3. report[q.id] \in Row
  BY <1>1 DEF TypeOK
<1>4. q.pc = "loaded" /\ e.by = q.op
  BY <1>2 DEF Save
<1>5. CompletingNext(x) = Completing(x) \ {i}
  BY <1>2 DEF CompletingNext, Completing
<1>6. /\ IsFiniteSet(Completing(x)) /\ Cardinality(Completing(x)) \in Nat
      /\ Cardinality(Request) \in Nat
  <2>1. Completing(x) \in SUBSET Request
    BY DEF Completing
  <2>2. QED
    BY <2>1, WorkersAreFinite
<1>7. Cardinality(Done(x)) \in Nat
  BY DoneIsFinite
<1>8. Cardinality(CompletingNext(x)) =
        IF i \in Completing(x) THEN Cardinality(Completing(x)) - 1
                               ELSE Cardinality(Completing(x))
  BY <1>5, <1>6, FS_RemoveElement
<1>9. CASE x # q.id
  <2>1. DoneNext(x) = Done(x)
    BY <1>2, <1>9 DEF Done, DoneNext
  <2>2. i \notin Completing(x)
    BY <1>9 DEF Completing
  <2>3. QED
    BY <1>8, <2>1, <2>2 DEF Fits, FitsNext
<1>10. CASE x = q.id
  <2>1. Cardinality(ByComplete(Merge(report[x], edited, e).history)) =
          Cardinality(ByComplete(report[x].history))
            + (IF e.by = "complete" THEN 1 ELSE 0)
    BY <1>3, <1>10, MergeCounts
  <2>2. Cardinality(DoneNext(x)) =
          Cardinality(Done(x)) + (IF q.op = "complete" THEN 1 ELSE 0)
    BY <1>2, <1>4, <1>10, <2>1 DEF Done, DoneNext
  <2>3. i \in Completing(x) <=> q.op = "complete"
    BY <1>4, <1>10 DEF Completing
  <2>4. CASE q.op = "complete"
    BY <1>6, <1>7, <1>8, <2>2, <2>3, <2>4 DEF Fits, FitsNext
  <2>5. CASE q.op # "complete"
    BY <1>6, <1>7, <1>8, <2>2, <2>3, <2>5 DEF Fits, FitsNext
  <2>6. QED
    BY <2>4, <2>5
<1>11. QED
  BY <1>9, <1>10

\* The job stores no completion.
LEMMA JobSaveFits ==
  ASSUME TypeOK, CopiesArePast, JobSave, NEW x \in DOMAIN report, Fits(x)
  PROVE  FitsNext(x)
<1>1. \A p \in job : p.id \in DOMAIN report
  BY DEF CopiesArePast, IsPast
<1>2. PICK p \in job, e \in Entry :
        /\ e = [state |-> "IGNORED", timestamp |-> p.deadline, by |-> "job"]
        /\ p \in Pending
        /\ report'[p.id] = Merge(report[p.id], p.snap, e)
        /\ \A r \in DOMAIN report : r # p.id => report'[r] = report[r]
        /\ req' = req
  BY <1>1, JobSaveEffect
<1>3. CompletingNext(x) = Completing(x)
  BY <1>2 DEF CompletingNext, Completing
<1>4. CASE x # p.id
  <2>1. DoneNext(x) = Done(x)
    BY <1>2, <1>4 DEF Done, DoneNext
  <2>2. QED
    BY <1>3, <2>1 DEF Fits, FitsNext
<1>5. CASE x = p.id
  <2>1. report[x] \in Row /\ p.snap \in Row /\ e.by # "complete"
    BY <1>2 DEF TypeOK, Pending
  <2>2. Cardinality(ByComplete(Merge(report[x], p.snap, e).history)) =
          Cardinality(ByComplete(report[x].history))
            + (IF e.by = "complete" THEN 1 ELSE 0)
    BY <2>1, MergeCounts
  <2>3. Cardinality(Done(x)) \in Nat
    BY DoneIsFinite
  <2>4. Cardinality(DoneNext(x)) = Cardinality(Done(x))
    BY <1>2, <1>5, <2>1, <2>2, <2>3 DEF Done, DoneNext
  <2>5. QED
    BY <1>3, <2>4 DEF Fits, FitsNext
<1>6. QED
  BY <1>4, <1>5

\* Every step keeps the completions within the workers.
LEMMA FitsStep ==
  ASSUME TypeOK, CopiesArePast, CompleteMeansSuccess, [Next]_vars,
         \A r \in DOMAIN report : Fits(r), NEW x \in DOMAIN report'
  PROVE  FitsNext(x)
<1>1. CASE UNCHANGED << report, req >>
  BY <1>1 DEF Fits, FitsNext, Done, DoneNext, Completing, CompletingNext
<1>2. CASE Inserts
  <2>1. CASE x \in DOMAIN report
    BY <1>2, <2>1 DEF Inserts, Fits, FitsNext, Done, DoneNext, Completing,
                      CompletingNext
  <2>2. CASE x \notin DOMAIN report
    <3>1. DoneNext(x) = {}
      BY <1>2, <2>2, NewRowCounts DEF Inserts, DoneNext
    <3>2. CompletingNext(x) \in SUBSET Request
      BY DEF CompletingNext
    <3>3. QED
      BY <3>1, <3>2, WorkersAreFinite, FS_EmptySet DEF FitsNext
  <2>3. QED
    BY <2>1, <2>2
<1>2a. ASSUME NEW h \in assigning, Resets(h)
       PROVE  FitsNext(x)
  BY <1>2a DEF Resets, Fits, FitsNext, Done, DoneNext, Completing, CompletingNext
<1>3. ASSUME NEW i \in Request, NEW op \in UserOp \cup {"admin"},
             NEW r \in DOMAIN report, NEW s \in TaskState, Copies(i, op, r, s)
      PROVE  FitsNext(x)
  <2>1. x \in DOMAIN report
    BY <1>3 DEF Copies
  <2>2. QED
    BY <1>3, <2>1, CopiesFit
<1>4. ASSUME NEW i \in Request, Save(i)
      PROVE  FitsNext(x)
  <2>1. x \in DOMAIN report
    BY <1>4, SaveCounts
  <2>2. QED
    BY <1>4, <2>1, SaveFits
<1>5. ASSUME NEW i \in Request, Drops(i)
      PROVE  FitsNext(x)
  <2>1. x \in DOMAIN report /\ DoneNext(x) = Done(x)
    BY <1>5 DEF Drops, Done, DoneNext
  <2>2. CompletingNext(x) = Completing(x)
    <3>1. req'[i].pc # "loaded" /\ req[i].pc # "loaded"
      BY <1>5 DEF Drops, TypeOK, Idle
    <3>2. \A j \in Request : j # i => req'[j] = req[j]
      BY <1>5 DEF Drops, TypeOK
    <3>3. QED
      BY <3>1, <3>2 DEF CompletingNext, Completing
  <2>3. QED
    BY <2>1, <2>2 DEF Fits, FitsNext
<1>6. CASE JobSave
  <2>1. x \in DOMAIN report
    BY <1>6, JobSaveCounts
  <2>2. QED
    BY <1>6, <2>1, JobSaveFits
<1>7. CASE Crash
  <2>1. x \in DOMAIN report /\ DoneNext(x) = Done(x)
    BY <1>7 DEF Crash, Done, DoneNext
  <2>2. CompletingNext(x) = {} /\ Completing(x) \in SUBSET Request
    BY <1>7 DEF Crash, Idle, CompletingNext, Completing
  <2>3. Cardinality(Completing(x)) \in Nat /\ Cardinality(Request) \in Nat
    BY <2>2, WorkersAreFinite
  <2>4. Cardinality(Done(x)) \in Nat
    BY <2>1, DoneIsFinite
  <2>5. QED
    BY <2>1, <2>2, <2>3, <2>4, FS_EmptySet DEF Fits, FitsNext
<1>8. QED
  BY <1>1, <1>2, <1>2a, <1>3, <1>4, <1>5, <1>6, <1>7, StepKinds DEF Quiet, JobScan

CompletionInv ==
  /\ TypeOK
  /\ CopiesArePast
  /\ CompletionsInFlight

\* Retrying completeTask, from any number of phones and over restarts, records
\* at most one completion for each worker thread: all that gets past the early
\* return is what was already past it when the first completion was saved.
THEOREM RetriesAreBounded == Spec => []CompletionsBounded
<1> USE DEF CompletionInv, Done, Fits
<1>1. Init => CompletionInv
  <2> SUFFICES ASSUME Init PROVE CompletionInv
    OBVIOUS
  <2>1. /\ DOMAIN report = {} /\ job = {}
        /\ \A i \in Request : req[i].pc # "loaded"
    BY DEF Init, Idle
  <2>2. QED
    BY <2>1, InitType DEF CopiesArePast, CompletionsInFlight
<1>2. CompletionInv /\ [Next]_vars => CompletionInv'
  <2> SUFFICES ASSUME CompletionInv, [Next]_vars PROVE CompletionInv'
    OBVIOUS
  <2>1. TypeOK' /\ CopiesArePast'
    BY NextType, CopiesStayPast
  <2>2. CompleteMeansSuccess /\ \A r \in DOMAIN report : Fits(r)
    BY DEF CompletionsInFlight, CompleteMeansSuccess
  <2>3. CompleteMeansSuccess'
    BY <2>2, SuccessStep
  <2>4. \A x \in DOMAIN report' : FitsNext(x)
    BY <2>2, FitsStep
  <2>5. QED
    BY <2>1, <2>3, <2>4 DEF CompletionsInFlight, CompleteMeansSuccess, FitsNext,
                            DoneNext, CompletingNext, Completing
<1>3. CompletionInv => CompletionsBounded
  <2> SUFFICES ASSUME CompletionInv, NEW r \in DOMAIN report
               PROVE  Cardinality(ByComplete(report[r].history))
                        <= Cardinality(Request)
    BY DEF CompletionsBounded
  <2>1. Cardinality(Done(r)) \in Nat
    BY DoneIsFinite
  <2>2. Completing(r) \in SUBSET Request
    BY DEF Completing
  <2>3. Cardinality(Completing(r)) \in Nat /\ Cardinality(Request) \in Nat
    BY <2>2, WorkersAreFinite
  <2>4. QED
    BY <2>1, <2>3 DEF CompletionsInFlight
<1>4. QED
  BY <1>1, <1>2, <1>3, PTL DEF Spec

\* With one worker thread, a report is completed once, whatever is retried and
\* wherever the server stops (TaskController.completeTask).
THEOREM CompletedOnceInTurn == Cardinality(Request) = 1 => (Spec => []CompletedOnce)
<1> SUFFICES ASSUME Cardinality(Request) = 1 PROVE Spec => []CompletedOnce
  OBVIOUS
<1>1. CompletionsBounded => CompletedOnce
  BY DEF CompletionsBounded, CompletedOnce
<1>2. QED
  BY <1>1, RetriesAreBounded, PTL

-----------------------------------------------------------------------------
(* One administrator session: one report for a user and a task.            *)

SerialInv ==
  /\ TypeOK
  /\ RowsHaveTasks
  /\ UsersAreNew
  /\ HandlersHaveTasks
  /\ RowsAreSingle

\* Rows inserted for users who have none of the task are the first copies.
LEMMA FirstCopies ==
  ASSUME NEW us, NEW t, Insert(us, t),
         \A r \in DOMAIN report : ~ (r[2] = t /\ r[1] \in us)
  PROVE  /\ DOMAIN report \subseteq DOMAIN report'
         /\ \A r \in DOMAIN report' \ DOMAIN report :
              r[1] \in us /\ r[2] = t /\ r = << r[1], t, 1 >>
<1>1. PICK new : /\ new = { FreshId(u, t) : u \in us }
                 /\ report' = [r \in DOMAIN report \cup new |->
                                  IF r \in new THEN NewRow ELSE report[r]]
  BY DEF Insert
<1>2. DOMAIN report' = DOMAIN report \cup new
  BY <1>1
<1>3. ASSUME NEW u \in us
      PROVE  FreshId(u, t) = << u, t, 1 >>
  <2>1. RowsOf(u, t) = {}
    BY DEF RowsOf
  <2>2. Cardinality(RowsOf(u, t)) + 1 = 1
    BY <2>1, FS_EmptySet
  <2>3. QED
    BY <2>2 DEF FreshId
<1>4. QED
  BY <1>1, <1>2, <1>3

\* A step that touches neither the table nor a deadline, and leaves at most one
\* slot of a handler new, keeps what the invariant says of the table.
LEMMA TableAlone ==
  ASSUME RowsHaveTasks, RowsAreSingle, UNCHANGED deadline,
         DOMAIN report' = DOMAIN report
  PROVE  RowsHaveTasks' /\ RowsAreSingle'
BY DEF RowsHaveTasks, RowsAreSingle

LEMMA OpenAlone ==
  ASSUME UsersAreNew, UNCHANGED << deadline, tx >>,
         DOMAIN report' = DOMAIN report
  PROVE  UsersAreNew'
BY DEF UsersAreNew

\* A deadline that is moved, to a time, leaves the task saved.
LEMMA DeadlineMoves ==
  ASSUME TypeOK, RowsHaveTasks, UsersAreNew, RowsAreSingle,
         NEW t \in Task, NEW d, d # Null,
         deadline' = [deadline EXCEPT ![t] = d], DOMAIN report' = DOMAIN report,
         UNCHANGED tx
  PROVE  RowsHaveTasks' /\ UsersAreNew' /\ RowsAreSingle'
<1>1. \A x \in Task : deadline[x] # Null => deadline'[x] # Null
  BY DEF TypeOK
<1>2. \A r \in DOMAIN report : r[2] \in Task
  BY DEF TypeOK, ReportId
<1>3. \A a \in Admin : tx[a] # NoTx => tx[a].task \in Task
  BY DEF TypeOK, OpenTx
<1>4. QED
  BY <1>1, <1>2, <1>3 DEF RowsHaveTasks, UsersAreNew, RowsAreSingle

\* The invariant with one administrator, step by step.
LEMMA SerialStep ==
  ASSUME SerialInv, [Next]_vars, NEW one, Admin = {one}
  PROVE  SerialInv'
<1> USE DEF SerialInv
<1>0. TypeOK'
  BY NextType
<1>1. ASSUME NEW t \in Task, NEW us \in SUBSET User, NEW d \in Deadlines,
             AssignTask(t, us, d)
      PROVE  RowsHaveTasks' /\ UsersAreNew' /\ HandlersHaveTasks' /\ RowsAreSingle'
  <2>1. \A r \in DOMAIN report : r[2] # t
    BY <1>1 DEF AssignTask, RowsHaveTasks
  <2>2. /\ DOMAIN report \subseteq DOMAIN report'
        /\ \A r \in DOMAIN report' \ DOMAIN report :
             r[1] \in us /\ r[2] = t /\ r = << r[1], t, 1 >>
    BY <1>1, <2>1, FirstCopies DEF AssignTask
  <2>3. d # Null /\ deadline' = [deadline EXCEPT ![t] = d]
    BY <1>1 DEF AssignTask, Time, Null
  <2>4. \A x \in Task : x # t => deadline'[x] = deadline[x]
    BY <2>3 DEF TypeOK
  <2>5. deadline'[t] # Null
    BY <2>3 DEF TypeOK
  <2>6. \A r \in DOMAIN report : r[2] \in Task
    BY DEF TypeOK, ReportId
  <2>7. RowsHaveTasks'
    BY <2>1, <2>2, <2>4, <2>5, <2>6 DEF RowsHaveTasks
  <2>8. UsersAreNew'
    <3>1. \A a \in Admin : tx[a] # NoTx => tx[a].task \in Task /\ tx[a].task # t
      BY <1>1 DEF AssignTask, UsersAreNew, TypeOK, OpenTx
    <3>2. tx' = tx
      BY <1>1 DEF AssignTask
    <3>3. QED
      BY <2>2, <2>4, <3>1, <3>2 DEF UsersAreNew
  <2>9. HandlersHaveTasks'
    BY <1>1, <2>2 DEF AssignTask, HandlersHaveTasks
  <2>10. RowsAreSingle'
    BY <2>1, <2>2 DEF RowsAreSingle
  <2>11. QED
    BY <2>7, <2>8, <2>9, <2>10
<1>1a. ASSUME EndAssignment
       PROVE  RowsHaveTasks' /\ UsersAreNew' /\ HandlersHaveTasks' /\ RowsAreSingle'
  <2>1. PICK h \in assigning :
          /\ deadline' = [deadline EXCEPT ![h.task] = h.deadline]
          /\ DOMAIN report' = DOMAIN report
    BY <1>1a DEF EndAssignment
  <2>2. h.task \in Task /\ h.deadline # Null
    BY DEF TypeOK, Assignment, Time, Null
  <2>3. UNCHANGED << req, tx >>
    BY <1>1a DEF EndAssignment
  <2>4. HandlersHaveTasks'
    BY <2>1, <2>3 DEF HandlersHaveTasks
  <2>5. QED
    BY <2>1, <2>2, <2>3, <2>4, DeadlineMoves
<1>2. ASSUME NEW a \in Admin, NEW t \in Task, NEW us \in SUBSET User,
             AddUsersCheck(a, t, us)
      PROVE  RowsHaveTasks' /\ UsersAreNew' /\ HandlersHaveTasks' /\ RowsAreSingle'
  <2>1. \A r \in DOMAIN report : ~ (r[2] = t /\ r[1] \in us)
    BY <1>2 DEF AddUsersCheck, RowsOf
  <2>2. tx'[a].task = t /\ tx'[a].users = us /\ deadline[t] # Null
    BY <1>2 DEF AddUsersCheck, TypeOK
  <2>3. UNCHANGED << deadline, report, req >>
    BY <1>2 DEF AddUsersCheck
  <2>4. \A b \in Admin : b = a
    OBVIOUS
  <2>5. UsersAreNew'
    BY <2>1, <2>2, <2>3, <2>4 DEF UsersAreNew
  <2>6. QED
    BY <2>3, <2>5, TableAlone DEF HandlersHaveTasks
<1>3. ASSUME NEW a \in Admin, AddUsersCommit(a)
      PROVE  RowsHaveTasks' /\ UsersAreNew' /\ HandlersHaveTasks' /\ RowsAreSingle'
  <2>1. /\ deadline[tx[a].task] # Null
        /\ \A r \in DOMAIN report : ~ (r[2] = tx[a].task /\ r[1] \in tx[a].users)
    BY <1>3 DEF AddUsersCommit, UsersAreNew
  <2>2. /\ DOMAIN report \subseteq DOMAIN report'
        /\ \A r \in DOMAIN report' \ DOMAIN report :
             /\ r[1] \in tx[a].users /\ r[2] = tx[a].task
             /\ r = << r[1], tx[a].task, 1 >>
    BY <1>3, <2>1, FirstCopies DEF AddUsersCommit
  <2>3. RowsHaveTasks' /\ RowsAreSingle'
    BY <1>3, <2>1, <2>2 DEF AddUsersCommit, RowsHaveTasks, RowsAreSingle
  <2>4. \A b \in Admin : tx'[b] = NoTx
    BY <1>3 DEF AddUsersCommit, TypeOK
  <2>5. HandlersHaveTasks'
    BY <1>3, <2>2 DEF AddUsersCommit, HandlersHaveTasks
  <2>6. QED
    BY <2>3, <2>4, <2>5 DEF UsersAreNew
<1>4. ASSUME NEW i \in Request, NEW op, NEW r \in DOMAIN report, NEW s,
             req' = [req EXCEPT ![i] = [pc |-> "loaded", op |-> op, id |-> r,
                                        state |-> s, snap |-> report[r]]],
             UNCHANGED << deadline, report, tx >>
      PROVE  RowsHaveTasks' /\ UsersAreNew' /\ HandlersHaveTasks' /\ RowsAreSingle'
  <2>1. \A j \in Request : j # i => req'[j] = req[j]
    BY <1>4 DEF TypeOK
  <2>2. req'[i].pc = "loaded" /\ req'[i].id = r
    BY <1>4 DEF TypeOK
  <2>3. HandlersHaveTasks'
    BY <1>4, <2>1, <2>2 DEF HandlersHaveTasks
  <2>4. QED
    BY <1>4, <2>3, TableAlone, OpenAlone
<1>5. ASSUME NEW i \in Request, Save(i)
      PROVE  RowsHaveTasks' /\ UsersAreNew' /\ HandlersHaveTasks' /\ RowsAreSingle'
  <2>1. req[i].id \in DOMAIN report
    BY <1>5 DEF Save, HandlersHaveTasks
  <2>2. /\ DOMAIN report' = DOMAIN report
        /\ \A j \in Request : j # i => req'[j] = req[j]
        /\ req'[i].pc = "saved" /\ req'[i].deadline = deadline[req[i].id[2]]
        /\ UNCHANGED << deadline, tx >>
    BY <1>5 DEF Save, TypeOK
  <2>3. deadline[req[i].id[2]] # Null
    BY <2>1 DEF RowsHaveTasks
  <2>4. HandlersHaveTasks'
    BY <2>2, <2>3 DEF HandlersHaveTasks
  <2>5. QED
    BY <2>2, <2>4, TableAlone, OpenAlone
<1>6. ASSUME NEW i \in Request, CloseStep(i)
      PROVE  RowsHaveTasks' /\ UsersAreNew' /\ HandlersHaveTasks' /\ RowsAreSingle'
  <2>1. req[i] \in Saved
    BY <1>6, SavedShape DEF CloseStep
  <2>2. req[i].id[2] \in Task /\ now # Null
    BY <2>1 DEF Saved, ReportId, TypeOK, Time, Null
  <2>3. RowsHaveTasks' /\ UsersAreNew' /\ RowsAreSingle'
    BY <1>6, <2>2, DeadlineMoves DEF CloseStep
  <2>4. \A j \in Request : j # i => req'[j] = req[j]
    BY <1>6 DEF CloseStep, TypeOK
  <2>5. req'[i] = [req[i] EXCEPT !.deadline = now]
    BY <1>6 DEF CloseStep, TypeOK
  <2>6. req'[i].pc = "saved" /\ req'[i].deadline = now
    BY <2>1, <2>5 DEF Saved
  <2>7. HandlersHaveTasks'
    BY <1>6, <2>2, <2>4, <2>6 DEF HandlersHaveTasks, CloseStep
  <2>8. QED
    BY <2>3, <2>7
<1>7. ASSUME NEW i \in Request, Finish(i)
      PROVE  RowsHaveTasks' /\ UsersAreNew' /\ HandlersHaveTasks' /\ RowsAreSingle'
  <2>1. req[i] \in Saved
    BY <1>7, SavedShape DEF Finish
  <2>2. req[i].id[2] \in Task /\ req[i].deadline # Null
    BY <1>7, <2>1 DEF Finish, Saved, ReportId, HandlersHaveTasks
  <2>3. RowsHaveTasks' /\ UsersAreNew' /\ RowsAreSingle'
    <3>1. CASE UNCHANGED deadline
      BY <1>7, <3>1, TableAlone, OpenAlone DEF Finish
    <3>2. CASE deadline' = [deadline EXCEPT ![req[i].id[2]] = req[i].deadline]
      BY <1>7, <2>2, <3>2, DeadlineMoves DEF Finish
    <3>3. QED
      BY <1>7, <3>1, <3>2 DEF Finish
  <2>4. /\ \A j \in Request : j # i => req'[j] = req[j]
        /\ req'[i] = Idle /\ report' = report
    BY <1>7 DEF Finish, TypeOK
  <2>5. HandlersHaveTasks'
    BY <2>4 DEF HandlersHaveTasks, Idle
  <2>6. QED
    BY <2>3, <2>5
<1>8. ASSUME JobSave
      PROVE  RowsHaveTasks' /\ UsersAreNew' /\ HandlersHaveTasks' /\ RowsAreSingle'
  <2>1. DOMAIN report' = DOMAIN report /\ UNCHANGED << deadline, req, tx >>
    BY <1>8 DEF JobSave, TypeOK
  <2>2. QED
    BY <2>1, TableAlone, OpenAlone DEF HandlersHaveTasks
<1>9. ASSUME Crash
      PROVE  RowsHaveTasks' /\ UsersAreNew' /\ HandlersHaveTasks' /\ RowsAreSingle'
  <2>1. (\A a \in Admin : tx'[a] = NoTx) /\ \A i \in Request : req'[i] = Idle
    BY <1>9 DEF Crash
  <2>2. UsersAreNew' /\ HandlersHaveTasks'
    BY <2>1 DEF UsersAreNew, HandlersHaveTasks, Idle
  <2>3. QED
    BY <1>9, <2>2, TableAlone DEF Crash
<1>10. ASSUME UNCHANGED << deadline, report, req, tx >>
       PROVE  RowsHaveTasks' /\ UsersAreNew' /\ HandlersHaveTasks' /\ RowsAreSingle'
  BY <1>10, TableAlone, OpenAlone DEF HandlersHaveTasks
<1>11. ASSUME NEW i \in Request, NEW r \in DOMAIN report, NEW s, AdminLoad(i, r, s)
       PROVE  RowsHaveTasks' /\ UsersAreNew' /\ HandlersHaveTasks' /\ RowsAreSingle'
  BY <1>4, <1>11 DEF AdminLoad
<1>12. ASSUME NEW i \in Request, NEW op \in UserOp, NEW u \in User, NEW t \in Task,
              Load(i, op, u, t)
       PROVE  RowsHaveTasks' /\ UsersAreNew' /\ HandlersHaveTasks' /\ RowsAreSingle'
  <2>1. PICK r \in ReportId :
          /\ RowsOf(u, t) = {r}
          /\ op = "complete" => ~ HasState(report[r], "COMPLETED_WITH_SUCCESS")
          /\ req' = [req EXCEPT ![i] = [pc |-> "loaded", op |-> op, id |-> r,
                                        state |-> StateOf[op], snap |-> report[r]]]
    BY <1>12 DEF Load
  <2>2. r \in DOMAIN report
    BY <2>1 DEF RowsOf
  <2>3. UNCHANGED << deadline, report, tx >>
    BY <1>12 DEF Load
  <2>4. QED
    BY <1>4, <2>1, <2>2, <2>3
<1>13. QED
  BY <1>0, <1>1, <1>1a, <1>2, <1>3, <1>5, <1>6, <1>7, <1>8, <1>9, <1>10, <1>11, <1>12
     DEF Next, AssignNext, AdminNext, LoadNext, vars, JobScan, Tick

\* With one administrator session at work, no user ever gets a second report
\* for a task, over restarts and whatever handlers and the job write
\* (TaskServiceImpl.assignTaskToUsers, addUsersToTask).
THEOREM OneReportInTurn == (\E a : Admin = {a}) => (Spec => []OneReportPerUserTask)
<1> SUFFICES ASSUME NEW one, Admin = {one} PROVE Spec => []OneReportPerUserTask
  OBVIOUS
<1>1. Init => SerialInv
  <2> SUFFICES ASSUME Init PROVE SerialInv
    OBVIOUS
  <2>1. /\ DOMAIN report = {}
        /\ \A a \in Admin : tx[a] = NoTx
        /\ \A i \in Request : req[i] = Idle
    BY DEF Init
  <2>2. QED
    BY <2>1, InitType DEF SerialInv, RowsHaveTasks, UsersAreNew, HandlersHaveTasks,
                          RowsAreSingle, Idle
<1>2. SerialInv /\ [Next]_vars => SerialInv'
  BY SerialStep
<1>3. SerialInv => OneReportPerUserTask
  <2> SUFFICES ASSUME SerialInv, NEW u \in User, NEW t \in Task
               PROVE  Cardinality(RowsOf(u, t)) <= 1
    BY DEF OneReportPerUserTask
  <2>1. \A r, s \in RowsOf(u, t) : r = s
    BY DEF SerialInv, RowsAreSingle, RowsOf
  <2>2. CASE RowsOf(u, t) = {}
    BY <2>2, FS_EmptySet
  <2>3. CASE RowsOf(u, t) # {}
    <3>1. PICK r : RowsOf(u, t) = {r}
      BY <2>1, <2>3
    <3>2. Cardinality({r}) = 1
      BY FS_Singleton
    <3>3. QED
      BY <3>1, <3>2
  <2>4. QED
    BY <2>2, <2>3
<1>4. QED
  BY <1>1, <1>2, <1>3, PTL DEF Spec

-----------------------------------------------------------------------------
(* The table implements the ledger.                                        *)

\* The states of a history, and the three variables of the ledger.
States(h) == [k \in DOMAIN h |-> h[k].state]
LogNow == [r \in DOMAIN report |-> States(report[r].history)]
ShownNow == [r \in DOMAIN report |-> report[r].currentState]
OpenNow == UNION { h.reports : h \in assigning }

\* The states of a new row and of a row that is merged into.
LEMMA NewRowStates == States(NewRow.history) = << "AVAILABLE" >>
<1>1. /\ DOMAIN States(NewRow.history) = {1}
      /\ States(NewRow.history)[1] = "AVAILABLE"
  BY DEF States, NewRow
<1>2. States(NewRow.history) = [k \in 1 .. 1 |-> "AVAILABLE"]
  BY <1>1 DEF States
<1>3. << "AVAILABLE" >> = [k \in 1 .. 1 |-> "AVAILABLE"]
  OBVIOUS
<1>4. QED
  BY <1>2, <1>3

\* ... appends one state and shows it.
LEMMA MergeStates ==
  ASSUME NEW row \in Row, NEW snap \in Row, NEW e \in Entry
  PROVE  /\ Merge(row, snap, e).currentState = e.state
         /\ States(Merge(row, snap, e).history) = Append(States(row.history), e.state)
<1> DEFINE h == row.history
           g == Merge(row, snap, e).history
<1>1. h \in Seq(Entry) /\ Len(h) \in Nat /\ DOMAIN h = 1 .. Len(h)
  BY DEF Row
<1>2. g = Append(h, e)
  BY DEF Merge
<1> HIDE DEF h, g
<1>3. /\ DOMAIN g = 1 .. (Len(h) + 1)
      /\ g[Len(h) + 1] = e
      /\ \A k \in DOMAIN h : g[k] = h[k]
  BY <1>1, <1>2
<1>4. States(h) \in Seq(TaskState) /\ Len(States(h)) = Len(h)
  <2>1. States(h) \in [1 .. Len(h) -> TaskState]
    <3>1. \A k \in 1 .. Len(h) : h[k] \in Entry
      BY <1>1
    <3>2. \A k \in 1 .. Len(h) : h[k].state \in TaskState
      BY <3>1 DEF Entry
    <3>3. QED
      BY <1>1, <3>2 DEF States
  <2>2. QED
    BY <1>1, <2>1
<1>5. e.state \in TaskState
  BY DEF Entry
<1>6. Append(States(h), e.state) =
        [k \in 1 .. (Len(h) + 1) |-> IF k = Len(h) + 1 THEN e.state ELSE States(h)[k]]
  BY <1>1, <1>4, <1>5
<1>7. States(g) =
        [k \in 1 .. (Len(h) + 1) |-> IF k = Len(h) + 1 THEN e.state ELSE States(h)[k]]
  BY <1>1, <1>3 DEF States
<1>8. QED
  BY <1>6, <1>7 DEF h, g, Merge

\* One merged row is one Record of the ledger.
LEMMA RecordStep ==
  ASSUME TypeOK, NEW r \in DOMAIN report, NEW snap \in Row, NEW e \in Entry,
         DOMAIN report' = DOMAIN report,
         report'[r] = Merge(report[r], snap, e),
         \A x \in DOMAIN report : x # r => report'[x] = report[x]
  PROVE  /\ LogNow' = [LogNow EXCEPT ![r] = Append(@, e.state)]
         /\ ShownNow' = [ShownNow EXCEPT ![r] = e.state]
<1>1. report[r] \in Row
  BY DEF TypeOK
<1>2. /\ report'[r].currentState = e.state
      /\ States(report'[r].history) = Append(States(report[r].history), e.state)
  BY <1>1, MergeStates
<1>3. LogNow' = [x \in DOMAIN report |-> States(report'[x].history)]
  BY DEF LogNow, States
<1>4. \A x \in DOMAIN report : x # r => report'[x] = report[x]
  OBVIOUS
<1>5. LogNow' = [x \in DOMAIN report |->
                   IF x = r THEN Append(States(report[r].history), e.state)
                            ELSE States(report[x].history)]
  BY <1>2, <1>3, <1>4
<1>6. QED
  BY <1>2, <1>5 DEF LogNow, ShownNow

\* Rows inserted together are one Create of the ledger.
LEMMA CreateStep ==
  ASSUME TypeOK, TypeOK', Inserts
  PROVE  LET new == DOMAIN report' \ DOMAIN report
         IN  /\ new \subseteq ReportId \ DOMAIN LogNow
             /\ LogNow' = [r \in DOMAIN LogNow \cup new |->
                             IF r \in new THEN << "AVAILABLE" >> ELSE LogNow[r]]
             /\ ShownNow' = [r \in DOMAIN ShownNow \cup new |->
                               IF r \in new THEN "AVAILABLE" ELSE ShownNow[r]]
<1> DEFINE new == DOMAIN report' \ DOMAIN report
<1>1. /\ DOMAIN LogNow = DOMAIN report
      /\ DOMAIN ShownNow = DOMAIN report
      /\ DOMAIN report' = DOMAIN report \cup new
  BY DEF LogNow, ShownNow, Inserts
<1>2. new \subseteq ReportId \ DOMAIN LogNow
  BY <1>1 DEF TypeOK
<1>3. LogNow' = [r \in DOMAIN report' |-> States(report'[r].history)]
  BY DEF LogNow, States
<1>4. \A r \in DOMAIN report' :
        States(report'[r].history) =
          IF r \in new THEN << "AVAILABLE" >> ELSE LogNow[r]
  <2>1. ASSUME NEW r \in new
        PROVE  States(report'[r].history) = << "AVAILABLE" >>
    BY <2>1, NewRowStates DEF Inserts
  <2>2. ASSUME NEW r \in DOMAIN report
        PROVE  States(report'[r].history) = LogNow[r]
    BY DEF Inserts, LogNow
  <2>3. QED
    BY <1>1, <2>1, <2>2
<1>5. \A r \in DOMAIN report' :
        report'[r].currentState = IF r \in new THEN "AVAILABLE" ELSE ShownNow[r]
  BY DEF Inserts, NewRow, ShownNow
<1>6. ShownNow' = [r \in DOMAIN report' |-> report'[r].currentState]
  BY DEF ShownNow
<1>7. QED
  BY <1>1, <1>2, <1>3, <1>4, <1>5, <1>6

\* The assignments that are open change with the two actions of an assignment and
\* with a restart only.
LEMMA OpenStep ==
  ASSUME [Next]_vars, ~ AssignNext, ~ EndAssignment, ~ Crash
  PROVE  assigning' = assigning /\ OpenNow' = OpenNow
<1>1. assigning' = assigning
  BY DEF Next, vars, AdminNext, LoadNext, AddUsersCheck, AddUsersCommit, AdminLoad,
         Load, Save, CloseStep, Finish, JobScan, JobSave, Tick
<1>2. QED
  BY <1>1 DEF OpenNow

\* The end of an assignment is one Close of the ledger.
LEMMA CloseLedger ==
  ASSUME TypeOK, AssignmentsApart, EndAssignment
  PROVE  \E old \in SUBSET ReportId :
           /\ old \subseteq OpenNow
           /\ OpenNow' = OpenNow \ old
           /\ ShownNow' = [r \in DOMAIN ShownNow |->
                             IF r \in old THEN "AVAILABLE" ELSE ShownNow[r]]
           /\ LogNow' = LogNow
<1>1. PICK h \in assigning :
        /\ report' = [r \in DOMAIN report |->
             IF r \in h.reports
               THEN [report[r] EXCEPT !.currentState = "AVAILABLE",
                                      !.accepted = Null, !.expiration = Null]
               ELSE report[r]]
        /\ assigning' = assigning \ {h}
  BY DEF EndAssignment
<1>2. h.reports \subseteq DOMAIN report /\ h.reports \in SUBSET ReportId
  BY DEF TypeOK, Assignment
<1>3. OpenNow' = OpenNow \ h.reports
  <2>1. \A g \in assigning : g # h => g.reports \cap h.reports = {}
    BY DEF AssignmentsApart
  <2>2. OpenNow' = UNION { g.reports : g \in assigning \ {h} }
    BY <1>1 DEF OpenNow
  <2>3. QED
    BY <2>1, <2>2 DEF OpenNow
<1>4. \A r \in DOMAIN report :
        /\ report'[r].history = report[r].history
        /\ report'[r].currentState =
             IF r \in h.reports THEN "AVAILABLE" ELSE report[r].currentState
  <2> SUFFICES ASSUME NEW r \in DOMAIN report
               PROVE  /\ report'[r].history = report[r].history
                      /\ report'[r].currentState =
                           IF r \in h.reports THEN "AVAILABLE" ELSE report[r].currentState
    OBVIOUS
  <2>1. report[r] \in Row
    BY DEF TypeOK
  <2>2. QED
    BY <1>1, <2>1 DEF Row
<1>5. DOMAIN report' = DOMAIN report
  BY <1>1
<1>6. LogNow' = LogNow
  <2>1. LogNow' = [r \in DOMAIN report |-> States(report'[r].history)]
    BY <1>5 DEF LogNow, States
  <2>2. QED
    BY <1>4, <2>1 DEF LogNow, States
<1>7. ShownNow' = [r \in DOMAIN ShownNow |->
                     IF r \in h.reports THEN "AVAILABLE" ELSE ShownNow[r]]
  <2>1. ShownNow' = [r \in DOMAIN report |-> report'[r].currentState]
    BY <1>5 DEF ShownNow
  <2>2. QED
    BY <1>4, <2>1 DEF ShownNow
<1>8. h.reports \subseteq OpenNow
  BY DEF OpenNow
<1>9. QED
  BY <1>2, <1>3, <1>6, <1>7, <1>8

\* An assignment opens the reports it creates.
LEMMA AssignLedger ==
  ASSUME TypeOK, TypeOK', NEW t \in Task, NEW us \in SUBSET User, NEW d \in Deadlines,
         AssignTask(t, us, d)
  PROVE  /\ Inserts
         /\ OpenNow' = OpenNow \cup (DOMAIN report' \ DOMAIN report)
<1> DEFINE new == { FreshId(u, t) : u \in us }
           opened == [task |-> t, reports |-> new, deadline |-> d]
<1>1. Inserts
  BY InsertType DEF AssignTask, Inserts, TypeOK
<1>2. DOMAIN report' \ DOMAIN report = new
  BY DEF AssignTask, Insert
<1>3. assigning' = assigning \cup {opened} /\ opened.reports = new
  BY DEF AssignTask
<1> HIDE DEF new, opened
<1>4. OpenNow' = OpenNow \cup new
  <2>1. OpenNow' = UNION { h.reports : h \in assigning \cup {opened} }
    BY <1>3 DEF OpenNow
  <2>2. QED
    BY <1>3, <2>1 DEF OpenNow
<1>5. QED
  BY <1>1, <1>2, <1>4

\* Every step is a stutter, a Create, a Record or a Close.
LEMMA LedgerStep ==
  ASSUME TypeOK, TypeOK', CopiesArePast, AssignmentsApart, [Next]_vars
  PROVE  \/ UNCHANGED << LogNow, ShownNow, OpenNow >>
         \/ \E new \in SUBSET ReportId :
              /\ new \subseteq ReportId \ DOMAIN LogNow
              /\ LogNow' = [r \in DOMAIN LogNow \cup new |->
                              IF r \in new THEN << "AVAILABLE" >> ELSE LogNow[r]]
              /\ ShownNow' = [r \in DOMAIN ShownNow \cup new |->
                                IF r \in new THEN "AVAILABLE" ELSE ShownNow[r]]
              /\ OpenNow' \in {OpenNow, OpenNow \cup new}
         \/ \E r \in ReportId, s \in TaskState :
              /\ r \in DOMAIN LogNow
              /\ LogNow' = [LogNow EXCEPT ![r] = Append(@, s)]
              /\ ShownNow' = [ShownNow EXCEPT ![r] = s]
              /\ UNCHANGED OpenNow
         \/ \E old \in SUBSET ReportId :
              /\ old \subseteq OpenNow
              /\ OpenNow' = OpenNow \ old
              /\ ShownNow' \in {ShownNow, [r \in DOMAIN ShownNow |->
                                             IF r \in old THEN "AVAILABLE"
                                                          ELSE ShownNow[r]]}
              /\ UNCHANGED LogNow
<1>1. CASE AssignNext
  <2>1. PICK t \in Task, us \in SUBSET User, d \in Deadlines : AssignTask(t, us, d)
    BY <1>1 DEF AssignNext
  <2>2. DOMAIN report' \ DOMAIN report \in SUBSET ReportId
    BY DEF TypeOK
  <2>3. Inserts /\ OpenNow' = OpenNow \cup (DOMAIN report' \ DOMAIN report)
    BY <2>1, AssignLedger
  <2>4. QED
    BY <2>2, <2>3, CreateStep
<1>2. CASE EndAssignment
  BY <1>2, CloseLedger
<1>3. CASE Crash
  <2>1. OpenNow' = OpenNow \ OpenNow
    BY <1>3 DEF Crash, OpenNow
  <2>2. OpenNow \in SUBSET ReportId
    BY DEF OpenNow, TypeOK, Assignment
  <2>3. UNCHANGED << LogNow, ShownNow >>
    BY <1>3 DEF Crash, LogNow, ShownNow, States
  <2>4. QED
    BY <2>1, <2>2, <2>3
<1>4. CASE ~ AssignNext /\ ~ EndAssignment /\ ~ Crash
  <2> USE <1>4
  <2>0. assigning' = assigning /\ OpenNow' = OpenNow
    BY OpenStep
  <2>1. CASE UNCHANGED report
    BY <2>0, <2>1 DEF LogNow, ShownNow, States
  <2>2. CASE Inserts
    <3>1. DOMAIN report' \ DOMAIN report \in SUBSET ReportId
      BY DEF TypeOK
    <3>2. QED
      BY <2>0, <2>2, <3>1, CreateStep
  <2>3. DOMAIN LogNow = DOMAIN report /\ DOMAIN report \subseteq ReportId
    BY DEF LogNow, TypeOK
  <2>4. ASSUME NEW i \in Request, Save(i)
        PROVE  \E r \in ReportId, s \in TaskState :
                /\ r \in DOMAIN LogNow
                /\ LogNow' = [LogNow EXCEPT ![r] = Append(@, s)]
                /\ ShownNow' = [ShownNow EXCEPT ![r] = s]
    <3>1. req[i].id \in DOMAIN report
      BY <2>4 DEF CopiesArePast, IsPast, Save
    <3>2. PICK e \in Entry, edited \in Row :
            /\ DOMAIN report' = DOMAIN report
            /\ report'[req[i].id] = Merge(report[req[i].id], edited, e)
            /\ \A r \in DOMAIN report : r # req[i].id => report'[r] = report[r]
      BY <2>4, <3>1, SaveEffect
    <3>3. e.state \in TaskState
      BY DEF Entry
    <3>4. QED
      BY <2>3, <3>1, <3>2, <3>3, RecordStep
  <2>5. ASSUME JobSave
        PROVE  \E r \in ReportId, s \in TaskState :
                /\ r \in DOMAIN LogNow
                /\ LogNow' = [LogNow EXCEPT ![r] = Append(@, s)]
                /\ ShownNow' = [ShownNow EXCEPT ![r] = s]
    <3>1. \A p \in job : p.id \in DOMAIN report
      BY DEF CopiesArePast, IsPast
    <3>2. PICK p \in job, e \in Entry :
            /\ p \in Pending
            /\ DOMAIN report' = DOMAIN report
            /\ report'[p.id] = Merge(report[p.id], p.snap, e)
            /\ \A r \in DOMAIN report : r # p.id => report'[r] = report[r]
      BY <2>5, <3>1, JobSaveEffect
    <3>3. e.state \in TaskState /\ p.snap \in Row
      BY <3>2 DEF Entry, Pending
    <3>4. QED
      BY <2>3, <3>1, <3>2, <3>3, RecordStep
  <2>6. ASSUME NEW h \in assigning, Resets(h)
        PROVE  FALSE
    BY <2>0, <2>6 DEF Resets
  <2>7. QED
    BY <2>0, <2>1, <2>2, <2>4, <2>5, <2>6, StepKinds DEF Quiet, Copies, Drops, JobScan
<1>5. QED
  BY <1>1, <1>2, <1>3, <1>4

\* Every execution of the server, whatever races and restarts it contains, is
\* one of the ledger: logs only grow, by one state at a time, and what a report
\* shows is the last state logged, or AVAILABLE if the second transaction of its
\* assignment came after it (once, and never for a report added later).
THEOREM TableImplementsLedger == Spec => ImplementsLedger
<1> DEFINE CopyInv == TypeOK /\ CopiesArePast /\ AssignmentsApart
<1>1. Init => CopyInv /\ Ledger!Init
  <2> SUFFICES ASSUME Init PROVE CopyInv /\ Ledger!Init
    OBVIOUS
  <2>1. /\ DOMAIN report = {} /\ job = {} /\ assigning = {}
        /\ \A i \in Request : req[i].pc # "loaded"
    BY DEF Init, Idle
  <2>2. CopyInv
    BY <2>1, InitType DEF CopiesArePast, AssignmentsApart
  <2>3. Ledger!Init
    BY <2>1 DEF Ledger!Init
  <2>4. QED
    BY <2>2, <2>3
<1>2. CopyInv /\ [Next]_vars => CopyInv'
  BY NextType, CopiesStayPast, ApartStep
<1>3. CopyInv /\ CopyInv' /\ [Next]_vars =>
        [Ledger!Next]_<< [r \in DOMAIN report |->
                            [k \in DOMAIN report[r].history |->
                               report[r].history[k].state]],
                         [r \in DOMAIN report |-> report[r].currentState],
                         UNION { h.reports : h \in assigning } >>
  BY LedgerStep DEF LogNow, ShownNow, OpenNow, States, Ledger!Next, Ledger!Create,
                    Ledger!Record, Ledger!Close
<1>4. QED
  BY <1>1, <1>2, <1>3, PTL DEF Spec, ImplementsLedger, Ledger!Spec
=============================================================================
