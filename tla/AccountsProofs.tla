---------------------------- MODULE AccountsProofs ----------------------------
(***************************************************************************)
(* Theorems about Accounts, for any validity, any period of the purge, any *)
(* number of users, calls, forms, requests and restarts.                   *)
(***************************************************************************)
EXTENDS Accounts, TLAPS

USE AccountsAssumption

-----------------------------------------------------------------------------
(* The inductive invariant.                                                *)

\* A request is as it was issued, or gone; what the purge has still to delete is over.
RequestsAreIssued ==
  \A k \in Token :
    /\ request[k] # None => request[k] = issued[k]
    /\ issued[k] # None /\ request[k] = None => issued[k].end < now
    /\ k \in purging.todo => issued[k] # None /\ issued[k].end < now

\* A running purge has found all that is over.  Once it is done, what is left outlives
\* the next one but for a period.
PurgeIsThorough ==
  /\ due <= now + Period
  /\ purging # Resting =>
       /\ up /\ due <= now
       /\ \A k \in Token : request[k] # None /\ request[k].end < now => k \in purging.todo
  /\ up /\ purging = Resting /\ now < due =>
       \A k \in Token : request[k] # None => due <= request[k].end + Period

\* As long as nobody set a column beside somebody else, all copies are up to date.
CopiesAreCurrent ==
  \A u \in User \ overlap :
    /\ row[u] = set[u]
    /\ \A i \in Workers(u) : req[i].copy = row[u]
    /\ \A f \in Forms(u) : form[f].copy = row[u]

IInv ==
  /\ TypeOK
  /\ RequestsAreIssued
  /\ PurgeIsThorough
  /\ CopiesAreCurrent

-----------------------------------------------------------------------------
(* Types.                                                                  *)

LEMMA Shapes ==
  /\ \A c \in {Idle} \cup Working : c # Idle =>
       c.user \in User /\ c.copy \in Row /\ c.handler \in DOMAIN Changes
  /\ \A c \in {Idle} \cup Working : c.pc = "loaded" => c # Idle
  /\ \A c \in {Closed} \cup Open : c # Closed => c.user \in User /\ c.copy \in Row
  /\ \A r \in {None} \cup RecoverPassword : r # None =>
       r.user \in User /\ r.start \in Nat /\ r.end \in Nat
  BY DEF Idle, Working, Closed, Open, None, RecoverPassword

LEMMA Columns ==
  /\ Changes["gcmRegistration"] \subseteq Column
  /\ Changes["postUserEdit"] \subseteq Column
  /\ DOMAIN Changes = {"gcmRegistration", "postUserEdit", "recoverPasswordPost"}
  BY DEF Changes, Column

\* What a merge writes.
LEMMA MergeType ==
  ASSUME TypeOK, NEW u \in User, NEW copy \in Row, NEW cs, NEW others, Merge(u, copy, cs, others)
  PROVE  row' \in [User -> Row] /\ set' \in [User -> Row] /\ overlap' \subseteq User
  <1>1. \A c \in Column : set[u][c] \in Nat /\ copy[c] \in Nat
    BY DEF TypeOK, Row
  <1>2. [c \in Column |-> IF c \in cs THEN set[u][c] + 1 ELSE set[u][c]] \in Row
    BY <1>1 DEF Row
  <1>3. [c \in Column |-> IF c \in cs THEN set[u][c] + 1 ELSE copy[c]] \in Row
    BY <1>1 DEF Row
  <1>4. set' = [set EXCEPT ![u] = [c \in Column |-> IF c \in cs THEN set[u][c] + 1 ELSE set[u][c]]]
    BY DEF Merge, TypeOK
  <1> QED
    BY <1>2, <1>3, <1>4 DEF Merge, TypeOK

\* A merge keeps to the rows of other users; a merge of an up-to-date copy, made while
\* nobody else holds one or without setting a column, keeps row and set together.
LEMMA MergeIsCurrent ==
  ASSUME TypeOK, NEW u \in User, NEW copy \in Row, NEW cs, NEW others \in BOOLEAN,
         Merge(u, copy, cs, others)
  PROVE  /\ overlap \subseteq overlap'
         /\ \A v \in User \ {u} : row'[v] = row[v] /\ set'[v] = set[v]
         /\ row[u] = set[u] /\ copy = row[u] => row'[u] = set'[u]
         /\ copy = row[u] /\ cs = {} => row'[u] = row[u]
         /\ cs # {} /\ others => u \in overlap'
  <1>1. set'[u] = [c \in Column |-> IF c \in cs THEN set[u][c] + 1 ELSE set[u][c]]
    BY DEF Merge, TypeOK
  <1>2. row'[u] = [c \in Column |-> IF c \in cs THEN set[u][c] + 1 ELSE copy[c]]
    BY DEF Merge, TypeOK
  <1>3. \A v \in User \ {u} : row'[v] = row[v] /\ set'[v] = set[v]
    BY DEF Merge, TypeOK
  <1>4. row[u] = set[u] /\ copy = row[u] => row'[u] = set'[u]
    BY <1>1, <1>2
  <1>5. copy = row[u] /\ cs = {} => row'[u] = row[u]
    BY <1>2 DEF Row
  <1>6. overlap' = IF cs # {} /\ others THEN overlap \cup {u} ELSE overlap
    BY DEF Merge
  <1> QED
    BY <1>3, <1>4, <1>5, <1>6

LEMMA InitInv == Init => IInv
  <1> SUFFICES ASSUME Init PROVE IInv
    OBVIOUS
  <1>1. TypeOK
    BY DEF Init, TypeOK, Row, Resting
  <1>2. RequestsAreIssued /\ PurgeIsThorough
    BY DEF Init, RequestsAreIssued, PurgeIsThorough, Resting
  <1>3. CopiesAreCurrent
    BY DEF Init, CopiesAreCurrent, Workers, Forms
  <1> QED
    BY <1>1, <1>2, <1>3 DEF IInv

LEMMA StepType == TypeOK /\ [Next]_vars => TypeOK'
  <1> SUFFICES ASSUME TypeOK, [Next]_vars PROVE TypeOK'
    OBVIOUS
  <1>1. ASSUME NEW i \in Request, NEW h \in DOMAIN Changes, NEW u \in User, Load(i, h, u)
        PROVE  TypeOK'
    <2>1. [pc |-> "loaded", handler |-> h, user |-> u, copy |-> row[u]] \in Working
      BY DEF Working, TypeOK
    <2>2. req' \in [Request -> {Idle} \cup Working]
      BY <1>1, <2>1 DEF Load, TypeOK
    <2>3. started' \in 0 .. MaxCalls
      BY <1>1 DEF Load, Starts, TypeOK
    <2>4. UNCHANGED << row, form, request, now, due, purging, up, crashes, issued, set, overlap >>
      BY <1>1 DEF Load
    <2> QED
      BY <2>2, <2>3, <2>4 DEF TypeOK
  <1>2. ASSUME NEW i \in Request, Save(i) PROVE TypeOK'
    <2>1. req[i].user \in User /\ req[i].copy \in Row
      BY <1>2, Shapes DEF Save, TypeOK
    <2>2. row' \in [User -> Row] /\ set' \in [User -> Row] /\ overlap' \subseteq User
      BY <1>2, <2>1, MergeType DEF Save
    <2> QED
      BY <1>2, <2>2 DEF Save, TypeOK
  <1>3. ASSUME NEW i \in Request, NEW k \in Token, SetupRecovery(i, k) PROVE TypeOK'
    <2>1. req[i].user \in User /\ req[i].copy \in Row
      BY <1>3, Shapes DEF SetupRecovery, TypeOK
    <2>2. row' \in [User -> Row] /\ set' \in [User -> Row] /\ overlap' \subseteq User
      BY <1>3, <2>1, MergeType DEF SetupRecovery
    <2>3. PICK r : r = [user |-> req[i].user, start |-> now, end |-> now + Validity]
      OBVIOUS
    <2>4. r \in RecoverPassword
      BY <2>1, <2>3 DEF RecoverPassword, TypeOK
    <2>5. issued' \in [Token -> {None} \cup RecoverPassword] /\ issued'[k] = r
      BY <1>3, <2>3, <2>4 DEF SetupRecovery, TypeOK
    <2>6. request' \in [Token -> {None} \cup RecoverPassword]
      BY <1>3, <2>4, <2>5 DEF SetupRecovery, TypeOK
    <2> QED
      BY <1>3, <2>2, <2>5, <2>6 DEF SetupRecovery, TypeOK
  <1>4. ASSUME NEW f \in Form, NEW k \in Token, OpenForm(f, k) PROVE TypeOK'
    <2>1. request[k].user \in User
      BY <1>4, Shapes DEF OpenForm, TypeOK
    <2>2. [pc |-> "open", token |-> k, user |-> request[k].user,
           copy |-> row[request[k].user]] \in Open
      BY <2>1 DEF Open, TypeOK
    <2>3. form' \in [Form -> {Closed} \cup Open]
      BY <1>4, <2>2 DEF OpenForm, TypeOK
    <2>4. started' \in 0 .. MaxCalls
      BY <1>4 DEF OpenForm, Starts, TypeOK
    <2>5. UNCHANGED << row, req, request, now, due, purging, up, crashes, issued, set, overlap >>
      BY <1>4 DEF OpenForm
    <2> QED
      BY <2>3, <2>4, <2>5 DEF TypeOK
  <1>5. ASSUME NEW f \in Form, SetPassword(f) PROVE TypeOK'
    <2>1. form[f].user \in User /\ form[f].copy \in Row
      BY <1>5, Shapes DEF SetPassword, TypeOK
    <2>2. row' \in [User -> Row] /\ set' \in [User -> Row] /\ overlap' \subseteq User
      BY <1>5, <2>1, MergeType DEF SetPassword
    <2> QED
      BY <1>5, <2>2 DEF SetPassword, TypeOK
  <1>6. ASSUME NEW f \in Form, CloseForm(f) PROVE TypeOK'
    BY <1>6 DEF CloseForm, TypeOK
  <1>7. CASE PurgeScan
    BY <1>7 DEF PurgeScan, Expired, TypeOK
  <1>8. CASE PurgeDelete
    <2>1. PICK k \in purging.todo :
            /\ request' = [request EXCEPT ![k] = None]
            /\ purging' = [running |-> TRUE, todo |-> purging.todo \ {k}]
      BY <1>8 DEF PurgeDelete
    <2>2. purging' \in [running : {TRUE}, todo : SUBSET Token]
      BY <1>8, <2>1 DEF PurgeDelete, TypeOK
    <2> QED
      BY <1>8, <2>1, <2>2 DEF PurgeDelete, TypeOK
  <1>9. CASE PurgeEnds
    <2>1. due' \in 0 .. MaxTime + Period
      BY <1>9 DEF PurgeEnds, TypeOK
    <2>2. /\ UNCHANGED << row, req, form, request, now, up, started, crashes, issued, set, overlap >>
          /\ purging' = Resting
      BY <1>9 DEF PurgeEnds
    <2> QED
      BY <2>1, <2>2 DEF TypeOK
  <1>10. CASE Tick
    <2>1. now' \in 0 .. MaxTime
      BY <1>10 DEF Tick, TypeOK
    <2>2. UNCHANGED << row, req, form, request, due, purging, up, started, crashes, issued, set, overlap >>
      BY <1>10 DEF Tick
    <2> QED
      BY <2>1, <2>2 DEF TypeOK
  <1>11. CASE Stop
    <2>1. crashes' \in 0 .. MaxCrashes
      BY <1>11 DEF Stop, TypeOK
    <2>2. UNCHANGED << row, request, now, due, started, issued, set, overlap >> /\ purging' = Resting
      BY <1>11 DEF Stop
    <2>3. up' \in BOOLEAN
      BY <1>11, Zenon DEF Stop
    <2>4. req' \in [Request -> {Idle} \cup Working] /\ form' \in [Form -> {Closed} \cup Open]
      BY <1>11 DEF Stop
    <2> QED
      BY <2>1, <2>2, <2>3, <2>4 DEF TypeOK
  <1>12. CASE Start
    <2>1. due' \in 0 .. MaxTime + Period
      BY <1>12 DEF Start, TypeOK
    <2>2. UNCHANGED << row, req, form, request, now, purging, started, crashes, issued, set, overlap >>
      BY <1>12 DEF Start
    <2>3. up' \in BOOLEAN
      BY <1>12, Zenon DEF Start
    <2> QED
      BY <2>1, <2>2, <2>3 DEF TypeOK
  <1>13. CASE UNCHANGED vars
    BY <1>13 DEF vars, TypeOK
  <1> QED
    BY <1>1, <1>2, <1>3, <1>4, <1>5, <1>6, <1>7, <1>8, <1>9, <1>10, <1>11, <1>12, <1>13 DEF Next

-----------------------------------------------------------------------------
(* The requests and the purge.                                             *)

LEMMA QuietPurge ==
  ASSUME RequestsAreIssued, PurgeIsThorough, UNCHANGED << request, issued, now, due, purging, up >>
  PROVE  RequestsAreIssued' /\ PurgeIsThorough'
  BY DEF RequestsAreIssued, PurgeIsThorough

LEMMA StepPurge ==
  ASSUME TypeOK, TypeOK', RequestsAreIssued, PurgeIsThorough, [Next]_vars
  PROVE  RequestsAreIssued' /\ PurgeIsThorough'
  <1>1. ASSUME NEW i \in Request, NEW h \in DOMAIN Changes, NEW u \in User, Load(i, h, u)
        PROVE  UNCHANGED << request, issued, now, due, purging, up >>
    BY <1>1 DEF Load
  <1>2. ASSUME NEW i \in Request, Save(i)
        PROVE  UNCHANGED << request, issued, now, due, purging, up >>
    BY <1>2 DEF Save
  <1>3. ASSUME NEW i \in Request, NEW k \in Token, SetupRecovery(i, k)
        PROVE  RequestsAreIssued' /\ PurgeIsThorough'
    <2>1. PICK r : r = [user |-> req[i].user, start |-> now, end |-> now + Validity]
      OBVIOUS
    <2>2. r.end = now + Validity /\ r # None /\ now \in Nat
      <3>1. r.end = now + Validity /\ now \in Nat /\ r.user \in User
        BY <1>3, <2>1, Shapes DEF SetupRecovery, TypeOK
      <3>2. r # None
        BY <2>1 DEF None
      <3> QED
        BY <3>1, <3>2
    <2>3. /\ issued' = [issued EXCEPT ![k] = r] /\ request' = [request EXCEPT ![k] = r]
          /\ issued[k] = None
      BY <1>3, <2>1 DEF SetupRecovery, TypeOK
    <2>4. UNCHANGED << now, due, purging, up >>
      BY <1>3 DEF SetupRecovery
    <2>5. k \notin purging.todo
      BY <2>3 DEF RequestsAreIssued
    <2>6. /\ issued'[k] = r /\ request'[k] = r
          /\ \A j \in Token \ {k} : issued'[j] = issued[j] /\ request'[j] = request[j]
      BY <2>3 DEF TypeOK
    <2>7. RequestsAreIssued'
      BY <2>2, <2>4, <2>5, <2>6 DEF RequestsAreIssued
    <2>8. ~ r.end < now /\ (due <= now + Period => due <= r.end + Period)
      BY <2>2 DEF TypeOK
    <2>9. PurgeIsThorough'
      BY <2>4, <2>6, <2>8 DEF PurgeIsThorough
    <2> QED
      BY <2>7, <2>9
  <1>4. ASSUME NEW f \in Form, NEW k \in Token, OpenForm(f, k)
        PROVE  UNCHANGED << request, issued, now, due, purging, up >>
    BY <1>4 DEF OpenForm
  <1>5. ASSUME NEW f \in Form, SetPassword(f)
        PROVE  UNCHANGED << request, issued, now, due, purging, up >>
    BY <1>5 DEF SetPassword
  <1>6. ASSUME NEW f \in Form, CloseForm(f)
        PROVE  UNCHANGED << request, issued, now, due, purging, up >>
    BY <1>6 DEF CloseForm
  <1>7. CASE PurgeScan
    <2>1. /\ purging' = [running |-> TRUE, todo |-> Expired]
          /\ UNCHANGED << request, issued, now, due, up >>
          /\ up /\ due <= now /\ purging = Resting
      BY <1>7 DEF PurgeScan
    <2>2. purging'.todo = Expired /\ purging' # Resting
      BY <2>1 DEF Resting
    <2>3. RequestsAreIssued'
      BY <2>1, <2>2 DEF RequestsAreIssued, Expired
    <2>4. PurgeIsThorough'
      BY <2>1, <2>2 DEF PurgeIsThorough, Expired
    <2> QED
      BY <2>3, <2>4
  <1>8. CASE PurgeDelete
    <2>1. PICK k \in purging.todo :
            /\ request' = [request EXCEPT ![k] = None]
            /\ purging' = [running |-> TRUE, todo |-> purging.todo \ {k}]
      BY <1>8 DEF PurgeDelete
    <2>2. /\ UNCHANGED << issued, now, due, up >> /\ purging # Resting
          /\ purging'.todo = purging.todo \ {k} /\ purging' # Resting
      BY <1>8, <2>1 DEF PurgeDelete, Resting
    <2>3. k \in Token
      BY <2>2 DEF TypeOK
    <2>4. request'[k] = None /\ \A j \in Token \ {k} : request'[j] = request[j]
      BY <2>1, <2>3 DEF TypeOK
    <2>5. RequestsAreIssued'
      BY <2>2, <2>3, <2>4 DEF RequestsAreIssued
    <2>6. PurgeIsThorough'
      BY <2>2, <2>3, <2>4 DEF PurgeIsThorough
    <2> QED
      BY <2>5, <2>6
  <1>9. CASE PurgeEnds
    <2>1. /\ purging # Resting /\ purging.todo = {} /\ purging' = Resting /\ due' = now + Period
          /\ UNCHANGED << request, issued, now, up >>
      BY <1>9 DEF PurgeEnds
    <2>2. Resting.todo = {}
      BY DEF Resting
    <2>3. RequestsAreIssued'
      BY <2>1, <2>2 DEF RequestsAreIssued
    <2>4. ASSUME NEW k \in Token, request[k] # None PROVE now + Period <= request[k].end + Period
      <3>1. ~ request[k].end < now
        BY <2>1, <2>4 DEF PurgeIsThorough
      <3>2. request[k].end \in Nat /\ now \in Nat
        BY <2>4, Shapes DEF TypeOK
      <3> QED
        BY <3>1, <3>2
    <2>5. now + Period <= now + Period
      BY DEF TypeOK
    <2>6. PurgeIsThorough'
      BY <2>1, <2>4, <2>5 DEF PurgeIsThorough
    <2> QED
      BY <2>3, <2>6
  <1>10. CASE Tick
    <2>1. /\ now' = now + 1 /\ now \in Nat /\ due \in Nat
          /\ UNCHANGED << request, issued, due, purging, up >>
          /\ up => purging = Resting /\ now < due
      BY <1>10 DEF Tick, TypeOK
    <2>2. \A k \in Token : issued[k] # None => issued[k].end \in Nat
      BY Shapes DEF TypeOK
    <2>3. RequestsAreIssued'
      BY <2>1, <2>2 DEF RequestsAreIssued
    <2>4. purging = Resting
      BY <2>1 DEF PurgeIsThorough
    <2>5. PurgeIsThorough'
      BY <2>1, <2>4 DEF PurgeIsThorough
    <2> QED
      BY <2>3, <2>5
  <1>11. CASE Stop
    <2>1. /\ UNCHANGED << request, issued, now, due >> /\ ~ up' /\ purging' = Resting
          /\ Resting.todo = {}
      BY <1>11 DEF Stop, Resting
    <2>2. RequestsAreIssued'
      BY <2>1 DEF RequestsAreIssued
    <2>3. PurgeIsThorough'
      BY <2>1 DEF PurgeIsThorough
    <2> QED
      BY <2>2, <2>3
  <1>12. CASE Start
    <2>1. UNCHANGED << request, issued, now, purging >> /\ ~ up /\ up' /\ due' = now /\ now \in Nat
      BY <1>12 DEF Start, TypeOK
    <2>2. RequestsAreIssued'
      BY <2>1 DEF RequestsAreIssued
    <2>3. purging = Resting
      BY <2>1 DEF PurgeIsThorough
    <2>4. PurgeIsThorough'
      BY <2>1, <2>3 DEF PurgeIsThorough
    <2> QED
      BY <2>2, <2>4
  <1>13. CASE UNCHANGED vars
    BY <1>13, QuietPurge DEF vars
  <1> QED
    BY <1>1, <1>2, <1>3, <1>4, <1>5, <1>6, <1>7, <1>8, <1>9, <1>10, <1>11, <1>12, <1>13, QuietPurge
       DEF Next

-----------------------------------------------------------------------------
(* The copies.                                                             *)

\* A worker or a form writes its copy and lets go of it.
LEMMA WritingKeepsCopies ==
  ASSUME TypeOK, CopiesAreCurrent, NEW u \in User, NEW copy \in Row, NEW cs,
         NEW others \in BOOLEAN, Merge(u, copy, cs, others),
         u \notin overlap => copy = row[u],
         \A v \in User : /\ Workers(v)' \subseteq Workers(v) /\ Forms(v)' \subseteq Forms(v)
                         /\ \A i \in Workers(v)' : req'[i] = req[i]
                         /\ \A f \in Forms(v)' : form'[f] = form[f],
         cs # {} /\ ~ others => Workers(u)' = {} /\ Forms(u)' = {}
  PROVE  CopiesAreCurrent'
  <1>1. /\ overlap \subseteq overlap'
        /\ \A v \in User \ {u} : row'[v] = row[v] /\ set'[v] = set[v]
        /\ row[u] = set[u] /\ copy = row[u] => row'[u] = set'[u]
        /\ copy = row[u] /\ cs = {} => row'[u] = row[u]
        /\ cs # {} /\ others => u \in overlap'
    BY MergeIsCurrent
  <1> SUFFICES ASSUME NEW v \in User, v \notin overlap'
               PROVE  /\ row'[v] = set'[v]
                      /\ \A i \in Workers(v)' : req'[i].copy = row'[v]
                      /\ \A f \in Forms(v)' : form'[f].copy = row'[v]
    BY DEF CopiesAreCurrent
  <1>2. v \notin overlap
    BY <1>1
  <1>3. /\ row[v] = set[v]
        /\ \A i \in Workers(v)' : req'[i].copy = row[v]
        /\ \A f \in Forms(v)' : form'[f].copy = row[v]
    <2>1. /\ row[v] = set[v]
          /\ \A i \in Workers(v) : req[i].copy = row[v]
          /\ \A f \in Forms(v) : form[f].copy = row[v]
      BY <1>2 DEF CopiesAreCurrent
    <2>2. /\ Workers(v)' \subseteq Workers(v)
          /\ \A i \in Workers(v)' : req'[i] = req[i]
      OBVIOUS
    <2>3. /\ Forms(v)' \subseteq Forms(v)
          /\ \A f \in Forms(v)' : form'[f] = form[f]
      OBVIOUS
    <2> QED
      BY <2>1, <2>2, <2>3
  <1>4. CASE v # u
    BY <1>1, <1>3, <1>4
  <1>5. CASE v = u /\ cs = {}
    BY <1>1, <1>2, <1>3, <1>5
  <1>6. CASE v = u /\ cs # {}
    BY <1>1, <1>2, <1>3, <1>6
  <1> QED
    BY <1>4, <1>5, <1>6

\* A copy is taken of the row as it is.
LEMMA ReadingKeepsCopies ==
  ASSUME CopiesAreCurrent, UNCHANGED << row, set, overlap >>,
         \A u \in User :
           /\ \A i \in Workers(u)' : (i \in Workers(u) /\ req'[i] = req[i]) \/ req'[i].copy = row[u]
           /\ \A f \in Forms(u)' : (f \in Forms(u) /\ form'[f] = form[f]) \/ form'[f].copy = row[u]
  PROVE  CopiesAreCurrent'
  BY DEF CopiesAreCurrent

LEMMA StepCopies ==
  ASSUME TypeOK, CopiesAreCurrent, [Next]_vars
  PROVE  CopiesAreCurrent'
  <1>1. ASSUME NEW i \in Request, NEW h \in DOMAIN Changes, NEW u \in User, Load(i, h, u)
        PROVE  CopiesAreCurrent'
    <2>1. /\ req'[i].user = u /\ req'[i].copy = row[u]
          /\ \A j \in Request \ {i} : req'[j] = req[j]
      BY <1>1 DEF Load, TypeOK
    <2>2. UNCHANGED << row, set, overlap, form >>
      BY <1>1 DEF Load
    <2> QED
      BY <2>1, <2>2, ReadingKeepsCopies DEF Workers, Forms
  <1>2. ASSUME NEW i \in Request, NEW cs, NEW others \in BOOLEAN, req[i] # Idle,
                req' = [req EXCEPT ![i] = Idle], UNCHANGED form,
                Merge(req[i].user, req[i].copy, cs, others),
                cs # {} /\ ~ others => (Workers(req[i].user) \ {i}) \cup Forms(req[i].user) = {}
        PROVE  CopiesAreCurrent'
    <2>1. PICK u \in User : u = req[i].user
      BY <1>2, Shapes DEF TypeOK
    <2>2. PICK copy \in Row : copy = req[i].copy
      BY <1>2, Shapes DEF TypeOK
    <2>3. i \in Workers(u)
      BY <1>2, <2>1 DEF Workers
    <2>4. u \notin overlap => copy = row[u]
      BY <2>2, <2>3 DEF CopiesAreCurrent
    <2>5. /\ req'[i] = Idle
          /\ \A j \in Request \ {i} : req'[j] = req[j]
      BY <1>2 DEF TypeOK
    <2>6. \A v \in User :
            /\ Workers(v)' \subseteq Workers(v) \ {i} /\ Forms(v)' = Forms(v)
            /\ \A j \in Workers(v)' : req'[j] = req[j]
            /\ \A f \in Forms(v)' : form'[f] = form[f]
      BY <1>2, <2>5 DEF Workers, Forms
    <2>7. cs # {} /\ ~ others => Workers(u)' = {} /\ Forms(u)' = {}
      BY <1>2, <2>1, <2>6
    <2>8. Merge(u, copy, cs, others)
      BY <1>2, <2>1, <2>2
    <2> QED
      BY <2>4, <2>6, <2>7, <2>8, WritingKeepsCopies
  <1>3. ASSUME NEW i \in Request, Save(i) PROVE CopiesAreCurrent'
    <2>1. req[i] # Idle
      BY <1>3, Shapes DEF Save, TypeOK
    <2>2. PICK others \in BOOLEAN :
            others <=> (Workers(req[i].user) \ {i}) \cup Forms(req[i].user) # {}
      BY Zenon
    <2>3. PICK cs : cs = Changes[req[i].handler]
      OBVIOUS
    <2>4. Merge(req[i].user, req[i].copy, cs, others)
      BY <1>3, <2>2, <2>3 DEF Save, Merge
    <2> QED
      BY <1>2, <1>3, <2>1, <2>2, <2>4 DEF Save
  <1>4. ASSUME NEW i \in Request, NEW k \in Token, SetupRecovery(i, k) PROVE CopiesAreCurrent'
    <2>1. req[i] # Idle
      BY <1>4, Shapes DEF SetupRecovery, TypeOK
    <2> QED
      BY <1>2, <1>4, <2>1 DEF SetupRecovery
  <1>5. ASSUME NEW f \in Form, NEW k \in Token, OpenForm(f, k) PROVE CopiesAreCurrent'
    <2>1. PICK u \in User : u = request[k].user
      BY <1>5, Shapes DEF OpenForm, TypeOK
    <2>2. /\ form'[f].user = u /\ form'[f].copy = row[u]
          /\ \A g \in Form \ {f} : form'[g] = form[g]
      BY <1>5, <2>1 DEF OpenForm, TypeOK
    <2>3. UNCHANGED << row, set, overlap, req >>
      BY <1>5 DEF OpenForm
    <2> QED
      BY <2>2, <2>3, ReadingKeepsCopies DEF Workers, Forms
  <1>6. ASSUME NEW f \in Form, SetPassword(f) PROVE CopiesAreCurrent'
    <2>1. PICK u \in User : u = form[f].user
      BY <1>6, Shapes DEF SetPassword, TypeOK
    <2>2. PICK copy \in Row : copy = form[f].copy
      BY <1>6, Shapes DEF SetPassword, TypeOK
    <2>3. f \in Forms(u)
      BY <1>6, <2>1 DEF SetPassword, Forms
    <2>4. u \notin overlap => copy = row[u]
      BY <2>2, <2>3 DEF CopiesAreCurrent
    <2>5. /\ form'[f] = Closed /\ req' = req
          /\ \A g \in Form \ {f} : form'[g] = form[g]
      BY <1>6 DEF SetPassword, TypeOK
    <2>6. \A v \in User :
            /\ Workers(v)' = Workers(v) /\ Forms(v)' \subseteq Forms(v) \ {f}
            /\ \A i \in Workers(v)' : req'[i] = req[i]
            /\ \A g \in Forms(v)' : form'[g] = form[g]
      BY <2>5 DEF Workers, Forms
    <2>7. PICK others \in BOOLEAN : others <=> (Forms(u) \ {f}) \cup Workers(u) # {}
      BY Zenon
    <2>8. Merge(u, copy, {"password"}, others)
      BY <1>6, <2>1, <2>2, <2>7 DEF SetPassword, Merge
    <2>9. ~ others => Workers(u)' = {} /\ Forms(u)' = {}
      BY <2>6, <2>7
    <2> QED
      BY <2>4, <2>6, <2>8, <2>9, WritingKeepsCopies
  <1>7. ASSUME NEW f \in Form, CloseForm(f) PROVE CopiesAreCurrent'
    <2>1. /\ form'[f] = Closed /\ UNCHANGED << row, set, overlap, req >>
          /\ \A g \in Form \ {f} : form'[g] = form[g]
      BY <1>7 DEF CloseForm, TypeOK
    <2> QED
      BY <2>1, ReadingKeepsCopies DEF Workers, Forms
  <1>8. ASSUME UNCHANGED << row, set, overlap, req, form >> PROVE CopiesAreCurrent'
    BY <1>8, ReadingKeepsCopies DEF Workers, Forms
  <1>9. CASE Stop
    <2>1. /\ UNCHANGED << row, set, overlap >>
          /\ \A i \in Request : req'[i] = Idle
          /\ \A f \in Form : form'[f] = Closed
      BY <1>9 DEF Stop
    <2> QED
      BY <2>1, ReadingKeepsCopies DEF Workers, Forms
  <1>10. CASE PurgeScan \/ PurgeDelete \/ PurgeEnds \/ Tick \/ Start
    BY <1>8, <1>10 DEF PurgeScan, PurgeDelete, PurgeEnds, Tick, Start
  <1>11. CASE UNCHANGED vars
    BY <1>8, <1>11 DEF vars
  <1> QED
    BY <1>1, <1>3, <1>4, <1>5, <1>6, <1>7, <1>9, <1>10, <1>11 DEF Next

-----------------------------------------------------------------------------
(* The theorems.                                                           *)

LEMMA StepInv == IInv /\ [Next]_vars => IInv'
  BY StepType, StepPurge, StepCopies DEF IInv

LEMMA Invariance == Spec => []IInv
  BY InitInv, StepInv, PTL DEF Spec

\* Rows, requests, forms and the clock keep their types, the end of a validity its
\* place after the beginning.
THEOREM TypeCorrect == Spec => []TypeOK
  <1>1. IInv => TypeOK
    BY DEF IInv
  <1> QED
    BY <1>1, Invariance, PTL

\* RecoverPasswordManteinance and the web flow, which never looks at the validity:
\* a request lives as long as it is valid and at most a period longer.
THEOREM RequestsLive == Spec => []LinkLifetime
  <1>1. IInv => LinkLifetime
    <2> SUFFICES ASSUME IInv, NEW k \in Token
                 PROVE  /\ issued[k] # None /\ now <= issued[k].end => request[k] # None
                        /\ request[k] # None /\ up /\ now < due => now <= request[k].end + Period
      BY DEF LinkLifetime
    <2>1. ASSUME issued[k] # None, now <= issued[k].end PROVE request[k] # None
      <3>1. issued[k].end \in Nat /\ now \in Nat
        BY <2>1, Shapes DEF IInv, TypeOK
      <3>2. request[k] = None => issued[k].end < now
        BY <2>1 DEF IInv, RequestsAreIssued
      <3> QED
        BY <2>1, <3>1, <3>2
    <2>2. ASSUME request[k] # None, up, now < due PROVE now <= request[k].end + Period
      <3>1. request[k].end \in Nat /\ now \in Nat /\ due \in Nat
        BY <2>2, Shapes DEF IInv, TypeOK
      <3>2. purging = Resting
        BY <2>2, <3>1 DEF IInv, PurgeIsThorough
      <3>3. due <= request[k].end + Period
        BY <2>2, <3>2 DEF IInv, PurgeIsThorough
      <3> QED
        BY <2>2, <3>1, <3>3
    <2> QED
      BY <2>1, <2>2
  <1> QED
    BY <1>1, Invariance, PTL

\* The merges of gcmRegistration, postUserEdit, setupRecovery and the reset flow lose
\* nothing but what was set beside another copy of the user.
THEOREM ChangesAreKept == Spec => []ChangesKept
  <1>1. IInv => ChangesKept
    BY DEF IInv, CopiesAreCurrent, ChangesKept
  <1> QED
    BY <1>1, Invariance, PTL

===============================================================================
