-------------------------- MODULE TaskResultsProofs --------------------------
(***************************************************************************)
(* Theorems about TaskResults, for every length of the windows, any number *)
(* of worker threads, samples, uploads, acceptances and restarts.          *)
(***************************************************************************)
EXTENDS TaskResults, SequenceTheorems, FiniteSetTheorems, TLAPS

USE TaskResultsAssumption

-----------------------------------------------------------------------------
(* The inductive invariant.                                                *)

\* Nothing is dated in the future, and no look takes too long.
NothingAhead ==
  /\ {accepted, last} \subseteq Never .. now
  /\ \A s \in samples : s.taken <= s.stored /\ s.stored <= now
  /\ \A i \in Request :
       req[i].pc \in {"accepting", "reporting"} =>
         {req[i].accepted, req[i].last} \subseteq Never .. now
  /\ \A i \in Request : InLook(i) => req[i].begun <= now /\ now <= req[i].begun + LookTime

\* Windows in the table and in the handlers' hands are those of acceptances; a
\* look finds stored samples of its window.
WindowsAreAccepted ==
  /\ accepted \in accepts \cup {Never}
  /\ \A i \in Request :
       /\ req[i].pc \in {"reporting", "querying", "showing", "committing"} =>
            req[i].accepted \in accepts \cup {Never}
       /\ req[i].pc = "accepting" => req[i].accepted # Never
       /\ req[i].pc = "committing" =>
            \A s \in req[i].rows : s \in samples /\ InWindow(s, req[i].accepted)

\* The search made at the time l, or before the window a was accepted, left
\* nothing out of the result that was stored before it began.
Covers(a, l) == \A s \in samples : InWindow(s, a) /\ s.stored < l - LookTime => s \in collected

\* So it is for the window and the time in the table, for the copy of them that
\* a handler will write back, and for what a look is about to write.
SearchesCover ==
  ~ torn =>
    /\ Covers(accepted, last)
    /\ \A i \in Request :
         /\ req[i].pc \in {"accepting", "reporting"} => Covers(req[i].accepted, req[i].last)
         /\ InLook(i) => req[i].accepted = accepted
         /\ req[i].pc = "committing" =>
              \A s \in samples :
                InWindow(s, accepted) /\ s.stored < req[i].begun => s \in collected \cup req[i].rows
         /\ req[i].pc = "showing" /\ accepted # Never =>
              IF req[i].begun < FinalSearch THEN req[i].begun - last <= Recent
              ELSE last >= FinalSearch

\* An upload is stored by one thread, row after row, and attached whole.
Stores(i) == req[i].pc \in {"storing", "attaching"}

UploadsAreWhole ==
  /\ \A k \in DOMAIN uploads : uploads[k].attached \in {0, Parts}
  /\ \A i \in Request :
       /\ Stores(i) => req[i].upload \in DOMAIN uploads
       /\ req[i].pc = "storing" => uploads[req[i].upload].saved < Parts
       /\ req[i].pc = "attaching" => uploads[req[i].upload].saved = Parts
  /\ \A i, j \in Request : Stores(i) /\ Stores(j) /\ i # j => req[i].upload # req[j].upload

IInv ==
  /\ TypeOK
  /\ NothingAhead
  /\ WindowsAreAccepted
  /\ SearchesCover
  /\ UploadsAreWhole

-----------------------------------------------------------------------------
(* The initial states.                                                     *)

LEMMA InitInv == Init => IInv
<1> SUFFICES ASSUME Init PROVE IInv
  OBVIOUS
<1>1. TypeOK
  <2>1. uploads \in Seq(Upload) /\ Len(uploads) <= MaxUploads
    BY DEF Init
  <2>2. {accepted, last} \subseteq Moment /\ now \in Time
    BY DEF Init, Moment, Time
  <2>3. req \in [Request -> {Idle} \cup Uploading \cup Reporting \cup Looking]
    BY DEF Init
  <2>4. samples \subseteq Sample /\ collected \subseteq samples /\ accepts \subseteq Time
    BY DEF Init
  <2>5. {assigning, torn} \subseteq BOOLEAN
    BY Zenon DEF Init
  <2>6. crashes \in 0 .. MaxCrashes /\ broken \subseteq 1 .. MaxUploads
    BY DEF Init
  <2>7. QED
    BY <2>1, <2>2, <2>3, <2>4, <2>5, <2>6 DEF TypeOK
<1>2. NothingAhead /\ WindowsAreAccepted
  BY DEF Init, NothingAhead, WindowsAreAccepted, InLook, Never, Idle
<1>3. SearchesCover
  BY DEF Init, SearchesCover, Covers, InLook, Idle
<1>4. UploadsAreWhole
  BY DEF Init, UploadsAreWhole, Stores, Idle
<1>5. QED
  BY <1>1, <1>2, <1>3, <1>4 DEF IInv

-----------------------------------------------------------------------------
(* The kinds of steps.  Most of the proofs below have one case for each.    *)

\* A request changes: the others do not.
LEMMA GoesAlone ==
  ASSUME TypeOK, NEW i \in Request, NEW x, Goes(i, x)
  PROVE  /\ req'[i] = x
         /\ \A j \in Request : j # i => req'[j] = req[j]
BY DEF TypeOK, Goes

-----------------------------------------------------------------------------
(* Types.                                                                  *)

\* Dates are numbers.
LEMMA Numbers ==
  ASSUME TypeOK
  PROVE  /\ {now, last, accepted, FinalSearch, now + Duration} \subseteq Int
         /\ \A s \in samples : s.taken \in Int /\ s.stored \in Int
         /\ \A i \in Request : InLook(i) => req[i].begun \in Int
<1>1. now \in Int /\ last \in Int /\ accepted \in Int
  BY DEF TypeOK, Time, Moment, Never
<1>2. now + Duration \in Int /\ FinalSearch \in Int
  BY <1>1 DEF FinalSearch
<1>3. \A s \in samples : s.taken \in Time /\ s.stored \in Time
  BY DEF TypeOK, Sample
<1>4. \A s \in samples : s.taken \in Int /\ s.stored \in Int
  BY <1>3 DEF Time
<1>5. \A i \in Request : InLook(i) => req[i].begun \in Int
  BY DEF TypeOK, InLook, Uploading, Reporting, Looking, Idle, Time
<1>6. QED
  BY <1>1, <1>2, <1>4, <1>5

\* An upload that is not stored whole takes one row more.
LEMMA OneMore ==
  ASSUME NEW u \in Upload, u.saved < Parts
  PROVE  [saved |-> u.saved + 1, attached |-> u.attached] \in Upload
BY DEF Upload

LEMMA NextType ==
  ASSUME IInv, [Next]_vars
  PROVE  TypeOK'
<1> USE DEF IInv, TypeOK
<1>1. CASE Tick
  BY <1>1 DEF Tick, Time, resultVars
<1>2. ASSUME NEW taken \in Time, SubmitSample(taken)
      PROVE  TypeOK'
  <2>1. samples' \subseteq Sample
    BY <1>2 DEF SubmitSample, Sample
  <2>2. collected' \subseteq samples'
    BY <1>2 DEF SubmitSample
  <2>3. QED
    BY <1>2, <2>1, <2>2 DEF SubmitSample
<1>3. ASSUME NEW i \in Request, SubmitParts(i)
      PROVE  TypeOK'
  <2>1. uploads' \in Seq(Upload) /\ Len(uploads') = Len(uploads) + 1 /\ Len(uploads) + 1 \in 1 .. MaxUploads
    BY <1>3 DEF SubmitParts, Upload
  <2>2. req' \in [Request -> {Idle} \cup Uploading \cup Reporting \cup Looking]
    BY <1>3, <2>1 DEF SubmitParts, Goes, Uploading
  <2>3. QED
    BY <1>3, <2>1, <2>2 DEF SubmitParts
<1>4. ASSUME NEW i \in Request, StartAccept(i) \/ StartReport(i)
      PROVE  TypeOK'
  <2>1. req' \in [Request -> {Idle} \cup Uploading \cup Reporting \cup Looking]
    BY <1>4 DEF StartAccept, StartReport, Goes, Reporting, Moment
  <2>2. QED
    BY <1>4, <2>1 DEF StartAccept, StartReport, resultVars
<1>5. ASSUME NEW i \in Request, NEW force \in BOOLEAN, StartLook(i, force)
      PROVE  TypeOK'
  <2>1. req' \in [Request -> {Idle} \cup Uploading \cup Reporting \cup Looking]
    BY <1>5 DEF StartLook, Goes, Looking
  <2>2. QED
    BY <1>5, <2>1 DEF StartLook, resultVars
<1>6. ASSUME NEW i \in Request, Step(i)
      PROVE  TypeOK'
  <2>1. CASE StorePart(i)
    <3>1. req[i] \in Uploading /\ req[i].upload \in DOMAIN uploads
          /\ uploads[req[i].upload] \in Upload /\ uploads[req[i].upload].saved < Parts
      <4>1. req[i] \in Uploading
        BY <2>1 DEF StorePart, Uploading, Reporting, Looking, Idle
      <4>2. req[i].upload \in DOMAIN uploads /\ uploads[req[i].upload].saved < Parts
        BY <2>1 DEF StorePart, UploadsAreWhole, Stores
      <4>3. QED
        BY <4>1, <4>2
    <3>2. uploads' \in Seq(Upload) /\ Len(uploads') = Len(uploads)
      <4> DEFINE u == [saved |-> uploads[req[i].upload].saved + 1,
                       attached |-> uploads[req[i].upload].attached]
      <4>1. u \in Upload
        BY <3>1, OneMore
      <4>2. uploads' = [uploads EXCEPT ![req[i].upload] = u]
        BY <2>1 DEF StorePart
      <4> QED
        BY <3>1, <4>1, <4>2, ExceptSeq
    <3>3. req' \in [Request -> {Idle} \cup Uploading \cup Reporting \cup Looking]
      BY <2>1, <3>1 DEF StorePart, Goes, Uploading
    <3>4. QED
      BY <2>1, <3>2, <3>3 DEF StorePart
  <2>2. CASE AttachParts(i)
    <3>1. req[i].upload \in DOMAIN uploads /\ uploads[req[i].upload] \in Upload
      BY <2>2 DEF AttachParts, UploadsAreWhole, Stores
    <3>2. uploads' \in Seq(Upload) /\ Len(uploads') = Len(uploads)
      <4> DEFINE u == [saved |-> uploads[req[i].upload].saved,
                       attached |-> uploads[req[i].upload].saved]
      <4>1. u \in Upload
        BY <3>1 DEF Upload
      <4>2. uploads' = [uploads EXCEPT ![req[i].upload] = u]
        BY <2>2 DEF AttachParts
      <4> QED
        BY <3>1, <4>1, <4>2, ExceptSeq
    <3>3. QED
      BY <2>2, <3>2 DEF AttachParts, Goes
  <2>3. CASE SaveReport(i)
    <3>1. req[i] \in Reporting
      BY <2>3 DEF SaveReport, Uploading, Reporting, Looking, Idle
    <3>2. {accepted', last'} \subseteq Moment
      BY <2>3, <3>1 DEF SaveReport, Reporting
    <3>3. accepts' \subseteq Time
      BY <2>3, <3>1 DEF SaveReport, Reporting, WindowsAreAccepted, Moment
    <3>4. torn' \in BOOLEAN
      BY <2>3 DEF SaveReport
    <3>5. QED
      BY <2>3, <3>2, <3>3, <3>4 DEF SaveReport, Goes
  <2>4. CASE Query(i)
    <3>1. req[i] \in Looking
      BY <2>4 DEF Query, Uploading, Reporting, Looking, Idle
    <3>2. req' \in [Request -> {Idle} \cup Uploading \cup Reporting \cup Looking]
      BY <2>4, <3>1 DEF Query, Goes, Looking
    <3>3. QED
      BY <2>4, <3>2 DEF Query, resultVars
  <2>5. CASE CommitLook(i)
    <3>1. collected' \subseteq samples
      BY <2>5 DEF CommitLook, WindowsAreAccepted
    <3>2. QED
      BY <2>5, <3>1 DEF CommitLook, Goes, Moment
  <2>6. CASE FailLook(i) \/ Show(i)
    BY <2>6 DEF FailLook, Show, Goes, resultVars
  <2>7. CASE BreakUpload(i)
    <3>1. req[i].upload \in 1 .. MaxUploads
      BY <2>7 DEF BreakUpload, Uploading, Reporting, Looking, Idle
    <3>2. QED
      BY <2>7, <3>1 DEF BreakUpload, Goes
  <2>8. QED
    BY <1>6, <2>1, <2>2, <2>3, <2>4, <2>5, <2>6, <2>7 DEF Step
<1>7. CASE Crash
  <2>1. req' \in [Request -> {Idle} \cup Uploading \cup Reporting \cup Looking]
    BY <1>7 DEF Crash
  <2>2. UNCHANGED << now, samples, collected, uploads, accepted, last, accepts, torn, broken >>
        /\ assigning' = FALSE
    BY <1>7 DEF Crash, resultVars
  <2>3. crashes' \in 0 .. MaxCrashes
    BY <1>7 DEF Crash
  <2>4. QED
    BY <2>1, <2>2, <2>3
<1>8. CASE EndAssignment
  <2>1. PICK n \in Nat : n = Len(uploads) /\ n <= MaxUploads /\ DOMAIN uploads = 1 .. n
    OBVIOUS
  <2>2. \A k \in DOMAIN uploads : [saved |-> uploads[k].saved, attached |-> 0] \in Upload
    <3>1. \A k \in DOMAIN uploads : uploads[k] \in Upload
      OBVIOUS
    <3>2. \A u \in Upload : [saved |-> u.saved, attached |-> 0] \in Upload
      BY DEF Upload
    <3>3. QED
      BY <3>1, <3>2
  <2>3. uploads' \in Seq(Upload) /\ Len(uploads') = n
    <3>1. uploads' = [k \in DOMAIN uploads |-> [saved |-> uploads[k].saved, attached |-> 0]]
      BY <1>8 DEF EndAssignment
    <3>2. uploads' \in [1 .. n -> Upload] /\ n \in Nat
      BY <2>1, <2>2, <3>1
    <3>3. uploads' \in Seq(Upload)
      BY <3>2, SeqDef
    <3>4. QED
      BY <3>2, <3>3, LenProperties
  <2>4. broken' \subseteq 1 .. MaxUploads
    <3>1. DOMAIN uploads \subseteq 1 .. MaxUploads
      BY <2>1
    <3>2. broken' \subseteq broken \cup DOMAIN uploads
      BY <1>8 DEF EndAssignment
    <3>3. QED
      BY <3>1, <3>2
  <2>5. {accepted', last'} \subseteq Moment /\ collected' \subseteq samples'
    BY <1>8 DEF EndAssignment, Moment
  <2>6. {assigning', torn'} \subseteq BOOLEAN
    BY <1>8, Zenon DEF EndAssignment
  <2>7. QED
    BY <1>8, <2>1, <2>3, <2>4, <2>5, <2>6 DEF EndAssignment
<1>9. CASE UNCHANGED vars
  BY <1>9 DEF vars, resultVars
<1>10. QED
  BY <1>1, <1>2, <1>3, <1>4, <1>5, <1>6, <1>7, <1>8, <1>9 DEF Next

-----------------------------------------------------------------------------
(* Dates.                                                                  *)

\* A handler that does not take a report in hand leaves the others' alone.
LEMMA HandsStay ==
  ASSUME TypeOK, NEW i \in Request, NEW x, Goes(i, x), x.pc \notin {"accepting", "reporting"},
         UNCHANGED << now, samples, accepted >>, last' \in {last, now}, NothingAhead,
         x.pc \in {"querying", "showing", "committing"} =>
           x.begun <= now /\ now <= x.begun + LookTime
  PROVE  NothingAhead'
<1>1. \A j \in Request : j # i => req'[j] = req[j]
  BY GoesAlone
<1>2. req'[i] = x
  BY GoesAlone
<1>3. now \in Int /\ now >= 0
  BY DEF TypeOK, Time
<1>4. {accepted', last'} \subseteq Never .. now'
  BY <1>3 DEF NothingAhead, Never
<1>5. ASSUME NEW j \in Request, req'[j].pc \in {"accepting", "reporting"}
      PROVE  {req'[j].accepted, req'[j].last} \subseteq Never .. now'
  BY <1>1, <1>2, <1>5 DEF NothingAhead
<1>6. \A s \in samples' : s.taken <= s.stored /\ s.stored <= now'
  BY DEF NothingAhead
<1>7. ASSUME NEW j \in Request, InLook(j)'
      PROVE  req'[j].begun <= now' /\ now' <= req'[j].begun + LookTime
  BY <1>1, <1>2, <1>7 DEF NothingAhead, InLook
<1>8. QED
  BY <1>4, <1>5, <1>6, <1>7 DEF NothingAhead

LEMMA NextAhead ==
  ASSUME IInv, [Next]_vars
  PROVE  NothingAhead'
<1> USE DEF IInv
<1>1. CASE Tick
  <2>1. now \in Int /\ now' = now + 1 /\ samples \subseteq Sample
    BY <1>1 DEF Tick, TypeOK, Time
  <2>2. \A s \in samples : s.taken \in Int /\ s.stored \in Int
    BY <2>1 DEF Sample, Time
  <2>3. ASSUME NEW i \in Request, InLook(i)
        PROVE  req[i].begun <= now' /\ now' <= req[i].begun + LookTime
    <3>1. req[i].begun \in Int /\ req[i].begun <= now
      BY <2>3, Numbers DEF NothingAhead
    <3>2. now < req[i].begun + LookTime
      BY <1>1, <2>3 DEF Tick
    <3>3. QED
      BY <2>1, <3>1, <3>2
  <2>4. QED
    BY <1>1, <2>1, <2>2, <2>3 DEF Tick, resultVars, NothingAhead, InLook, Never
<1>2. ASSUME NEW taken \in Time, SubmitSample(taken)
      PROVE  NothingAhead'
  BY <1>2 DEF SubmitSample, NothingAhead, TypeOK, Time, InLook
<1>3. ASSUME NEW i \in Request, SubmitParts(i)
      PROVE  NothingAhead'
  BY <1>3, HandsStay DEF SubmitParts
<1>4. ASSUME NEW i \in Request, StartAccept(i) \/ StartReport(i)
      PROVE  NothingAhead'
  <2>1. PICK x : /\ Goes(i, x)
                 /\ {x.accepted, x.last} \subseteq Never .. now
    <3>1. now \in Never .. now
      BY DEF TypeOK, Time, Never
    <3>2. CASE StartAccept(i)
      BY <3>1, <3>2 DEF StartAccept, NothingAhead
    <3>3. CASE StartReport(i)
      BY <3>3 DEF StartReport, NothingAhead
    <3>4. QED
      BY <1>4, <3>2, <3>3
  <2>2. req'[i] = x /\ \A j \in Request : j # i => req'[j] = req[j]
    BY <2>1, GoesAlone
  <2>3. ~ InLook(i)'
    BY <1>4, <2>2, GoesAlone DEF StartAccept, StartReport, InLook
  <2>4. \A j \in Request : InLook(j)' => InLook(j) /\ req'[j] = req[j]
    BY <2>2, <2>3 DEF InLook
  <2>5. QED
    BY <1>4, <2>1, <2>2, <2>4 DEF StartAccept, StartReport, resultVars, NothingAhead
<1>5. ASSUME NEW i \in Request, NEW force \in BOOLEAN, StartLook(i, force)
      PROVE  NothingAhead'
  <2>1. PICK x : /\ Goes(i, x)
                 /\ x.pc \in {"querying", "showing"}
                 /\ x.begun = now
    BY <1>5 DEF StartLook
  <2>2. now <= now /\ now <= now + LookTime
    BY DEF TypeOK, Time
  <2>3. UNCHANGED << now, samples, accepted, last >>
    BY <1>5 DEF StartLook, resultVars
  <2>4. QED
    BY <2>1, <2>2, <2>3, HandsStay
<1>6. ASSUME NEW i \in Request, Step(i)
      PROVE  NothingAhead'
  <2>1. CASE StorePart(i)
    <3>1. PICK x : Goes(i, x) /\ x.pc \in {"storing", "attaching"}
      BY <2>1 DEF StorePart
    <3>2. QED
      BY <2>1, <3>1, HandsStay DEF StorePart
  <2>2. CASE SaveReport(i)
    <3>1. {accepted', last'} \subseteq Never .. now
      BY <2>2 DEF SaveReport, NothingAhead
    <3>2. req'[i] = Idle /\ \A j \in Request : j # i => req'[j] = req[j]
      BY <2>2, GoesAlone DEF SaveReport
    <3>3. QED
      BY <2>2, <3>1, <3>2 DEF SaveReport, NothingAhead, InLook, Idle
  <2>3. CASE AttachParts(i)
    BY <2>3, HandsStay DEF AttachParts, Idle
  <2>4. CASE Query(i)
    BY <2>4, HandsStay DEF Query, resultVars, NothingAhead, InLook
  <2>5. CASE CommitLook(i)
    BY <2>5, HandsStay DEF CommitLook, Idle
  <2>6. CASE FailLook(i)
    BY <2>6, HandsStay DEF FailLook, resultVars, Idle
  <2>7. CASE Show(i)
    BY <2>7, HandsStay DEF Show, resultVars, Idle
  <2>8. CASE BreakUpload(i)
    BY <2>8, HandsStay DEF BreakUpload, Idle
  <2>9. QED
    BY <1>6, <2>1, <2>2, <2>3, <2>4, <2>5, <2>6, <2>7, <2>8 DEF Step
<1>7. CASE Crash
  BY <1>7 DEF Crash, resultVars, NothingAhead, InLook, Idle
<1>8. CASE EndAssignment
  BY <1>8 DEF EndAssignment, NothingAhead, InLook, TypeOK, Time, Never
<1>9. CASE UNCHANGED vars
  BY <1>9 DEF vars, resultVars, NothingAhead, InLook
<1>10. QED
  BY <1>1, <1>2, <1>3, <1>4, <1>5, <1>6, <1>7, <1>8, <1>9 DEF Next

-----------------------------------------------------------------------------
(* Windows.                                                                *)

LEMMA NextWindows ==
  ASSUME IInv, [Next]_vars
  PROVE  WindowsAreAccepted'
<1> USE DEF IInv
<1>1. CASE Tick
  BY <1>1 DEF Tick, resultVars, WindowsAreAccepted, InWindow
<1>2. ASSUME NEW taken \in Time, SubmitSample(taken)
      PROVE  WindowsAreAccepted'
  BY <1>2 DEF SubmitSample, WindowsAreAccepted, InWindow
<1>3. ASSUME NEW i \in Request, NEW x, Goes(i, x), UNCHANGED << samples, accepted, accepts >>,
             x.pc \notin {"reporting", "querying", "showing", "committing"},
             x.pc = "accepting" => x.accepted # Never
      PROVE  WindowsAreAccepted'
  <2>1. req'[i] = x /\ \A j \in Request : j # i => req'[j] = req[j]
    BY <1>3, GoesAlone
  <2>2. QED
    BY <1>3, <2>1 DEF WindowsAreAccepted, InWindow
<1>4. ASSUME NEW i \in Request, NEW x, Goes(i, x), UNCHANGED << samples, accepted, accepts >>,
             x.pc \in {"reporting", "querying", "showing"}, x.accepted = accepted
      PROVE  WindowsAreAccepted'
  <2>1. req'[i] = x /\ \A j \in Request : j # i => req'[j] = req[j]
    BY <1>4, GoesAlone
  <2>2. QED
    BY <1>4, <2>1 DEF WindowsAreAccepted, InWindow
<1>5. ASSUME NEW i \in Request, SubmitParts(i)
      PROVE  WindowsAreAccepted'
  BY <1>5, <1>3 DEF SubmitParts
<1>6. ASSUME NEW i \in Request, StartAccept(i)
      PROVE  WindowsAreAccepted'
  BY <1>6, <1>3 DEF StartAccept, resultVars, TypeOK, Time, Never
<1>7. ASSUME NEW i \in Request, StartReport(i)
      PROVE  WindowsAreAccepted'
  BY <1>7, <1>4 DEF StartReport, resultVars
<1>8. ASSUME NEW i \in Request, NEW force \in BOOLEAN, StartLook(i, force)
      PROVE  WindowsAreAccepted'
  BY <1>8, <1>4 DEF StartLook, resultVars
<1>9. ASSUME NEW i \in Request, Step(i)
      PROVE  WindowsAreAccepted'
  <2>1. CASE StorePart(i)
    <3>1. PICK x : Goes(i, x) /\ x.pc \in {"storing", "attaching"}
      BY <2>1 DEF StorePart
    <3>2. QED
      BY <2>1, <3>1, <1>3 DEF StorePart
  <2>2. CASE SaveReport(i)
    <3>1. accepted' \in accepts' \cup {Never} /\ accepts \subseteq accepts'
      BY <2>2 DEF SaveReport, WindowsAreAccepted
    <3>2. req'[i] = Idle /\ \A j \in Request : j # i => req'[j] = req[j]
      BY <2>2, GoesAlone DEF SaveReport
    <3>3. QED
      BY <2>2, <3>1, <3>2 DEF SaveReport, WindowsAreAccepted, InWindow, Idle
  <2>3. CASE Query(i)
    <3>1. PICK x : /\ Goes(i, x)
                   /\ x.pc = "committing"
                   /\ x.accepted = req[i].accepted
                   /\ x.rows = { s \in samples \ collected : InWindow(s, req[i].accepted) }
      BY <2>3 DEF Query
    <3>2. req'[i] = x /\ \A j \in Request : j # i => req'[j] = req[j]
      BY <3>1, GoesAlone
    <3>3. req[i].accepted \in accepts \cup {Never}
      BY <2>3 DEF Query, WindowsAreAccepted
    <3>4. QED
      BY <2>3, <3>1, <3>2, <3>3 DEF Query, resultVars, WindowsAreAccepted, InWindow
  <2>4. CASE AttachParts(i)
    BY <2>4, <1>3 DEF AttachParts, Idle
  <2>5. CASE CommitLook(i)
    BY <2>5, <1>3 DEF CommitLook, Idle
  <2>6. CASE FailLook(i)
    BY <2>6, <1>3 DEF FailLook, resultVars, Idle
  <2>7. CASE Show(i)
    BY <2>7, <1>3 DEF Show, resultVars, Idle
  <2>8. CASE BreakUpload(i)
    BY <2>8, <1>3 DEF BreakUpload, Idle
  <2>9. QED
    BY <1>9, <2>1, <2>2, <2>3, <2>4, <2>5, <2>6, <2>7, <2>8 DEF Step
<1>10. CASE Crash
  BY <1>10 DEF Crash, resultVars, WindowsAreAccepted, Idle
<1>11. CASE UNCHANGED vars
  BY <1>11 DEF vars, resultVars, WindowsAreAccepted, InWindow
<1>12. CASE EndAssignment
  BY <1>12 DEF EndAssignment, WindowsAreAccepted, InWindow
<1>13. QED
  BY <1>1, <1>2, <1>5, <1>6, <1>7, <1>8, <1>9, <1>10, <1>11, <1>12 DEF Next

-----------------------------------------------------------------------------
(* Searches.                                                               *)

\* A worker that neither holds a report nor looks.
LEMMA CoverStays ==
  ASSUME IInv, NEW i \in Request, NEW x, Goes(i, x),
         x.pc \notin {"accepting", "reporting", "querying", "showing", "committing"},
         UNCHANGED << now, samples, collected, accepted, last, torn >>
  PROVE  SearchesCover'
<1>1. req'[i] = x /\ \A j \in Request : j # i => req'[j] = req[j]
  BY GoesAlone DEF IInv
<1>2. QED
  BY <1>1 DEF IInv, SearchesCover, Covers, InWindow, InLook, FinalSearch

\* Nothing taken after the acceptance a was stored before it.
LEMMA AcceptanceCovers ==
  ASSUME IInv
  PROVE  Covers(now, last)
<1> SUFFICES ASSUME NEW s \in samples, InWindow(s, now), s.stored < last - LookTime
             PROVE  FALSE
  BY DEF Covers
<1>1. now \in Int /\ last \in Int /\ s.taken \in Int /\ s.stored \in Int /\ now + Duration \in Int
  BY Numbers DEF IInv
<1>2. now <= s.taken /\ s.taken <= s.stored /\ last <= now
  BY <1>1 DEF IInv, NothingAhead, InWindow
<1>3. QED
  BY <1>1, <1>2

\* A worker that loads a report holds a window and a search that go together.
LEMMA LoadCovers ==
  ASSUME IInv, NEW i \in Request, StartAccept(i) \/ StartReport(i)
  PROVE  SearchesCover'
<1>1. PICK x : /\ Goes(i, x)
               /\ x.pc \in {"accepting", "reporting"}
               /\ ~ torn => Covers(x.accepted, x.last)
  <2>1. CASE StartAccept(i)
    BY <2>1, AcceptanceCovers DEF StartAccept
  <2>2. CASE StartReport(i)
    BY <2>2 DEF StartReport, IInv, SearchesCover
  <2>3. QED
    BY <2>1, <2>2
<1>2. req'[i] = x /\ \A j \in Request : j # i => req'[j] = req[j]
  BY <1>1, GoesAlone DEF IInv
<1>3. UNCHANGED << now, samples, collected, accepted, last, torn >>
  BY DEF StartAccept, StartReport, resultVars
<1>4. QED
  BY <1>1, <1>2, <1>3
     DEF IInv, SearchesCover, Covers, InWindow, InLook, FinalSearch

LEMMA LookCovers ==
  ASSUME IInv, NEW i \in Request, NEW force \in BOOLEAN, StartLook(i, force)
  PROVE  SearchesCover'
<1>1. PICK x : /\ Goes(i, x)
               /\ x.accepted = accepted /\ x.begun = now
               /\ x.pc \in {"querying", "showing"}
               /\ x.pc = "showing" => ~ HasToUpdate(force)
  BY DEF StartLook
<1>2. req'[i] = x /\ \A j \in Request : j # i => req'[j] = req[j]
  BY <1>1, GoesAlone DEF IInv
<1>3. ~ HasToUpdate(force) /\ accepted # Never =>
        IF now < FinalSearch THEN now - last <= Recent ELSE last >= FinalSearch
  <2>1. now \in Int /\ last \in Int /\ accepted \in Int
    BY DEF IInv, TypeOK, Time, Moment, Never
  <2>2. FinalSearch \in Int
    BY <2>1 DEF FinalSearch
  <2>3. QED
    BY <2>1, <2>2 DEF HasToUpdate, IsRecent
<1>4. UNCHANGED << now, samples, collected, accepted, last, torn >>
  BY DEF StartLook, resultVars
<1>5. QED
  BY <1>1, <1>2, <1>3, <1>4
     DEF IInv, SearchesCover, Covers, InWindow, InLook, FinalSearch

LEMMA SaveCovers ==
  ASSUME IInv, NEW i \in Request, SaveReport(i)
  PROVE  SearchesCover'
<1> SUFFICES ASSUME ~ torn' PROVE SearchesCover'
  BY DEF SearchesCover
<1>1. ~ torn /\ \A j \in Request : ~ InLook(j)
  BY DEF SaveReport
<1>2. req'[i] = Idle /\ \A j \in Request : j # i => req'[j] = req[j]
  BY GoesAlone DEF IInv, SaveReport
<1>3. Covers(req[i].accepted, req[i].last)
  BY <1>1 DEF IInv, SearchesCover, SaveReport
<1>4. Covers(accepted, last)'
  BY <1>3 DEF SaveReport, Covers, InWindow
<1>5. \A j \in Request : ~ InLook(j)'
  BY <1>1, <1>2 DEF InLook, Idle
<1>6. ASSUME NEW j \in Request, req'[j].pc \in {"accepting", "reporting"}
      PROVE  Covers(req[j].accepted, req[j].last)'
  BY <1>1, <1>2, <1>6 DEF IInv, SearchesCover, SaveReport, Covers, InWindow, Idle
<1>7. QED
  BY <1>4, <1>5, <1>6 DEF SearchesCover, InLook, SaveReport

LEMMA QueryCovers ==
  ASSUME IInv, NEW i \in Request, Query(i)
  PROVE  SearchesCover'
<1>1. PICK x : /\ Goes(i, x)
               /\ x.pc = "committing"
               /\ x.accepted = req[i].accepted /\ x.begun = req[i].begun
               /\ x.rows = { s \in samples \ collected : InWindow(s, req[i].accepted) }
  BY DEF Query
<1>2. req'[i] = x /\ \A j \in Request : j # i => req'[j] = req[j]
  BY <1>1, GoesAlone DEF IInv
<1>3. InLook(i)
  BY DEF Query, InLook
<1>4. UNCHANGED << now, samples, collected, accepted, last, torn >>
  BY DEF Query, resultVars
<1>5. QED
  BY <1>1, <1>2, <1>3, <1>4
     DEF IInv, SearchesCover, Covers, InWindow, InLook, FinalSearch

LEMMA CommitCovers ==
  ASSUME IInv, NEW i \in Request, CommitLook(i)
  PROVE  SearchesCover'
<1> SUFFICES ASSUME ~ torn PROVE SearchesCover'
  BY DEF SearchesCover, CommitLook
<1>1. req'[i] = Idle /\ \A j \in Request : j # i => req'[j] = req[j]
  BY GoesAlone DEF IInv, CommitLook
<1>2. UNCHANGED << now, samples, accepted, torn >> /\ last' = now
      /\ collected' = collected \cup req[i].rows
  BY DEF CommitLook
<1>3. Covers(accepted, last)'
  <2>1. InLook(i) /\ req[i].pc = "committing" /\ req[i].accepted = accepted
    BY DEF CommitLook, IInv, SearchesCover, InLook
  <2>2. SUFFICES ASSUME NEW s \in samples, InWindow(s, accepted), s.stored < now - LookTime
                 PROVE  s \in collected'
    BY <1>2 DEF Covers, InWindow
  <2>3. s.stored < req[i].begun
    BY <2>1, <2>2, Numbers DEF IInv, NothingAhead
  <2>4. QED
    BY <1>2, <2>1, <2>2, <2>3 DEF IInv, SearchesCover
<1>4. ASSUME NEW j \in Request, InLook(j)
      PROVE  IF req[j].begun < FinalSearch THEN req[j].begun - last' <= Recent
             ELSE last' >= FinalSearch
  <2>1. {now, FinalSearch, req[j].begun} \subseteq Int /\ req[j].begun <= now
    BY <1>4, Numbers DEF IInv, NothingAhead
  <2>2. QED
    BY <1>2, <2>1
<1>5. QED
  BY <1>1, <1>2, <1>3, <1>4
     DEF IInv, SearchesCover, Covers, InWindow, InLook, FinalSearch, Idle

LEMMA NextCover ==
  ASSUME IInv, [Next]_vars
  PROVE  SearchesCover'
<1>1. CASE Tick
  BY <1>1 DEF Tick, resultVars, IInv, SearchesCover, Covers, InWindow, InLook, FinalSearch
<1>2. ASSUME NEW taken \in Time, SubmitSample(taken)
      PROVE  SearchesCover'
  <2>1. PICK s : samples' = samples \cup {s} /\ s.stored = now
    <3>1. /\ samples' = samples \cup {[taken |-> taken, stored |-> now]}
          /\ [taken |-> taken, stored |-> now].stored = now
      BY <1>2 DEF SubmitSample
    <3>2. QED
      BY <3>1, Zenon
  <2>2. now \in Int /\ last \in Int /\ last <= now
    BY DEF IInv, TypeOK, Time, Moment, Never, NothingAhead
  <2>3. \A a, l : l \in Never .. now /\ Covers(a, l) => Covers(a, l)'
    BY <1>2, <2>1, <2>2 DEF SubmitSample, Covers, InWindow, Never
  <2>4. UNCHANGED << now, collected, accepted, last, torn, req >>
    BY <1>2 DEF SubmitSample
  <2>5. Covers(accepted, last) => Covers(accepted, last)'
    BY <2>3, <2>4 DEF IInv, NothingAhead
  <2>6. \A j \in Request :
          req[j].pc \in {"accepting", "reporting"} /\ Covers(req[j].accepted, req[j].last)
            => Covers(req[j].accepted, req[j].last)'
    BY <2>3, <2>4 DEF IInv, NothingAhead
  <2>7. \A j \in Request : InLook(j) => ~ (s.stored < req[j].begun)
    BY <2>1, <2>2, Numbers DEF IInv, NothingAhead
  <2>8. QED
    BY <2>1, <2>4, <2>5, <2>6, <2>7
       DEF IInv, SearchesCover, InWindow, InLook, FinalSearch
<1>3. ASSUME NEW i \in Request, SubmitParts(i)
      PROVE  SearchesCover'
  BY <1>3, CoverStays DEF SubmitParts
<1>4. ASSUME NEW i \in Request, Step(i)
      PROVE  SearchesCover'
  <2>1. CASE StorePart(i)
    <3>1. PICK x : Goes(i, x) /\ x.pc \in {"storing", "attaching"}
      BY <2>1 DEF StorePart
    <3>2. QED
      BY <2>1, <3>1, CoverStays DEF StorePart
  <2>2. CASE AttachParts(i)
    BY <2>2, CoverStays DEF AttachParts, Idle
  <2>3. CASE FailLook(i)
    BY <2>3, CoverStays DEF FailLook, resultVars, Idle
  <2>4. CASE Show(i)
    BY <2>4, CoverStays DEF Show, resultVars, Idle
  <2>5. CASE BreakUpload(i)
    BY <2>5, CoverStays DEF BreakUpload, Idle
  <2>6. QED
    BY <1>4, <2>1, <2>2, <2>3, <2>4, <2>5, SaveCovers, QueryCovers, CommitCovers DEF Step
<1>5. CASE Crash
  BY <1>5 DEF Crash, resultVars, IInv, SearchesCover, Covers, InWindow, InLook, Idle
<1>6. CASE EndAssignment
  BY <1>6 DEF EndAssignment, SearchesCover, Covers, InWindow, InLook, InHand
<1>7. CASE UNCHANGED vars
  BY <1>7 DEF vars, resultVars, IInv, SearchesCover, Covers, InWindow, InLook, FinalSearch
<1>8. QED
  BY <1>1, <1>2, <1>3, <1>4, <1>5, <1>6, <1>7, LoadCovers, LookCovers DEF Next

-----------------------------------------------------------------------------
(* Uploads.                                                                *)

LEMMA NextUploads ==
  ASSUME IInv, [Next]_vars
  PROVE  UploadsAreWhole'
<1>1. ASSUME UNCHANGED << uploads, req >>
      PROVE  UploadsAreWhole'
  BY <1>1 DEF IInv, UploadsAreWhole, Stores
<1>2. ASSUME NEW i \in Request, NEW x, Goes(i, x), x.pc \notin {"storing", "attaching"},
             uploads' = uploads
      PROVE  UploadsAreWhole'
  <2>1. req'[i] = x /\ \A j \in Request : j # i => req'[j] = req[j]
    BY <1>2, GoesAlone DEF IInv
  <2>2. QED
    BY <1>2, <2>1 DEF IInv, UploadsAreWhole, Stores
<1>3. ASSUME NEW i \in Request, SubmitParts(i)
      PROVE  UploadsAreWhole'
  <2>1. PICK n \in Nat : n = Len(uploads) /\ DOMAIN uploads = 1 .. n
    BY DEF IInv, TypeOK
  <2>2. /\ DOMAIN uploads' = 1 .. n + 1
        /\ uploads'[n + 1] = [saved |-> 0, attached |-> 0]
        /\ \A k \in 1 .. n : uploads'[k] = uploads[k]
    BY <1>3, <2>1 DEF SubmitParts, IInv, TypeOK
  <2>3. req'[i] = [pc |-> "storing", upload |-> n + 1]
        /\ \A j \in Request : j # i => req'[j] = req[j]
    BY <1>3, <2>1, GoesAlone DEF SubmitParts, IInv
  <2>4. \A k \in DOMAIN uploads' : uploads'[k].attached \in {0, Parts}
    BY <2>1, <2>2 DEF IInv, UploadsAreWhole
  <2>5. ASSUME NEW j \in Request
        PROVE  /\ Stores(j)' => req'[j].upload \in DOMAIN uploads'
               /\ req'[j].pc = "storing" => uploads'[req'[j].upload].saved < Parts
               /\ req'[j].pc = "attaching" => uploads'[req'[j].upload].saved = Parts
    <3>1. CASE j = i
      BY <3>1, <2>1, <2>2, <2>3
    <3>2. CASE j # i
      <4>1. Stores(j) => req[j].upload \in 1 .. n
        BY <2>1 DEF IInv, UploadsAreWhole
      <4>2. req'[j] = req[j]
        BY <3>2, <2>3
      <4>3. Stores(j) => /\ req[j].upload \in DOMAIN uploads'
                         /\ uploads'[req[j].upload] = uploads[req[j].upload]
        BY <4>1, <2>1, <2>2
      <4>4. QED
        BY <4>2, <4>3 DEF IInv, UploadsAreWhole, Stores
    <3>3. QED
      BY <3>1, <3>2
  <2>6. ASSUME NEW j \in Request, NEW k \in Request, Stores(j)', Stores(k)', j # k
        PROVE  req'[j].upload # req'[k].upload
    <3>1. \A l \in Request : Stores(l) => req[l].upload \in 1 .. n
      BY <2>1 DEF IInv, UploadsAreWhole
    <3>2. n + 1 \notin 1 .. n
      BY <2>1
    <3>3. CASE j = i
      BY <3>1, <3>2, <3>3, <2>3, <2>6 DEF Stores
    <3>4. CASE k = i
      BY <3>1, <3>2, <3>4, <2>3, <2>6 DEF Stores
    <3>5. CASE j # i /\ k # i
      BY <3>5, <2>3, <2>6 DEF IInv, UploadsAreWhole, Stores
    <3>6. QED
      BY <3>3, <3>4, <3>5
  <2>7. QED
    BY <2>4, <2>5, <2>6 DEF UploadsAreWhole
<1>4. ASSUME NEW i \in Request, StorePart(i)
      PROVE  UploadsAreWhole'
  <2>1. PICK k : k = req[i].upload
    OBVIOUS
  <2>2. k \in DOMAIN uploads /\ uploads[k] \in Upload /\ uploads[k].saved < Parts
    BY <1>4, <2>1 DEF StorePart, IInv, TypeOK, UploadsAreWhole, Stores
  <2>3. /\ DOMAIN uploads' = DOMAIN uploads
        /\ uploads'[k].saved = uploads[k].saved + 1
        /\ uploads'[k].attached = uploads[k].attached
        /\ \A l \in DOMAIN uploads : l # k => uploads'[l] = uploads[l]
    BY <1>4, <2>1, <2>2 DEF StorePart, IInv, TypeOK
  <2>4. /\ req'[i] = IF uploads'[k].saved = Parts
                       THEN [pc |-> "attaching", upload |-> k] ELSE req[i]
        /\ \A j \in Request : j # i => req'[j] = req[j]
    BY <1>4, <2>1, GoesAlone DEF StorePart, IInv
  <2>5. uploads[k].saved + 1 # Parts => uploads[k].saved + 1 < Parts
    BY <2>2 DEF Upload
  <2>6. req[i].pc = "storing"
    BY <1>4 DEF StorePart
  <2>7. \A l \in DOMAIN uploads' : uploads'[l].attached \in {0, Parts}
    BY <2>2, <2>3 DEF IInv, UploadsAreWhole
  <2>8. \A j \in Request : j # i /\ Stores(j) => req[j].upload # k
    BY <2>1, <2>6 DEF IInv, UploadsAreWhole, Stores
  <2>9. ASSUME NEW j \in Request
        PROVE  /\ Stores(j)' => req'[j].upload \in DOMAIN uploads'
               /\ req'[j].pc = "storing" => uploads'[req'[j].upload].saved < Parts
               /\ req'[j].pc = "attaching" => uploads'[req'[j].upload].saved = Parts
    <3>1. CASE j = i
      BY <3>1, <2>1, <2>2, <2>3, <2>4, <2>5, <2>6
    <3>2. CASE j # i
      BY <3>2, <2>3, <2>4, <2>8 DEF IInv, UploadsAreWhole, Stores
    <3>3. QED
      BY <3>1, <3>2
  <2>10. \A j \in Request : Stores(j)' => Stores(j) /\ req'[j].upload = req[j].upload
    BY <2>1, <2>4, <2>6 DEF Stores
  <2>11. QED
    BY <2>7, <2>9, <2>10 DEF IInv, UploadsAreWhole
<1>5. ASSUME NEW i \in Request, AttachParts(i)
      PROVE  UploadsAreWhole'
  <2>1. PICK k : k = req[i].upload
    OBVIOUS
  <2>2. k \in DOMAIN uploads /\ uploads[k].saved = Parts
    BY <1>5, <2>1 DEF AttachParts, IInv, UploadsAreWhole, Stores
  <2>3. /\ DOMAIN uploads' = DOMAIN uploads
        /\ uploads'[k].saved = Parts
        /\ uploads'[k].attached = Parts
        /\ \A l \in DOMAIN uploads : l # k => uploads'[l] = uploads[l]
    BY <1>5, <2>1, <2>2 DEF AttachParts, IInv, TypeOK
  <2>4. req'[i] = Idle /\ \A j \in Request : j # i => req'[j] = req[j]
    BY <1>5, GoesAlone DEF AttachParts, IInv
  <2>5. \A j \in Request : j # i /\ Stores(j) => req[j].upload # k
    BY <1>5, <2>1 DEF AttachParts, IInv, UploadsAreWhole, Stores
  <2>6. \A l \in DOMAIN uploads' : uploads'[l].attached \in {0, Parts}
    BY <2>2, <2>3 DEF IInv, UploadsAreWhole
  <2>7. \A j \in Request : Stores(j)' => j # i /\ Stores(j) /\ req'[j] = req[j]
    BY <2>4 DEF Stores, Idle
  <2>8. ASSUME NEW j \in Request
        PROVE  /\ Stores(j)' => req'[j].upload \in DOMAIN uploads'
               /\ req'[j].pc = "storing" => uploads'[req'[j].upload].saved < Parts
               /\ req'[j].pc = "attaching" => uploads'[req'[j].upload].saved = Parts
    BY <2>3, <2>5, <2>7 DEF IInv, UploadsAreWhole, Stores
  <2>9. QED
    BY <2>6, <2>7, <2>8 DEF IInv, UploadsAreWhole
<1>6. ASSUME NEW i \in Request, StartAccept(i) \/ StartReport(i)
      PROVE  UploadsAreWhole'
  BY <1>6, <1>2 DEF StartAccept, StartReport, resultVars
<1>7. ASSUME NEW i \in Request, NEW force \in BOOLEAN, StartLook(i, force)
      PROVE  UploadsAreWhole'
  BY <1>7, <1>2 DEF StartLook, resultVars
<1>8. ASSUME NEW i \in Request, Step(i)
      PROVE  UploadsAreWhole'
  <2>1. CASE SaveReport(i)
    BY <2>1, <1>2 DEF SaveReport, Idle
  <2>2. CASE Query(i)
    BY <2>2, <1>2 DEF Query, resultVars
  <2>3. CASE CommitLook(i)
    BY <2>3, <1>2 DEF CommitLook, Idle
  <2>4. CASE FailLook(i) \/ Show(i)
    BY <2>4, <1>2 DEF FailLook, Show, resultVars, Idle
  <2>5. CASE BreakUpload(i)
    BY <2>5, <1>2 DEF BreakUpload, Idle
  <2>6. QED
    BY <1>4, <1>5, <1>8, <2>1, <2>2, <2>3, <2>4, <2>5 DEF Step
<1>9. CASE Crash
  BY <1>9 DEF Crash, resultVars, IInv, UploadsAreWhole, Stores, Idle
<1>10. CASE Tick
  BY <1>10, <1>1 DEF Tick, resultVars
<1>11. ASSUME NEW taken \in Time, SubmitSample(taken)
       PROVE  UploadsAreWhole'
  BY <1>11, <1>1 DEF SubmitSample
<1>12. CASE UNCHANGED vars
  BY <1>12, <1>1 DEF vars, resultVars
<1>13. CASE EndAssignment
  <2>1. /\ req' = req /\ DOMAIN uploads' = DOMAIN uploads
        /\ \A k \in DOMAIN uploads : uploads'[k] = [saved |-> uploads[k].saved, attached |-> 0]
    BY <1>13 DEF EndAssignment
  <2>2. QED
    BY <2>1 DEF IInv, UploadsAreWhole, Stores
<1>14. QED
  BY <1>3, <1>6, <1>7, <1>8, <1>9, <1>10, <1>11, <1>12, <1>13 DEF Next

-----------------------------------------------------------------------------
(* The theorems.                                                           *)

THEOREM Invariant == Spec => []IInv
<1>1. IInv /\ [Next]_vars => IInv'
  BY NextType, NextAhead, NextWindows, NextCover, NextUploads DEF IInv
<1>2. QED
  BY InitInv, <1>1, PTL DEF Spec

\* Every variable keeps its type, a row of data saved too many included.
THEOREM TypeCorrect == Spec => []TypeOK
<1>1. IInv => TypeOK
  BY DEF IInv
<1>2. QED
  BY Invariant, <1>1, PTL

\* Every sample gets into a result inside the window of an acceptance that was
\* saved, whatever windows are written back from copies.
LEMMA NextAccepted ==
  ASSUME IInv, OnlyAccepted, [Next]_vars
  PROVE  OnlyAccepted'
<1>1. accepts \subseteq accepts'
  <2>1. ASSUME NEW i \in Request, Step(i)
        PROVE  accepts \subseteq accepts'
    BY <2>1 DEF Step, StorePart, AttachParts, BreakUpload, SaveReport, Query, CommitLook,
                FailLook, Show, resultVars
  <2>2. QED
    BY <2>1 DEF Next, vars, resultVars, Tick, EndAssignment, SubmitSample, SubmitParts,
                StartAccept, StartReport, StartLook, Crash
<1>2. ASSUME NEW i \in Request, CommitLook(i)
      PROVE  OnlyAccepted'
  <2>1. \A s \in req[i].rows : InWindow(s, req[i].accepted)
    BY <1>2 DEF CommitLook, IInv, WindowsAreAccepted
  <2>2. req[i].accepted \in accepts \cup {Never}
    BY <1>2 DEF CommitLook, IInv, WindowsAreAccepted
  <2>3. collected' = collected \cup req[i].rows /\ accepts' = accepts
    BY <1>2 DEF CommitLook
  <2>4. QED
    BY <2>1, <2>2, <2>3 DEF OnlyAccepted, InWindow
<1>3. CASE collected' \subseteq collected
  BY <1>1, <1>3 DEF OnlyAccepted
<1>4. collected' \subseteq collected \/ \E i \in Request : CommitLook(i)
  <2>1. ASSUME NEW i \in Request, Step(i)
        PROVE  collected' = collected \/ CommitLook(i)
    BY <2>1 DEF Step, StorePart, AttachParts, BreakUpload, SaveReport, Query, FailLook,
                Show, resultVars
  <2>2. QED
    BY <2>1 DEF Next, vars, resultVars, Tick, EndAssignment, SubmitSample, SubmitParts,
                StartAccept, StartReport, StartLook, Crash
<1>5. QED
  BY <1>2, <1>3, <1>4

\* A result holds only samples that were taken while an acceptance was valid.
THEOREM ResultsAreAccepted == Spec => []OnlyAccepted
<1>1. Init => OnlyAccepted
  BY DEF Init, OnlyAccepted
<1>2. IInv /\ OnlyAccepted /\ [Next]_vars => OnlyAccepted'
  BY NextAccepted
<1>3. QED
  BY Invariant, <1>1, <1>2, PTL DEF Spec

\* A look that ends shows what the search before it, or its own, must have found.
LEMMA LookIsRecent ==
  ASSUME IInv, NEW i \in Request, CommitLook(i) \/ Show(i), ~ torn,
         NEW s \in samples, InWindow(s, req[i].accepted),
         s.stored < (IF req[i].begun < req[i].accepted + Duration + Final
                       THEN req[i].begun - Recent
                     ELSE req[i].accepted + Duration + Final) - LookTime
  PROVE  s \in collected'
<1>1. req[i].accepted = accepted
  BY DEF CommitLook, Show, IInv, SearchesCover, InLook
<1>2. /\ last \in Int /\ accepted \in Int /\ FinalSearch \in Int
      /\ s.stored \in Int /\ req[i].begun \in Int /\ {Recent, LookTime} \subseteq Nat
  BY Numbers DEF IInv, CommitLook, Show, InLook
<1>3. s.stored < (IF req[i].begun < FinalSearch THEN req[i].begun - Recent
                  ELSE FinalSearch) - LookTime
  BY <1>1 DEF FinalSearch
<1>4. CASE CommitLook(i)
  <2>1. s.stored < req[i].begun
    BY <1>2, <1>3
  <2>2. s \in collected \cup req[i].rows
    BY <1>1, <1>4, <2>1 DEF CommitLook, IInv, SearchesCover
  <2>3. QED
    BY <1>4, <2>2 DEF CommitLook
<1>5. CASE Show(i)
  <2>1. IF req[i].begun < FinalSearch THEN req[i].begun - last <= Recent ELSE last >= FinalSearch
    BY <1>1, <1>5 DEF Show, IInv, SearchesCover, InWindow
  <2>2. s.stored < last - LookTime
    BY <1>2, <1>3, <2>1
  <2>3. s \in collected
    BY <1>1, <2>2 DEF IInv, SearchesCover, Covers
  <2>4. QED
    BY <1>5, <2>3 DEF Show, resultVars
<1>6. QED
  BY <1>4, <1>5

\* Looks leave nothing out that is old enough: a sample stored more than Recent
\* before the look or, once the last search is over, before the time of that
\* search, less the time a look lasts, unless a report was ever saved during a look.
THEOREM LooksShowRecent == Spec => ShownIsRecent
<1>1. IInv /\ [Next]_vars =>
        [\A i \in Request :
           (CommitLook(i) \/ Show(i)) /\ ~ torn =>
             LET a == req[i].accepted
                 b == req[i].begun
                 final == a + Duration + Final IN
               \A s \in samples :
                 InWindow(s, a) /\ s.stored < (IF b < final THEN b - Recent ELSE final) - LookTime
                   => s \in collected']_vars
  BY LookIsRecent
<1>2. QED
  BY Invariant, <1>1, PTL DEF Spec, ShownIsRecent

-----------------------------------------------------------------------------
(* The uploads that restarts cut off.                                      *)

LEMMA ActiveDef == \A k : k \in active <=> \E i \in Request : Stores(i) /\ req[i].upload = k
BY DEF active, Stores

\* A thread is busy with one upload.
LEMMA FewAreActive == IsFiniteSet(active) /\ Cardinality(active) <= Cardinality(Request)
<1> DEFINE busy == { i \in Request : Stores(i) }
           f == [i \in busy |-> req[i].upload]
<1>1. IsFiniteSet(busy) /\ Cardinality(busy) <= Cardinality(Request)
  BY FS_Subset
<1>2. f \in Surjection(busy, active)
  BY ActiveDef DEF Surjection
<1>3. IsFiniteSet(active) /\ Cardinality(active) <= Cardinality(busy)
  BY <1>1, <1>2, FS_Surjection
<1>4. Cardinality(active) \in Nat /\ Cardinality(busy) \in Nat /\ Cardinality(Request) \in Nat
  BY <1>1, <1>3, FS_CardinalityType
<1>5. QED
  BY <1>1, <1>3, <1>4

\* Only a restart takes a thread from an upload that is not attached.
LEMMA LostShrinks ==
  ASSUME IInv, [Next]_vars, ~ Crash
  PROVE  (lost \ broken)' \subseteq lost \ broken /\ crashes' = crashes
<1>1. ASSUME UNCHANGED << uploads, req, broken >>
      PROVE  (lost \ broken)' \subseteq lost \ broken
  BY <1>1 DEF lost, active
<1>2. ASSUME NEW i \in Request, NEW x, Goes(i, x), ~ Stores(i),
             UNCHANGED << uploads, broken >>
      PROVE  (lost \ broken)' \subseteq lost \ broken
  <2>1. \A j \in Request : j # i => req'[j] = req[j]
    BY <1>2, GoesAlone DEF IInv
  <2>2. active \subseteq active'
    BY <1>2, <2>1 DEF active, Stores
  <2>3. QED
    BY <1>2, <2>2 DEF lost
<1>3. ASSUME NEW i \in Request, SubmitParts(i)
      PROVE  (lost \ broken)' \subseteq lost \ broken
  <2>1. PICK n \in Nat : n = Len(uploads) /\ DOMAIN uploads = 1 .. n
    BY DEF IInv, TypeOK
  <2>2. /\ DOMAIN uploads' = 1 .. n + 1
        /\ \A k \in 1 .. n : uploads'[k] = uploads[k]
    BY <1>3, <2>1 DEF SubmitParts, IInv, TypeOK
  <2>3. req'[i] = [pc |-> "storing", upload |-> n + 1]
        /\ \A j \in Request : j # i => req'[j] = req[j]
    BY <1>3, <2>1, GoesAlone DEF SubmitParts, IInv
  <2>4. n + 1 \in active'
    BY <2>3 DEF active
  <2>5. active \subseteq active'
    BY <1>3, <2>3 DEF active, SubmitParts, Idle
  <2>6. \A k \in 1 .. n + 1 : k \in 1 .. n \/ k = n + 1
    BY <2>1
  <2>7. QED
    BY <1>3, <2>1, <2>2, <2>4, <2>5, <2>6 DEF lost, SubmitParts
<1>4. ASSUME NEW i \in Request, StorePart(i)
      PROVE  (lost \ broken)' \subseteq lost \ broken
  <2>1. PICK k : k = req[i].upload
    OBVIOUS
  <2>2. k \in DOMAIN uploads
    BY <1>4, <2>1 DEF StorePart, IInv, UploadsAreWhole, Stores
  <2>3. /\ DOMAIN uploads' = DOMAIN uploads
        /\ uploads'[k].attached = uploads[k].attached
        /\ \A l \in DOMAIN uploads : l # k => uploads'[l] = uploads[l]
    BY <1>4, <2>1, <2>2 DEF StorePart, IInv, TypeOK
  <2>4. /\ req'[i] = IF uploads'[k].saved = Parts
                       THEN [pc |-> "attaching", upload |-> k] ELSE req[i]
        /\ \A j \in Request : j # i => req'[j] = req[j]
    BY <1>4, <2>1, GoesAlone DEF StorePart, IInv
  <2>5. \A j \in Request : Stores(j) => Stores(j)' /\ req'[j].upload = req[j].upload
    BY <1>4, <2>1, <2>4 DEF Stores, StorePart
  <2>6. active \subseteq active'
    BY <2>5 DEF active, Stores
  <2>7. QED
    BY <1>4, <2>2, <2>3, <2>6 DEF lost, StorePart
<1>5. ASSUME NEW i \in Request, AttachParts(i)
      PROVE  (lost \ broken)' \subseteq lost \ broken
  <2>1. PICK k : k = req[i].upload
    OBVIOUS
  <2>2. k \in DOMAIN uploads /\ uploads[k].saved = Parts
    BY <1>5, <2>1 DEF AttachParts, IInv, UploadsAreWhole, Stores
  <2>3. /\ DOMAIN uploads' = DOMAIN uploads
        /\ uploads'[k].attached = Parts
        /\ \A l \in DOMAIN uploads : l # k => uploads'[l] = uploads[l]
    BY <1>5, <2>1, <2>2 DEF AttachParts, IInv, TypeOK
  <2>4. \A j \in Request : j # i => req'[j] = req[j]
    BY <1>5, GoesAlone DEF AttachParts, IInv
  <2>5. active \subseteq active' \cup {k}
    BY <2>1, <2>4 DEF active, Stores
  <2>6. Parts # 0
    OBVIOUS
  <2>7. QED
    BY <1>5, <2>2, <2>3, <2>5, <2>6 DEF lost, AttachParts
<1>6. ASSUME NEW i \in Request, StartAccept(i) \/ StartReport(i)
      PROVE  (lost \ broken)' \subseteq lost \ broken
  BY <1>6, <1>2 DEF StartAccept, StartReport, resultVars, Stores, Idle
<1>7. ASSUME NEW i \in Request, NEW force \in BOOLEAN, StartLook(i, force)
      PROVE  (lost \ broken)' \subseteq lost \ broken
  BY <1>7, <1>2 DEF StartLook, resultVars, Stores, Idle
<1>8. ASSUME NEW i \in Request, Step(i)
      PROVE  (lost \ broken)' \subseteq lost \ broken
  <2>1. CASE SaveReport(i)
    BY <2>1, <1>2 DEF SaveReport, Stores
  <2>2. CASE Query(i)
    BY <2>2, <1>2 DEF Query, resultVars, Stores
  <2>3. CASE CommitLook(i)
    BY <2>3, <1>2 DEF CommitLook, Stores
  <2>4. CASE FailLook(i) \/ Show(i)
    BY <2>4, <1>2 DEF FailLook, Show, resultVars, Stores
  <2>5. CASE BreakUpload(i)
    <3>1. \A j \in Request : j # i => req'[j] = req[j]
      BY <2>5, GoesAlone DEF BreakUpload, IInv
    <3>2. active \subseteq active' \cup {req[i].upload}
      BY <3>1 DEF active
    <3>3. QED
      BY <2>5, <3>2 DEF BreakUpload, lost
  <2>6. QED
    BY <1>4, <1>5, <1>8, <2>1, <2>2, <2>3, <2>4, <2>5 DEF Step
<1>9. CASE Tick
  BY <1>9, <1>1 DEF Tick, resultVars
<1>10. ASSUME NEW taken \in Time, SubmitSample(taken)
       PROVE  (lost \ broken)' \subseteq lost \ broken
  BY <1>10, <1>1 DEF SubmitSample
<1>11. CASE UNCHANGED vars
  BY <1>11, <1>1 DEF vars, resultVars
<1>12. ASSUME EndAssignment
       PROVE  (lost \ broken)' \subseteq lost \ broken
  <2>1. /\ req' = req /\ DOMAIN uploads' = DOMAIN uploads
        /\ broken' = broken \cup { k \in DOMAIN uploads : Attached(k) }
    BY <1>12 DEF EndAssignment
  <2>2. QED
    BY <2>1 DEF lost, active, Attached
<1>13. (lost \ broken)' \subseteq lost \ broken
  BY <1>3, <1>6, <1>7, <1>8, <1>9, <1>10, <1>11, <1>12 DEF Next
<1>14. crashes' = crashes
  <2>1. ASSUME NEW i \in Request, Step(i)
        PROVE  crashes' = crashes
    BY <2>1 DEF Step, StorePart, AttachParts, BreakUpload, SaveReport, Query, CommitLook,
                FailLook, Show
  <2>2. QED
    BY <2>1 DEF Next, vars, Tick, EndAssignment, SubmitSample, SubmitParts, StartAccept,
                StartReport, StartLook
<1>15. QED
  BY <1>13, <1>14

\* The uploads that neither an error nor the end of the assignment explains.
forgotten == lost \ broken

FewAreLost == IsFiniteSet(forgotten) /\ Cardinality(forgotten) <= Cardinality(Request) * crashes

LEMMA NextFewAreLost ==
  ASSUME IInv, FewAreLost, [Next]_vars
  PROVE  FewAreLost'
<1>1. crashes \in Nat /\ Cardinality(Request) \in Nat
  BY FS_CardinalityType DEF IInv, TypeOK
<1>2. CASE ~ Crash
  <2>1. forgotten' \subseteq forgotten /\ crashes' = crashes
    BY <1>2, LostShrinks DEF forgotten
  <2>2. IsFiniteSet(forgotten') /\ Cardinality(forgotten') <= Cardinality(forgotten)
    BY <2>1, FS_Subset DEF FewAreLost
  <2>3. Cardinality(forgotten) \in Nat /\ Cardinality(forgotten') \in Nat
    BY <2>2, FS_CardinalityType DEF FewAreLost
  <2>4. PICK n \in Int : n = Cardinality(Request) * crashes
    BY <1>1
  <2>5. QED
    BY <2>1, <2>2, <2>3, <2>4 DEF FewAreLost
<1>3. CASE Crash
  <2>1. forgotten' \subseteq forgotten \cup active
    BY <1>3 DEF Crash, resultVars, forgotten, lost
  <2>2. /\ IsFiniteSet(forgotten \cup active)
        /\ Cardinality(forgotten \cup active) =
             Cardinality(forgotten) + Cardinality(active) - Cardinality(forgotten \cap active)
    BY FewAreActive, FS_Union DEF FewAreLost
  <2>3. IsFiniteSet(forgotten \cap active)
    BY FS_Subset DEF FewAreLost
  <2>4. IsFiniteSet(forgotten') /\ Cardinality(forgotten') <= Cardinality(forgotten \cup active)
    BY <2>1, <2>2, FS_Subset
  <2>5. /\ Cardinality(forgotten) \in Nat /\ Cardinality(active) \in Nat
        /\ Cardinality(forgotten \cap active) \in Nat /\ Cardinality(forgotten') \in Nat
        /\ Cardinality(forgotten \cup active) \in Nat
    BY <2>2, <2>3, <2>4, FewAreActive, FS_CardinalityType DEF FewAreLost
  <2>6. Cardinality(Request) * (crashes + 1) = Cardinality(Request) * crashes + Cardinality(Request)
    BY <1>1
  <2>7. Cardinality(forgotten) <= Cardinality(Request) * crashes
        /\ Cardinality(active) <= Cardinality(Request)
    BY FewAreActive DEF FewAreLost
  <2>8. PICK n \in Int : n = Cardinality(Request) * crashes
    BY <1>1
  <2>9. Cardinality(forgotten') <= n + Cardinality(Request)
    BY <1>1, <2>2, <2>4, <2>5, <2>7, <2>8
  <2>10. crashes' = crashes + 1
    BY <1>3 DEF Crash
  <2>11. Cardinality(Request) * crashes' = n + Cardinality(Request)
    BY <2>6, <2>8, <2>10
  <2>12. QED
    BY <2>4, <2>9, <2>11 DEF FewAreLost
<1>4. QED
  BY <1>2, <1>3

\* Questionnaires are never attached in part.  Of the uploads that did not end in an
\* error, and that the end of the assignment did not detach, at most one for each
\* thread and restart is left unattached.
THEOREM PartsAreWhole == Spec => []PartsStayTogether
<1>1. Init => FewAreLost
  <2>1. ASSUME Init PROVE FewAreLost
    <3>1. forgotten = {} /\ crashes = 0
      BY <2>1 DEF Init, forgotten, lost
    <3>2. Cardinality(Request) \in Nat
      BY FS_CardinalityType
    <3>3. Cardinality(Request) * 0 = 0
      BY <3>2
    <3>4. QED
      BY <3>1, <3>3, FS_EmptySet DEF FewAreLost
  <2>2. QED
    BY <2>1
<1>2. IInv /\ FewAreLost /\ [Next]_vars => FewAreLost'
  BY NextFewAreLost
<1>3. IInv /\ FewAreLost => PartsStayTogether
  BY DEF IInv, UploadsAreWhole, FewAreLost, forgotten, PartsStayTogether
<1>4. QED
  BY Invariant, <1>1, <1>2, <1>3, PTL DEF Spec
=============================================================================
