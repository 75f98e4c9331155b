----------------------------- MODULE TaskResults -----------------------------
(***************************************************************************)
(* What a user's phone collects for one task.  Sensed samples are uploaded  *)
(* without naming a task; a look at the result of the task gathers those    *)
(* that were taken between acceptance and expiration, and remembers when it *)
(* did, so as not to search again too soon.  Photos and answers name their  *)
(* task: their rows are saved first, each in its own transaction, and then  *)
(* attached to the result in one.                                           *)
(*                                                                         *)
(* The time of the last search is a column of TaskResult, which every save  *)
(* of the TaskReport writes back as it was when the report was loaded.      *)
(*                                                                         *)
(* The administrator's assignment makes the report and its result in one    *)
(* transaction and writes them again, as they were, in another.             *)
(*                                                                         *)
(* A record of samples stands for all the rows like it.  The phone's clock  *)
(* agrees with the server's.                                                *)
(***************************************************************************)
EXTENDS Integers, FiniteSets, Sequences

CONSTANTS
  Request,     \* the HTTP worker threads
  Duration,    \* from the acceptance of the task to its expiration
  Recent,      \* no new search for this long: 30 minutes
  Final,       \* searches go on for this long after expiration: 60 days
  LookTime,    \* bound: how long a look may take
  Parts,       \* the answers of an upload; a photo is an upload of its own
  MaxTime, MaxAccepts, MaxSamples, MaxUploads, MaxCrashes   \* bounds

ASSUME TaskResultsAssumption ==
  /\ {Duration, Recent, Final, LookTime} \subseteq Nat
  /\ Parts \in Nat \ {0}
  /\ {MaxTime, MaxAccepts, MaxSamples, MaxUploads, MaxCrashes} \subseteq Nat
  /\ IsFiniteSet(Request)

VARIABLES
  now,
  samples,    \* the sensed data of the user
  collected,  \* those in TaskResult_Data
  uploads,    \* what was uploaded for the task
  accepted,   \* TaskReport.acceptedDateTime; Duration later, the expiration
  last,       \* TaskResult.lastDataUpdate
  accepts,    \* every acceptance that was saved
  assigning,  \* the assignment has not written the result again yet
  torn,       \* a report was saved during a look
  broken,     \* uploads that ended in an error, or were detached again
  req,        \* req[i]: what HTTP worker i is doing
  crashes

resultVars == << samples, collected, uploads, accepted, last, accepts, torn,
                 broken >>

vars == << now, resultVars, assigning, req, crashes >>

-----------------------------------------------------------------------------

Time == 0 .. MaxTime

Never == -1

Moment == Time \cup {Never}

\* A sample of one of the types that the task's actions ask for.
Sample == [taken : Time, stored : Time]

\* The number of rows saved, and of those attached.
Upload == [saved : 0 .. Parts, attached : 0 .. Parts]

Idle == [pc |-> "idle"]

Uploading == [pc : {"storing", "attaching"}, upload : 1 .. MaxUploads]
Reporting == [pc : {"accepting", "reporting"}, accepted : Moment, last : Moment]
Looking == [pc : {"querying", "showing"}, accepted : Moment, begun : Time]
             \cup [pc : {"committing"}, accepted : Moment, begun : Time, rows : SUBSET Sample]

TypeOK ==
  /\ now \in Time
  /\ samples \subseteq Sample
  /\ collected \subseteq samples
  /\ uploads \in Seq(Upload)
  /\ Len(uploads) <= MaxUploads
  /\ {accepted, last} \subseteq Moment
  /\ accepts \subseteq Time
  /\ {assigning, torn} \subseteq BOOLEAN
  /\ broken \subseteq 1 .. MaxUploads
  /\ req \in [Request -> {Idle} \cup Uploading \cup Reporting \cup Looking]
  /\ crashes \in 0 .. MaxCrashes

\* The report and its result were just saved for the first time.
Init ==
  /\ now = 0
  /\ samples = {}
  /\ collected = {}
  /\ uploads = << >>
  /\ accepted = Never
  /\ last = Never
  /\ accepts = {}
  /\ assigning = TRUE
  /\ torn = FALSE
  /\ broken = {}
  /\ req = [i \in Request |-> Idle]
  /\ crashes = 0

Goes(i, x) == req' = [req EXCEPT ![i] = x]

InLook(i) == req[i].pc \in {"querying", "showing", "committing"}

\* A report was loaded and will be saved.
InHand(i) == req[i].pc \in {"accepting", "reporting"}

Tick ==
  /\ now < MaxTime
  /\ \A i \in Request : InLook(i) => now < req[i].begun + LookTime
  /\ now' = now + 1
  /\ UNCHANGED << resultVars, assigning, req, crashes >>

Attached(k) == uploads[k].attached # 0

\* pointsStrategyForTaskService.create merges the task with its reports, and by
\* cascade with their results: dates and data are again those of a new report.
EndAssignment ==
  /\ assigning
  /\ assigning' = FALSE
  /\ accepted' = Never
  /\ last' = Never
  /\ collected' = {}
  /\ uploads' = [k \in DOMAIN uploads |-> [saved |-> uploads[k].saved, attached |-> 0]]
  /\ broken' = broken \cup { k \in DOMAIN uploads : Attached(k) }
  /\ torn' = (torn \/ \E i \in Request : InLook(i) \/ InHand(i))
  /\ UNCHANGED << now, samples, accepts, req, crashes >>

-----------------------------------------------------------------------------
(* Uploads: ResultDataController                                           *)

\* The handlers of sensed data save what the phone sends in one transaction.
SubmitSample(taken) ==
  /\ Cardinality(samples) < MaxSamples
  /\ taken <= now
  /\ samples' = samples \cup {[taken |-> taken, stored |-> now]}
  /\ UNCHANGED << now, collected, uploads, accepted, last, accepts, torn, broken, assigning, req, crashes >>

\* submitDataQuestion, and submitDataPhoto for each photo
SubmitParts(i) ==
  /\ req[i] = Idle
  /\ Len(uploads) < MaxUploads
  /\ uploads' = Append(uploads, [saved |-> 0, attached |-> 0])
  /\ Goes(i, [pc |-> "storing", upload |-> Len(uploads) + 1])
  /\ UNCHANGED << now, samples, collected, accepted, last, accepts, torn, broken, assigning, crashes >>

\* Mutants: one answer too many is saved; every answer is attached as soon as it
\* is saved.
StorePartMore(i) ==
  /\ req[i].pc = "storing"
  /\ LET k == req[i].upload IN
       /\ uploads' = [uploads EXCEPT ![k] = [saved |-> @.saved + 1, attached |-> @.attached]]
       /\ Goes(i, IF uploads'[k].saved > Parts
                    THEN [pc |-> "attaching", upload |-> k] ELSE req[i])
  /\ UNCHANGED << now, samples, collected, accepted, last, accepts, torn, broken, assigning, crashes >>

StorePartAttached(i) ==
  /\ req[i].pc = "storing"
  /\ LET k == req[i].upload IN
       /\ uploads' = [uploads EXCEPT ![k] = [saved |-> @.saved + 1, attached |-> @.attached + 1]]
       /\ Goes(i, IF uploads'[k].saved = Parts
                    THEN [pc |-> "attaching", upload |-> k] ELSE req[i])
  /\ UNCHANGED << now, samples, collected, accepted, last, accepts, torn, broken, assigning, crashes >>

\* dataService.merge
StorePart(i) ==
  /\ req[i].pc = "storing"
  /\ LET k == req[i].upload IN
       /\ uploads' = [uploads EXCEPT ![k] = [saved |-> @.saved + 1, attached |-> @.attached]]
       /\ Goes(i, IF uploads'[k].saved = Parts
                    THEN [pc |-> "attaching", upload |-> k] ELSE req[i])
  /\ UNCHANGED << now, samples, collected, accepted, last, accepts, torn, broken, assigning, crashes >>

\* taskResultService.addData
AttachParts(i) ==
  /\ req[i].pc = "attaching"
  /\ LET k == req[i].upload IN
       uploads' = [uploads EXCEPT ![k] = [saved |-> @.saved, attached |-> @.saved]]
  /\ Goes(i, Idle)
  /\ UNCHANGED << now, samples, collected, accepted, last, accepts, torn, broken, assigning, crashes >>

\* A malformed answer, an unknown question, or a user with no report of the task or
\* two: the request ends in an error, and what it saved stays.
BreakUpload(i) ==
  /\ req[i].pc \in {"storing", "attaching"}
  /\ broken' = broken \cup {req[i].upload}
  /\ Goes(i, Idle)
  /\ UNCHANGED << now, samples, collected, uploads, accepted, last, accepts, torn, assigning,
                  crashes >>

-----------------------------------------------------------------------------
(* The handlers of reports, which load and save the report with its result *)

\* acceptTask tests no state: a task may be accepted again.
StartAccept(i) ==
  /\ req[i] = Idle
  /\ Cardinality(accepts) < MaxAccepts
  /\ Goes(i, [pc |-> "accepting", accepted |-> now, last |-> last])
  /\ UNCHANGED << now, resultVars, assigning, crashes >>

\* rejectTask, completeTask, completeTaskWithUnsuccess, the scheduled job and the
\* administrator save a report as they loaded it, but for its history and state.
StartReport(i) ==
  /\ req[i] = Idle
  /\ Goes(i, [pc |-> "reporting", accepted |-> accepted, last |-> last])
  /\ UNCHANGED << now, resultVars, assigning, crashes >>

\* Mutant: the result keeps the time of its last search.
SaveReportAlone(i) ==
  /\ req[i].pc \in {"accepting", "reporting"}
  /\ accepted' = req[i].accepted
  /\ accepts' = IF req[i].pc = "accepting" THEN accepts \cup {req[i].accepted} ELSE accepts
  /\ torn' = (torn \/ \E j \in Request : InLook(j))
  /\ Goes(i, Idle)
  /\ UNCHANGED << now, samples, collected, uploads, last, broken, assigning, crashes >>

\* taskReportService.save merges the report, and by cascade its result.  The
\* collection of data was not loaded and is not merged.
SaveReport(i) ==
  /\ req[i].pc \in {"accepting", "reporting"}
  /\ accepted' = req[i].accepted
  /\ last' = req[i].last
  /\ accepts' = IF req[i].pc = "accepting" THEN accepts \cup {req[i].accepted} ELSE accepts
  /\ torn' = (torn \/ \E j \in Request : InLook(j))
  /\ Goes(i, Idle)
  /\ UNCHANGED << now, samples, collected, uploads, broken, assigning, crashes >>

-----------------------------------------------------------------------------
(* Looks: getTaskResultByTaskReport, and updateTaskResult, which forces    *)

IsRecent == now - last <= Recent

FinalSearch == accepted + Duration + Final

\* Mutant: old tasks are never searched again.
HasToUpdateYoung(force) ==
  \/ force
  \/ last = Never
  \/ accepted # Never /\ now < FinalSearch /\ ~ IsRecent

HasToUpdate(force) ==
  \/ force
  \/ last = Never
  \/ accepted # Never /\ now < FinalSearch /\ ~ IsRecent
  \/ accepted # Never /\ now >= FinalSearch /\ last < FinalSearch

StartLook(i, force) ==
  /\ req[i] = Idle
  /\ Goes(i, [pc |-> IF HasToUpdate(force) THEN "querying" ELSE "showing",
              accepted |-> accepted, begun |-> now])
  /\ UNCHANGED << now, resultVars, assigning, crashes >>

\* Mutant: the end of the window is forgotten.
InWindowOpen(s, a) == a # Never /\ s.taken >= a

\* The samples the query looks for; no sample compares with a null date.
InWindow(s, a) == a # Never /\ s.taken \in a .. a + Duration

Query(i) ==
  /\ req[i].pc = "querying"
  /\ Goes(i, [pc |-> "committing", accepted |-> req[i].accepted,
              begun |-> req[i].begun,
              rows |-> { s \in samples \ collected : InWindow(s, req[i].accepted) }])
  /\ UNCHANGED << now, resultVars, assigning, crashes >>

\* The result is saved with the time it is now, whenever the query was; what is
\* found is shown with what was there.
CommitLook(i) ==
  /\ req[i].pc = "committing"
  /\ collected' = collected \cup req[i].rows
  /\ last' = now
  /\ Goes(i, Idle)
  /\ UNCHANGED << now, samples, uploads, accepted, accepts, torn, broken, assigning, crashes >>

\* Two looks found the same row, and this one had loaded the collection before
\* the other committed: its key is there already.
FailLook(i) ==
  /\ req[i].pc = "committing"
  /\ req[i].rows \cap collected # {}
  /\ Goes(i, Idle)
  /\ UNCHANGED << now, resultVars, assigning, crashes >>

\* The result is shown as it is.
Show(i) ==
  /\ req[i].pc = "showing"
  /\ Goes(i, Idle)
  /\ UNCHANGED << now, resultVars, assigning, crashes >>

-----------------------------------------------------------------------------

Crash ==
  /\ crashes < MaxCrashes
  /\ crashes' = crashes + 1
  /\ req' = [i \in Request |-> Idle]
  /\ assigning' = FALSE
  /\ UNCHANGED << now, resultVars >>

Step(i) ==
  \/ StorePart(i)
  \/ AttachParts(i)
  \/ BreakUpload(i)
  \/ SaveReport(i)
  \/ Query(i)
  \/ CommitLook(i)
  \/ FailLook(i)
  \/ Show(i)

Next ==
  \/ Tick
  \/ EndAssignment
  \/ \E taken \in Time : SubmitSample(taken)
  \/ \E i \in Request : SubmitParts(i) \/ StartAccept(i) \/ StartReport(i)
  \/ \E i \in Request, force \in BOOLEAN : StartLook(i, force)
  \/ \E i \in Request : Step(i)
  \/ Crash

Spec == Init /\ [][Next]_vars

-----------------------------------------------------------------------------
(* Properties                                                              *)

\* Every sensed sample that a result holds was taken while an acceptance of the
\* task was valid, though reports are saved with windows that are out of date.
\* (Photos and answers are attached whenever they come.)
OnlyAccepted ==
  \A s \in collected : \E a \in accepts : s.taken \in a .. a + Duration

\* A look shows every sample of the window that was stored more than Recent
\* before it or, once the last search is over, before the time of that search,
\* give or take the time a look lasts: the search before it stamped the result
\* later than it had asked for the samples.  A report saved with a result that is
\* out of date sets back the time of the last search together with the window it
\* was made for; one that is saved while a look is in its transaction, or that was
\* loaded before the assignment emptied the result, tears the two apart.
ShownIsRecent ==
  [][\A i \in Request :
       (CommitLook(i) \/ Show(i)) /\ ~ torn =>
         LET a == req[i].accepted
             b == req[i].begun
             final == a + Duration + Final IN
           \A s \in samples :
             InWindow(s, a) /\ s.stored < (IF b < final THEN b - Recent ELSE final) - LookTime
               => s \in collected']_vars

\* The uploads that a thread is busy with, and those that no thread is and that
\* were not attached.
active == { req[i].upload : i \in { j \in Request : req[j].pc \in {"storing", "attaching"} } }

lost == { k \in DOMAIN uploads \ active : uploads[k].attached = 0 }

\* The answers of a questionnaire are attached all together or not at all, and
\* what was saved but is not attached is being uploaded, ended in an error the
\* phone was told of, was detached by the end of the assignment, or was in progress
\* when the server stopped: one upload for each thread.
PartsStayTogether ==
  /\ \A k \in DOMAIN uploads : uploads[k].attached \in {0, Parts}
  /\ Cardinality(lost \ broken) <= Cardinality(Request) * crashes
=============================================================================
