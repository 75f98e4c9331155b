---------------------------- MODULE ReportLedger -----------------------------
(***************************************************************************)
(* What the table of task reports promises to the rest of the server: each *)
(* report has a log of the states it went through, which starts AVAILABLE, *)
(* is never rewritten or shortened and grows by one state at a time; and   *)
(* the state a report shows is the last one logged, but for the report of  *)
(* an assignment that ends after it was touched: it is AVAILABLE once more. *)
(***************************************************************************)
EXTENDS Sequences

CONSTANTS
  ReportId,  \* the names a report can have
  State      \* the states it can be in

VARIABLES
  log,    \* log[r]: the states report r went through
  shown,  \* shown[r]: the state it shows
  open    \* the reports whose assignment is not over

Init ==
  /\ log = [r \in {} |-> << >>]
  /\ shown = [r \in {} |-> "AVAILABLE"]
  /\ open = {}

\* Several reports may be created together, all or none.
Create(new) ==
  /\ new \subseteq ReportId \ DOMAIN log
  /\ log' = [r \in DOMAIN log \cup new |->
               IF r \in new THEN << "AVAILABLE" >> ELSE log[r]]
  /\ shown' = [r \in DOMAIN shown \cup new |->
                 IF r \in new THEN "AVAILABLE" ELSE shown[r]]
  /\ open' \in {open, open \cup new}

Record(r, s) ==
  /\ r \in DOMAIN log
  /\ log' = [log EXCEPT ![r] = Append(@, s)]
  /\ shown' = [shown EXCEPT ![r] = s]
  /\ UNCHANGED open

\* An assignment ends, or is cut off by a restart.
Close(old) ==
  /\ old \subseteq open
  /\ open' = open \ old
  /\ shown' \in {shown, [r \in DOMAIN shown |->
                          IF r \in old THEN "AVAILABLE" ELSE shown[r]]}
  /\ UNCHANGED log

Next ==
  \/ \E new \in SUBSET ReportId : Create(new)
  \/ \E r \in ReportId, s \in State : Record(r, s)
  \/ \E old \in SUBSET ReportId : Close(old)

Spec == Init /\ [][Next]_<< log, shown, open >>
=============================================================================
