---------------------------- MODULE MCTaskResults ----------------------------
(* Small instances of TaskResults for TLC.                                  *)
EXTENDS TaskResults, TLC

WorkerSymmetry == Permutations(Request)

\* Bound: uploads and samples share neither rows nor times, so the clock and the
\* phone's sensors rest where uploads and the restart are, and the other way round.
UploadsApart ==
  \/ uploads = << >> /\ crashes = 0
  \/ now = 0 /\ samples = {}
=============================================================================
