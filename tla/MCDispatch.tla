----------------------------- MODULE MCDispatch -----------------------------
(* TLC instances of Dispatch. *)
EXTENDS Dispatch, TLC

\* Overlapping creates, completion and monitoring apart: they share only the
\* status of a row.
MCWorkloads == {{"overlap", "completion"}, {"sla"}}

\* Processes are alike.
PodSymmetry == Permutations(Pods)
=============================================================================
