------------------------- MODULE MCEventDispatcher -------------------------
(* TLC instances of EventDispatcher. *)
EXTENDS EventDispatcher, TLC

\* Neither the events nor the pods are ordered by anything but their state.
EventAndPodSymmetry == Permutations(Events) \cup Permutations(Pods)
=============================================================================
