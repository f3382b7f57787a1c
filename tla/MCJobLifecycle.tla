--------------------------- MODULE MCJobLifecycle ---------------------------
(* Small instances of JobLifecycle for TLC.                                 *)
EXTENDS JobLifecycle, TLC

\* Jobs, workers and client slots are interchangeable in every property the
\* runs with this symmetry check (invariants and action properties only).
Symmetry == Permutations(Jobs) \cup Permutations(Workers) \cup Permutations(Clients)
=============================================================================
