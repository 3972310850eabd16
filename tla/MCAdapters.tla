----------------------------- MODULE MCAdapters -----------------------------
(* Adapters for TLC: two adapters that differ in everything an option sets.   *)
EXTENDS Adapters

\* Debug, Info and Error are 0, 1 and 2.
MCDefaults == [floor |-> 0, level |-> 1, trip |-> 2, capacity |-> 0, limit |-> 0]
MCOptions == [slog |-> [capacity |-> 1, limit |-> 1], zap |-> [floor |-> 1, level |-> 2]]

Symmetry == Permutations(Proc)
=============================================================================
