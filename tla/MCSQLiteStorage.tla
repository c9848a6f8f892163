--------------------------- MODULE MCSQLiteStorage ---------------------------
(* Two threads, two sessions; the names of threads, sessions and contexts are *)
(* interchangeable.                                                           *)
EXTENDS SQLiteStorage, TLC

Symmetry == Permutations(Worker) \cup Permutations(Key) \cup Permutations(Data)
=============================================================================
