-------------------------- MODULE MCJobRepository ---------------------------
(***************************************************************************)
(* TLC instance of JobRepository.  Ids, threads, columns and values are    *)
(* interchangeable; the properties are safety properties and treat them    *)
(* alike, so the symmetry is sound for the refinement too.                 *)
(***************************************************************************)
EXTENDS JobRepository, TLC

Symmetry == Permutations(Jobs) \cup Permutations(Threads)
                \cup Permutations(Columns) \cup Permutations(Values)
=============================================================================
