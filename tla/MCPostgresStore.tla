--------------------------- MODULE MCPostgresStore ---------------------------
(***************************************************************************)
(* A small instance of PostgresStore for TLC: two processes, two ids and   *)
(* one source identity.  Ids, agents and processes are symmetry sets; the  *)
(* run checks safety only.                                                 *)
(***************************************************************************)
EXTENDS PostgresStore, TLC

Symmetry == Permutations(Keys) \cup Permutations(Agents) \cup Permutations(Clients)
=============================================================================
