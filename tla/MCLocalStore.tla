---------------------------- MODULE MCLocalStore ----------------------------
(***************************************************************************)
(* A small instance of LocalStore for TLC: two keys, whose evidence comes  *)
(* from the same source.  Nothing tells the keys apart, so they are a      *)
(* symmetry set; every property of the run is a safety property.           *)
(***************************************************************************)
EXTENDS LocalStore, TLC

SameSource == [k \in Keys |-> "source"]

KeySymmetry == Permutations(Keys)
=============================================================================
