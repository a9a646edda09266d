----------------------------- MODULE MCLearning -----------------------------
(***************************************************************************)
(* Small instances of Learning for TLC: two statements that contradict     *)
(* each other.                                                             *)
(***************************************************************************)
EXTENDS Learning

CONSTANTS x, y, i

Says(s) == [statement |-> s, identity |-> None, kind |-> "procedure", action |-> None,
            learnable |-> TRUE, contradicts |-> None]

SomeSignals ==
  {Says(x),
   [Says(x) EXCEPT !.identity = i],
   [Says(x) EXCEPT !.learnable = FALSE],
   [Says(x) EXCEPT !.contradicts = x],
   [Says(x) EXCEPT !.contradicts = y],
   [Says(y) EXCEPT !.contradicts = x]}

OneIdentity == {[Says(x) EXCEPT !.identity = i]}
=============================================================================
