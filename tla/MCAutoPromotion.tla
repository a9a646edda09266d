-------------------------- MODULE MCAutoPromotion --------------------------
(***************************************************************************)
(* Small instances of AutoPromotion for TLC.                               *)
(***************************************************************************)
EXTENDS AutoPromotion

Answer(v, s, e) ==
  [verdict |-> v, regressions |-> FALSE, structural |-> s, error |-> e]

\* The structural validator, an external one, and one that cannot tell.
SomeEvaluations == {Answer("pass", TRUE, FALSE),
                    Answer("pass", FALSE, FALSE),
                    Answer("fail", TRUE, FALSE),
                    Answer("inconclusive", FALSE, TRUE)}

Ordinary == [target |-> "skill", organization |-> FALSE, sensitive |-> FALSE]
OnlyOrdinary == {Ordinary}
=============================================================================
