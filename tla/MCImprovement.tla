---------------------------- MODULE MCImprovement ----------------------------
(***************************************************************************)
(* Small instances of Improvement for TLC.                                 *)
(***************************************************************************)
EXTENDS Improvement

Answer(v, r, s, e) ==
  [verdict |-> v, regressions |-> r, structural |-> s, error |-> e]

\* What evaluators answer: the structural validator passes or fails; an
\* external one passes, passes with a regression, or finds nothing out.
SomeEvaluations == {Answer("pass", FALSE, TRUE, FALSE),
                    Answer("pass", FALSE, FALSE, FALSE),
                    Answer("pass", TRUE, FALSE, FALSE),
                    Answer("fail", TRUE, TRUE, FALSE),
                    Answer("inconclusive", FALSE, FALSE, TRUE)}
PassOrFail == {Answer("pass", FALSE, FALSE, FALSE), Answer("fail", TRUE, TRUE, FALSE)}
OnlyPass == {Answer("pass", FALSE, FALSE, FALSE)}

Ordinary == [target |-> "skill", organization |-> FALSE, sensitive |-> FALSE]
SomeTraits == {Ordinary,
               [Ordinary EXCEPT !.sensitive = TRUE],
               [Ordinary EXCEPT !.organization = TRUE],
               [Ordinary EXCEPT !.target = "instructions"]}
OnlyOrdinary == {Ordinary}
OrdinaryOrSensitive == {Ordinary, [Ordinary EXCEPT !.sensitive = TRUE]}
=============================================================================
