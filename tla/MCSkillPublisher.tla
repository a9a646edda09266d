-------------------------- MODULE MCSkillPublisher --------------------------
(***************************************************************************)
(* Small instances of SkillPublisher for TLC.  Three proposals share two   *)
(* skills; p1 may come back with another text, and p3 with another skill,  *)
(* which is what assertSameCandidate looks for.                            *)
(***************************************************************************)
EXTENDS SkillPublisher, TLC

CONSTANTS p1, p2, p3, s1, s2, a, b, e

MCProposals == {p1, p2, p3}
MCSkills == {s1, s2}
MCMarkdown == {a, b, e}
On(s, m) == [skill |-> s, markdown |-> m]
MCArtifacts ==
  (p1 :> {On(s1, a), On(s1, b)}) @@ (p2 :> {On(s1, b)}) @@ (p3 :> {On(s1, a), On(s2, a)})
=============================================================================
