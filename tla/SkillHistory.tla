---------------------------- MODULE SkillHistory ----------------------------
(***************************************************************************)
(* What a publisher of skills promises, without files: an append-only log  *)
(* of revisions and at most one reserved publication.  A publication is    *)
(* reserved, then committed as the newest revision; only the newest live   *)
(* revision of a skill can be reverted; and while a publication is         *)
(* reserved, completing it is all that can happen.  SkillPublisher         *)
(* implements this specification with two kinds of files that are not      *)
(* written together; Improvement uses it as its publisher.                 *)
(***************************************************************************)
EXTENDS Naturals, Sequences

CONSTANTS
  Proposals,  \* proposal identifiers
  Skills,     \* skill names
  None        \* nothing is reserved

VARIABLES
  log,       \* the revisions, oldest first
  reserved   \* the publication that has been started and not completed

hvars == <<log, reserved>>

Reservation == [proposal : Proposals, skill : Skills]
Revision == [proposal : Proposals, skill : Skills, reverted : BOOLEAN]

InLog(p) == \E i \in DOMAIN log : log[i].proposal = p

LiveAt(i, s) == log[i].skill = s /\ ~log[i].reverted

Newest(i) ==
  /\ LiveAt(i, log[i].skill)
  /\ \A j \in DOMAIN log : j > i => ~LiveAt(j, log[i].skill)

Init == log = <<>> /\ reserved = None

Reserve(p, s) ==
  /\ reserved = None
  /\ ~InLog(p)
  /\ reserved' = [proposal |-> p, skill |-> s]
  /\ UNCHANGED log

Commit ==
  /\ reserved # None
  /\ log' = Append(log, [proposal |-> reserved.proposal,
                         skill    |-> reserved.skill,
                         reverted |-> FALSE])
  /\ reserved' = None

Revert(i) ==
  /\ reserved = None
  /\ Newest(i)
  /\ log' = [log EXCEPT ![i].reverted = TRUE]
  /\ UNCHANGED reserved

Next ==
  \/ \E p \in Proposals, s \in Skills : Reserve(p, s)
  \/ Commit
  \/ \E i \in DOMAIN log : Revert(i)

Spec == Init /\ [][Next]_hvars
=============================================================================
