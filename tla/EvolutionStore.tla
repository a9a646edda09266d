--------------------------- MODULE EvolutionStore ---------------------------
(***************************************************************************)
(* What an evolution store promises (EvolutionStore in                     *)
(* packages/core/src/ports.ts, and what testing/store-contract.ts and the  *)
(* in-memory store of testing/in-memory-store.ts make of it): each call    *)
(* takes effect once and as a whole, or not at all.                        *)
(*                                                                         *)
(* An item is the record a caller hands over, of which the promise reads   *)
(* the id, the agent, the source identity, the version and the status.     *)
(* Sources are the identities that isDuplicate looks up: not the empty     *)
(* string.                                                                 *)
(***************************************************************************)
EXTENDS Policies

CONSTANT Sources

Tables == {"evidence", "lessons", "proposals", "events"}

VARIABLE content  \* content[t]: the items that table t holds

\* evidenceSharesSourceIdentity
SharesSource(e, f) == e.source \in Sources /\ e.source = f.source /\ e.agent = f.agent

Without(t, id) == {x \in content[t] : x.id # id}

PutEvidence(e) ==
  content' = [content EXCEPT !["evidence"] =
                {f \in Without("evidence", e.id) : ~SharesSource(e, f)} \cup {e}]

PutLesson(l) ==
  content' = [content EXCEPT !["lessons"] = Without("lessons", l.id) \cup {l}]

PutProposal(p) ==
  /\ \A q \in content["proposals"] : q.id = p.id => ~proposalUpsertConflicts(q, p)
  /\ content' = [content EXCEPT !["proposals"] = Without("proposals", p.id) \cup {p}]

AppendEvent(e) ==
  content' = [content EXCEPT !["events"] = @ \cup {e}]

Init == content = [t \in Tables |-> {}]

\* The item that a call wrote is in its table afterwards.
Next ==
  \/ \E x \in content'["evidence"] : PutEvidence(x)
  \/ \E x \in content'["lessons"] : PutLesson(x)
  \/ \E x \in content'["proposals"] : PutProposal(x)
  \/ \E x \in content'["events"] : AppendEvent(x)

Spec == Init /\ [][Next]_content
=============================================================================
