------------------------- MODULE PostgresStoreProofs -------------------------
(***************************************************************************)
(* Theorems about PostgresStore, for any number of processes, ids, agents  *)
(* and source identities, and any number of abandoned statements: type     *)
(* correctness, the agreement of columns and payloads, one piece of        *)
(* evidence per source identity, and that the store implements             *)
(* EvolutionStore.                                                         *)
(*                                                                         *)
(* The three invariants are inductive together: a by-source upsert finds   *)
(* the old piece of evidence by columns, and rewrites one row only because *)
(* there is one.                                                           *)
(***************************************************************************)
EXTENDS PostgresStore, TLAPS

UniqueIds(rows) == \A q, r \in rows : q.id = r.id => q = r

Matching(rows) == \A q \in rows : q = RowOf(q.payload)

UniqueSources(rows) ==
  \A q, r \in rows :
    /\ q.payload.source \in Indexed
    /\ q.payload.source = r.payload.source
    /\ q.payload.agent = r.payload.agent
    => q = r

\* What the invariants say of table t.
Good(t, rows) ==
  /\ rows \subseteq Row
  /\ Matching(rows)
  /\ t # "events" => UniqueIds(rows)
  /\ t = "evidence" => UniqueSources(rows)

IInv ==
  /\ TypeOK
  /\ ColumnsMatchPayload
  /\ OneEvidencePerIdentity

\* The invariant, table by table.
LEMMA GoodTables ==
  ASSUME IInv, NEW t \in Tables
  PROVE  Good(t, tables[t])
BY DEF IInv, TypeOK, ColumnsMatchPayload, OneEvidencePerIdentity, Good, Matching,
       UniqueIds, UniqueSources

\* The parameters of a statement are a row that matches its payload.
LEMMA RowOfItem ==
  ASSUME NEW x \in Item
  PROVE  /\ RowOf(x) \in Row
         /\ RowOf(x).payload = x
         /\ RowOf(x).id = x.id
         /\ RowOf(x).agent_id = x.agent
         /\ RowOf(x).source_identity = x.source
         /\ RowOf(x).version = x.version
         /\ RowOf(x).status = x.status
BY DEF RowOf, Row, Item

\* No other row is where the index has the row of x.
PlaceIsFree(rows, x) ==
  x.source \in Indexed => WithSource(rows, RowOf(x)) \subseteq WithId(rows, x.id)

\* The rows at the place of an item in the index on the sources are those
\* whose payload shares its source.
LEMMA WithSourceRows ==
  ASSUME NEW rows, Good("evidence", rows), NEW x \in Item, x.source \in Indexed,
         NEW q \in rows
  PROVE  q \in WithSource(rows, RowOf(x)) <=>
           q.payload.source = x.source /\ q.payload.agent = x.agent
<1>1. x.source # None
  BY ConstantsAssumption DEF Indexed
<1>2. q.source_identity = q.payload.source /\ q.agent_id = q.payload.agent
  BY RowOfItem DEF Good, Matching, RowOf, Row
<1>3. QED
  BY <1>1, <1>2, RowOfItem DEF WithSource

\* Replacing what has the id of an item by its row keeps a table good, unless
\* the item takes the place that another row has in the index.
LEMMA ReplaceById ==
  ASSUME NEW t \in Tables, NEW rows, Good(t, rows), NEW x \in Item,
         t = "evidence" => PlaceIsFree(rows, x)
  PROVE  Good(t, (rows \ WithId(rows, x.id)) \cup {RowOf(x)})
<1> DEFINE new == (rows \ WithId(rows, x.id)) \cup {RowOf(x)}
<1>1. new \subseteq Row
  BY RowOfItem DEF Good
<1>2. Matching(new)
  BY RowOfItem DEF Good, Matching
<1>3. ASSUME t # "events" PROVE UniqueIds(new)
  BY <1>3, RowOfItem DEF Good, UniqueIds, WithId
<1>4. ASSUME t = "evidence" PROVE UniqueSources(new)
  <2>1. \A q \in new : q # RowOf(x) => q \in rows /\ q \notin WithId(rows, x.id)
    OBVIOUS
  <2>2. \A q \in new : q # RowOf(x) =>
          ~(/\ x.source \in Indexed
            /\ q.payload.source = x.source /\ q.payload.agent = x.agent)
    BY <1>4, <2>1, WithSourceRows DEF PlaceIsFree
  <2>3. QED
    BY <1>4, <2>1, <2>2, RowOfItem DEF Good, UniqueSources
<1>5. QED
  BY <1>1, <1>2, <1>3, <1>4 DEF Good

\* A by-source upsert leaves one row, RowOf(x), of what it found.
LEMMA BySourceRow ==
  ASSUME NEW rows, Good("evidence", rows), NEW x \in Item, x.source \in Sources
  PROVE  upsertEvidenceBySource(rows, RowOf(x)) =
           (rows \ (WithSource(rows, RowOf(x)) \cup WithId(rows, x.id))) \cup {RowOf(x)}
<1> DEFINE r == RowOf(x)
           old == WithSource(rows, r)
           updated == {Updated(p, r) : p \in old}
<1>1. CASE old = {} \/ executor = "memory"
  BY <1>1, RowOfItem DEF upsertEvidenceBySource
<1>2. CASE ~(old = {} \/ executor = "memory")
  <2>1. PICK q \in old : TRUE
    BY <1>2
  <2>2. q \in rows
    BY DEF WithSource
  <2>3. old = {q}
    <3>1. \A p \in old : p \in rows /\ p = q
      BY <2>1, <2>2, WithSourceRows DEF Good, UniqueSources, WithSource, Indexed
    <3>2. QED
      BY <3>1
  <2>4. Updated(q, r) = r
    <3>1. q = RowOf(q.payload) /\ q \in Row
      BY <2>2 DEF Good, Matching
    <3>2. q.payload.source = x.source /\ q.payload.agent = x.agent
      BY <2>1, <2>2, WithSourceRows DEF Indexed
    <3>3. q.agent_id = r.agent_id /\ q.source_identity = r.source_identity
      BY <3>1, <3>2, RowOfItem DEF RowOf
    <3>4. QED
      BY <3>3, RowOfItem DEF Row, Updated
  <2>5. updated = {r}
    BY <2>3, <2>4
  <2>6. QED
    BY <1>2, <2>5, RowOfItem DEF upsertEvidenceBySource
<1>3. QED
  BY <1>1, <1>2

\* So it keeps the table good.
LEMMA BySourceGood ==
  ASSUME NEW rows, Good("evidence", rows), NEW x \in Item, x.source \in Sources
  PROVE  Good("evidence", upsertEvidenceBySource(rows, RowOf(x)))
<1> DEFINE new == (rows \ (WithSource(rows, RowOf(x)) \cup WithId(rows, x.id))) \cup {RowOf(x)}
<1>1. new \subseteq Row /\ Matching(new)
  BY RowOfItem DEF Good, Matching
<1>2. UniqueIds(new)
  BY RowOfItem DEF Good, UniqueIds, WithId
<1>3. UniqueSources(new)
  <2>1. \A q \in new : q # RowOf(x) =>
           /\ q \in rows
           /\ ~(q.payload.source = x.source /\ q.payload.agent = x.agent)
    BY WithSourceRows DEF Indexed
  <2>2. QED
    BY <2>1, RowOfItem DEF Good, UniqueSources
<1>4. QED
  BY <1>1, <1>2, <1>3, BySourceRow DEF Good

\* What an item of the bounds of Begin is.
LEMMA NewItemType ==
  ASSUME NEW k \in Keys, NEW a \in Agents, NEW source \in Source, NEW v \in 0..1,
         NEW status \in {"open", "published"}, statements \in Nat
  PROVE  NewItem(k, a, source, v, status) \in Item
BY DEF NewItem, Item

\* Every statement that no unique key stops keeps its table good.
LEMMA ResultGood ==
  ASSUME NEW t \in Tables, NEW rows, Good(t, rows), NEW x \in Item,
         executor \in {"database", "memory"},
         ~(executor = "database" /\ Violates(t, rows, x))
  PROVE  Good(t, Result(t, rows, x))
<1>1. CASE t = "evidence" /\ bySource(x)
  BY <1>1, BySourceGood DEF Result, bySource
<1>2. CASE t = "evidence" /\ ~bySource(x)
  <2>1. PlaceIsFree(rows, x)
    <3>1. CASE executor = "memory"
      BY <1>2, <3>1 DEF PlaceIsFree, Indexed, bySource
    <3>2. CASE executor = "database"
      BY <1>2, <3>2, RowOfItem DEF PlaceIsFree, Violates
    <3>3. QED
      BY <3>1, <3>2
  <2>2. Good(t, upsertEvidenceById(rows, RowOf(x)))
    BY <1>2, <2>1, ReplaceById, RowOfItem DEF upsertEvidenceById
  <2>3. QED
    BY <1>2, <2>2 DEF Result
<1>3. CASE t = "lessons"
  BY <1>3, ReplaceById, RowOfItem DEF Result, upsertLesson
<1>4. CASE t = "proposals"
  BY <1>4, ReplaceById, RowOfItem DEF Result, upsertProposal
<1>5. CASE t = "events"
  <2>1. Good(t, rows \cup {RowOf(x)})
    BY <1>5, RowOfItem DEF Good, Matching
  <2>2. QED
    BY <1>5, <2>1 DEF Result, insertEvent
<1>6. QED
  BY <1>1, <1>2, <1>3, <1>4, <1>5 DEF Tables

\* Carrying a statement out keeps every table good.
LEMMA CarryGood ==
  ASSUME IInv, NEW s \in Statement, Carry(s)
  PROVE  /\ tables' \in [Tables -> SUBSET Row]
         /\ \A t \in Tables : Good(t, tables'[t])
<1> DEFINE stopped == executor = "database" /\ Violates(s.table, tables[s.table], s.item)
<1>1. s.table \in Tables /\ s.item \in Item
  BY DEF Statement
<1>2. ASSUME ~stopped PROVE Good(s.table, Result(s.table, tables[s.table], s.item))
  BY <1>1, <1>2, GoodTables, ResultGood DEF IInv, TypeOK
<1>3. tables \in [Tables -> SUBSET Row]
  BY DEF IInv, TypeOK
<1>4. CASE tables' = tables
  BY <1>3, <1>4, GoodTables
<1>5. CASE /\ ~stopped
           /\ tables' = [tables EXCEPT ![s.table] = Result(s.table, tables[s.table], s.item)]
  <2>1. \A t \in Tables : tables'[t] = IF t = s.table
                                      THEN Result(s.table, tables[s.table], s.item)
                                      ELSE tables[t]
    BY <1>1, <1>3, <1>5
  <2>2. \A t \in Tables : Good(t, tables'[t])
    BY <1>2, <1>5, <2>1, GoodTables
  <2>3. \A t \in Tables : tables'[t] \subseteq Row
    BY <2>2 DEF Good
  <2>4. QED
    BY <1>1, <1>3, <1>5, <2>2, <2>3
<1>6. QED
  BY <1>4, <1>5 DEF Carry

\* The empty tables are good.
LEMMA InitInv == Init => IInv
BY ConstantsAssumption DEF Init, IInv, TypeOK, ColumnsMatchPayload, OneEvidencePerIdentity, Tables

\* Every step keeps the invariant.
LEMMA NextInv == IInv /\ [Next]_vars => IInv'
<1> SUFFICES ASSUME IInv, [Next]_vars PROVE IInv'
  OBVIOUS
<1>t. TypeOK
  BY DEF IInv
<1>u. ASSUME UNCHANGED tables PROVE
        /\ tables' \in [Tables -> SUBSET Row]
        /\ \A t \in Tables : Good(t, tables'[t])
  BY <1>u, <1>t, GoodTables DEF TypeOK
<1>q. ASSUME /\ tables' \in [Tables -> SUBSET Row]
             /\ \A t \in Tables : Good(t, tables'[t])
             /\ call' \in [Clients -> Statement \cup {None}]
             /\ late' \subseteq Statement
             /\ statements' \in 0..MaxStatements
             /\ executor' = executor
      PROVE  IInv'
  <2>1. /\ \A t \in Tables \ {"events"} : \A q, r \in tables'[t] : q.id = r.id => q = r
        /\ ColumnsMatchPayload'
        /\ OneEvidencePerIdentity'
    <3>1. "evidence" \in Tables
      BY DEF Tables
    <3>2. QED
      BY <1>q, <3>1 DEF Good, UniqueIds, Matching, UniqueSources, ColumnsMatchPayload,
                        OneEvidencePerIdentity, Indexed
  <2>2. QED
    BY <1>q, <1>t, <2>1 DEF IInv, TypeOK
<1>1. ASSUME NEW c \in Clients, Begin(c) PROVE IInv'
  <2>1. statements \in Nat /\ statements < MaxStatements
    BY <1>1, <1>t, ConstantsAssumption DEF Begin, Send, TypeOK
  <2>2. PICK t \in Tables, x \in Item : Send(c, t, x)
    <3>1. \A k \in Keys, a \in Agents, source \in Source :
             NewItem(k, a, source, 0, "open") \in Item
      BY <2>1, NewItemType
    <3>2. \A k \in Keys, a \in Agents, v \in 0..1, status \in {"open", "published"} :
             NewItem(k, a, None, v, status) \in Item
      BY <2>1, NewItemType DEF Source
    <3>3. None \in Source
      BY DEF Source
    <3>4. QED
      BY <1>1, <3>1, <3>2, <3>3 DEF Begin, Tables
  <2>3. [table |-> t, item |-> x] \in Statement
    BY DEF Statement
  <2>4. QED
    BY <1>q, <1>t, <1>u, <2>1, <2>2, <2>3, ConstantsAssumption DEF Send, TypeOK
<1>2. ASSUME NEW c \in Clients, Execute(c) PROVE IInv'
  <2>1. call[c] \in Statement
    BY <1>2, <1>t DEF Execute, TypeOK
  <2>2. QED
    BY <1>2, <1>q, <1>t, <2>1, CarryGood DEF Execute, TypeOK
<1>3. ASSUME NEW c \in Clients, Abandon(c) PROVE IInv'
  <2>1. call[c] \in Statement
    BY <1>3, <1>t DEF Abandon, TypeOK
  <2>2. QED
    BY <1>3, <1>q, <1>t, <1>u, <2>1 DEF Abandon, TypeOK
<1>4. ASSUME CarryLate PROVE IInv'
  <2>1. PICK s \in late : Carry(s) /\ late' = late \ {s}
    BY <1>4 DEF CarryLate
  <2>2. s \in Statement
    BY <1>t DEF TypeOK
  <2>3. QED
    BY <1>4, <1>q, <1>t, <2>1, <2>2, CarryGood DEF CarryLate, TypeOK
<1>5. ASSUME LoseLate PROVE IInv'
  BY <1>5, <1>q, <1>t, <1>u DEF LoseLate, TypeOK
<1>6. ASSUME UNCHANGED vars PROVE IInv'
  BY <1>6, <1>q, <1>t, <1>u DEF vars, TypeOK
<1>7. QED
  BY <1>1, <1>2, <1>3, <1>4, <1>5, <1>6 DEF Next

\* The three invariants hold together, which is what makes them inductive.
THEOREM Inductive == Spec => []IInv
<1>1. QED
  BY InitInv, NextInv, PTL DEF Spec

\* Every variable keeps its type, and ids stay unique where the statement of a
\* table says what happens on a conflict.
THEOREM TypeCorrect == Spec => []TypeOK
<1>1. IInv => TypeOK
  BY DEF IInv
<1>2. QED
  BY <1>1, Inductive, PTL

\* What the statements compare is what the callers read.
THEOREM ColumnsAreRead == Spec => []ColumnsMatchPayload
<1>1. IInv => ColumnsMatchPayload
  BY DEF IInv
<1>2. QED
  BY <1>1, Inductive, PTL

\* Any number of processes leave one piece of evidence per source identity, in a
\* database also of the empty one.
THEOREM OneEvidence == Spec => []OneEvidencePerIdentity
<1>1. IInv => OneEvidencePerIdentity
  BY DEF IInv
<1>2. QED
  BY <1>1, Inductive, PTL
-----------------------------------------------------------------------------
(* Refinement.  The items of a table are the payloads of its rows; a        *)
(* statement changes them as the call of EvolutionStore with its item does. *)

Payloads(rows) == {q.payload : q \in rows}

\* Items without an id are the payloads of the rows without it.
LEMMA PayloadsWithout ==
  ASSUME NEW t \in Tables, NEW rows, Good(t, rows), NEW x \in Item
  PROVE  Payloads((rows \ WithId(rows, x.id)) \cup {RowOf(x)}) =
           {f \in Payloads(rows) : f.id # x.id} \cup {x}
<1>1. \A q \in rows : q.payload.id = q.id
  BY RowOfItem DEF Good, Matching, RowOf, Row
<1>2. QED
  BY <1>1, RowOfItem DEF Payloads, WithId

\* The same for the rows that share a source.
LEMMA PayloadsBySource ==
  ASSUME NEW rows, Good("evidence", rows), NEW x \in Item, x.source \in Sources
  PROVE  Payloads(upsertEvidenceBySource(rows, RowOf(x))) =
           {f \in Payloads(rows) : f.id # x.id /\ ~Abstract!SharesSource(x, f)} \cup {x}
<1> DEFINE keep == rows \ (WithSource(rows, RowOf(x)) \cup WithId(rows, x.id))
<1>1. \A q \in rows : q.payload.id = q.id
  BY RowOfItem DEF Good, Matching, RowOf, Row
<1>2. \A q \in rows : q \in keep <=>
         q.payload.id # x.id /\ ~Abstract!SharesSource(x, q.payload)
  BY <1>1, WithSourceRows DEF WithId, Abstract!SharesSource, Indexed
<1>3. Payloads(keep \cup {RowOf(x)}) =
         {f \in Payloads(rows) : f.id # x.id /\ ~Abstract!SharesSource(x, f)} \cup {x}
  BY <1>2, RowOfItem DEF Payloads
<1>4. QED
  BY <1>3, BySourceRow

\* Carrying a statement out is a step of EvolutionStore.
LEMMA CarryStep ==
  ASSUME IInv, NEW s \in Statement, Carry(s)
  PROVE  [Abstract!Next]_Content
<1> DEFINE t == s.table
           x == s.item
           rows == tables[t]
<1>1. t \in Tables /\ x \in Item /\ Good(t, rows)
  BY GoodTables DEF Statement
<1>2. tables \in [Tables -> SUBSET Row]
  BY DEF IInv, TypeOK
<1>3. Content = [u \in Tables |-> Payloads(tables[u])]
  BY DEF Content, Payloads
<1>4. Content' = [u \in Tables |-> Payloads(tables'[u])]
  BY DEF Content, Payloads
<1>5. CASE tables' = tables
  BY <1>3, <1>4, <1>5
<1>6. CASE tables' = [tables EXCEPT ![t] = Result(t, rows, x)]
  <2>1. Content' = [Content EXCEPT ![t] = Payloads(Result(t, rows, x))]
    BY <1>1, <1>2, <1>3, <1>4, <1>6
  <2>2. Content[t] = Payloads(rows)
    BY <1>1, <1>3
  <2>3. Content'[t] = Payloads(Result(t, rows, x))
    BY <1>1, <1>4, <1>6, <1>2
  <2>4. CASE t = "evidence"
    <3>1. Payloads(Result(t, rows, x)) =
            {f \in Payloads(rows) : f.id # x.id /\ ~Abstract!SharesSource(x, f)} \cup {x}
      <4>1. CASE bySource(x)
        BY <1>1, <2>4, <4>1, PayloadsBySource DEF Result, bySource
      <4>2. CASE ~bySource(x)
        <5>1. Payloads(Result(t, rows, x)) = {f \in Payloads(rows) : f.id # x.id} \cup {x}
          BY <1>1, <2>4, <4>2, PayloadsWithout, RowOfItem DEF Result, upsertEvidenceById
        <5>2. \A f : ~Abstract!SharesSource(x, f)
          BY <4>2 DEF bySource, Abstract!SharesSource
        <5>3. QED
          BY <5>1, <5>2
      <4>3. QED
        BY <4>1, <4>2
    <3>2. Abstract!PutEvidence(x)
      BY <2>1, <2>2, <2>4, <3>1 DEF Abstract!PutEvidence, Abstract!Without
    <3>3. QED
      BY <2>3, <2>4, <3>1, <3>2 DEF Abstract!Next
  <2>5. CASE t = "lessons"
    <3>1. Payloads(Result(t, rows, x)) = {f \in Payloads(rows) : f.id # x.id} \cup {x}
      BY <1>1, <2>5, PayloadsWithout, RowOfItem DEF Result, upsertLesson
    <3>2. Abstract!PutLesson(x)
      BY <2>1, <2>2, <2>5, <3>1 DEF Abstract!PutLesson, Abstract!Without
    <3>3. QED
      BY <2>3, <2>5, <3>1, <3>2 DEF Abstract!Next
  <2>6. CASE t = "proposals" /\ ~Conflicts(rows, RowOf(x))
    <3>1. Payloads(Result(t, rows, x)) = {f \in Payloads(rows) : f.id # x.id} \cup {x}
      BY <1>1, <2>6, PayloadsWithout, RowOfItem DEF Result, upsertProposal
    <3>2. \A q \in Payloads(rows) : q.id = x.id => ~proposalUpsertConflicts(q, x)
      <4>1. \A q \in rows : /\ q.id = q.payload.id
                           /\ q.version = q.payload.version
                           /\ q.status = q.payload.status
        BY <1>1, RowOfItem DEF Good, Matching, RowOf, Row
      <4>2. QED
        BY <2>6, <4>1, <1>1, RowOfItem DEF Conflicts, WithId, Payloads, proposalUpsertConflicts
    <3>3. Abstract!PutProposal(x)
      <4>1. \A q \in Content["proposals"] : q.id = x.id => ~Abstract!proposalUpsertConflicts(q, x)
        BY <2>2, <2>6, <3>2 DEF proposalUpsertConflicts, Abstract!proposalUpsertConflicts
      <4>2. Content' = [Content EXCEPT !["proposals"] = Abstract!Without("proposals", x.id) \cup {x}]
        BY <2>1, <2>2, <2>6, <3>1 DEF Abstract!Without
      <4>3. QED
        BY <4>1, <4>2 DEF Abstract!PutProposal
    <3>4. QED
      BY <2>3, <2>6, <3>1, <3>3 DEF Abstract!Next
  <2>7. CASE t = "proposals" /\ Conflicts(rows, RowOf(x))
    <3>1. Result(t, rows, x) = rows
      BY <2>7 DEF Result, upsertProposal
    <3>2. tables' = tables
      BY <1>2, <1>6, <3>1
    <3>3. QED
      BY <1>3, <1>4, <3>2
  <2>8. CASE t = "events"
    <3>1. Payloads(Result(t, rows, x)) = Payloads(rows) \cup {x}
      BY <1>1, <2>8, RowOfItem DEF Result, insertEvent, Payloads
    <3>2. Abstract!AppendEvent(x)
      BY <2>1, <2>2, <2>8, <3>1 DEF Abstract!AppendEvent
    <3>3. QED
      BY <2>3, <2>8, <3>1, <3>2 DEF Abstract!Next
  <2>9. QED
    BY <1>1, <2>4, <2>5, <2>6, <2>7, <2>8 DEF Tables
<1>7. QED
  BY <1>5, <1>6 DEF Carry

\* Every step of the store is a step of EvolutionStore, or none.
LEMMA NextStep == IInv /\ [Next]_vars => [Abstract!Next]_Content
<1> SUFFICES ASSUME IInv, [Next]_vars PROVE [Abstract!Next]_Content
  OBVIOUS
<1>u. ASSUME UNCHANGED tables PROVE UNCHANGED Content
  BY <1>u DEF Content
<1>1. ASSUME NEW c \in Clients, Begin(c) PROVE UNCHANGED tables
  BY <1>1 DEF Begin, Send
<1>2. ASSUME NEW c \in Clients, Execute(c) PROVE [Abstract!Next]_Content
  BY <1>2, CarryStep DEF Execute, IInv, TypeOK
<1>3. ASSUME NEW c \in Clients, Abandon(c) PROVE UNCHANGED tables
  BY <1>3 DEF Abandon
<1>4. ASSUME CarryLate PROVE [Abstract!Next]_Content
  BY <1>4, CarryStep DEF CarryLate, IInv, TypeOK
<1>5. ASSUME LoseLate PROVE UNCHANGED tables
  BY <1>5 DEF LoseLate
<1>6. ASSUME UNCHANGED vars PROVE UNCHANGED tables
  BY <1>6 DEF vars
<1>7. QED
  BY <1>u, <1>1, <1>2, <1>3, <1>4, <1>5, <1>6 DEF Next

\* Overlapping, abandoned and late statements of any number of processes are
\* calls of one EvolutionStore, each taking effect once or not at all.
THEOREM Implements == Spec => ImplementsStore
<1>1. Init => Abstract!Init
  BY DEF Init, Abstract!Init, Content, Tables, Abstract!Tables
<1>2. IInv /\ [Next]_vars => [Abstract!Next]_Content
  BY NextStep
<1>3. Spec => []IInv
  BY Inductive
<1>4. QED
  BY <1>1, <1>2, <1>3, PTL DEF Spec, ImplementsStore, Abstract!Spec
=============================================================================
