---------------------------- MODULE PostgresStore ----------------------------
(***************************************************************************)
(* PostgresEvolutionStore (packages/core/src/storage-postgres): every call *)
(* of a store is one SQL statement (sql.ts), so the database alone keeps   *)
(* the processes that share it apart.  A row has the columns that          *)
(* statements compare, and the payload, the JSON text that reads revive    *)
(* (serialize.ts); nothing but the statements keeps the two the same.      *)
(*                                                                         *)
(* A process whose connection breaks gets an error, while its statement    *)
(* may still be carried out, at any later time.  executor says what the    *)
(* store was given: a database, or createMemorySqlExecutor, which runs the *)
(* same statements in one process, one after the other.                    *)
(***************************************************************************)
EXTENDS Policies

CONSTANTS
  Clients,       \* processes, with a store each
  Keys,          \* ids
  Agents,
  Sources,       \* source identities other than the empty string
  Empty,         \* the empty string as a source identity
  None,
  MaxStatements  \* bound on the statements sent

Tables == {"evidence", "lessons", "proposals", "events"}

Source == Sources \cup {Empty, None}

\* What a caller hands over, and what a read gives back: stamp tells two
\* records of the same form apart.
Item == [id : Keys, agent : Agents, source : Source, version : 0..1,
         status : {"open", "published"}, stamp : Nat]

Row == [id : Keys, agent_id : Agents, source_identity : Source, version : 0..1,
        status : {"open", "published"}, payload : Item]

Statement == [table : Tables, item : Item]

ASSUME ConstantsAssumption ==
  /\ Empty \notin Sources /\ None \notin Sources /\ None # Empty
  /\ None \notin Statement
  /\ MaxStatements \in Nat

VARIABLES
  tables,    \* tables[t]: the rows of table t
  call,      \* call[c]: the statement process c waits for, or None
  late,      \* statements that nobody waits for any more
  statements \* statements sent so far

\* The executor, and whether the rows were written under its rules, do not
\* change while a store is in use.
VARIABLE executor

vars == <<tables, call, late, statements, executor>>

-----------------------------------------------------------------------------
(* The statements of sql.ts, and what MemorySqlExecutor does for them.  Each *)
(* gives the rows afterwards; Violates is a unique key in its way, of which  *)
(* only a database takes notice.                                             *)

\* The parameters of a put: columns beside the payload.
RowOf(x) == [id |-> x.id, agent_id |-> x.agent, source_identity |-> x.source,
             version |-> x.version, status |-> x.status, payload |-> x]

WithId(rows, id) == {q \in rows : q.id = id}

\* The row of the index on (agent_id, source_identity) that r would be at.
WithSource(rows, r) ==
  {q \in rows : /\ r.source_identity # None
                /\ q.source_identity = r.source_identity
                /\ q.agent_id = r.agent_id}

\* SET id, payload: the columns of the index stay as they are.
Updated(q, r) ==
  [r EXCEPT !.agent_id = q.agent_id, !.source_identity = q.source_identity]

\* Mutant: the memory executor keeps the row that has the new id.
upsertEvidenceBySourceOnly(rows, r) ==
  LET old == WithSource(rows, r)
  IN (rows \ old) \cup IF old = {} \/ executor = "memory" THEN {r}
                       ELSE {Updated(q, r) : q \in old}

\* ON CONFLICT (agent_id, source_identity) DO UPDATE SET id, payload
upsertEvidenceBySource(rows, r) ==
  LET old == WithSource(rows, r)
  IN (rows \ (old \cup WithId(rows, r.id)))
       \cup IF old = {} \/ executor = "memory" THEN {r}
            ELSE {Updated(q, r) : q \in old}

\* ON CONFLICT (id) DO UPDATE SET agent_id, source_identity, payload
upsertEvidenceById(rows, r) == (rows \ WithId(rows, r.id)) \cup {r}

\* ON CONFLICT (id) DO UPDATE SET payload
upsertLesson(rows, r) == (rows \ WithId(rows, r.id)) \cup {r}

\* The WHERE of upsertProposal, or proposalUpsertConflicts in the memory executor.
Conflicts(rows, r) == \E q \in WithId(rows, r.id) : proposalUpsertConflicts(q, r)

\* Mutant: DO UPDATE SET forgets the status column.
upsertProposalKeepingStatus(rows, r) ==
  IF Conflicts(rows, r) THEN rows
  ELSE (rows \ WithId(rows, r.id))
         \cup IF WithId(rows, r.id) = {} THEN {r}
              ELSE {[r EXCEPT !.status = q.status] : q \in WithId(rows, r.id)}

\* Mutant: the WHERE only compares versions.
upsertProposalByVersion(rows, r) ==
  IF \E q \in WithId(rows, r.id) : q.version > r.version THEN rows
  ELSE (rows \ WithId(rows, r.id)) \cup {r}

\* ON CONFLICT (id) DO UPDATE SET version, status, payload WHERE ... RETURNING id
upsertProposal(rows, r) ==
  IF Conflicts(rows, r) THEN rows ELSE (rows \ WithId(rows, r.id)) \cup {r}

insertEvent(rows, r) == rows \cup {r}

\* Mutant: evidence is always put by its id.
bySourceNever(x) == FALSE

\* putEvidence: `if (sourceIdentity)`, which the empty string does not pass.
bySource(x) == x.source \in Sources

\* A row in the way that no ON CONFLICT clause of the statement is about.
Violates(t, rows, x) ==
  LET r == RowOf(x) IN
  CASE t = "evidence" /\ bySource(x)  -> WithId(rows, r.id) \ WithSource(rows, r) # {}
    [] t = "evidence" /\ ~bySource(x) -> WithSource(rows, r) \ WithId(rows, r.id) # {}
    [] t = "events"                   -> WithId(rows, r.id) # {}
    [] OTHER                          -> FALSE

Result(t, rows, x) ==
  CASE t = "evidence" /\ bySource(x)  -> upsertEvidenceBySource(rows, RowOf(x))
    [] t = "evidence" /\ ~bySource(x) -> upsertEvidenceById(rows, RowOf(x))
    [] t = "lessons"                  -> upsertLesson(rows, RowOf(x))
    [] t = "proposals"                -> upsertProposal(rows, RowOf(x))
    [] t = "events"                   -> insertEvent(rows, RowOf(x))

\* The database carries out a statement: as a whole, or not at all.
Carry(s) ==
  tables' = IF executor = "database" /\ Violates(s.table, tables[s.table], s.item)
            THEN tables
            ELSE [tables EXCEPT ![s.table] = Result(s.table, @, s.item)]

-----------------------------------------------------------------------------
(* The calls of a store. *)

\* putEvidence, putLesson, putProposal, appendEvent up to the database.
Send(c, t, x) ==
  /\ call[c] = None
  /\ statements < MaxStatements
  /\ call' = [call EXCEPT ![c] = [table |-> t, item |-> x]]
  /\ statements' = statements + 1
  /\ UNCHANGED <<tables, late, executor>>

\* The statement is carried out and the call returns: it resolves, or it
\* throws on a violated key, and on a proposal that returned no id
\* (VersionConflictError).
Execute(c) ==
  /\ call[c] # None
  /\ Carry(call[c])
  /\ call' = [call EXCEPT ![c] = None]
  /\ UNCHANGED <<late, statements, executor>>

\* The connection breaks, or the process dies, before the answer is there.
Abandon(c) ==
  /\ executor = "database"
  /\ call[c] # None
  /\ late' = late \cup {call[c]}
  /\ call' = [call EXCEPT ![c] = None]
  /\ UNCHANGED <<tables, statements, executor>>

\* An abandoned statement is carried out after all, or never.
CarryLate ==
  /\ \E s \in late : Carry(s) /\ late' = late \ {s}
  /\ UNCHANGED <<call, statements, executor>>

LoseLate ==
  /\ \E s \in late : late' = late \ {s}
  /\ UNCHANGED <<tables, call, statements, executor>>

\* Only evidence has a source; only proposals have a version and a status.
NewItem(k, a, source, version, status) ==
  [id |-> k, agent |-> a, source |-> source, version |-> version, status |-> status,
   stamp |-> statements + 1]

Begin(c) ==
  \E k \in Keys, a \in Agents :
    \/ \E source \in Source : Send(c, "evidence", NewItem(k, a, source, 0, "open"))
    \/ \E v \in 0..1, status \in {"open", "published"} :
         Send(c, "proposals", NewItem(k, a, None, v, status))
    \/ \E t \in {"lessons", "events"} : Send(c, t, NewItem(k, a, None, 0, "open"))

\* initialize() creates the tables, unless they exist.
Init ==
  /\ tables = [t \in Tables |-> {}]
  /\ call = [c \in Clients |-> None]
  /\ late = {}
  /\ statements = 0
  /\ executor \in {"database", "memory"}

Next ==
  \/ \E c \in Clients : Begin(c) \/ Execute(c) \/ Abandon(c)
  \/ CarryLate
  \/ LoseLate

Spec == Init /\ [][Next]_vars

-----------------------------------------------------------------------------
(* Properties. *)

\* Every variable holds a value of its type; ids are unique in every table
\* whose statement says what happens on a conflict.
TypeOK ==
  /\ tables \in [Tables -> SUBSET Row]
  /\ \A t \in Tables \ {"events"} : \A q, r \in tables[t] : q.id = r.id => q = r
  /\ call \in [Clients -> Statement \cup {None}]
  /\ late \subseteq Statement
  /\ statements \in 0..MaxStatements
  /\ executor \in {"database", "memory"}

\* The columns say what the payload says: the guard of upsertProposal and the
\* index on the sources decide on columns, while callers read payloads.
ColumnsMatchPayload ==
  \A t \in Tables : \A q \in tables[t] : q = RowOf(q.payload)

\* What the store keeps one piece of evidence of: to the index of a database the
\* empty string is an identity like any other, though putEvidence passes over it.
Indexed == IF executor = "database" THEN Sources \cup {Empty} ELSE Sources

\* However many processes deliver it, and however late their statements are
\* carried out, an agent has one piece of evidence of a source identity; in a
\* database that goes for the empty string too, which is put by id.
OneEvidencePerIdentity ==
  \A q, r \in tables["evidence"] :
    /\ q.payload.source \in Indexed
    /\ q.payload.source = r.payload.source
    /\ q.payload.agent = r.payload.agent
    => q = r

\* What reads revive: getLesson, findEvidence and the others see payloads only.
Content == [t \in Tables |-> {q.payload : q \in tables[t]}]

\* The store with its overlapping, abandoned and late statements implements
\* EvolutionStore: each takes effect once, as a whole, on what is stored then,
\* and no late copy of a proposal gets past the guard.
Abstract == INSTANCE EvolutionStore WITH content <- Content
ImplementsStore == Abstract!Spec
=============================================================================
