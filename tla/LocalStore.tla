----------------------------- MODULE LocalStore -----------------------------
(***************************************************************************)
(* LocalEvolutionStore (packages/core/src/storage-local/                   *)
(* local-evolution-store.ts, atomic-json.ts): four collections, each held  *)
(* in memory and in a JSON file that every write rewrites as a whole.      *)
(*                                                                         *)
(* Operations run one at a time (runExclusive).  A write changes the       *)
(* memory first and then waits for its file; when the file fails, only     *)
(* putProposal takes the change in memory back.  close() writes the four   *)
(* files at once and gives up at the first failure (Promise.all), so the   *)
(* others may still be on their way when the next operation starts.        *)
(*                                                                         *)
(* What an item holds is a stamp that counts the writes, and for proposals *)
(* what the write guard looks at.                                          *)
(***************************************************************************)
EXTENDS Policies

CONSTANTS
  Keys,       \* item ids
  Identity,   \* Identity[k]: the source identity of the evidence with id k
  MaxWrites,  \* bound on the number of writes begun
  MaxCloseFailures, \* bound on the number of failed close() calls
  None

Collections == {"evidence", "lessons", "proposals", "events"}

Item == [stamp : Nat, version : 0..1, status : {"open", "published"}]

Content == [Keys -> Item \cup {None}]
Empty == [coll \in Collections |-> [k \in Keys |-> None]]

\* A write whose file is not settled: the item that it replaced is kept.
Operation == [coll : Collections, key : Keys, stamp : Nat, before : Item \cup {None}]

Stray == [coll : Collections, content : Content]

ASSUME ConstantsAssumption ==
  /\ MaxWrites \in Nat /\ MaxCloseFailures \in Nat
  /\ DOMAIN Identity = Keys
  /\ None \notin Item \cup Operation

VARIABLES
  disk,        \* disk[coll]: what the file holds
  memory,      \* memory[coll]: what the maps hold
  opened,
  op,          \* the write in flight, or None
  stray,       \* file writes a failed close left behind
  writes,      \* writes begun so far
  acked,       \* history: the stamp of the last write of each key that resolved
  closeFailures \* close() calls that failed so far

counters == <<acked, closeFailures>>
vars == <<disk, memory, opened, op, stray, writes, counters>>

\* Mutant: an operation does not load a closed store.
LoadedWithoutDisk == memory

\* ensureOpenUnlocked: the maps as an operation finds them.
Loaded == IF opened THEN memory ELSE disk

\* Mutant: putEvidence leaves what shares its source identity.
ReplacedById(coll, k) == {k}

\* The keys an item of coll replaces: putEvidence first deletes what shares
\* its source identity.
Replaced(coll, k) ==
  IF coll = "evidence" THEN {j \in Keys : Identity[j] = Identity[k]} ELSE {k}

Conflicts(existing, item) ==
  existing # None /\ proposalUpsertConflicts(existing, item)

\* Mutant: the guard is left to the caller.
AllowedAlways(coll, k, item) == coll = "events" => Loaded[coll][k] = None

\* assertProposalWriteAllowed; an event is pushed under a fresh id.
Allowed(coll, k, item) ==
  /\ coll = "proposals" => ~Conflicts(Loaded[coll][k], item)
  /\ coll = "events" => Loaded[coll][k] = None

NewItem(coll, version, status) ==
  [stamp |-> writes + 1, version |-> version, status |-> status]

-----------------------------------------------------------------------------
\* open() and the reads: a closed store is loaded, open() also reloads.
Open ==
  /\ op = None
  /\ memory' = disk
  /\ opened' = TRUE
  /\ UNCHANGED <<disk, op, stray, writes, counters>>

\* putEvidence, putLesson, putProposal, appendEvent up to the file.
Put(coll, k, item) ==
  /\ op = None
  /\ writes < MaxWrites
  /\ Allowed(coll, k, item)
  /\ memory' = [Loaded EXCEPT ![coll] =
                  [j \in Keys |-> IF j = k THEN item
                                  ELSE IF j \in Replaced(coll, k) THEN None
                                  ELSE Loaded[coll][j]]]
  /\ opened' = TRUE
  /\ op' = [coll |-> coll, key |-> k, stamp |-> item.stamp, before |-> Loaded[coll][k]]
  /\ writes' = writes + 1
  /\ UNCHANGED <<disk, stray, counters>>

\* A conflicting proposal: VersionConflictError, and nothing is written.
PutRefused(k, item) ==
  /\ op = None
  /\ ~Allowed("proposals", k, item)
  /\ memory' = Loaded
  /\ opened' = TRUE
  /\ UNCHANGED <<disk, op, stray, writes, counters>>

\* writeJsonAtomic renames the new file over the old one; the call resolves.
PersistDone ==
  /\ op # None
  /\ disk' = [disk EXCEPT ![op.coll] = memory[op.coll]]
  /\ acked' = [acked EXCEPT ![op.coll][op.key] = op.stamp]
  /\ op' = None
  /\ UNCHANGED <<memory, opened, stray, writes, closeFailures>>

\* Mutant: a failed putProposal leaves its item in memory, like the others.
PersistFailsInMemory ==
  /\ op # None
  /\ op' = None
  /\ UNCHANGED <<disk, memory, opened, stray, writes, counters>>

\* The file cannot be written: the call throws.
PersistFails ==
  /\ op # None
  /\ memory' = IF op.coll = "proposals"
               THEN [memory EXCEPT !["proposals"][op.key] = op.before]
               ELSE memory
  /\ op' = None
  /\ UNCHANGED <<disk, opened, stray, writes, counters>>

\* The four files, of which those of landed now hold what the memory holds.
Landed(landed) ==
  [coll \in Collections |-> IF coll \in landed THEN memory[coll] ELSE disk[coll]]

\* Mutant: close does not wait for the write in flight.
CloseAtOnce ==
  /\ opened
  /\ disk' = Landed(Collections)
  /\ memory' = Empty
  /\ opened' = FALSE
  /\ UNCHANGED <<op, stray, writes, counters>>

\* close(): the four files are written, then the maps are emptied.
Close ==
  /\ op = None
  /\ opened
  /\ disk' = Landed(Collections)
  /\ memory' = Empty
  /\ opened' = FALSE
  /\ UNCHANGED <<op, stray, writes, counters>>

\* A file of close() fails: the store stays open, and of the other files some
\* are written and some are still to come.
CloseFails ==
  /\ op = None
  /\ closeFailures < MaxCloseFailures
  /\ opened
  /\ \E landed, flying \in SUBSET Collections :
       /\ landed \cap flying = {}
       /\ landed \cup flying # Collections
       /\ disk' = Landed(landed)
       /\ stray' = stray \cup {[coll |-> coll, content |-> memory[coll]] : coll \in flying}
  /\ closeFailures' = closeFailures + 1
  /\ UNCHANGED <<memory, opened, op, writes, acked>>

StrayLands ==
  /\ \E w \in stray :
       /\ disk' = [disk EXCEPT ![w.coll] = w.content]
       /\ stray' = stray \ {w}
  /\ UNCHANGED <<memory, opened, op, writes, counters>>

\* The process dies: the file of the write in flight, or some files of a
\* close() in flight, may have been renamed.
Crash ==
  /\ \E landed \in SUBSET (IF op # None THEN {op.coll}
                           ELSE IF opened THEN Collections ELSE {}) :
       disk' = Landed(landed)
  /\ memory' = Empty
  /\ opened' = FALSE
  /\ op' = None
  /\ stray' = {}
  /\ UNCHANGED <<writes, counters>>

Init ==
  /\ disk = Empty
  /\ memory = Empty
  /\ opened = FALSE
  /\ op = None
  /\ stray = {}
  /\ writes = 0
  /\ acked = [coll \in Collections |-> [k \in Keys |-> 0]]
  /\ closeFailures = 0

\* Only proposals have a version and a status.
Forms(coll) ==
  IF coll = "proposals" THEN {0, 1} \X {"open", "published"} ELSE {<<0, "open">>}

Next ==
  \/ Open
  \/ \E coll \in Collections, k \in Keys : \E form \in Forms(coll) :
       Put(coll, k, NewItem(coll, form[1], form[2]))
  \/ \E k \in Keys : \E form \in Forms("proposals") :
       PutRefused(k, NewItem("proposals", form[1], form[2]))
  \/ PersistDone
  \/ PersistFails
  \/ Close
  \/ CloseFails
  \/ StrayLands
  \/ Crash

Spec == Init /\ [][Next]_vars

-----------------------------------------------------------------------------
(* Properties. *)

\* Every variable holds a value of its type.
TypeOK ==
  /\ disk \in [Collections -> Content]
  /\ memory \in [Collections -> Content]
  /\ opened \in BOOLEAN
  /\ op \in Operation \cup {None}
  /\ op # None => opened
  /\ stray \subseteq Stray
  /\ writes \in 0..MaxWrites
  /\ acked \in [Collections -> [Keys -> Nat]]
  /\ closeFailures \in 0..MaxCloseFailures

\* A write that resolved is on disk, or a later write of what it replaces is:
\* through failed writes, close, reload and crashes, until a close fails.
ResolvedIsDurable ==
  closeFailures = 0 =>
    \A coll \in Collections, k \in Keys :
      acked[coll][k] # 0 =>
        \E j \in Replaced(coll, k) :
          disk[coll][j] # None /\ disk[coll][j].stamp >= acked[coll][k]

\* What getProposal answers between two operations is what a restart would
\* answer: no proposal is visible that its file does not hold.
VisibleProposalsAreDurable ==
  opened /\ op = None /\ closeFailures = 0 => memory["proposals"] = disk["proposals"]

\* At most one evidence item of a source identity is stored, in memory and on
\* disk, whatever was retried in between.
OneEvidencePerIdentity ==
  \A m \in {memory, disk} : \A j, k \in Keys :
    /\ m["evidence"][j] # None
    /\ m["evidence"][k] # None
    /\ Identity[j] = Identity[k]
    => j = k

\* Seen from outside the process, the proposals change as the improvement
\* runtime takes them to: one at a time, and never to what the guard refuses.
ProposalWritesAreGuarded ==
  [][ closeFailures = 0 =>
        \A k \in Keys :
          LET old == disk["proposals"][k]
              new == disk'["proposals"][k]
          IN new # old => /\ new # None
                          /\ ~Conflicts(old, new)
                          /\ \A j \in Keys \ {k} :
                               disk'["proposals"][j] = disk["proposals"][j] ]_vars
=============================================================================
