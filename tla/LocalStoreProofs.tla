-------------------------- MODULE LocalStoreProofs --------------------------
(***************************************************************************)
(* Theorems about LocalStore, for any ids and source identities and any    *)
(* number of writes, failed files, closes, reloads and crashes: every      *)
(* property that the runs check.                                           *)
(*                                                                         *)
(* Durability and the guard of proposals are about memory and disk at      *)
(* once.  As long as no close failed, the two hold the same proposals but  *)
(* for the one in flight, which the guard has allowed over what the disk   *)
(* holds; and a write that resolved is accounted for in both.  No two      *)
(* pieces of evidence share an identity in memory, in the files, and in    *)
(* the files that a failed close left on their way.                        *)
(***************************************************************************)
EXTENDS LocalStore, TLAPS

UniqueEvidence(content) ==
  \A j, k \in Keys :
    content[j] # None /\ content[k] # None /\ Identity[j] = Identity[k] => j = k

\* The write in flight is in memory, with the stamp it will acknowledge.
FlightInMemory ==
  op # None =>
    /\ op.stamp <= writes
    /\ memory[op.coll][op.key] # None
    /\ memory[op.coll][op.key].stamp = op.stamp

InFlight(k) == op # None /\ op.coll = "proposals" /\ op.key = k

\* The proposals of memory and disk are the same but for the one in flight.
ProposalsAgree ==
  \A k \in Keys :
    IF InFlight(k)
    THEN /\ op.before = disk["proposals"][k]
         /\ ~Conflicts(disk["proposals"][k], memory["proposals"][k])
    ELSE memory["proposals"][k] = disk["proposals"][k]

\* content accounts for the acknowledged write of k, or for a later one.
Accounts(content, coll, k, stamp) ==
  stamp # 0 =>
    \E j \in Replaced(coll, k) : content[j] # None /\ content[j].stamp >= stamp

AllAccounted(m) ==
  \A coll \in Collections, k \in Keys : Accounts(m[coll], coll, k, acked[coll][k])

IInv ==
  /\ TypeOK
  /\ UniqueEvidence(disk["evidence"])
  /\ UniqueEvidence(memory["evidence"])
  /\ \A w \in stray : w.coll = "evidence" => UniqueEvidence(w.content)
  /\ FlightInMemory
  /\ \A coll \in Collections, k \in Keys : acked[coll][k] <= writes
  /\ closeFailures = 0 =>
       /\ stray = {}
       /\ AllAccounted(disk)
       /\ opened => ProposalsAgree /\ AllAccounted(memory)

-----------------------------------------------------------------------------
(* What the operators of the store give. *)

\* What a write replaces it replaces for all that share its identity.
LEMMA ReplacedClasses ==
  ASSUME NEW coll \in Collections, NEW j \in Keys, NEW k \in Keys, NEW i \in Keys
  PROVE  /\ k \in Replaced(coll, k)
         /\ Replaced(coll, k) \subseteq Keys
         /\ j \in Replaced(coll, k) /\ j \in Replaced(coll, i) => i \in Replaced(coll, k)
BY DEF Replaced

LEMMA EmptyContent ==
  /\ Empty \in [Collections -> Content]
  /\ UniqueEvidence(Empty["evidence"])
BY DEF Empty, Content, UniqueEvidence, Collections

LEMMA LandedTypes ==
  ASSUME TypeOK, NEW landed
  PROVE  /\ Landed(landed) \in [Collections -> Content]
         /\ \A coll \in Collections :
              Landed(landed)[coll] = IF coll \in landed THEN memory[coll] ELSE disk[coll]
BY DEF TypeOK, Landed

LEMMA LoadedTypes ==
  ASSUME TypeOK
  PROVE  Loaded \in [Collections -> Content]
BY DEF TypeOK, Loaded

\* What an operation finds in the maps is right, loaded or not.
LEMMA LoadedInv ==
  ASSUME IInv
  PROVE  /\ UniqueEvidence(Loaded["evidence"])
         /\ closeFailures = 0 => AllAccounted(Loaded)
         /\ closeFailures = 0 /\ op = None => Loaded["proposals"] = disk["proposals"]
<1>1. CASE opened
  <2>1. Loaded = memory
    BY <1>1 DEF Loaded
  <2>2. /\ memory["proposals"] \in [Keys -> Item \cup {None}]
        /\ disk["proposals"] \in [Keys -> Item \cup {None}]
    BY DEF IInv, TypeOK, Content, Collections
  <2>3. closeFailures = 0 /\ op = None => memory["proposals"] = disk["proposals"]
    BY <1>1, <2>2 DEF IInv, ProposalsAgree, InFlight
  <2>4. QED
    BY <1>1, <2>1, <2>3 DEF IInv
<1>2. CASE ~opened
  BY <1>2 DEF IInv, Loaded
<1>3. QED
  BY <1>1, <1>2

\* The item of a write has the next stamp.
LEMMA NewItems ==
  ASSUME TypeOK, NEW coll \in Collections, NEW form \in Forms(coll)
  PROVE  LET item == NewItem(coll, form[1], form[2])
         IN item \in Item /\ item # None /\ item.stamp = writes + 1
<1>1. form[1] \in 0..1 /\ form[2] \in {"open", "published"}
  BY DEF Forms
<1>2. writes \in Nat
  BY ConstantsAssumption DEF TypeOK
<1>3. QED
  BY <1>1, <1>2, ConstantsAssumption DEF NewItem, Item

\* The maps after a write: its item is there, what it replaced is not, and
\* the rest is as it was.
LEMMA PutMemory ==
  ASSUME TypeOK, NEW coll \in Collections, NEW k \in Keys, NEW item \in Item,
         Put(coll, k, item)
  PROVE  /\ memory' \in [Collections -> Content]
         /\ memory'[coll][k] = item
         /\ \A j \in Keys \ {k} :
              memory'[coll][j] = IF j \in Replaced(coll, k) THEN None ELSE Loaded[coll][j]
         /\ \A other \in Collections \ {coll} : memory'[other] = Loaded[other]
<1>1. Loaded \in [Collections -> Content]
  BY LoadedTypes
<1> DEFINE content == [j \in Keys |-> IF j = k THEN item
                                       ELSE IF j \in Replaced(coll, k) THEN None
                                       ELSE Loaded[coll][j]]
<1>2. memory' = [Loaded EXCEPT ![coll] = content]
  BY DEF Put
<1>3. content \in Content
  BY <1>1 DEF Content
<1>4. memory'[coll] = content /\ \A other \in Collections \ {coll} : memory'[other] = Loaded[other]
  BY <1>1, <1>2
<1>5. QED
  BY <1>1, <1>2, <1>3, <1>4

-----------------------------------------------------------------------------
(* The inductive invariant. *)

LEMMA InitInv == Init => IInv
<1> SUFFICES ASSUME Init PROVE IInv
  OBVIOUS
<1>1. TypeOK
  <2>1. acked \in [Collections -> [Keys -> Nat]]
    BY DEF Init
  <2>2. writes \in 0..MaxWrites /\ closeFailures \in 0..MaxCloseFailures
    BY ConstantsAssumption DEF Init
  <2>3. QED
    BY <2>1, <2>2, EmptyContent DEF Init, TypeOK
<1>2. AllAccounted(disk)
  BY DEF Init, AllAccounted, Accounts
<1>3. \A coll \in Collections, k \in Keys : acked[coll][k] <= writes
  BY DEF Init
<1>4. QED
  BY <1>1, <1>2, <1>3, EmptyContent DEF Init, IInv, FlightInMemory
LEMMA TypeStep == TypeOK /\ [Next]_vars => TypeOK'
<1> SUFFICES ASSUME TypeOK, [Next]_vars PROVE TypeOK'
  OBVIOUS
<1>a. /\ disk \in [Collections -> Content] /\ memory \in [Collections -> Content]
      /\ Loaded \in [Collections -> Content] /\ Empty \in [Collections -> Content]
      /\ op \in Operation \cup {None} /\ stray \subseteq Stray
      /\ opened \in BOOLEAN /\ writes \in 0..MaxWrites
      /\ acked \in [Collections -> [Keys -> Nat]] /\ closeFailures \in 0..MaxCloseFailures
  BY LoadedTypes, EmptyContent DEF TypeOK
<1>b. \A landed : Landed(landed) \in [Collections -> Content]
  BY LandedTypes
<1>1. CASE Open
  BY <1>1, <1>a DEF Open, TypeOK, counters
<1>2. ASSUME NEW coll \in Collections, NEW k \in Keys, NEW form \in Forms(coll),
             Put(coll, k, NewItem(coll, form[1], form[2]))
      PROVE  TypeOK'
  <2> DEFINE item == NewItem(coll, form[1], form[2])
  <2>1. item \in Item
    BY NewItems
  <2>2. memory' \in [Collections -> Content]
    BY <1>2, <2>1, PutMemory
  <2>3. op' \in Operation /\ opened' = TRUE
    <3>1. op' = [coll |-> coll, key |-> k, stamp |-> item.stamp, before |-> Loaded[coll][k]]
      BY <1>2 DEF Put
    <3>2. item.stamp \in Nat /\ Loaded[coll][k] \in Item \cup {None}
      BY <1>a, <2>1 DEF Item, Content
    <3>3. QED
      BY <1>2, <3>1, <3>2 DEF Operation, Put
  <2>4. writes' \in 0..MaxWrites
    BY <1>2, <1>a, ConstantsAssumption DEF Put
  <2>5. UNCHANGED <<disk, stray, acked, closeFailures>>
    BY <1>2 DEF Put, counters
  <2>6. QED
    BY <1>a, <2>2, <2>3, <2>4, <2>5 DEF TypeOK
<1>3. ASSUME NEW k \in Keys, NEW form \in Forms("proposals"),
             PutRefused(k, NewItem("proposals", form[1], form[2]))
      PROVE  TypeOK'
  BY <1>3, <1>a DEF PutRefused, TypeOK, counters
<1>4. CASE PersistDone
  <2>1. op \in Operation
    BY <1>4, <1>a DEF PersistDone
  <2>2. op.coll \in Collections /\ op.key \in Keys /\ op.stamp \in Nat
    BY <2>1 DEF Operation
  <2>3. disk' \in [Collections -> Content]
    BY <1>4, <1>a, <2>2 DEF PersistDone
  <2>4. acked' \in [Collections -> [Keys -> Nat]]
    BY <1>4, <1>a, <2>2 DEF PersistDone
  <2>5. QED
    BY <1>4, <1>a, <2>3, <2>4 DEF PersistDone, TypeOK
<1>5. CASE PersistFails
  <2>1. op \in Operation
    BY <1>5, <1>a DEF PersistFails
  <2>2. op.key \in Keys /\ op.before \in Item \cup {None}
    BY <2>1 DEF Operation
  <2>3. [memory EXCEPT !["proposals"][op.key] = op.before] \in [Collections -> Content]
    BY <1>a, <2>2 DEF Content, Collections
  <2>4. QED
    BY <1>5, <1>a, <2>3 DEF PersistFails, TypeOK, counters
<1>6. CASE Close
  BY <1>6, <1>a, <1>b DEF Close, TypeOK, counters
<1>7. CASE CloseFails
  <2>1. disk' \in [Collections -> Content]
    BY <1>7, <1>b DEF CloseFails
  <2>2. stray' \subseteq Stray
    BY <1>7, <1>a DEF CloseFails, Stray
  <2>3. closeFailures' \in 0..MaxCloseFailures
    BY <1>7, <1>a, ConstantsAssumption DEF CloseFails
  <2>4. QED
    BY <1>7, <1>a, <2>1, <2>2, <2>3 DEF CloseFails, TypeOK
<1>8. CASE StrayLands
  <2>1. PICK w \in stray : disk' = [disk EXCEPT ![w.coll] = w.content] /\ stray' = stray \ {w}
    BY <1>8 DEF StrayLands
  <2>2. w.coll \in Collections /\ w.content \in Content
    BY <1>a DEF Stray
  <2>3. QED
    BY <1>8, <1>a, <2>1, <2>2 DEF StrayLands, TypeOK, counters
<1>9. CASE Crash
  BY <1>9, <1>a, <1>b DEF Crash, TypeOK, counters
<1>10. CASE UNCHANGED vars
  BY <1>10 DEF vars, counters, TypeOK
<1>11. QED
  BY <1>1, <1>2, <1>3, <1>4, <1>5, <1>6, <1>7, <1>8, <1>9, <1>10 DEF Next
\* Files that were written as the memory was keep what holds of both.
LEMMA LandedInv ==
  ASSUME IInv, NEW landed, landed = {} \/ opened
  PROVE  /\ UniqueEvidence(Landed(landed)["evidence"])
         /\ closeFailures = 0 => AllAccounted(Landed(landed))
         /\ closeFailures = 0 /\ op = None => Landed(landed)["proposals"] = disk["proposals"]
<1>1. \A coll \in Collections :
        Landed(landed)[coll] = IF coll \in landed THEN memory[coll] ELSE disk[coll]
  BY LandedTypes DEF IInv
<1>2. UniqueEvidence(Landed(landed)["evidence"])
  BY <1>1 DEF IInv, Collections
<1>3. ASSUME closeFailures = 0 PROVE AllAccounted(Landed(landed))
  BY <1>1, <1>3 DEF IInv, AllAccounted
<1>4. ASSUME closeFailures = 0, op = None PROVE Landed(landed)["proposals"] = disk["proposals"]
  <2>1. CASE opened
    BY <1>1, <1>4, <2>1, LoadedInv DEF Loaded, Collections
  <2>2. CASE ~opened
    BY <1>1, <2>2 DEF Collections
  <2>3. QED
    BY <2>1, <2>2
<1>5. QED
  BY <1>2, <1>3, <1>4

\* With no write in flight, the same maps on disk and in memory agree.
LEMMA SameAgree ==
  ASSUME op' = None, memory'["proposals"] = disk'["proposals"]
  PROVE  ProposalsAgree'
BY DEF ProposalsAgree, InFlight

\* A write keeps what it accounts for: where it removed the item of an earlier
\* write, its own item has a later stamp.
LEMMA PutAccounts ==
  ASSUME IInv, closeFailures = 0, NEW coll \in Collections, NEW k \in Keys, NEW item \in Item,
         item # None, item.stamp = writes + 1, Put(coll, k, item)
  PROVE  AllAccounted(memory')
<1>1. /\ memory'[coll][k] = item
      /\ \A j \in Keys \ {k} :
           memory'[coll][j] = IF j \in Replaced(coll, k) THEN None ELSE Loaded[coll][j]
      /\ \A other \in Collections \ {coll} : memory'[other] = Loaded[other]
  BY PutMemory DEF IInv
<1>2. ASSUME NEW other \in Collections, NEW i \in Keys, acked[other][i] # 0
      PROVE  Accounts(memory'[other], other, i, acked[other][i])
  <2>1. PICK j \in Replaced(other, i) :
          Loaded[other][j] # None /\ Loaded[other][j].stamp >= acked[other][i]
    BY <1>2, LoadedInv DEF AllAccounted, Accounts
  <2>2. j \in Keys
    BY <2>1, ReplacedClasses
  <2>3. CASE other # coll
    BY <1>1, <2>1, <2>3 DEF Accounts
  <2>4. CASE other = coll /\ j \notin Replaced(coll, k)
    <3>1. j # k
      BY <2>4, ReplacedClasses
    <3>2. memory'[coll][j] = Loaded[coll][j]
      BY <1>1, <2>2, <2>4, <3>1
    <3>3. QED
      BY <2>1, <2>4, <3>2 DEF Accounts
  <2>5. CASE other = coll /\ j \in Replaced(coll, k)
    <3>1. k \in Replaced(coll, i)
      BY <2>1, <2>2, <2>5, ReplacedClasses
    <3>2. acked[coll][i] <= writes /\ acked[coll][i] \in Nat /\ writes \in Nat
      BY ConstantsAssumption DEF IInv, TypeOK
    <3>3. memory'[coll][k].stamp >= acked[coll][i]
      BY <1>1, <3>2
    <3>4. QED
      BY <1>1, <2>5, <3>1, <3>3 DEF Accounts
  <2>6. QED
    BY <2>3, <2>4, <2>5
<1>3. QED
  BY <1>2 DEF AllAccounted, Accounts
LEMMA NextInv == IInv /\ [Next]_vars => IInv'
<1> SUFFICES ASSUME IInv, [Next]_vars PROVE IInv'
  OBVIOUS
<1>t. TypeOK /\ TypeOK'
  BY TypeStep DEF IInv
<1> DEFINE Evidence == /\ UniqueEvidence(disk'["evidence"])
                       /\ UniqueEvidence(memory'["evidence"])
                       /\ \A w \in stray' : w.coll = "evidence" => UniqueEvidence(w.content)
           Stamps == \A coll \in Collections, k \in Keys : acked'[coll][k] <= writes'
           Both == closeFailures' = 0 =>
                     /\ stray' = {}
                     /\ AllAccounted(disk)'
                     /\ opened' => ProposalsAgree' /\ AllAccounted(memory)'
<1>q. ASSUME Evidence, FlightInMemory', Stamps, Both PROVE IInv'
  BY <1>t, <1>q DEF IInv, UniqueEvidence
<1>1. CASE Open
  <2>1. /\ op = None /\ memory' = disk /\ opened' = TRUE
        /\ UNCHANGED <<disk, op, stray, writes, acked, closeFailures>>
    BY <1>1 DEF Open, counters
  <2>2. Evidence /\ Stamps /\ FlightInMemory'
    BY <2>1 DEF IInv, FlightInMemory
  <2>3. Both
    BY <2>1, SameAgree DEF IInv, AllAccounted, Accounts
  <2>4. QED
    BY <1>q, <2>2, <2>3
<1>2. ASSUME NEW coll \in Collections, NEW k \in Keys, NEW form \in Forms(coll),
             Put(coll, k, NewItem(coll, form[1], form[2]))
      PROVE  IInv'
  <2> DEFINE item == NewItem(coll, form[1], form[2])
  <2>1. item \in Item /\ item # None /\ item.stamp = writes + 1
    BY <1>t, NewItems
  <2> HIDE DEF item
  <2>2. Put(coll, k, item)
    BY <1>2 DEF item
  <2>3. /\ memory'[coll][k] = item
        /\ \A j \in Keys \ {k} :
             memory'[coll][j] = IF j \in Replaced(coll, k) THEN None ELSE Loaded[coll][j]
        /\ \A other \in Collections \ {coll} : memory'[other] = Loaded[other]
    BY <1>t, <2>1, <2>2, PutMemory
  <2>4. /\ op = None /\ Allowed(coll, k, item)
        /\ op' = [coll |-> coll, key |-> k, stamp |-> item.stamp, before |-> Loaded[coll][k]]
        /\ writes' = writes + 1
        /\ UNCHANGED <<disk, stray, acked, closeFailures>>
    BY <2>2 DEF Put, counters
  <2>5. op' # None
    <3>1. op' \in Operation
      <4>1. item.stamp \in Nat /\ Loaded[coll][k] \in Item \cup {None}
        BY <1>t, <2>1, LoadedTypes DEF Item, Content
      <4>2. QED
        BY <2>4, <4>1 DEF Operation
    <3>2. QED
      BY <3>1, ConstantsAssumption
  <2>6. UniqueEvidence(memory'["evidence"])
    <3>1. CASE coll # "evidence"
      BY <2>3, <3>1, LoadedInv DEF Collections
    <3>2. CASE coll = "evidence"
      BY <2>3, <3>2, LoadedInv DEF UniqueEvidence, Replaced
    <3>3. QED
      BY <3>1, <3>2
  <2>7. FlightInMemory'
    BY <1>t, <2>1, <2>3, <2>4, ConstantsAssumption DEF FlightInMemory, TypeOK
  <2>8. Stamps
    BY <1>t, <2>4, ConstantsAssumption DEF IInv, TypeOK
  <2>9. Evidence
    BY <2>4, <2>6 DEF IInv
  <2>10. ASSUME closeFailures' = 0 PROVE ProposalsAgree'
    <3>1. Loaded["proposals"] = disk["proposals"] /\ disk' = disk
      BY <2>4, <2>10, LoadedInv
    <3>2. CASE coll # "proposals"
      <4>1. memory'["proposals"] = disk'["proposals"] /\ op'.coll # "proposals"
        BY <2>3, <2>4, <3>1, <3>2 DEF Collections
      <4>2. QED
        BY <4>1 DEF ProposalsAgree, InFlight
    <3>3. CASE coll = "proposals"
      <4>1. \A j \in Keys \ {k} : memory'["proposals"][j] = disk'["proposals"][j]
        BY <2>3, <3>1, <3>3 DEF Replaced
      <4>2. /\ op'.before = disk'["proposals"][k] /\ op'.key = k /\ op'.coll = "proposals"
            /\ ~Conflicts(disk'["proposals"][k], memory'["proposals"][k])
        BY <2>3, <2>4, <3>1, <3>3 DEF Allowed
      <4>3. QED
        BY <2>5, <4>1, <4>2 DEF ProposalsAgree, InFlight, Conflicts
    <3>4. QED
      BY <3>2, <3>3
  <2>11. ASSUME closeFailures' = 0 PROVE AllAccounted(memory)'
    <3>1. AllAccounted(memory')
      BY <2>1, <2>2, <2>4, <2>11, PutAccounts
    <3>2. QED
      BY <2>4, <3>1 DEF AllAccounted, Accounts
  <2>12. Both
    BY <2>4, <2>10, <2>11 DEF IInv, AllAccounted, Accounts
  <2>13. QED
    BY <1>q, <2>7, <2>8, <2>9, <2>12
<1>3. ASSUME NEW k \in Keys, NEW form \in Forms("proposals"),
             PutRefused(k, NewItem("proposals", form[1], form[2]))
      PROVE  IInv'
  <2>1. /\ op = None /\ memory' = Loaded /\ opened' = TRUE
        /\ UNCHANGED <<disk, op, stray, writes, acked, closeFailures>>
    BY <1>3 DEF PutRefused, counters
  <2>2. Evidence /\ Stamps /\ FlightInMemory'
    BY <2>1, LoadedInv DEF IInv, FlightInMemory
  <2>3. Both
    BY <2>1, LoadedInv, SameAgree DEF IInv, AllAccounted, Accounts
  <2>4. QED
    BY <1>q, <2>2, <2>3
<1>4. CASE PersistDone
  <2>1. /\ op # None /\ op' = None
        /\ disk' = [disk EXCEPT ![op.coll] = memory[op.coll]]
        /\ acked' = [acked EXCEPT ![op.coll][op.key] = op.stamp]
        /\ UNCHANGED <<memory, opened, stray, writes, closeFailures>>
    BY <1>4 DEF PersistDone
  <2>2. op \in Operation /\ opened
    BY <1>t, <2>1 DEF TypeOK
  <2>3. op.coll \in Collections /\ op.key \in Keys
    BY <2>2 DEF Operation
  <2>4. \A coll \in Collections :
          disk'[coll] = IF coll = op.coll THEN memory[coll] ELSE disk[coll]
    BY <1>t, <2>1 DEF TypeOK
  <2>5. \A coll \in Collections, k \in Keys :
          acked'[coll][k] = IF coll = op.coll /\ k = op.key THEN op.stamp ELSE acked[coll][k]
    BY <1>t, <2>1, <2>3 DEF TypeOK
  <2>6. /\ op.stamp <= writes
        /\ memory[op.coll][op.key] # None
        /\ memory[op.coll][op.key].stamp = op.stamp
        /\ op.stamp \in Nat
    BY <2>1, <2>2 DEF IInv, FlightInMemory, Operation
  <2>7. Evidence
    BY <2>1, <2>4 DEF IInv, Collections
  <2>8. Stamps /\ FlightInMemory'
    BY <2>1, <2>5, <2>6 DEF IInv, FlightInMemory
  <2>9. ASSUME closeFailures' = 0 PROVE ProposalsAgree'
    <3>1. ProposalsAgree
      BY <2>1, <2>2, <2>9 DEF IInv
    <3>2. \A k \in Keys : memory'["proposals"][k] = disk'["proposals"][k]
      BY <2>1, <2>4, <3>1 DEF ProposalsAgree, InFlight, Collections
    <3>3. QED
      BY <2>1, <3>2 DEF ProposalsAgree, InFlight
  <2>10. ASSUME closeFailures' = 0, NEW coll \in Collections, NEW k \in Keys
         PROVE  /\ Accounts(disk'[coll], coll, k, acked'[coll][k])
                /\ Accounts(memory'[coll], coll, k, acked'[coll][k])
    <3>1. /\ Accounts(disk[coll], coll, k, acked[coll][k])
          /\ Accounts(memory[coll], coll, k, acked[coll][k])
      BY <2>1, <2>2, <2>10 DEF IInv, AllAccounted
    <3>2. CASE coll = op.coll /\ k = op.key
      <4>1. k \in Replaced(coll, k)
        BY ReplacedClasses
      <4>2. Accounts(memory[coll], coll, k, op.stamp)
        BY <2>6, <3>2, <4>1 DEF Accounts
      <4>3. QED
        BY <2>1, <2>4, <2>5, <3>2, <4>2
    <3>3. CASE ~(coll = op.coll /\ k = op.key)
      BY <2>1, <2>4, <2>5, <3>1, <3>3
    <3>4. QED
      BY <3>2, <3>3
  <2>11. Both
    BY <2>1, <2>9, <2>10 DEF IInv, AllAccounted, Accounts
  <2>12. QED
    BY <1>q, <2>7, <2>8, <2>11
<1>5. CASE PersistFails
  <2>1. /\ op # None /\ op' = None
        /\ memory' = IF op.coll = "proposals"
                     THEN [memory EXCEPT !["proposals"][op.key] = op.before]
                     ELSE memory
        /\ UNCHANGED <<disk, opened, stray, writes, acked, closeFailures>>
    BY <1>5 DEF PersistFails, counters
  <2>2. op \in Operation /\ opened /\ op.key \in Keys
    BY <1>t, <2>1 DEF TypeOK, Operation
  <2>3. /\ memory \in [Collections -> Content] /\ memory["proposals"] \in [Keys -> Item \cup {None}]
        /\ disk["proposals"] \in [Keys -> Item \cup {None}]
    BY <1>t DEF TypeOK, Content, Collections
  <2>4. \A coll \in Collections \ {"proposals"} : memory'[coll] = memory[coll]
    BY <2>1, <2>3
  <2>5. ASSUME closeFailures = 0 PROVE memory'["proposals"] = disk["proposals"]
    <3>1. ProposalsAgree
      BY <2>2, <2>5 DEF IInv
    <3>2. CASE op.coll = "proposals"
      <4>1. memory'["proposals"] = [memory["proposals"] EXCEPT ![op.key] = op.before]
        BY <2>1, <2>3, <3>2 DEF Collections
      <4>2. \A k \in Keys : memory'["proposals"][k] = disk["proposals"][k]
        BY <2>1, <2>2, <2>3, <3>1, <3>2, <4>1 DEF ProposalsAgree, InFlight
      <4>3. QED
        BY <2>3, <4>1, <4>2
    <3>3. CASE op.coll # "proposals"
      <4>1. \A k \in Keys : memory["proposals"][k] = disk["proposals"][k]
        BY <3>1, <3>3 DEF ProposalsAgree, InFlight
      <4>2. QED
        BY <2>1, <2>3, <3>3, <4>1
    <3>4. QED
      BY <3>2, <3>3
  <2>6. Evidence /\ Stamps /\ FlightInMemory'
    BY <2>1, <2>4 DEF IInv, FlightInMemory, Collections
  <2>7. ASSUME closeFailures' = 0, NEW coll \in Collections, NEW k \in Keys
        PROVE  Accounts(memory'[coll], coll, k, acked[coll][k])
    <3>1. /\ Accounts(disk[coll], coll, k, acked[coll][k])
          /\ Accounts(memory[coll], coll, k, acked[coll][k])
      BY <2>1, <2>2, <2>7 DEF IInv, AllAccounted
    <3>2. QED
      BY <2>1, <2>4, <2>5, <2>7, <3>1
  <2>8. Both
    BY <2>1, <2>5, <2>7, SameAgree DEF IInv, AllAccounted, Accounts
  <2>9. QED
    BY <1>q, <2>6, <2>8
<1>6. CASE Close
  <2>1. /\ op = None /\ opened /\ disk' = Landed(Collections) /\ memory' = Empty /\ opened' = FALSE
        /\ UNCHANGED <<op, stray, writes, acked, closeFailures>>
    BY <1>6 DEF Close, counters
  <2>2. Evidence /\ Stamps /\ FlightInMemory'
    BY <2>1, LandedInv, EmptyContent DEF IInv, FlightInMemory
  <2>3. Both
    BY <2>1, LandedInv DEF IInv, AllAccounted, Accounts
  <2>4. QED
    BY <1>q, <2>2, <2>3
<1>7. CASE CloseFails
  <2>1. PICK landed \in SUBSET Collections, flying \in SUBSET Collections :
          /\ disk' = Landed(landed)
          /\ stray' = stray \cup {[coll |-> coll, content |-> memory[coll]] : coll \in flying}
    BY <1>7 DEF CloseFails
  <2>2. /\ op = None /\ opened /\ closeFailures' = closeFailures + 1
        /\ UNCHANGED <<memory, opened, op, writes, acked>>
    BY <1>7 DEF CloseFails
  <2>3. Evidence
    BY <2>1, <2>2, LandedInv DEF IInv
  <2>4. Stamps /\ FlightInMemory'
    BY <2>2 DEF IInv, FlightInMemory
  <2>5. closeFailures' # 0
    BY <1>t, <2>2, ConstantsAssumption DEF TypeOK
  <2>6. QED
    BY <1>q, <2>3, <2>4, <2>5
<1>8. CASE StrayLands
  <2>1. PICK w \in stray : disk' = [disk EXCEPT ![w.coll] = w.content] /\ stray' = stray \ {w}
    BY <1>8 DEF StrayLands
  <2>2. UNCHANGED <<memory, opened, op, writes, acked, closeFailures>>
    BY <1>8 DEF StrayLands, counters
  <2>3. UniqueEvidence(disk'["evidence"])
    <3>1. disk'["evidence"] = IF w.coll = "evidence" THEN w.content ELSE disk["evidence"]
      BY <1>t, <2>1 DEF TypeOK, Collections
    <3>2. QED
      BY <3>1 DEF IInv
  <2>4. Evidence /\ Stamps /\ FlightInMemory'
    BY <2>1, <2>2, <2>3 DEF IInv, FlightInMemory
  <2>5. closeFailures' # 0
    BY <2>1, <2>2 DEF IInv
  <2>6. QED
    BY <1>q, <2>4, <2>5
<1>9. CASE Crash
  <2>1. PICK landed \in SUBSET (IF op # None THEN {op.coll}
                                ELSE IF opened THEN Collections ELSE {}) :
          disk' = Landed(landed)
    BY <1>9 DEF Crash
  <2>2. /\ memory' = Empty /\ opened' = FALSE /\ op' = None /\ stray' = {}
        /\ UNCHANGED <<writes, acked, closeFailures>>
    BY <1>9 DEF Crash, counters
  <2>3. landed = {} \/ opened
    BY <1>t, <2>1 DEF TypeOK
  <2>4. Evidence /\ Stamps /\ FlightInMemory'
    BY <2>1, <2>2, <2>3, LandedInv, EmptyContent DEF IInv, FlightInMemory
  <2>5. Both
    BY <2>1, <2>2, <2>3, LandedInv DEF IInv, AllAccounted, Accounts
  <2>6. QED
    BY <1>q, <2>4, <2>5
<1>10. CASE UNCHANGED vars
  <2>1. UNCHANGED <<disk, memory, opened, op, stray, writes, acked, closeFailures>>
    BY <1>10 DEF vars, counters
  <2>2. Evidence /\ Stamps /\ FlightInMemory'
    BY <2>1 DEF IInv, FlightInMemory
  <2>3. Both
    BY <2>1 DEF IInv, AllAccounted, Accounts, ProposalsAgree, InFlight
  <2>4. QED
    BY <1>q, <2>2, <2>3
<1>11. QED
  BY <1>1, <1>2, <1>3, <1>4, <1>5, <1>6, <1>7, <1>8, <1>9, <1>10 DEF Next

LEMMA Inductive == Spec => []IInv
BY InitInv, NextInv, PTL DEF Spec

-----------------------------------------------------------------------------
(* The properties of the runs. *)

\* Every variable keeps to its type, through any failures and crashes.
THEOREM TypeCorrect == Spec => []TypeOK
<1>1. IInv => TypeOK
  BY DEF IInv
<1>2. QED
  BY <1>1, Inductive, PTL

\* A write that resolved is on disk, or a later one of what it replaces is,
\* until a close fails.
THEOREM Durable == Spec => []ResolvedIsDurable
<1>1. IInv => ResolvedIsDurable
  BY DEF IInv, ResolvedIsDurable, AllAccounted, Accounts
<1>2. QED
  BY <1>1, Inductive, PTL

\* What getProposal answers between two operations survives a restart, until
\* a close fails.
THEOREM VisibleDurable == Spec => []VisibleProposalsAreDurable
<1>1. IInv => VisibleProposalsAreDurable
  BY LoadedInv DEF VisibleProposalsAreDurable, Loaded
<1>2. QED
  BY <1>1, Inductive, PTL

\* No two stored pieces of evidence share a source identity, not even after a
\* close that failed.
THEOREM OneEvidence == Spec => []OneEvidencePerIdentity
<1>1. IInv => OneEvidencePerIdentity
  BY DEF IInv, OneEvidencePerIdentity, UniqueEvidence
<1>2. QED
  BY <1>1, Inductive, PTL

\* On disk, proposals change one at a time and never to what the guard
\* refuses, until a close fails.
THEOREM Guarded == Spec => ProposalWritesAreGuarded
<1> DEFINE Step == closeFailures = 0 =>
             \A k \in Keys :
               LET old == disk["proposals"][k]
                   new == disk'["proposals"][k]
               IN new # old => /\ new # None
                               /\ ~Conflicts(old, new)
                               /\ \A j \in Keys \ {k} :
                                    disk'["proposals"][j] = disk["proposals"][j]
<1>1. IInv /\ [Next]_vars => [Step]_vars
  <2> SUFFICES ASSUME IInv, Next, closeFailures = 0 PROVE Step
    OBVIOUS
  <2>1. CASE disk'["proposals"] = disk["proposals"]
    BY <2>1
  <2>2. CASE op # None /\ op.coll = "proposals" /\ disk'["proposals"] = memory["proposals"]
    <3>1. ProposalsAgree /\ memory["proposals"][op.key] # None
      BY <2>2 DEF IInv, TypeOK, FlightInMemory
    <3>2. \A j \in Keys : op.key # j => memory["proposals"][j] = disk["proposals"][j]
      BY <3>1 DEF ProposalsAgree, InFlight
    <3>3. op.key \in Keys => ~Conflicts(disk["proposals"][op.key], memory["proposals"][op.key])
      BY <2>2, <3>1 DEF ProposalsAgree, InFlight
    <3>4. QED
      BY <2>2, <3>1, <3>2, <3>3
  <2>3. ASSUME NEW landed, disk' = Landed(landed),
               landed = {} \/ opened, op = None \/ landed \subseteq {op.coll}
        PROVE  Step
    <3>1. \A coll \in Collections :
            disk'[coll] = IF coll \in landed THEN memory[coll] ELSE disk[coll]
      BY <2>3, LandedTypes DEF IInv
    <3>2. CASE op = None
      BY <2>1, <2>3, <3>2, LandedInv
    <3>3. CASE op # None
      BY <2>1, <2>2, <2>3, <3>1, <3>3 DEF Collections
    <3>4. QED
      BY <3>2, <3>3
  <2>4. CASE PersistDone
    <3>1. op # None /\ disk' = [disk EXCEPT ![op.coll] = memory[op.coll]]
      BY <2>4 DEF PersistDone
    <3>2. disk'["proposals"] = IF op.coll = "proposals" THEN memory["proposals"] ELSE disk["proposals"]
      BY <3>1 DEF IInv, TypeOK, Collections
    <3>3. QED
      BY <2>1, <2>2, <3>1, <3>2
  <2>5. CASE Close
    BY <2>3, <2>5 DEF Close
  <2>6. CASE CloseFails
    BY <2>3, <2>6 DEF CloseFails
  <2>7. CASE Crash
    <3>1. PICK landed \in SUBSET (IF op # None THEN {op.coll}
                                  ELSE IF opened THEN Collections ELSE {}) :
            disk' = Landed(landed)
      BY <2>7 DEF Crash
    <3>2. (landed = {} \/ opened) /\ (op = None \/ landed \subseteq {op.coll})
      BY <3>1 DEF IInv, TypeOK
    <3>3. QED
      BY <2>3, <3>1, <3>2
  <2>8. CASE StrayLands
    BY <2>8 DEF StrayLands, IInv
  <2>9. QED
    BY <2>1, <2>4, <2>5, <2>6, <2>7, <2>8 DEF Next, Open, Put, PutRefused, PersistFails
<1>2. QED
  BY <1>1, Inductive, PTL DEF Spec, ProposalWritesAreGuarded
=============================================================================
