------------------------ MODULE PartitionTableProofs ------------------------
(***************************************************************************)
(* Proofs about PartitionTable and FactoryReset, for tables of any size and  *)
(* any contents and sectors of any size.                                     *)
(***************************************************************************)
EXTENDS FactoryReset, Division

USE DEF FACTORY_INDEX, TEST_APP_INDEX

----------------------------------------------------------------------------
(* Types. *)

LEMMA ConstantFacts ==
  /\ MaxPartitions \in Nat /\ SeqMax \in Nat /\ MaxSlots \in Nat \ {0}
  /\ MinOffset \in Nat \ {0} /\ FlashSize \in Nat /\ FlashSize <= SeqMax
  BY TableAssumption, SlotAssumption DEF Words

LEMMA DefaultType == DefaultState \in BootloaderState
<1>1. Nowhere \in Pos
  BY SlotAssumption DEF Nowhere, Pos, Words
<1> QED  BY <1>1, SlotAssumption DEF DefaultState, BootloaderState

LEMMA EntryType ==
  ASSUME TableTypeOK, NEW k \in 0 .. (MaxPartitions - 1)
  PROVE  /\ partitions[k] \in EspPartitionInfo /\ partitions[k].pos \in Pos
         /\ partitions[k].subtype \in Nat
<1>1. partitions[k] \in EspPartitionInfo
  BY TableAssumption DEF TableTypeOK
<1> QED  BY <1>1 DEF EspPartitionInfo

LEMMA OtaSlotType ==
  ASSUME NEW st \in Nat PROVE OtaSlot(st) \in Slots
<1>1. MaxSlots \in Nat \ {0}
  BY ConstantFacts
<1> QED  BY <1>1 DEF OtaSlot, Slots

LEMMA AddSlotType ==
  ASSUME bs \in BootloaderState, NEW s \in Slots, NEW pos \in Pos
  PROVE  /\ AddSlot(s, pos) \in BootloaderState
         /\ AddSlot(s, pos).ota = [bs.ota EXCEPT ![s] = pos]
         /\ AddSlot(s, pos).app_count = IF s >= bs.app_count THEN s + 1 ELSE bs.app_count
         /\ AddSlot(s, pos).factory = bs.factory /\ AddSlot(s, pos).test = bs.test
         /\ AddSlot(s, pos).ota_info = bs.ota_info
<1>1. PICK f \in Pos, t \in Pos, o \in [Slots -> Pos], oi \in Pos, c \in 0 .. MaxSlots :
        bs = [factory |-> f, test |-> t, ota |-> o, ota_info |-> oi, app_count |-> c]
  BY DEF BootloaderState
<1> DEFINE n == IF s >= c THEN s + 1 ELSE c
<1>2. n \in 0 .. MaxSlots /\ [o EXCEPT ![s] = pos] \in [Slots -> Pos]
  BY ConstantFacts DEF Slots
<1>3. AddSlot(s, pos) = [factory |-> f, test |-> t, ota |-> [o EXCEPT ![s] = pos],
                         ota_info |-> oi, app_count |-> n]
  <2> DEFINE x == [o EXCEPT ![s] = pos]
  <2>1. bs.ota = o /\ bs.app_count = c
    BY <1>1
  <2>2. AddSlot(s, pos) = [bs EXCEPT !.ota = x, !.app_count = n]
    BY <2>1, Zenon DEF AddSlot
  <2> HIDE DEF x, n
  <2>3. AddSlot(s, pos) = [factory |-> f, test |-> t, ota |-> x,
                           ota_info |-> oi, app_count |-> n]
    BY <1>1, <2>2
  <2> QED  BY <2>3 DEF x
<1> HIDE DEF n
<1>4. AddSlot(s, pos) \in BootloaderState
  BY <1>2, <1>3 DEF BootloaderState
<1> QED  BY <1>1, <1>3, <1>4 DEF n

\* The partition a table entry is for: an index of Parts, or otadata, or none.
RoleIs(part, p) ==
  \/ part.type = "app" /\ part.subtype = 0 /\ p = FACTORY_INDEX
  \/ part.type = "app" /\ part.subtype = 1 /\ p = TEST_APP_INDEX
  \/ /\ part.type = "app" /\ part.subtype > 1 /\ HasOtaFlag(part.subtype)
     /\ p = OtaSlot(part.subtype)

IsOtaData(part) == part.type = "data" /\ part.subtype = 0

\* What one turn of the loading loop does to bs, by the arm that is taken.
LEMMA LoadEntryCases ==
  ASSUME LoadEntry, NEW part, part = partitions[i]
  PROVE  \/ RoleIs(part, FACTORY_INDEX) /\ bs' = [bs EXCEPT !.factory = part.pos]
         \/ RoleIs(part, TEST_APP_INDEX) /\ bs' = [bs EXCEPT !.test = part.pos]
         \/ /\ part.subtype > 1 /\ RoleIs(part, OtaSlot(part.subtype))
            /\ bs' = AddSlot(OtaSlot(part.subtype), part.pos)
         \/ IsOtaData(part) /\ bs' = [bs EXCEPT !.ota_info = part.pos]
         \/ bs' = bs
<1> DEFINE c1 == part.type = "app" /\ part.subtype = 0
           c2 == part.type = "app" /\ part.subtype = 1
           c3 == part.type = "app" /\ part.subtype > 1 /\ HasOtaFlag(part.subtype)
           c4 == part.type = "data" /\ part.subtype = 0
<1>1. bs' = CASE c1 -> [bs EXCEPT !.factory = part.pos]
              [] c2 -> [bs EXCEPT !.test = part.pos]
              [] c3 -> AddSlot(OtaSlot(part.subtype), part.pos)
              [] c4 -> [bs EXCEPT !.ota_info = part.pos]
              [] OTHER -> bs
  BY DEF LoadEntry
<1>2. ~(c1 /\ c2) /\ ~(c1 /\ c3) /\ ~(c2 /\ c3) /\ ~(c4 /\ (c1 \/ c2 \/ c3))
  OBVIOUS
<1>3. /\ c1 => RoleIs(part, FACTORY_INDEX)
      /\ c2 => RoleIs(part, TEST_APP_INDEX)
      /\ c3 => part.subtype > 1 /\ RoleIs(part, OtaSlot(part.subtype))
      /\ c4 => IsOtaData(part)
  BY DEF RoleIs, IsOtaData
<1> HIDE DEF c1, c2, c3, c4
<1> QED  BY <1>1, <1>2, <1>3


\* Next to the types: up to the end of the table both passes count alike.
TableTypeInv ==
  /\ TableTypeOK
  /\ pc = "map" => i = 0
  /\ pc \in {"map", "verify"} => count = i

LEMMA InitTableType == TableInit => TableTypeInv
<1> SUFFICES ASSUME TableInit PROVE TableTypeInv
  OBVIOUS
<1>1. bs \in BootloaderState
  BY DefaultType DEF TableInit
<1>2. valid \in BOOLEAN
  BY Zenon DEF TableInit
<1> QED  BY <1>1, <1>2, ConstantFacts DEF TableInit, TableTypeOK, TableTypeInv

LEMMA NextTableType == TableTypeInv /\ [TableNext]_tableVars => TableTypeInv'
<1> SUFFICES ASSUME TableTypeInv, [TableNext]_tableVars PROVE TableTypeInv'
  OBVIOUS
<1> USE DEF TableTypeInv
<1>0. MaxPartitions \in Nat /\ i \in Nat /\ count \in Nat
      /\ i <= MaxPartitions /\ count <= MaxPartitions
  BY ConstantFacts DEF TableTypeOK
<1>1. CASE UNCHANGED tableVars
  BY <1>1 DEF tableVars, TableTypeOK
<1>2. CASE MapTable \/ LoadDone
  BY <1>2 DEF MapTable, LoadDone, TableTypeOK
<1>3. CASE VerifyEntry
  <2>1. valid' \in BOOLEAN
    BY <1>3, Zenon DEF VerifyEntry
  <2>2. i' = i + 1 /\ UNCHANGED <<partitions, pc, bs>> /\ count' = count + 1 /\ pc = "verify"
    BY <1>3 DEF VerifyEntry
  <2>3. i # MaxPartitions /\ count = i
    BY <1>0, <1>3 DEF VerifyEntry, AtEnd
  <2>4. i' \in 0 .. MaxPartitions /\ count' \in 0 .. MaxPartitions /\ count' = i'
    BY <1>0, <2>2, <2>3
  <2> QED  BY <2>1, <2>2, <2>4 DEF TableTypeOK
<1>4. CASE VerifyDone
  <2>1. i' = 0 /\ UNCHANGED <<partitions, count, valid>>
        /\ bs' \in BootloaderState /\ pc' \in {"load", "failed"}
    BY <1>4, DefaultType DEF VerifyDone, TableTypeOK
  <2> QED  BY <1>0, <2>1 DEF TableTypeOK
<1>5. CASE LoadEntry
  <2>1. /\ i' = i + 1 /\ UNCHANGED <<partitions, pc, count, valid>>
        /\ pc = "load" /\ i < count
    BY <1>5 DEF LoadEntry
  <2>2. i' \in 0 .. MaxPartitions /\ i \in 0 .. (MaxPartitions - 1)
    BY <1>0, <2>1
  <2>3. partitions[i].pos \in Pos /\ partitions[i].subtype \in Nat
    BY <2>2, EntryType
  <2>4. bs \in BootloaderState
    BY DEF TableTypeOK
  <2>5. bs' \in BootloaderState
    <3>1. AddSlot(OtaSlot(partitions[i].subtype), partitions[i].pos) \in BootloaderState
      BY <2>3, <2>4, OtaSlotType, AddSlotType
    <3>2. /\ [bs EXCEPT !.factory = partitions[i].pos] \in BootloaderState
          /\ [bs EXCEPT !.test = partitions[i].pos] \in BootloaderState
          /\ [bs EXCEPT !.ota_info = partitions[i].pos] \in BootloaderState
      BY <2>3, <2>4 DEF BootloaderState
    <3> QED  BY <1>5, <2>4, <3>1, <3>2, LoadEntryCases
  <2> QED  BY <2>1, <2>2, <2>5 DEF TableTypeOK
<1> QED  BY <1>1, <1>2, <1>3, <1>4, <1>5 DEF TableNext

----------------------------------------------------------------------------
(* What the checks of one entry say in arithmetic that does not wrap. *)

LEMMA RangeMeans ==
  ASSUME NEW pos \in Pos, InRange(pos)
  PROVE  /\ pos.offset \in Nat /\ pos.size \in Nat \ {0}
         /\ PosEnd(pos) = pos.offset + pos.size
         /\ pos.offset >= MinOffset /\ pos.offset + pos.size <= FlashSize
<1>1. pos.offset \in Words /\ pos.size \in Words
  BY DEF Pos
<1> QED  BY <1>1, ConstantFacts DEF InRange, PosEnd, Words

LEMMA OverlapMeans ==
  ASSUME NEW p \in Pos, NEW q \in Pos, InRange(p), InRange(q), ~Overlap(p, q)
  PROVE  Extent(p) \cap Extent(q) = {} /\ Extent(q) \cap Extent(p) = {}
<1>1. \/ p.offset >= q.offset + q.size
      \/ p.offset + p.size <= q.offset
  BY RangeMeans DEF Overlap
<1> QED  BY <1>1, RangeMeans DEF Extent

Verified(n) == \A k \in 0 .. (n - 1) : EntryValid(k)

VerifyInv ==
  /\ pc = "verify" /\ valid => Verified(i)
  /\ pc \in {"load", "loaded"} => Verified(count)

LEMMA NextVerifyInv ==
  ASSUME TableTypeInv, VerifyInv, [TableNext]_tableVars PROVE VerifyInv'
<1>0. i \in Nat /\ count \in Nat
  BY ConstantFacts DEF TableTypeInv, TableTypeOK
<1>a. partitions' = partitions => \A n : Verified(n)' <=> Verified(n)
  BY DEF Verified, EntryValid
<1>1. CASE UNCHANGED tableVars
  BY <1>1, <1>a DEF tableVars, VerifyInv
<1>2. CASE MapTable
  BY <1>2 DEF MapTable, TableTypeInv, VerifyInv, Verified
<1>3. CASE VerifyEntry
  <2>1. ASSUME valid' PROVE Verified(i + 1)
    <3>1. Verified(i) /\ EntryValid(i)
      BY <1>3, <2>1 DEF VerifyEntry, VerifyInv
    <3> QED  BY <1>0, <3>1 DEF Verified
  <2>2. partitions' = partitions /\ pc' = "verify" /\ i' = i + 1
    BY <1>3 DEF VerifyEntry
  <2> QED  BY <1>a, <2>1, <2>2 DEF VerifyInv
<1>4. CASE VerifyDone
  BY <1>4, <1>a DEF VerifyDone, VerifyInv, TableTypeInv
<1>5. CASE LoadEntry \/ LoadDone
  BY <1>5, <1>a DEF LoadEntry, LoadDone, VerifyInv
<1> QED  BY <1>1, <1>2, <1>3, <1>4, <1>5 DEF TableNext

LEMMA VerifiedDisjoint ==
  ASSUME TableTypeOK, Verified(count),
         NEW j \in 0 .. (count - 1), NEW k \in 0 .. (count - 1)
  PROVE  /\ InRange(partitions[k].pos) /\ partitions[k].pos \in Pos
         /\ j # k => Extent(partitions[j].pos) \cap Extent(partitions[k].pos) = {}
<1>0. count \in Nat /\ count <= MaxPartitions /\ j \in Int /\ k \in Int
      /\ j \in 0 .. (MaxPartitions - 1) /\ k \in 0 .. (MaxPartitions - 1)
  BY ConstantFacts DEF TableTypeOK
<1>1. InRange(partitions[j].pos) /\ InRange(partitions[k].pos)
  BY DEF Verified, EntryValid
<1>2. partitions[j].pos \in Pos /\ partitions[k].pos \in Pos
  BY <1>0, EntryType
<1>3. CASE j < k
  <2>1. ~Overlap(partitions[k].pos, partitions[j].pos)
    BY <1>0, <1>3 DEF Verified, EntryValid
  <2> QED  BY <1>1, <1>2, <2>1, OverlapMeans
<1>4. CASE k < j
  <2>1. ~Overlap(partitions[j].pos, partitions[k].pos)
    BY <1>0, <1>4 DEF Verified, EntryValid
  <2> QED  BY <1>1, <1>2, <2>1, OverlapMeans
<1> QED  BY <1>0, <1>1, <1>2, <1>3, <1>4

----------------------------------------------------------------------------
(* Where the loaded state comes from: every region of bs is one of the entries
   loaded so far, in the role it has there, or empty; app_count is one past
   the highest slot. *)

From(pos, p) == \E k \in 0 .. (i - 1) : RoleIs(partitions[k], p) /\ pos = partitions[k].pos

SourceInv ==
  pc \in {"load", "loaded"} =>
    /\ i <= count
    /\ \A p \in Parts : PosOf(p) = Nowhere \/ From(PosOf(p), p)
    /\ \/ bs.ota_info = Nowhere
       \/ \E k \in 0 .. (i - 1) : IsOtaData(partitions[k]) /\ bs.ota_info = partitions[k].pos
    /\ \A s \in Slots : bs.ota[s].size # 0 => s < bs.app_count
    /\ bs.app_count > 0 => bs.ota[bs.app_count - 1].size # 0

\* One turn of the loading loop changes at most the region of its own role.
LEMMA LoadEntryEffect ==
  ASSUME TableTypeInv, LoadEntry, NEW part, part = partitions[i],
         part.pos \in Pos, part.subtype \in Nat
  PROVE  /\ \A p \in Parts : \/ PosOf(p)' = PosOf(p)
                             \/ RoleIs(part, p) /\ PosOf(p)' = part.pos
         /\ \/ bs'.ota_info = bs.ota_info
            \/ IsOtaData(part) /\ bs'.ota_info = part.pos
         /\ \/ bs'.ota = bs.ota /\ bs'.app_count = bs.app_count
            \/ \E s \in Slots :
                 /\ bs'.ota = [bs.ota EXCEPT ![s] = part.pos]
                 /\ bs'.app_count = IF s >= bs.app_count THEN s + 1 ELSE bs.app_count
<1>0. bs \in BootloaderState
  BY DEF TableTypeInv, TableTypeOK
<1>1. CASE RoleIs(part, FACTORY_INDEX) /\ bs' = [bs EXCEPT !.factory = part.pos]
  BY <1>0, <1>1 DEF PosOf, BootloaderState
<1>2. CASE RoleIs(part, TEST_APP_INDEX) /\ bs' = [bs EXCEPT !.test = part.pos]
  BY <1>0, <1>2 DEF PosOf, BootloaderState
<1>3. CASE /\ part.subtype > 1 /\ RoleIs(part, OtaSlot(part.subtype))
           /\ bs' = AddSlot(OtaSlot(part.subtype), part.pos)
  <2> DEFINE s == OtaSlot(part.subtype)
  <2>1. s \in Slots /\ RoleIs(part, s) /\ s \in Nat
    BY <1>3, OtaSlotType DEF Slots
  <2> HIDE DEF s
  <2>2. /\ bs'.ota = [bs.ota EXCEPT ![s] = part.pos]
        /\ bs'.app_count = IF s >= bs.app_count THEN s + 1 ELSE bs.app_count
        /\ bs'.factory = bs.factory /\ bs'.test = bs.test
        /\ bs'.ota_info = bs.ota_info
    BY <1>0, <1>3, <2>1, AddSlotType DEF s
  <2>3. bs.ota \in [Slots -> Pos]
    BY <1>0 DEF BootloaderState
  <2>4. ASSUME NEW p \in Parts
        PROVE  \/ PosOf(p)' = PosOf(p)
               \/ RoleIs(part, p) /\ PosOf(p)' = part.pos
    BY <2>1, <2>2, <2>3 DEF PosOf
  <2> QED  BY <2>1, <2>2, <2>4
<1>4. CASE IsOtaData(part) /\ bs' = [bs EXCEPT !.ota_info = part.pos]
  BY <1>0, <1>4 DEF PosOf, BootloaderState
<1>5. CASE bs' = bs
  BY <1>5 DEF PosOf
<1> QED  BY <1>1, <1>2, <1>3, <1>4, <1>5, LoadEntryCases

LEMMA NextSourceInv ==
  ASSUME TableTypeInv, VerifyInv, SourceInv, [TableNext]_tableVars
  PROVE  SourceInv'
<1>0. i \in Nat /\ count \in Nat /\ count <= MaxPartitions /\ MaxSlots \in Nat \ {0}
      /\ MaxPartitions \in Nat /\ bs \in BootloaderState
  BY ConstantFacts DEF TableTypeInv, TableTypeOK
<1>1. CASE UNCHANGED tableVars
  BY <1>1 DEF tableVars, SourceInv, From, PosOf
<1>2. CASE MapTable \/ VerifyEntry
  BY <1>2 DEF MapTable, VerifyEntry, SourceInv
<1>3. CASE VerifyDone
  <2>1. CASE pc' = "failed"
    BY <2>1 DEF SourceInv
  <2>2. CASE bs' = DefaultState /\ i' = 0 /\ count' = count
    <3>1. /\ \A p \in Parts : PosOf(p)' = Nowhere
          /\ bs'.ota_info = Nowhere /\ bs'.app_count = 0
          /\ \A s \in Slots : bs'.ota[s].size = 0
      BY <1>0, <2>2 DEF PosOf, DefaultState, Nowhere, Parts, Slots
    <3> QED  BY <1>0, <2>2, <3>1 DEF SourceInv
  <2> QED  BY <1>3, <2>1, <2>2 DEF VerifyDone
<1>4. CASE LoadEntry
  <2> DEFINE part == partitions[i]
  <2>1. /\ i' = i + 1 /\ i < count /\ pc = "load" /\ i \in 0 .. (MaxPartitions - 1)
        /\ UNCHANGED <<partitions, pc, count>> /\ i \in 0 .. (count - 1)
    BY <1>0, <1>4 DEF LoadEntry
  <2>2. part.pos \in Pos /\ part.subtype \in Nat
    BY <2>1, EntryType DEF TableTypeInv
  <2>3. part.pos.size # 0
    BY <2>1 DEF VerifyInv, Verified, EntryValid, InRange
  <2> HIDE DEF part
  <2>4. /\ \A p \in Parts : \/ PosOf(p)' = PosOf(p)
                            \/ RoleIs(part, p) /\ PosOf(p)' = part.pos
        /\ \/ bs'.ota_info = bs.ota_info
           \/ IsOtaData(part) /\ bs'.ota_info = part.pos
        /\ \/ bs'.ota = bs.ota /\ bs'.app_count = bs.app_count
           \/ \E s \in Slots :
                /\ bs'.ota = [bs.ota EXCEPT ![s] = part.pos]
                /\ bs'.app_count = IF s >= bs.app_count THEN s + 1 ELSE bs.app_count
    BY <1>4, <2>2, LoadEntryEffect DEF part
  <2>6. ASSUME NEW p \in Parts PROVE (PosOf(p) = Nowhere \/ From(PosOf(p), p))'
    <3>1. CASE PosOf(p)' = PosOf(p)
      BY <1>0, <2>1, <3>1 DEF SourceInv, From
    <3>2. CASE RoleIs(part, p) /\ PosOf(p)' = part.pos
      BY <1>0, <2>1, <3>2 DEF From, part
    <3> QED  BY <2>4, <3>1, <3>2
  <2>7. \/ bs'.ota_info = Nowhere
        \/ \E k \in 0 .. i : IsOtaData(partitions[k]) /\ bs'.ota_info = partitions[k].pos
    BY <1>0, <2>1, <2>4 DEF SourceInv, part
  <2>8. /\ \A s \in Slots : bs'.ota[s].size # 0 => s < bs'.app_count
        /\ bs'.app_count > 0 => bs'.ota[bs'.app_count - 1].size # 0
    <3>1. /\ \A s \in Slots : bs.ota[s].size # 0 => s < bs.app_count
          /\ bs.app_count > 0 => bs.ota[bs.app_count - 1].size # 0
      BY <2>1 DEF SourceInv
    <3>2. CASE bs'.ota = bs.ota /\ bs'.app_count = bs.app_count
      BY <3>1, <3>2
    <3>3. ASSUME NEW s \in Slots,
                 bs'.ota = [bs.ota EXCEPT ![s] = part.pos],
                 bs'.app_count = IF s >= bs.app_count THEN s + 1 ELSE bs.app_count
          PROVE  /\ \A r \in Slots : bs'.ota[r].size # 0 => r < bs'.app_count
                 /\ bs'.app_count > 0 => bs'.ota[bs'.app_count - 1].size # 0
      <4>1. bs.ota \in [Slots -> Pos] /\ bs.app_count \in 0 .. MaxSlots
        BY <1>0 DEF BootloaderState
      <4>2. bs'.ota[s] = part.pos /\ \A r \in Slots : r # s => bs'.ota[r] = bs.ota[r]
        BY <3>3, <4>1
      <4>3. s \in Nat /\ Slots \subseteq Nat
        BY <1>0 DEF Slots
      <4>4. bs.app_count \in Nat /\ \A r \in Slots : r < bs.app_count \/ bs.ota[r].size = 0
        BY <1>0, <3>1, <4>1
      <4>5. CASE s >= bs.app_count
        <5>1. bs'.app_count = s + 1 /\ bs'.app_count - 1 = s
          BY <3>3, <4>3, <4>5
        <5>2. \A r \in Slots : r # s => (r < s + 1 \/ bs'.ota[r].size = 0)
          BY <4>2, <4>3, <4>4, <4>5
        <5>3. \A r \in Slots : r < s + 1 \/ bs'.ota[r].size = 0
          BY <4>3, <5>2
        <5> QED  BY <2>3, <4>2, <5>1, <5>3
      <4>6. CASE s < bs.app_count
        <5>1. bs.app_count - 1 \in Slots /\ bs'.app_count = bs.app_count
          BY <1>0, <3>3, <4>1, <4>3, <4>6 DEF Slots
        <5>2. \A r \in Slots : r < bs.app_count \/ bs'.ota[r].size = 0
          BY <4>2, <4>4, <4>6
        <5> QED  BY <2>3, <3>1, <4>2, <4>4, <5>1, <5>2
      <4> QED  BY <4>3, <4>4, <4>5, <4>6
    <3> QED  BY <2>4, <3>2, <3>3
  <2> QED  BY <1>0, <2>1, <2>6, <2>7, <2>8 DEF SourceInv
<1>5. CASE LoadDone
  BY <1>5 DEF LoadDone, SourceInv, From, PosOf
<1> QED  BY <1>1, <1>2, <1>3, <1>4, <1>5 DEF TableNext

TableInv == TableTypeInv /\ VerifyInv /\ SourceInv

LEMMA InitTableInv == TableInit => TableInv
  BY InitTableType DEF TableInit, TableInv, VerifyInv, SourceInv

\* The steps of the factory reset leave the table and the loading alone, but for
\* the reset of the chip, which starts it again.
LEMMA NextTableInv == TableInv /\ [ResetNext]_bothVars => TableInv'
<1> SUFFICES ASSUME TableInv, [ResetNext]_bothVars PROVE TableInv'
  OBVIOUS
<1>1. CASE [TableNext]_tableVars
  BY <1>1, NextTableType, NextVerifyInv, NextSourceInv DEF TableInv
<1>2. CASE ResetAgain
  <2>1. /\ partitions' = partitions /\ bs' = DefaultState
        /\ pc' = "map" /\ i' = 0 /\ count' = 0 /\ valid' = TRUE
    BY <1>2 DEF ResetAgain
  <2>2. partitions \in [0 .. (MaxPartitions - 1) -> Entries] /\ 0 \in 0 .. MaxPartitions
    BY ConstantFacts DEF TableInv, TableTypeInv, TableTypeOK
  <2> QED  BY <2>1, <2>2, DefaultType
           DEF TableInv, TableTypeInv, TableTypeOK, VerifyInv, SourceInv
<1>3. ResetNext => ResetAgain \/ [TableNext]_tableVars
  BY DEF ResetNext, ResetHeld, NextEntry, EraseNext, EraseDone, Retain, SetFlag, UpdateCrc
<1> QED  BY <1>1, <1>2, <1>3 DEF bothVars

LEMMA TableInvariant == ResetSpec => []TableInv
<1>1. ResetInit => TableInv
  BY InitTableInv DEF ResetInit
<1> QED  BY <1>1, NextTableInv, PTL DEF ResetSpec

(* A table that passes verification lists partitions inside the flash that
   share no address, although the code compares ends that may have wrapped. *)
THEOREM VerifiedTable == ResetSpec => []AcceptedDisjoint
<1>1. TableInv => AcceptedDisjoint
  <2> SUFFICES ASSUME TableInv, pc \in {"load", "loaded"}
               PROVE  AcceptedDisjoint
    BY DEF AcceptedDisjoint
  <2>1. TableTypeOK /\ Verified(count)
    BY DEF TableInv, TableTypeInv, VerifyInv
  <2>2. ASSUME NEW k \in 0 .. (count - 1)
        PROVE  /\ partitions[k].pos.size > 0
               /\ Extent(partitions[k].pos) \subseteq MinOffset .. (FlashSize - 1)
    BY <2>1, <2>2, VerifiedDisjoint, RangeMeans, ConstantFacts DEF Extent
  <2> QED  BY <2>1, <2>2, VerifiedDisjoint DEF AcceptedDisjoint
<1> QED  BY <1>1, TableInvariant, PTL

(* The loaded layout is the one Bootloader assumes: app_count is one past the
   highest listed slot. *)
THEOREM LayoutAsAssumed == ResetSpec => []LayoutDelivered
<1>1. TableInv => LayoutDelivered
  <2> SUFFICES ASSUME TableInv, pc = "loaded" PROVE LayoutOK(LayoutOf)
    BY DEF LayoutDelivered
  <2>1. /\ \A s \in Slots : bs.ota[s].size # 0 => s < bs.app_count
        /\ bs.app_count > 0 => bs.ota[bs.app_count - 1].size # 0
    BY DEF TableInv, SourceInv
  <2>2. bs.app_count \in Nat /\ bs.app_count <= MaxSlots /\ MaxSlots \in Nat \ {0}
    BY ConstantFacts DEF TableInv, TableTypeInv, TableTypeOK, BootloaderState
  <2>3. ASSUME NEW p \in Parts, PosOf(p).size # 0 PROVE p < bs.app_count
    BY <2>1, <2>2, <2>3 DEF Parts, Slots, PosOf
  <2>4. ASSUME bs.app_count > 0
        PROVE  bs.app_count - 1 \in Parts /\ PosOf(bs.app_count - 1).size # 0
    BY <2>1, <2>2, <2>4 DEF Parts, PosOf
  <2> QED  BY <2>3, <2>4 DEF LayoutOK, LayoutOf
<1> QED  BY <1>1, TableInvariant, PTL

LEMMA RolesDiffer ==
  ASSUME NEW part, part.subtype \in Nat, NEW p, RoleIs(part, p)
  PROVE  ~IsOtaData(part) /\ \A q : RoleIs(part, q) => q = p
  BY DEF RoleIs, IsOtaData

(* No two of the partitions the bootloader boots from, erases or writes share
   flash. *)
THEOREM RolesAreDisjoint == ResetSpec => []RolesDisjoint
<1>1. TableInv => RolesDisjoint
  <2> SUFFICES ASSUME TableInv, pc = "loaded" PROVE RolesDisjoint
    BY DEF RolesDisjoint
  <2>0. /\ TableTypeOK /\ Verified(count) /\ i <= count /\ i \in Nat /\ count \in Nat
        /\ count <= MaxPartitions /\ MaxPartitions \in Nat
    BY ConstantFacts DEF TableInv, TableTypeInv, TableTypeOK, VerifyInv, SourceInv
  <2>1. 0 .. (i - 1) \subseteq 0 .. (count - 1)
        /\ 0 .. (i - 1) \subseteq 0 .. (MaxPartitions - 1)
    BY <2>0
  <2>2. Extent(Nowhere) = {}
    BY DEF Extent, Nowhere
  <2>3. ASSUME NEW p \in Parts, NEW q \in Parts, p # q
        PROVE  Extent(PosOf(p)) \cap Extent(PosOf(q)) = {}
    <3>1. CASE PosOf(p) = Nowhere \/ PosOf(q) = Nowhere
      BY <2>2, <3>1
    <3>2. CASE From(PosOf(p), p) /\ From(PosOf(q), q)
      <4>1. PICK j \in 0 .. (i - 1) : RoleIs(partitions[j], p) /\ PosOf(p) = partitions[j].pos
        BY <3>2 DEF From
      <4>2. PICK k \in 0 .. (i - 1) : RoleIs(partitions[k], q) /\ PosOf(q) = partitions[k].pos
        BY <3>2 DEF From
      <4>3. partitions[j].subtype \in Nat
        BY <2>0, <2>1, EntryType
      <4>4. j # k
        BY <2>3, <4>1, <4>2, <4>3, RolesDiffer
      <4> QED  BY <2>0, <2>1, <4>1, <4>2, <4>4, VerifiedDisjoint
    <3> QED  BY <3>1, <3>2 DEF TableInv, SourceInv
  <2>4. ASSUME NEW p \in Parts
        PROVE  Extent(PosOf(p)) \cap Extent(bs.ota_info) = {}
    <3>1. CASE PosOf(p) = Nowhere \/ bs.ota_info = Nowhere
      BY <2>2, <3>1
    <3>2. ASSUME From(PosOf(p), p), NEW k \in 0 .. (i - 1),
                 IsOtaData(partitions[k]), bs.ota_info = partitions[k].pos
          PROVE  Extent(PosOf(p)) \cap Extent(bs.ota_info) = {}
      <4>1. PICK j \in 0 .. (i - 1) : RoleIs(partitions[j], p) /\ PosOf(p) = partitions[j].pos
        BY <3>2 DEF From
      <4>2. partitions[j].subtype \in Nat
        BY <2>0, <2>1, EntryType
      <4>3. j # k
        BY <3>2, <4>1, <4>2, RolesDiffer
      <4> QED  BY <2>0, <2>1, <3>2, <4>1, <4>3, VerifiedDisjoint
    <3> QED  BY <3>1, <3>2 DEF TableInv, SourceInv
  <2> QED  BY <2>3, <2>4 DEF RolesDisjoint
<1> QED  BY <1>1, TableInvariant, PTL

----------------------------------------------------------------------------
(* The factory reset. *)

LEMMA SectorFacts == SectorSize \in Nat \ {0}
  BY SectorAssumption

\* Sectors 0 .. n-1 of a partition are erased.
Gone(k, n) ==
  \A t \in 0 .. (n - 1) : partitions[k].pos.offset \div SectorSize + t \in erased

\* An erased sector is one of a partition that is to be erased.
Named(s) ==
  \E k \in ToErase : \E t \in 0 .. (NumSectors(partitions[k].pos) - 1) :
    s = partitions[k].pos.offset \div SectorSize + t

ResetInv ==
  /\ ResetTypeOK
  /\ step \in {"entries", "erase"} => \A j \in 0 .. (entry - 1) : partitions[j].magic
  /\ step = "erase" => /\ Matches(partitions[entry])
                       /\ sector <= NumSectors(partitions[entry].pos)
                       /\ ~failed => Gone(entry, sector)
  /\ step \in {"entries", "erase"} /\ ~failed =>
       \A k \in ToErase : k < entry => Gone(k, NumSectors(partitions[k].pos))
  /\ step \in {"retain", "flag", "crc", "done"} /\ ~failed =>
       \A k \in ToErase : Gone(k, NumSectors(partitions[k].pos))
  /\ rtc.valid /\ rtc.flag => step = "done"
  /\ \A s \in erased : Named(s)

LEMMA SectorsType ==
  ASSUME TableTypeOK, NEW k \in 0 .. (MaxPartitions - 1)
  PROVE  /\ partitions[k].pos.offset \in Nat /\ partitions[k].pos.size \in Nat
         /\ partitions[k].pos.offset \div SectorSize \in Nat
         /\ NumSectors(partitions[k].pos) \in Nat
<1>1. partitions[k].pos.offset \in Nat /\ partitions[k].pos.size \in Nat
  BY EntryType, ConstantFacts DEF Pos, Words
<1>2. partitions[k].pos.size + SectorSize - 1 \in Nat
  BY <1>1, SectorFacts
<1> QED  BY <1>1, <1>2, SectorFacts, DivMod DEF NumSectors

LEMMA InitReset == ResetInit => ResetInv
<1> SUFFICES ASSUME ResetInit PROVE ResetInv
  OBVIOUS
<1>1. TableTypeOK
  BY InitTableType DEF ResetInit, TableTypeInv
<1>2. rtc \in [valid : BOOLEAN, flag : BOOLEAN] /\ ~rtc.flag
  BY DEF ResetInit
<1>3. step = "off" /\ entry = 0 /\ sector = 0 /\ erased = {} /\ failed = FALSE
  BY Zenon DEF ResetInit
<1>4. ResetTypeOK
  <2>1. failed \in BOOLEAN
    BY <1>3, Zenon
  <2>2. entry \in 0 .. MaxPartitions /\ sector \in Nat /\ erased \subseteq Nat
    BY <1>3, ConstantFacts
  <2>3. step \in {"off"} /\ step # "erase"
    BY <1>3
  <2> QED  BY <1>1, <1>2, <2>1, <2>2, <2>3 DEF ResetTypeOK
<1>5. /\ step \notin {"entries", "erase"} /\ step # "erase"
      /\ step \notin {"retain", "flag", "crc", "done"}
      /\ \A s \in erased : Named(s)
  BY <1>3
<1>6. ~(rtc.valid /\ rtc.flag)
  BY <1>2
<1> QED  BY <1>4, <1>5, <1>6, Zenon DEF ResetInv

LEMMA Kept ==
  ASSUME partitions' = partitions, erased \subseteq erased'
  PROVE  /\ ToErase' = ToErase
         /\ \A k, n : Gone(k, n) => Gone(k, n)'
         /\ \A s : Named(s)' <=> Named(s)
<1>1. ToErase' = ToErase
  BY DEF ToErase, Matches
<1>2. \A k, n : Gone(k, n) => Gone(k, n)'
  BY DEF Gone
<1>3. \A s : Named(s)' <=> Named(s)
  BY <1>1 DEF Named, NumSectors
<1> QED  BY <1>1, <1>2, <1>3

\* The partition the search has stopped at is one of those to erase.
LEMMA EntryToErase ==
  ASSUME ResetInv, step = "erase" PROVE entry \in ToErase /\ entry \in 0 .. (MaxPartitions - 1)
<1>1. entry \in Nat /\ entry < MaxPartitions /\ partitions[entry].magic /\ MaxPartitions \in Nat
  BY ConstantFacts DEF ResetInv, ResetTypeOK, TableEnds
<1>2. \A j \in 0 .. entry : partitions[j].magic
  BY <1>1 DEF ResetInv
<1>3. Matches(partitions[entry])
  BY DEF ResetInv
<1> QED  BY <1>1, <1>2, <1>3 DEF ToErase

LEMMA TableStepReset ==
  ASSUME ResetInv, TableTypeOK', partitions' = partitions, UNCHANGED resetVars
  PROVE  ResetInv'
<1>1. UNCHANGED <<step, entry, sector, erased, failed, rtc>>
  BY DEF resetVars
<1>2. ToErase' = ToErase /\ (\A k, n : Gone(k, n) => Gone(k, n)') /\ (\A s : Named(s)' <=> Named(s))
  BY <1>1, Kept
<1>3. ResetTypeOK'
  BY <1>1 DEF ResetInv, ResetTypeOK, TableEnds
<1> QED  BY <1>1, <1>2, <1>3 DEF ResetInv, Matches, NumSectors

LEMMA NextEntryReset == ASSUME ResetInv, NextEntry PROVE ResetInv'
<1>1. /\ step = "entries" /\ sector' = 0 /\ UNCHANGED <<tableVars, erased, failed, rtc>>
      /\ entry \in Nat /\ entry <= MaxPartitions /\ MaxPartitions \in Nat
  BY ConstantFacts DEF NextEntry, ResetInv, ResetTypeOK
<1>2. partitions' = partitions /\ ToErase' = ToErase
      /\ (\A k, n : Gone(k, n) => Gone(k, n)') /\ (\A s : Named(s)' <=> Named(s))
  BY <1>1, Kept DEF tableVars
<1>3. TableTypeOK'
  BY <1>1 DEF ResetInv, ResetTypeOK, TableTypeOK, tableVars
<1>4. CASE TableEnds(entry)
  <2>1. step' = "retain" /\ entry' = entry
    BY <1>4 DEF NextEntry
  <2>2. \A k \in ToErase : k < entry
    <3> SUFFICES ASSUME NEW k \in ToErase, ~(k < entry) PROVE FALSE
      OBVIOUS
    <3>1. k \in 0 .. (MaxPartitions - 1) /\ \A j \in 0 .. k : partitions[j].magic
      BY DEF ToErase
    <3>2. entry \in 0 .. k /\ entry < MaxPartitions
      BY <1>1, <3>1
    <3> QED  BY <1>4, <3>1, <3>2 DEF TableEnds
  <2>3. ResetTypeOK'
    BY <1>1, <1>3, <2>1 DEF ResetInv, ResetTypeOK
  <2> QED  BY <1>1, <1>2, <2>1, <2>2, <2>3 DEF ResetInv, NumSectors
<1>5. CASE ~TableEnds(entry) /\ Matches(partitions[entry])
  <2>1. step' = "erase" /\ entry' = entry
    BY <1>5 DEF NextEntry
  <2>2. ResetTypeOK'
    BY <1>1, <1>2, <1>3, <1>5, <2>1 DEF ResetInv, ResetTypeOK, TableEnds
  <2>3. entry \in 0 .. (MaxPartitions - 1)
    BY <1>1, <1>5 DEF TableEnds
  <2>4. 0 <= NumSectors(partitions[entry].pos)
    BY <2>3, SectorsType DEF ResetInv, ResetTypeOK
  <2>5. Gone(entry, 0)'
    BY DEF Gone
  <2> QED  BY <1>1, <1>2, <1>5, <2>1, <2>2, <2>4, <2>5 DEF ResetInv, NumSectors, Matches
<1>6. CASE ~TableEnds(entry) /\ ~Matches(partitions[entry])
  <2>1. step' = "entries" /\ entry' = entry + 1
    BY <1>1, <1>6 DEF NextEntry
  <2>2. entry < MaxPartitions /\ partitions[entry].magic
    BY <1>6 DEF TableEnds
  <2>3. ResetTypeOK'
    BY <1>1, <1>3, <2>1, <2>2 DEF ResetInv, ResetTypeOK
  <2>4. \A k \in ToErase : k < entry + 1 => k < entry
    BY <1>1, <1>6 DEF ToErase
  <2>5. \A j \in 0 .. (entry' - 1) : partitions'[j].magic
    BY <1>1, <1>2, <2>1, <2>2 DEF ResetInv
  <2> QED  BY <1>1, <1>2, <2>1, <2>3, <2>4, <2>5 DEF ResetInv, NumSectors
<1> QED  BY <1>4, <1>5, <1>6

LEMMA EraseNextReset == ASSUME ResetInv, EraseNext PROVE ResetInv'
<1>1. /\ step = "erase" /\ UNCHANGED <<tableVars, rtc>>
      /\ sector < NumSectors(partitions[entry].pos)
  BY DEF EraseNext
<1>2. /\ entry \in ToErase /\ entry \in 0 .. (MaxPartitions - 1)
      /\ entry \in Nat /\ entry < MaxPartitions /\ sector \in Nat /\ MaxPartitions \in Nat
  BY <1>1, EntryToErase, ConstantFacts DEF ResetInv, ResetTypeOK
<1>3. PICK base \in Nat, n \in Nat :
        base = partitions[entry].pos.offset \div SectorSize /\ n = NumSectors(partitions[entry].pos)
  BY <1>2, SectorsType DEF ResetInv, ResetTypeOK
<1>4. TableTypeOK' /\ partitions' = partitions
  BY <1>1 DEF ResetInv, ResetTypeOK, TableTypeOK, tableVars
<1>5. ASSUME erased' = erased \cup {base + sector}, sector' = sector + 1,
             UNCHANGED <<step, entry, failed>>
      PROVE  ResetInv'
  <2>1. ToErase' = ToErase /\ (\A k, m : Gone(k, m) => Gone(k, m)')
        /\ (\A s : Named(s)' <=> Named(s))
    BY <1>4, <1>5, Kept
  <2>2. base + sector \in Nat /\ sector' \in Nat /\ sector' <= n
    BY <1>1, <1>2, <1>3, <1>5
  <2>3. ResetTypeOK'
    BY <1>1, <1>4, <1>5, <2>2 DEF ResetInv, ResetTypeOK, TableEnds
  <2>4. ASSUME Gone(entry, sector) PROVE Gone(entry, sector)'
    <3>1. \A t \in 0 .. sector : t \in 0 .. (sector - 1) \/ t = sector
      BY <1>2
    <3>2. (sector + 1) - 1 = sector
      BY <1>2
    <3>3. \A t \in 0 .. sector : base + t \in erased'
      BY <1>3, <1>5, <2>4, <3>1 DEF Gone
    <3>4. sector' = sector + 1 /\ base = partitions'[entry].pos.offset \div SectorSize
      BY <1>3, <1>4, <1>5
    <3> QED  BY <1>2, <1>4, <1>5, <3>2, <3>3, <3>4 DEF Gone
  <2>5. Named(base + sector)
    <3>1. sector \in 0 .. (n - 1)
      BY <1>1, <1>2, <1>3
    <3> QED  BY <1>2, <1>3, <3>1 DEF Named
  <2> QED  BY <1>1, <1>2, <1>3, <1>4, <1>5, <2>1, <2>2, <2>3, <2>4, <2>5
           DEF ResetInv, NumSectors, Matches
<1>6. ASSUME failed' = TRUE, step' = "entries", entry' = entry + 1, UNCHANGED <<sector, erased>>
      PROVE  ResetInv'
  <2>1. ToErase' = ToErase /\ (\A s : Named(s)' <=> Named(s))
    BY <1>4, <1>6, Kept
  <2>2. ResetTypeOK'
    BY <1>1, <1>2, <1>4, <1>6 DEF ResetInv, ResetTypeOK
  <2>3. \A j \in 0 .. (entry' - 1) : partitions'[j].magic
    BY <1>2, <1>4, <1>6 DEF ToErase
  <2> QED  BY <1>1, <1>6, <2>1, <2>2, <2>3 DEF ResetInv
<1> QED  BY <1>3, <1>5, <1>6 DEF EraseNext

LEMMA EraseDoneReset == ASSUME ResetInv, EraseDone PROVE ResetInv'
<1>1. /\ step = "erase" /\ sector = NumSectors(partitions[entry].pos)
      /\ step' = "entries" /\ entry' = entry + 1
      /\ UNCHANGED <<tableVars, sector, erased, failed, rtc>>
  BY DEF EraseDone
<1>2. /\ entry \in ToErase /\ entry \in Nat /\ entry < MaxPartitions /\ MaxPartitions \in Nat
  BY <1>1, EntryToErase, ConstantFacts DEF ResetInv, ResetTypeOK
<1>3. TableTypeOK' /\ partitions' = partitions
  BY <1>1 DEF ResetInv, ResetTypeOK, TableTypeOK, tableVars
<1>4. ToErase' = ToErase /\ (\A k, m : Gone(k, m) => Gone(k, m)')
      /\ (\A s : Named(s)' <=> Named(s))
  BY <1>1, <1>3, Kept
<1>5. ResetTypeOK'
  BY <1>1, <1>2, <1>3 DEF ResetInv, ResetTypeOK
<1>6. \A j \in 0 .. (entry' - 1) : partitions'[j].magic
  BY <1>1, <1>2, <1>3 DEF ToErase
<1>7. \A k \in ToErase : k < entry + 1 => k < entry \/ k = entry
  BY <1>2 DEF ToErase
<1> QED  BY <1>1, <1>3, <1>4, <1>5, <1>6, <1>7 DEF ResetInv, NumSectors

LEMMA RestReset ==
  ASSUME ResetInv, ResetHeld \/ Retain \/ SetFlag \/ UpdateCrc \/ ResetAgain, TableTypeOK'
  PROVE  ResetInv'
<1>1. partitions' = partitions /\ erased' = erased
  BY DEF ResetHeld, Retain, SetFlag, UpdateCrc, ResetAgain, tableVars
<1>2. ToErase' = ToErase /\ (\A k, m : Gone(k, m) => Gone(k, m)')
      /\ (\A s : Named(s)' <=> Named(s))
  BY <1>1, Kept
<1>3. rtc \in [valid : BOOLEAN, flag : BOOLEAN] /\ failed \in BOOLEAN
      /\ 0 \in 0 .. MaxPartitions
  BY ConstantFacts DEF ResetInv, ResetTypeOK
<1>4. CASE ResetHeld
  <2>1. /\ step = "off" /\ step' \in {"entries", "retain"}
        /\ (step' = "retain" => failed') /\ failed' \in BOOLEAN
        /\ entry' = 0 /\ sector' = 0 /\ rtc' = rtc
    BY <1>4, Zenon DEF ResetHeld
  <2>2. ResetTypeOK'
    BY <1>1, <1>3, <2>1 DEF ResetInv, ResetTypeOK
  <2>3. \A k \in ToErase : ~(k < 0)
    BY ConstantFacts DEF ToErase
  <2> QED  BY <1>1, <1>2, <2>1, <2>2, <2>3 DEF ResetInv
<1>5. CASE Retain
  <2>1. /\ step = "retain" /\ step' = "flag" /\ UNCHANGED <<entry, sector, failed>>
        /\ rtc' = IF rtc.valid THEN rtc ELSE [valid |-> FALSE, flag |-> FALSE]
    BY <1>5 DEF Retain
  <2>2. rtc' \in [valid : BOOLEAN, flag : BOOLEAN] /\ ~(rtc'.valid /\ rtc'.flag)
    BY <1>3, <2>1 DEF ResetInv
  <2>3. ResetTypeOK'
    BY <1>1, <2>1, <2>2 DEF ResetInv, ResetTypeOK
  <2> QED  BY <1>1, <1>2, <2>1, <2>2, <2>3 DEF ResetInv, NumSectors
<1>6. CASE SetFlag
  <2>1. /\ step = "flag" /\ step' = "crc" /\ UNCHANGED <<entry, sector, failed>>
        /\ rtc' = [valid |-> rtc.valid /\ rtc.flag, flag |-> TRUE]
    BY <1>6 DEF SetFlag
  <2>2. rtc' \in [valid : BOOLEAN, flag : BOOLEAN] /\ ~(rtc'.valid /\ rtc'.flag)
    BY <1>3, <2>1 DEF ResetInv
  <2>3. ResetTypeOK'
    BY <1>1, <2>1, <2>2 DEF ResetInv, ResetTypeOK
  <2> QED  BY <1>1, <1>2, <2>1, <2>2, <2>3 DEF ResetInv, NumSectors
<1>7. CASE UpdateCrc
  <2>1. /\ step = "crc" /\ step' = "done" /\ UNCHANGED <<entry, sector, failed>>
        /\ rtc' = [rtc EXCEPT !.valid = TRUE]
    BY <1>7 DEF UpdateCrc
  <2>2. rtc' \in [valid : BOOLEAN, flag : BOOLEAN]
    BY <1>3, <2>1
  <2>3. ResetTypeOK'
    BY <1>1, <2>1, <2>2 DEF ResetInv, ResetTypeOK
  <2> QED  BY <1>1, <1>2, <2>1, <2>2, <2>3 DEF ResetInv, NumSectors
<1>8. CASE ResetAgain
  <2>1. /\ step' = "off" /\ step # "done" /\ entry' = 0 /\ sector' = 0 /\ failed' = FALSE
        /\ rtc' = rtc
    BY <1>8 DEF ResetAgain
  <2>2. ResetTypeOK'
    BY <1>1, <1>3, <2>1 DEF ResetInv, ResetTypeOK
  <2> QED  BY <1>1, <1>2, <2>1, <2>2 DEF ResetInv
<1> QED  BY <1>4, <1>5, <1>6, <1>7, <1>8

LEMMA NextReset == TableInv /\ ResetInv /\ [ResetNext]_bothVars => ResetInv'
<1> SUFFICES ASSUME TableInv, ResetInv, [ResetNext]_bothVars PROVE ResetInv'
  OBVIOUS
<1>1. TableTypeOK'
  BY NextTableInv DEF TableInv, TableTypeInv
<1>2. TableNext => partitions' = partitions
  BY DEF TableNext, MapTable, VerifyEntry, VerifyDone, LoadEntry, LoadDone
<1>3. CASE (TableNext /\ UNCHANGED resetVars) \/ UNCHANGED bothVars
  BY <1>1, <1>2, <1>3, TableStepReset DEF bothVars, tableVars
<1>4. CASE NextEntry \/ EraseNext \/ EraseDone
  BY <1>4, NextEntryReset, EraseNextReset, EraseDoneReset
<1>5. CASE ResetHeld \/ Retain \/ SetFlag \/ UpdateCrc \/ ResetAgain
  BY <1>1, <1>5, RestReset
<1> QED  BY <1>3, <1>4, <1>5 DEF ResetNext

LEMMA ResetInvariant == ResetSpec => []ResetInv
  BY InitReset, NextReset, TableInvariant, PTL DEF ResetSpec

(* Every entry, slot and sector the two passes and the reset use is in range,
   whatever subtypes and labels the table holds. *)
THEOREM ResetTypeCorrect == ResetSpec => []ResetTypeOK
<1>1. ResetInv => ResetTypeOK
  BY DEF ResetInv
<1> QED  BY <1>1, ResetInvariant, PTL

\* A sector starts where the partition does, further on by whole sectors.
LEMMA SectorAt ==
  ASSUME NEW offset \in Nat, offset % SectorSize = 0, NEW t \in Nat
  PROVE  LET s == offset \div SectorSize + t IN
         SectorBytes(s) = (offset + SectorSize * t) .. (offset + SectorSize * t + SectorSize - 1)
<1>1. PICK o \in Nat : o = offset \div SectorSize /\ offset = SectorSize * o
  BY SectorFacts, DivMod
<1>2. (o + t) * SectorSize = offset + SectorSize * t
  <2>1. (o + t) * SectorSize = o * SectorSize + t * SectorSize
    BY SectorFacts, Distributed
  <2>2. o * SectorSize = offset /\ t * SectorSize = SectorSize * t
    BY <1>1, SectorFacts
  <2> QED  BY <2>1, <2>2
<1>3. SectorBytes(o + t) = ((o + t) * SectorSize) .. ((o + t) * SectorSize + SectorSize - 1)
  BY DEF SectorBytes, Extent
<1> QED  BY <1>1, <1>2, <1>3

LEMMA SectorInside ==
  ASSUME NEW pos, pos.offset \in Nat, pos.size \in Nat, Aligned(pos),
         NEW t \in 0 .. (NumSectors(pos) - 1)
  PROVE  SectorBytes(pos.offset \div SectorSize + t) \subseteq Extent(pos)
<1>1. PICK z \in Nat : pos.size = SectorSize * z
  <2>1. pos.size % SectorSize = 0
    BY DEF Aligned
  <2>2. PICK z \in Nat, r \in 0 .. SectorSize - 1 :
          z = pos.size \div SectorSize /\ r = pos.size % SectorSize /\ pos.size = SectorSize * z + r
    BY SectorFacts, DivMod
  <2>3. SectorSize * z \in Nat
    BY SectorFacts
  <2> QED  BY <2>1, <2>2, <2>3
<1>2. NumSectors(pos) = z
  <2>1. SectorSize - 1 \in 0 .. SectorSize - 1
    BY SectorFacts
  <2>2. pos.size + SectorSize - 1 = SectorSize * z + (SectorSize - 1)
    BY <1>1, SectorFacts
  <2>3. (SectorSize * z + (SectorSize - 1)) \div SectorSize = z
    BY <2>1, SectorFacts, DivUnique
  <2> QED  BY <2>2, <2>3 DEF NumSectors
<1>3. t \in Nat /\ t < z
  BY <1>2
<1>4. PICK d \in Nat : d = SectorSize * t /\ d + SectorSize <= pos.size
  <2>1. SectorSize * t + SectorSize <= SectorSize * z
    BY <1>3, SectorFacts, ProductGap
  <2>2. SectorSize * t \in Nat
    BY <1>3, SectorFacts
  <2>3. SectorSize * t + SectorSize <= pos.size
    BY <1>1, <2>1, Zenon
  <2> QED  BY <2>2, <2>3
<1>5. SectorBytes(pos.offset \div SectorSize + t)
        = (pos.offset + d) .. (pos.offset + d + SectorSize - 1)
  <2>1. pos.offset % SectorSize = 0
    BY DEF Aligned
  <2> QED  BY <1>3, <1>4, <2>1, SectorAt
<1>6. Extent(pos) = pos.offset .. (pos.offset + pos.size - 1)
  BY DEF Extent
<1>7. PICK o \in Nat, y \in Nat, g \in Nat : o = pos.offset /\ y = pos.size /\ g = SectorSize
  BY SectorFacts
<1>8. (o + d) .. (o + d + g - 1) \subseteq o .. (o + y - 1)
  BY <1>4, <1>7
<1> QED  BY <1>5, <1>6, <1>7, <1>8

LEMMA SectorsCover ==
  ASSUME NEW pos, pos.offset \in Nat, pos.size \in Nat, pos.offset % SectorSize = 0,
         NEW a \in Extent(pos)
  PROVE  \E t \in 0 .. (NumSectors(pos) - 1) :
           a \in SectorBytes(pos.offset \div SectorSize + t)
<1>1. PICK b \in Nat : a = pos.offset + b /\ b < pos.size
  <2>1. a \in Int /\ pos.offset <= a /\ a < pos.offset + pos.size
    BY DEF Extent
  <2>2. a - pos.offset \in Nat /\ a = pos.offset + (a - pos.offset) /\ a - pos.offset < pos.size
    BY <2>1
  <2> QED  BY <2>2
<1>2. PICK t \in Nat, u \in 0 .. SectorSize - 1 : b = SectorSize * t + u
  <2>1. /\ b \div SectorSize \in Nat /\ b % SectorSize \in 0 .. SectorSize - 1
        /\ b = SectorSize * (b \div SectorSize) + (b % SectorSize)
    BY SectorFacts, DivMod
  <2> QED  BY <2>1, Zenon
<1>3. PICK N \in Nat, r \in 0 .. SectorSize - 1 :
        N = NumSectors(pos) /\ pos.size + SectorSize - 1 = SectorSize * N + r
  <2>1. PICK w \in Nat : w = pos.size + SectorSize - 1
    BY SectorFacts
  <2>2. PICK N \in Nat, r \in 0 .. SectorSize - 1 : N = w \div SectorSize /\ w = SectorSize * N + r
    <3>1. /\ w \div SectorSize \in Nat /\ w % SectorSize \in 0 .. SectorSize - 1
          /\ w = SectorSize * (w \div SectorSize) + (w % SectorSize)
      BY SectorFacts, DivMod
    <3> QED  BY <3>1, Zenon
  <2> QED  BY <2>1, <2>2 DEF NumSectors
<1>4. PICK d \in Nat, e \in Nat : d = SectorSize * t /\ e = SectorSize * N
  <2>1. SectorSize * t \in Nat /\ SectorSize * N \in Nat
    BY SectorFacts
  <2> QED  BY <2>1
<1>5. b = d + u /\ pos.size + SectorSize - 1 = e + r
  BY <1>2, <1>3, <1>4
<1>6. t < N
  <2> SUFFICES ASSUME N <= t PROVE FALSE
    OBVIOUS
  <2>1. N < t \/ N = t
    OBVIOUS
  <2>2. N < t => SectorSize * N + SectorSize <= SectorSize * t
    BY SectorFacts, ProductGap
  <2>3. e <= d
    <3>1. N < t => e + SectorSize <= d
      BY <1>4, <2>2, Zenon
    <3>2. N = t => e = d
      BY <1>4
    <3> QED  BY <2>1, <3>1, <3>2, SectorFacts
  <2> QED  BY <1>1, <1>5, <2>3, SectorFacts
<1>7. a \in SectorBytes(pos.offset \div SectorSize + t)
  <2>1. SectorBytes(pos.offset \div SectorSize + t)
          = (pos.offset + d) .. (pos.offset + d + SectorSize - 1)
    BY <1>4, SectorAt
  <2> QED  BY <1>1, <1>5, <2>1, SectorFacts
<1>8. t \in 0 .. (N - 1)
  BY <1>6
<1> QED  BY <1>3, <1>7, <1>8

(* A factory reset erases no byte outside the partitions it is to erase, as far
   as those consist of whole sectors, however often it is cut off and repeated
   (flash.rs 380-399, utility.rs 392-422). *)
THEOREM ResetStaysConfined == ResetSpec => []ResetConfined
<1>1. ResetInv => ResetConfined
  <2> SUFFICES ASSUME ResetInv, \A k \in ToErase : Aligned(partitions[k].pos),
                      NEW s \in erased
               PROVE  \E k \in ToErase : SectorBytes(s) \subseteq Extent(partitions[k].pos)
    BY DEF ResetConfined
  <2>1. PICK k \in ToErase : \E t \in 0 .. (NumSectors(partitions[k].pos) - 1) :
          s = partitions[k].pos.offset \div SectorSize + t
    BY DEF ResetInv, Named
  <2>2. k \in 0 .. (MaxPartitions - 1) /\ Aligned(partitions[k].pos)
    BY DEF ToErase
  <2>3. partitions[k].pos.offset \in Nat /\ partitions[k].pos.size \in Nat
    BY <2>2, SectorsType DEF ResetInv, ResetTypeOK
  <2> QED  BY <2>1, <2>2, <2>3, SectorInside
<1> QED  BY <1>1, ResetInvariant, PTL

(* The sealed flag of a factory reset says that everything was erased that it is
   to erase, as far as no command failed and the partitions start at a sector
   (utility.rs 407-410). *)
THEOREM FlagIsTrue == ResetSpec => []FlagMeansErased
<1>1. ResetInv => FlagMeansErased
  <2> SUFFICES ASSUME ResetInv, rtc.valid, rtc.flag, ~failed,
                      NEW k \in ToErase, partitions[k].pos.offset % SectorSize = 0,
                      NEW a \in Extent(partitions[k].pos)
               PROVE  \E s \in erased : a \in SectorBytes(s)
    BY DEF FlagMeansErased
  <2>1. Gone(k, NumSectors(partitions[k].pos))
    BY DEF ResetInv
  <2>2. k \in 0 .. (MaxPartitions - 1)
    BY DEF ToErase
  <2>3. partitions[k].pos.offset \in Nat /\ partitions[k].pos.size \in Nat
    BY <2>2, SectorsType DEF ResetInv, ResetTypeOK
  <2>4. PICK t \in 0 .. (NumSectors(partitions[k].pos) - 1) :
          a \in SectorBytes(partitions[k].pos.offset \div SectorSize + t)
    BY <2>3, SectorsCover
  <2> QED  BY <2>1, <2>4 DEF Gone
<1> QED  BY <1>1, ResetInvariant, PTL
=============================================================================
