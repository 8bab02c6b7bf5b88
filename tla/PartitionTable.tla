--------------------------- MODULE PartitionTable ---------------------------
(***************************************************************************)
(* Verifying the partition table and loading it into BootloaderState        *)
(* (src/partition.rs), one step for each entry of either pass.  Words are   *)
(* 0 .. SeqMax and additions wrap, as in the code.                          *)
(***************************************************************************)
EXTENDS OtaData, FiniteSets

CONSTANTS
  MinOffset,       (* MIN_PART_OFFSET, the end of the table itself          *)
  FlashSize,       (* MAX_FLASH_SIZE                                        *)
  MaxPartitions,   (* MAX_PARTITIONS, the entries the table has room for    *)
  SectorSize,      (* FLASH_SECTOR_SIZE                                     *)
  Entries          (* what an entry of the table may hold                   *)

Words == 0 .. SeqMax
Slots == 0 .. (MaxSlots - 1)

Pos     == [offset : Words, size : Words]
Nowhere == [offset |-> 0, size |-> 0]

\* A garbled label is one label_is_valid refuses.
Labels == {"nvs", "phy", "otadata", "other", "garbled"}

EspPartitionInfo ==
  [magic : BOOLEAN, type : {"app", "data", "other"}, subtype : Nat,
   pos : Pos, label : Labels]

ASSUME TableAssumption ==
  /\ MaxPartitions \in Nat
  /\ MinOffset \in Words \ {0} /\ FlashSize \in Words
  /\ Entries \subseteq EspPartitionInfo

ASSUME SectorAssumption == SectorSize \in Nat \ {0}

VARIABLES
  partitions,   \* the table in flash
  pc,           \* the pass: "map", "verify", "load", "loaded" or "failed"
  i,            \* entry the pass is at
  count,        \* entries before the end of the table
  valid,        \* no entry was found wanting so far
  bs            \* BootloaderState

tableVars == <<partitions, pc, i, count, valid, bs>>

BootloaderState ==
  [factory : Pos, test : Pos, ota : [Slots -> Pos], ota_info : Pos,
   app_count : 0 .. MaxSlots]

DefaultState ==
  [factory |-> Nowhere, test |-> Nowhere, ota |-> [s \in Slots |-> Nowhere],
   ota_info |-> Nowhere, app_count |-> 0]

TableTypeOK ==
  /\ partitions \in [0 .. (MaxPartitions - 1) -> Entries]
  /\ pc \in {"map", "verify", "load", "loaded", "failed"}
  /\ i \in 0 .. MaxPartitions /\ count \in 0 .. MaxPartitions
  /\ valid \in BOOLEAN
  /\ bs \in BootloaderState

TableInit ==
  /\ partitions \in [0 .. (MaxPartitions - 1) -> Entries]
  /\ pc = "map" /\ i = 0 /\ count = 0 /\ valid = TRUE
  /\ bs = DefaultState

\* bootloader_mmap of the table: it may fail.
MapTable ==
  /\ pc = "map"
  /\ pc' \in {"verify", "failed"}
  /\ UNCHANGED <<partitions, i, count, valid, bs>>

\* wrapping_add
PosEnd(pos) ==
  LET sum == pos.offset + pos.size
  IN  IF sum > SeqMax THEN sum - SeqMax - 1 ELSE sum

InRange(pos) ==
  /\ pos.size # 0
  /\ pos.offset >= MinOffset
  /\ PosEnd(pos) <= FlashSize
  /\ PosEnd(pos) > pos.offset

Overlap(p, q) == p.offset < PosEnd(q) /\ PosEnd(p) > q.offset

\* Mutant: an entry is compared with the one before it only.
EntryValid_Neighbour(k) ==
  /\ InRange(partitions[k].pos)
  /\ k > 0 => ~Overlap(partitions[k].pos, partitions[k - 1].pos)
  /\ partitions[k].label # "garbled"

EntryValid(k) ==
  /\ InRange(partitions[k].pos)
  /\ \A j \in 0 .. (k - 1) : ~Overlap(partitions[k].pos, partitions[j].pos)
  /\ partitions[k].label # "garbled"

AtEnd == i < MaxPartitions => ~partitions[i].magic

VerifyEntry ==
  /\ pc = "verify" /\ ~AtEnd
  /\ i' = i + 1 /\ count' = count + 1
  /\ valid' = (valid /\ EntryValid(i))
  /\ UNCHANGED <<partitions, pc, bs>>

VerifyDone ==
  /\ pc = "verify" /\ AtEnd
  /\ IF valid THEN pc' = "load" /\ bs' = DefaultState
              ELSE pc' = "failed" /\ bs' = bs
  /\ i' = 0
  /\ UNCHANGED <<partitions, count, valid>>

\* subtype & PART_SUBTYPE_OTA_FLAG and & PART_SUBTYPE_OTA_MASK; the flag is the
\* bit above the mask, and higher bits are not looked at.
HasOtaFlag(subtype) == (subtype \div MaxSlots) % 2 = 1
OtaSlot(subtype)    == subtype % MaxSlots

\* Mutant: the slots are counted.
AddSlot_Counts(slot, pos) ==
  [bs EXCEPT !.ota[slot] = pos,
             !.app_count = Cardinality({s \in Slots : bs.ota[s].size # 0}) + 1]

AddSlot(slot, pos) ==
  [bs EXCEPT !.ota[slot] = pos,
             !.app_count = IF slot >= bs.app_count THEN slot + 1 ELSE bs.app_count]

\* Mutant: app_count is one past the subtype.
LoadEntry_Unmasked ==
  /\ pc = "load" /\ i < count
  /\ LET part == partitions[i] IN
     bs' = IF part.type = "app" /\ part.subtype > 1
             THEN AddSlot(part.subtype, part.pos) ELSE bs
  /\ i' = i + 1
  /\ UNCHANGED <<partitions, pc, count, valid>>

\* The match on (type, subtype); PART_SUBTYPE_FACTORY is 0, _TEST is 1 and
\* PART_SUBTYPE_DATA_OTA is 0.
LoadEntry ==
  /\ pc = "load" /\ i < count
  /\ LET part == partitions[i] IN
     bs' = CASE part.type = "app" /\ part.subtype = 0 ->
                  [bs EXCEPT !.factory = part.pos]
             [] part.type = "app" /\ part.subtype = 1 ->
                  [bs EXCEPT !.test = part.pos]
             [] part.type = "app" /\ part.subtype > 1 /\ HasOtaFlag(part.subtype) ->
                  AddSlot(OtaSlot(part.subtype), part.pos)
             [] part.type = "data" /\ part.subtype = 0 ->
                  [bs EXCEPT !.ota_info = part.pos]
             [] OTHER -> bs
  /\ i' = i + 1
  /\ UNCHANGED <<partitions, pc, count, valid>>

LoadDone ==
  /\ pc = "load" /\ i = count
  /\ pc' = "loaded"
  /\ UNCHANGED <<partitions, i, count, valid, bs>>

TableNext == MapTable \/ VerifyEntry \/ VerifyDone \/ LoadEntry \/ LoadDone

TableSpec == TableInit /\ [][TableNext]_tableVars
----------------------------------------------------------------------------
\* The flash addresses of a partition, in arithmetic that does not wrap.
Extent(pos) == pos.offset .. (pos.offset + pos.size - 1)

(* Whatever the table says, a table that passes verification lists partitions
   that lie in flash behind the table and share no address, wrapped ends
   included (partition.rs 128-185). *)
AcceptedDisjoint ==
  pc \in {"load", "loaded"} =>
    /\ \A k \in 0 .. (count - 1) :
         LET pos == partitions[k].pos
         IN  pos.size > 0 /\ Extent(pos) \subseteq MinOffset .. (FlashSize - 1)
    /\ \A j, k \in 0 .. (count - 1) :
         j # k => Extent(partitions[j].pos) \cap Extent(partitions[k].pos) = {}

\* get_partition over the loaded state.
PosOf(p) ==
  IF p = FACTORY_INDEX THEN bs.factory
  ELSE IF p = TEST_APP_INDEX THEN bs.test ELSE bs.ota[p]

\* What a factory reset erases: data partitions of these labels.
ResetLabels == {"nvs", "phy", "otadata"}
Matches(part) == part.type = "data" /\ part.label \in ResetLabels

\* The loaded table as Bootloader takes it.  otadata needs room for two sectors.
LayoutOf ==
  [valid |-> pc = "loaded", apps |-> {p \in Parts : PosOf(p).size # 0},
   app_count |-> bs.app_count, otaInfo |-> bs.ota_info.size >= 2 * SectorSize,
   labelled |-> \E k \in 0 .. (count - 1) :
                  Matches(partitions[k]) /\ partitions[k].pos = bs.ota_info]

(* What the sweep relies on when it walks to app_count and the selection when
   it looks up a slot: the highest listed slot is app_count - 1, with or
   without gaps, duplicates and entries in any order (partition.rs 211-234). *)
LayoutDelivered == pc = "loaded" => LayoutOK(LayoutOf)

(* The otadata partition the bootloader erases is none of the partitions it
   boots from, and no two of those are the same flash. *)
RolesDisjoint ==
  pc = "loaded" =>
    /\ \A p \in Parts : Extent(PosOf(p)) \cap Extent(bs.ota_info) = {}
    /\ \A p, q \in Parts : p # q => Extent(PosOf(p)) \cap Extent(PosOf(q)) = {}
=============================================================================
