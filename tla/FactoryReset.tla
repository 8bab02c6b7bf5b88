---------------------------- MODULE FactoryReset ----------------------------
(***************************************************************************)
(* The factory reset of src/utility.rs behind the loading of the partition  *)
(* table: the data partitions of certain labels are erased sector by sector, *)
(* then a flag is left in the memory that survives a reset.                  *)
(***************************************************************************)
EXTENDS PartitionTable

VARIABLES
  step,      \* where the factory reset is: "off" until the button was held
  entry,     \* entry of the table it looks at
  sector,    \* sectors of that partition it has erased
  erased,    \* sectors erased so far
  failed,    \* a command has failed since the table was read
  rtc        \* RtcRetainMem: its checksum is right, factory_reset_state is set

resetVars == <<step, entry, sector, erased, failed, rtc>>
bothVars  == <<tableVars, resetVars>>

TableEnds(k)  == k < MaxPartitions => ~partitions[k].magic

ResetTypeOK ==
  /\ TableTypeOK
  /\ step \in {"off", "entries", "erase", "retain", "flag", "crc", "done"}
  /\ entry \in 0 .. MaxPartitions /\ sector \in Nat
  /\ step = "erase" => ~TableEnds(entry)
  /\ erased \subseteq Nat /\ failed \in BOOLEAN
  /\ rtc \in [valid : BOOLEAN, flag : BOOLEAN]

\* At power up the memory holds anything, but not yet the flag.
ResetInit ==
  /\ TableInit
  /\ step = "off" /\ entry = 0 /\ sector = 0 /\ erased = {} /\ failed = FALSE
  /\ rtc \in [valid : BOOLEAN, flag : {FALSE}]
----------------------------------------------------------------------------
\* The button was held.  When the table cannot be mapped again nothing is erased,
\* which the caller does not look at.
ResetHeld ==
  /\ pc = "loaded" /\ step = "off"
  /\ \E mapped \in BOOLEAN : /\ step' = IF mapped THEN "entries" ELSE "retain"
                             /\ failed' = ~mapped
  /\ entry' = 0 /\ sector' = 0
  /\ UNCHANGED <<tableVars, erased, rtc>>

\* Mutant: the search ends with the first partition that matches.
NextEntry_First ==
  /\ step = "entries"
  /\ IF TableEnds(entry) \/ (entry > 0 /\ Matches(partitions[entry - 1]))
       THEN step' = "retain" /\ UNCHANGED entry
     ELSE IF Matches(partitions[entry]) THEN step' = "erase" /\ UNCHANGED entry
     ELSE entry' = entry + 1 /\ UNCHANGED step
  /\ sector' = 0
  /\ UNCHANGED <<tableVars, erased, failed, rtc>>

NextEntry ==
  /\ step = "entries"
  /\ IF TableEnds(entry) THEN step' = "retain" /\ UNCHANGED entry
     ELSE IF Matches(partitions[entry]) THEN step' = "erase" /\ UNCHANGED entry
     ELSE entry' = entry + 1 /\ UNCHANGED step
  /\ sector' = 0
  /\ UNCHANGED <<tableVars, erased, failed, rtc>>

\* Mutant: one sector too many when the size is a multiple of a sector.
NumSectors_Plus(pos) == pos.size \div SectorSize + 1

NumSectors(pos) == (pos.size + SectorSize - 1) \div SectorSize

\* One turn of bootloader_flash_erase_range; an error ends it.
EraseNext ==
  /\ step = "erase" /\ sector < NumSectors(partitions[entry].pos)
  /\ \/ /\ erased' = erased \cup {partitions[entry].pos.offset \div SectorSize + sector}
        /\ sector' = sector + 1
        /\ UNCHANGED <<step, entry, failed>>
     \/ /\ failed' = TRUE /\ step' = "entries" /\ entry' = entry + 1
        /\ UNCHANGED <<sector, erased>>
  /\ UNCHANGED <<tableVars, rtc>>

EraseDone ==
  /\ step = "erase" /\ sector = NumSectors(partitions[entry].pos)
  /\ step' = "entries" /\ entry' = entry + 1
  /\ UNCHANGED <<tableVars, sector, erased, failed, rtc>>

\* A memory that is not valid is cleared, which leaves a wrong checksum.
Retain ==
  /\ step = "retain" /\ step' = "flag"
  /\ rtc' = IF rtc.valid THEN rtc ELSE [valid |-> FALSE, flag |-> FALSE]
  /\ UNCHANGED <<tableVars, entry, sector, erased, failed>>

SetFlag ==
  /\ step = "flag" /\ step' = "crc"
  /\ rtc' = [valid |-> rtc.valid /\ rtc.flag, flag |-> TRUE]
  /\ UNCHANGED <<tableVars, entry, sector, erased, failed>>

UpdateCrc ==
  /\ step = "crc" /\ step' = "done"
  /\ rtc' = [rtc EXCEPT !.valid = TRUE]
  /\ UNCHANGED <<tableVars, entry, sector, erased, failed>>

\* The chip is reset, by its watchdog or its pin; flash and the retained memory
\* stay as they are.
ResetAgain ==
  /\ step \notin {"off", "done"}
  /\ step' = "off" /\ entry' = 0 /\ sector' = 0 /\ failed' = FALSE
  /\ pc' = "map" /\ i' = 0 /\ count' = 0 /\ valid' = TRUE /\ bs' = DefaultState
  /\ UNCHANGED <<partitions, erased, rtc>>

ResetNext ==
  \/ TableNext /\ UNCHANGED resetVars
  \/ ResetHeld \/ NextEntry \/ EraseNext \/ EraseDone \/ Retain \/ SetFlag \/ UpdateCrc
  \/ ResetAgain

ResetSpec == ResetInit /\ [][ResetNext]_bothVars
----------------------------------------------------------------------------
SectorBytes(s) == Extent([offset |-> s * SectorSize, size |-> SectorSize])

ToErase == {k \in 0 .. (MaxPartitions - 1) :
              (\A j \in 0 .. k : partitions[j].magic) /\ Matches(partitions[k])}

Aligned(pos) == pos.offset % SectorSize = 0 /\ pos.size % SectorSize = 0

(* BOOTLOADER.md 241: erased is whole sectors.  As long as the partitions to
   erase consist of those, which verification does not check, a factory reset
   takes no byte from any other partition or from the table, however often it
   is interrupted and repeated. *)
ResetConfined ==
  (\A k \in ToErase : Aligned(partitions[k].pos)) =>
    \A s \in erased : \E k \in ToErase : SectorBytes(s) \subseteq Extent(partitions[k].pos)

(* utility.rs 407-410: the flag that a factory reset has happened is not set
   and sealed before everything it is to erase is erased, as far as no command
   failed and partitions start at a sector; otadata is part of it if its label
   says so. *)
FlagMeansErased ==
  rtc.valid /\ rtc.flag /\ ~failed =>
    \A k \in ToErase : partitions[k].pos.offset % SectorSize = 0 =>
      Extent(partitions[k].pos) \subseteq UNION {SectorBytes(s) : s \in erased}
=============================================================================
