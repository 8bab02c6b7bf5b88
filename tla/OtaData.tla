------------------------------ MODULE OtaData ------------------------------
(***************************************************************************)
(* The two OTA-select entries of the otadata partition and the decisions    *)
(* the bootloader derives from them (src/utility.rs).                       *)
(*                                                                          *)
(* An entry is kept in flash as three words.  ota_seq keeps its value, the  *)
(* slot it names being seq - 1.  ota_state is one of the named states; any  *)
(* other word, the erased one included, is UNDEFINED.  Of the stored crc    *)
(* only the outcome of the comparison with the computed one is kept: the    *)
(* CRC covers ota_seq alone, so it never tells two states apart.            *)
(***************************************************************************)
EXTENDS Integers

CONSTANTS
  MaxSlots,   (* MAX_OTA_SLOTS: the length of BootloaderState.ota           *)
  SeqMax      (* u32::MAX, the value of an erased ota_seq word              *)

ASSUME SlotAssumption ==
  /\ MaxSlots \in Nat \ {0}
  /\ SeqMax \in Nat
  /\ SeqMax > MaxSlots

FACTORY_INDEX  == -1
TEST_APP_INDEX == -2

\* What BootloaderState can hold: test app, factory app, OTA slots.
Parts == TEST_APP_INDEX .. (MaxSlots - 1)

Sectors == {0, 1}

OtaStates ==
  {"NEW", "PENDING_VERIFY", "VALID", "INVALID", "ABORTED", "UNDEFINED"}

Entry == [seq : 0 .. SeqMax, state : OtaStates, crcOk : BOOLEAN]

\* The entry a freshly erased sector reads as.
Erased == [seq |-> SeqMax, state |-> "UNDEFINED", crcOk |-> FALSE]

\* An entry written with the CRC of its own sequence number.
Sealed(seq, state) == [seq |-> seq, state |-> state, crcOk |-> TRUE]

OtaSelectValid(e) ==
  /\ e.seq # SeqMax
  /\ e.state \notin {"INVALID", "ABORTED"}
  /\ e.crcOk

\* bootloader_common_get_active_otadata: the valid entry with the higher
\* sequence number, ties to sector 0, -1 when neither is valid.
ActiveOtaData(o) ==
  IF OtaSelectValid(o[0]) /\ (OtaSelectValid(o[1]) => o[0].seq >= o[1].seq)
    THEN 0
    ELSE IF OtaSelectValid(o[1]) THEN 1 ELSE -1

\* The abort pass rewrites state and crc of an entry.
Abort(e) == Sealed(e.seq, "ABORTED")

\* ota_seq.wrapping_sub(1)
SlotOf(e) == IF e.seq = 0 THEN SeqMax ELSE e.seq - 1

\* The index the boot selection ends with, from the copy of otadata after the
\* abort pass and the set of partitions the table lists.
Chosen(o, apps) ==
  LET a == ActiveOtaData(o) IN
  IF a # -1 /\ SlotOf(o[a]) < MaxSlots /\ SlotOf(o[a]) \in apps
    THEN SlotOf(o[a])
    ELSE FACTORY_INDEX

\* Mutant: the active sector is overwritten.
WriteSector_Active(o) == IF ActiveOtaData(o) = 1 THEN 1 ELSE 0

\* The sector set_actual_ota_seq writes to.
WriteSector(o) == IF ActiveOtaData(o) # 1 THEN 1 ELSE 0

\* The selection otadata stands for: what Chosen returns once every entry that
\* is still PENDING_VERIFY has been aborted.
Selection(o, apps) ==
  Chosen([k \in Sectors |->
            IF o[k].state = "PENDING_VERIFY" THEN Abort(o[k]) ELSE o[k]], apps)

----------------------------------------------------------------------------
\* The partition table as the boot flow sees it: the partitions of nonzero size,
\* app_count, whether there is an otadata partition of two sectors, and whether
\* it bears one of the labels a factory reset erases.  Selection finds otadata by
\* its subtype, the factory reset by its label.
Layout == [valid : BOOLEAN, apps : SUBSET Parts, app_count : 0 .. MaxSlots,
           otaInfo : BOOLEAN, labelled : BOOLEAN]

\* app_count is one past the highest slot that is listed.
LayoutOK(l) ==
  /\ \A p \in l.apps : p < l.app_count
  /\ l.app_count > 0 => l.app_count - 1 \in l.apps
=============================================================================
