----------------------------- MODULE Bootloader -----------------------------
(***************************************************************************)
(* The bootloader from reset to the jump into an application: main.rs       *)
(* call_start_cpu0 and src/utility.rs (selection, abort pass, GPIO          *)
(* overrides, sweep over the partitions, set_actual_ota_seq).               *)
(*                                                                          *)
(* Every flash command on otadata is a step of its own, so that a reset or  *)
(* a power loss can fall between an erase and the write that follows it, or *)
(* into the middle of either.  Walking the table and loading one image are  *)
(* atomic here, but any mapping of flash they begin with may fail: MapFails *)
(* and ImageMapFails.  While an application runs it may do anything to      *)
(* otadata and to the images: the environment of the bootloader, which      *)
(* TestApp replaces by the repository's own application.                    *)
(***************************************************************************)
EXTENDS OtaData

CONSTANTS
  Layouts,            (* partition tables the flash may hold                *)
  Images,             (* contents an application partition may have         *)
  OtaDataInits,       (* otadata as provisioned                             *)
  AppEntries,         (* what applications leave in an otadata sector       *)
  SecureVersion,      (* eFuse SECURE_VERSION                               *)
  NoDesc,             (* an image without esp_app_desc_t                    *)
  EraseMayFail,       (* the sector erase may report an error               *)
  WriteMayFail,       (* the page program may report an error               *)
  StateTears,         (* a cut erase may change ota_state and nothing else  *)
  FactoryResetBuild,  (* cargo feature factory_reset                        *)
  AppTestBuild        (* cargo feature app_test                             *)

ASSUME LayoutAssumption == \A l \in Layouts : l \in Layout /\ LayoutOK(l)
ASSUME ImageAssumption ==
  \A im \in Images : im.intact \in BOOLEAN /\ im.version \in Nat \cup {NoDesc}
ASSUME EntryAssumption ==
  AppEntries \subseteq Entry /\ OtaDataInits \subseteq [Sectors -> Entry]
ASSUME BuildAssumption ==
  /\ EraseMayFail \in BOOLEAN /\ WriteMayFail \in BOOLEAN /\ StateTears \in BOOLEAN
  /\ FactoryResetBuild \in BOOLEAN /\ AppTestBuild \in BOOLEAN
  /\ SecureVersion \in Nat

VARIABLES
  layout,    \* the partition table in flash
  image,     \* the contents of the application partitions
  otadata,   \* the two otadata entries in flash
  pc,        \* the step the chip is at
  two,       \* two_otadata, the copy the selection works on
  sec,       \* otadata sector an erase/write pair is at
  again,     \* selection runs for the second time, after a factory reset
  start,     \* start_index of the sweep
  i,         \* sweep index
  unread,    \* the steps of this attempt at which mapping the table or otadata failed
  missed,    \* the partitions of which this attempt could not map something
  running    \* the application partition that was launched

flash == <<layout, image, otadata>>
maps  == <<unread, missed>>
ram   == <<two, sec, again, start, i, running, unread, missed>>
vars  == <<layout, image, otadata, pc, two, sec, again, start, i, running,
           unread, missed>>

BootPCs == {"shell", "table", "read", "abort", "abortwrite", "gpio", "wipe",
            "test", "back", "fwd", "mark", "markwrite"}
PCs == BootPCs \cup {"app"}

BlankRead == [k \in Sectors |-> Erased]

\* check_anti_rollback: an image without a descriptor is not checked.
VersionAllowed(im) == im.version # NoDesc => im.version >= SecureVersion

\* try_load_partition: a partition of size 0 (not listed) never loads.
Loadable(p) ==
  /\ p \in layout.apps
  /\ VersionAllowed(image[p])
  /\ image[p].intact

\* How a try of p may end.  A failed mapping refuses an image, but for that of
\* the descriptor, which check_anti_rollback takes as allowed.
Loads(p) ==
  /\ p \in layout.apps
  /\ VersionAllowed(image[p]) \/ p \in missed
  /\ image[p].intact

Fails(p) == ~Loadable(p) \/ p \in missed

\* The steps that map the table or otadata.
ReadPCs == {"table", "read", "wipe", "mark"}

TypeOK ==
  /\ layout \in Layouts
  /\ image \in [Parts -> Images]
  /\ otadata \in [Sectors -> Entry]
  /\ pc \in PCs
  /\ two \in [Sectors -> Entry]
  /\ sec \in 0 .. 2
  /\ again \in BOOLEAN
  /\ start \in Parts
  /\ i \in TEST_APP_INDEX .. MaxSlots
  /\ running \in Parts
  /\ unread \subseteq ReadPCs /\ missed \subseteq Parts

ForgetRam ==
  /\ two' = BlankRead /\ sec' = 0 /\ again' = FALSE
  /\ start' = FACTORY_INDEX /\ i' = FACTORY_INDEX
  /\ unread' = {} /\ missed' = {}

\* bootloader_reset, or any other reset of the chip: RAM is lost.
Reset == pc' = "shell" /\ running' = FACTORY_INDEX /\ ForgetRam

Init ==
  /\ layout \in Layouts
  /\ image \in [Parts -> Images]
  /\ otadata \in OtaDataInits
  /\ pc = "shell"
  /\ two = BlankRead /\ sec = 0 /\ again = FALSE
  /\ start = FACTORY_INDEX /\ i = FACTORY_INDEX /\ running = FACTORY_INDEX
  /\ unread = {} /\ missed = {}

\* Entries whose CRC does not match read all the same, as Erased does, but for
\* those in state PENDING_VERIFY, which the abort pass seals again.
Unsealed(seqs) == {[seq |-> s, state |-> "PENDING_VERIFY", crcOk |-> FALSE] : s \in seqs}

\* What an interrupted program of e over an erased sector leaves: the words go
\* in order, so the crc word is missing.
TornWrites(e) ==
  {Erased} \cup (IF e.state = "PENDING_VERIFY" THEN Unsealed({e.seq}) ELSE {})

\* What an interrupted erase of e leaves: as it was, or with any words, whose CRC
\* may still match only where ota_seq is untouched; then, if StateTears, in any
\* state, which the CRC does not cover.
TornErases(e) ==
  {e, Erased} \cup Unsealed(0 .. SeqMax)
    \cup (IF StateTears /\ e.crcOk THEN {[e EXCEPT !.state = s] : s \in OtaStates} ELSE {})

----------------------------------------------------------------------------
\* run_shell returns Boot (countdown or command) or Reset (command).
ShellBoot == pc = "shell" /\ pc' = "table" /\ UNCHANGED <<flash, ram>>
ShellReset == pc = "shell" /\ Reset /\ UNCHANGED flash

\* bootloader_mmap returns null: of the table when it is loaded and when the
\* factory reset looks for labels, of otadata when the selection reads it and
\* when set_actual_ota_seq does.
MapFails ==
  /\ pc \in ReadPCs \ unread
  /\ pc = "wipe" => sec = 0
  /\ pc \in {"read", "mark"} => layout.otaInfo
  /\ pc = "mark" => i >= 0
  /\ unread' = unread \cup {pc}
  /\ UNCHANGED <<flash, pc, two, sec, again, start, i, running, missed>>

\* The candidate that is tried next, for which any mapping may fail.
Candidate == IF pc = "test" THEN TEST_APP_INDEX ELSE i

ImageMapFails ==
  /\ pc \in {"test", "back", "fwd"} /\ Candidate \in layout.apps \ missed
  /\ missed' = missed \cup {Candidate}
  /\ UNCHANGED <<flash, pc, two, sec, again, start, i, running, unread>>

\* select_partition_number; an invalid table ends in a reset.
LoadTable ==
  /\ pc = "table" /\ layout.valid /\ pc \notin unread
  /\ pc' = "read"
  /\ UNCHANGED <<flash, ram>>

TableInvalid ==
  /\ pc = "table" /\ (~layout.valid \/ pc \in unread)
  /\ Reset
  /\ UNCHANGED flash

\* Mutant: the sweep starts at factory whatever was selected.
SelectionDone_Factory(idx) ==
  /\ start' = FACTORY_INDEX
  /\ IF again THEN pc' = "back" /\ i' = FACTORY_INDEX
              ELSE pc' = "gpio" /\ i' = i

\* Mutant: the sequence number is handed over in place of the slot.
SelectionDone_OneBased(idx) ==
  /\ start' = idx + 1
  /\ IF again THEN pc' = "back" /\ i' = idx + 1
              ELSE pc' = "gpio" /\ i' = i

\* Where the selection hands its result over: to the GPIO overrides, or, when
\* it ran again after a factory reset, straight to the sweep.
SelectionDone(idx) ==
  /\ start' = idx
  /\ IF again THEN pc' = "back" /\ i' = idx
              ELSE pc' = "gpio" /\ i' = i

\* Without otadata, or when it cannot be read: no abort pass either.
NoOtaData ==
  /\ pc = "read" /\ (~layout.otaInfo \/ pc \in unread)
  /\ SelectionDone(FACTORY_INDEX)
  /\ UNCHANGED <<flash, two, sec, again, running, maps>>

ReadOtaData ==
  /\ pc = "read" /\ layout.otaInfo /\ pc \notin unread
  /\ two' = otadata /\ sec' = 0 /\ pc' = "abort"
  /\ UNCHANGED <<flash, again, start, i, running, maps>>

\* The abort pass over both entries: PENDING_VERIFY becomes ABORTED in the
\* copy, then the sector is erased and, if that worked, written back.
AbortSkip ==
  /\ pc = "abort" /\ sec \in Sectors /\ two[sec].state # "PENDING_VERIFY"
  /\ sec' = sec + 1
  /\ UNCHANGED <<flash, pc, two, again, start, i, running, maps>>

AbortErase ==
  /\ pc = "abort" /\ sec \in Sectors /\ two[sec].state = "PENDING_VERIFY"
  /\ two' = [two EXCEPT ![sec] = Abort(@)]
  /\ otadata' = [otadata EXCEPT ![sec] = Erased]
  /\ pc' = "abortwrite"
  /\ UNCHANGED <<layout, image, sec, again, start, i, running, maps>>

\* Mutant: the copy is not updated unless the flash is.
AbortEraseFails_KeepsCopy ==
  /\ EraseMayFail
  /\ pc = "abort" /\ sec \in Sectors /\ two[sec].state = "PENDING_VERIFY"
  /\ sec' = sec + 1
  /\ UNCHANGED <<flash, pc, two, again, start, i, running, maps>>

AbortEraseFails ==
  /\ EraseMayFail
  /\ pc = "abort" /\ sec \in Sectors /\ two[sec].state = "PENDING_VERIFY"
  /\ two' = [two EXCEPT ![sec] = Abort(@)]
  /\ sec' = sec + 1
  /\ UNCHANGED <<flash, pc, again, start, i, running, maps>>

\* What a program of e may leave; a reported error is ignored by the callers.
WriteOutcomes(e) == {e} \cup (IF WriteMayFail THEN TornWrites(e) ELSE {})

AbortWrite ==
  /\ pc = "abortwrite"
  /\ \E e \in WriteOutcomes(two[sec]) : otadata' = [otadata EXCEPT ![sec] = e]
  /\ sec' = sec + 1 /\ pc' = "abort"
  /\ UNCHANGED <<layout, image, two, again, start, i, running, maps>>

SelectSlot ==
  /\ pc = "abort" /\ sec = 2
  /\ SelectionDone(Chosen(two, layout.apps))
  /\ UNCHANGED <<flash, two, sec, again, running, maps>>

\* selected_boot_partition: buttons are not consulted after deep sleep, which
\* is the case NoOverride covers together with "not held".
FactoryResetHeld ==
  /\ pc = "gpio" /\ FactoryResetBuild
  /\ pc' = "wipe" /\ sec' = 0
  /\ UNCHANGED <<flash, two, again, start, i, running, maps>>

TestAppHeld ==
  /\ pc = "gpio" /\ AppTestBuild /\ TEST_APP_INDEX \in layout.apps
  /\ start' = TEST_APP_INDEX /\ pc' = "test"
  /\ UNCHANGED <<flash, two, sec, again, i, running, maps>>

\* Mutant: the selected index is not passed on.
NoOverride_Factory ==
  /\ pc = "gpio"
  /\ i' = FACTORY_INDEX /\ pc' = "back"
  /\ UNCHANGED <<flash, two, sec, again, start, running, maps>>

NoOverride ==
  /\ pc = "gpio"
  /\ i' = start /\ pc' = "back"
  /\ UNCHANGED <<flash, two, sec, again, start, running, maps>>

\* bootloader_common_erase_part_type_data reaches otadata if the table can be
\* mapped again and otadata bears one of the labels "nvs, phy, otadata".
Wipes == layout.otaInfo /\ layout.labelled /\ "wipe" \notin unread

\* The range erase stops at the first failure, which nobody looks at.
WipeSector ==
  /\ pc = "wipe" /\ Wipes /\ sec \in Sectors
  /\ otadata' = [otadata EXCEPT ![sec] = Erased]
  /\ sec' = sec + 1
  /\ UNCHANGED <<layout, image, pc, two, again, start, i, running, maps>>

\* Mutant: the buttons are consulted again after the factory reset.
WipeDone_StartsOver ==
  /\ pc = "wipe"
  /\ sec = 2 \/ ~Wipes \/ EraseMayFail
  /\ pc' = "read"
  /\ UNCHANGED <<flash, two, sec, again, start, i, running, maps>>

\* Mutant: the index from before the factory reset is kept.
WipeDone_KeepsIndex ==
  /\ pc = "wipe"
  /\ sec = 2 \/ ~Wipes \/ EraseMayFail
  /\ again' = TRUE /\ i' = start /\ pc' = "back"
  /\ UNCHANGED <<flash, two, sec, start, running, maps>>

\* The selection reads otadata anew, whether anything was erased or not.
WipeDone ==
  /\ pc = "wipe"
  /\ sec = 2 \/ ~Wipes \/ EraseMayFail
  /\ again' = TRUE /\ pc' = "read" /\ unread' = unread \ {"read"}
  /\ UNCHANGED <<flash, two, sec, start, i, running, missed>>

----------------------------------------------------------------------------
\* load_image: the jump; the bootloader's own variables are dead from here on.
Launch(p) == pc' = "app" /\ running' = p /\ ForgetRam

\* bootloader_utility_load_boot_image with TEST_APP_INDEX.
TryTestApp ==
  /\ pc = "test" /\ Loads(TEST_APP_INDEX)
  /\ Launch(TEST_APP_INDEX)
  /\ UNCHANGED flash

TestAppFails ==
  /\ pc = "test" /\ Fails(TEST_APP_INDEX)
  /\ start' = FACTORY_INDEX /\ i' = FACTORY_INDEX /\ pc' = "back"
  /\ UNCHANGED <<flash, two, sec, again, running, maps>>

\* One candidate of either sweep loads.
TryLoads ==
  /\ \/ pc = "back" /\ i >= FACTORY_INDEX
     \/ pc = "fwd" /\ i < layout.app_count
  /\ Loads(i)
  /\ pc' = "mark"
  /\ UNCHANGED <<flash, ram>>

\* Mutants: no lower end; no progress.
BackNext_NoEnd ==
  /\ pc = "back" /\ Fails(i)
  /\ i' = i - 1
  /\ UNCHANGED <<flash, pc, two, sec, again, start, running, maps>>

BackNext_Stuck ==
  /\ pc = "back" /\ i >= FACTORY_INDEX /\ Fails(i)
  /\ UNCHANGED vars

BackNext ==
  /\ pc = "back" /\ i >= FACTORY_INDEX /\ Fails(i)
  /\ i' = i - 1
  /\ UNCHANGED <<flash, pc, two, sec, again, start, running, maps>>

\* Mutant: the forward sweep leaves out the slot next to the start.
BackDone_Skips ==
  /\ pc = "back" /\ i < FACTORY_INDEX
  /\ i' = start + 2 /\ pc' = "fwd"
  /\ UNCHANGED <<flash, two, sec, again, start, running, maps>>

BackDone ==
  /\ pc = "back" /\ i < FACTORY_INDEX
  /\ i' = start + 1 /\ pc' = "fwd"
  /\ UNCHANGED <<flash, two, sec, again, start, running, maps>>

FwdNext ==
  /\ pc = "fwd" /\ i < layout.app_count /\ Fails(i)
  /\ i' = i + 1
  /\ UNCHANGED <<flash, pc, two, sec, again, start, running, maps>>

\* Nothing was bootable: bootloader_reset.
GiveUp ==
  /\ pc = "fwd" /\ i >= layout.app_count
  /\ Reset
  /\ UNCHANGED flash

\* set_actual_ota_seq: nothing to record for factory, without otadata, or when
\* it cannot be read.
MarkNothing ==
  /\ pc = "mark" /\ (i < 0 \/ ~layout.otaInfo \/ pc \in unread)
  /\ Launch(i)
  /\ UNCHANGED flash

\* It reads otadata again and erases the sector that is not active.
MarkErase ==
  /\ pc = "mark" /\ i >= 0 /\ layout.otaInfo /\ pc \notin unread
  /\ sec' = WriteSector(otadata)
  /\ otadata' = [otadata EXCEPT ![WriteSector(otadata)] = Erased]
  /\ pc' = "markwrite"
  /\ UNCHANGED <<layout, image, two, again, start, i, running, maps>>

\* Mutant: a boot record that cannot be written stops the boot.
MarkEraseFails_Resets ==
  /\ EraseMayFail
  /\ pc = "mark" /\ i >= 0 /\ layout.otaInfo /\ pc \notin unread
  /\ Reset
  /\ UNCHANGED flash

MarkEraseFails ==
  /\ EraseMayFail
  /\ pc = "mark" /\ i >= 0 /\ layout.otaInfo /\ pc \notin unread
  /\ Launch(i)
  /\ UNCHANGED flash

\* Mutant: sequence numbers are 1-based.
BootRecord_ZeroBased == Sealed(i, "PENDING_VERIFY")

BootRecord == Sealed(i + 1, "PENDING_VERIFY")

MarkWrite ==
  /\ pc = "markwrite"
  /\ \E e \in WriteOutcomes(BootRecord) : otadata' = [otadata EXCEPT ![sec] = e]
  /\ Launch(i)
  /\ UNCHANGED <<layout, image>>

----------------------------------------------------------------------------
\* A reset nobody asked for (brown-out, watchdog, reset pin): between two
\* steps, or in the middle of the flash command the chip is about to finish.
TornFlash ==
  \/ UNCHANGED otadata
  \/ /\ pc = "abort" /\ sec \in Sectors /\ two[sec].state = "PENDING_VERIFY"
     /\ \E e \in TornErases(otadata[sec]) : otadata' = [otadata EXCEPT ![sec] = e]
  \/ /\ pc = "abortwrite"
     /\ \E e \in TornWrites(two[sec]) : otadata' = [otadata EXCEPT ![sec] = e]
  \/ /\ pc = "wipe" /\ Wipes /\ sec \in Sectors
     /\ \E e \in TornErases(otadata[sec]) : otadata' = [otadata EXCEPT ![sec] = e]
  \/ /\ pc = "mark" /\ i >= 0 /\ layout.otaInfo /\ pc \notin unread
     /\ \E e \in TornErases(otadata[WriteSector(otadata)]) :
           otadata' = [otadata EXCEPT ![WriteSector(otadata)] = e]
  \/ /\ pc = "markwrite"
     /\ \E e \in TornWrites(BootRecord) : otadata' = [otadata EXCEPT ![sec] = e]

PowerLoss ==
  /\ Reset
  /\ TornFlash
  /\ UNCHANGED <<layout, image>>

\* The application's turn: one flash operation on otadata or on an image.
AppEntry ==
  /\ pc = "app"
  /\ \E k \in Sectors, e \in AppEntries : otadata' = [otadata EXCEPT ![k] = e]

AppWritesOtaData == AppEntry /\ UNCHANGED <<layout, image, pc, ram>>

\* A reset in the middle of the application's own write to otadata.
AppPowerLoss ==
  /\ AppEntry
  /\ Reset
  /\ UNCHANGED <<layout, image>>

AppWritesImage ==
  /\ pc = "app"
  /\ \E p \in layout.apps, im \in Images : image' = [image EXCEPT ![p] = im]
  /\ UNCHANGED <<layout, otadata, pc, ram>>

Select ==
  \/ LoadTable \/ TableInvalid \/ NoOtaData \/ ReadOtaData
  \/ AbortSkip \/ AbortErase \/ AbortEraseFails \/ AbortWrite \/ SelectSlot
  \/ FactoryResetHeld \/ TestAppHeld \/ NoOverride \/ WipeSector \/ WipeDone

Sweep ==
  \/ TryTestApp \/ TestAppFails \/ TryLoads
  \/ BackNext \/ BackDone \/ FwdNext \/ GiveUp

Mark == MarkNothing \/ MarkErase \/ MarkEraseFails \/ MarkWrite

BootStep == ShellBoot \/ Select \/ Sweep \/ Mark

\* The flash, not the bootloader: a mapping that fails.
Misread == MapFails \/ ImageMapFails

Next ==
  \/ BootStep \/ Misread \/ ShellReset \/ PowerLoss
  \/ AppWritesOtaData \/ AppWritesImage \/ AppPowerLoss

Spec == Init /\ [][Next]_vars

\* The bootloader is a single thread that nothing suspends, and the shell's
\* countdown boots on its own: whatever step it is at, it takes it.
LiveSpec == Spec /\ WF_vars(BootStep)
----------------------------------------------------------------------------
\* The selection the flash stands for.
Selected ==
  IF layout.otaInfo THEN Selection(otadata, layout.apps) ELSE FACTORY_INDEX

\* This attempt could not read otadata, or not for the second time.
Blind == "read" \in unread

\* No partition has this index.
Off == TEST_APP_INDEX - 1

(* The chip runs the first bootable partition in the order set by the recorded
   selection, and between two runs of an application the record is kept, flash
   writes that fail and power losses included: bootloader_utility_load_boot_image
   and everything before it implement BootPolicy.  What the policy leaves to flash
   reads that fail is a boot from the factory app on, a partition passed over, and
   a record that a boot which could not read it overwrites. *)
Policy == INSTANCE BootPolicy WITH
  whole    <- {p \in layout.apps : image[p].intact},
  bootable <- {p \in Parts : Loadable(p)},
  record   <- Selected,
  running  <- IF pc = "app" THEN running ELSE Off,
  blind    <- Blind

ImplementsPolicy == Policy!PolicySpec

\* A cut erase has changed the state of entry k and nothing else of it.
StateTorn(k) ==
  /\ pc' = "shell" /\ otadata[k].crcOk
  /\ otadata'[k] = [otadata[k] EXCEPT !.state = otadata'[k].state]
  /\ otadata'[k] # otadata[k]

(* Nothing a bootloader that could read otadata does, and no reset or power loss in
   the middle of it, changes which slot otadata selects: neither the abort pass nor
   set_actual_ota_seq, whose erase and write are separate.  The exceptions are a
   factory reset that erases otadata, and a cut in an erase that changes the state
   word of an entry alone, which the CRC does not cover (utility.rs 262-264). *)
SelectionStable ==
  [][~EraseMayFail /\ pc # "app" /\ ~(pc = "wipe" /\ Wipes) /\ ~Blind =>
       Selected' = Selected \/ \E k \in Sectors : StateTorn(k)]_vars

(* When an application starts after a boot that could read otadata, the only
   PENDING_VERIFY record left there is the one that names the slot it runs from:
   whatever earlier boots left behind has been aborted by then (utility.rs 462-486
   and 335-379). *)
PendingNamesRunning ==
  [][~EraseMayFail /\ layout.otaInfo /\ ~Blind /\ pc # "app" /\ pc' = "app" =>
       \A k \in Sectors :
         OtaSelectValid(otadata'[k]) /\ otadata'[k].state = "PENDING_VERIFY"
           => otadata'[k].seq = running' + 1]_vars

(* After a factory reset that found otadata by its label, and whose erases worked,
   the sweep starts at the factory app, whatever was recorded before (utility.rs
   407-417).  BOOTLOADER.md 394 has it of every reset; otadata under another label
   is not erased, and the slot recorded there is booted. *)
FactoryResetForgets ==
  again /\ ~EraseMayFail /\ Wipes /\ pc \in {"back", "fwd", "mark", "markwrite"} =>
    start = FACTORY_INDEX

\* The selection in otadata as this boot has read it.
AsRead ==
  IF layout.otaInfo /\ ~Blind THEN Selection(two, layout.apps) ELSE FACTORY_INDEX

(* What is left of the policy on flash whose erases fail, where the recorded
   selection itself may get lost: each boot still runs what comes first in the
   order of the record it has read, the factory app's if it has read none, pending
   entries that could not be aborted not counted, and passes over no bootable
   partition but those it failed to read (utility.rs 443-508, 603-628). *)
LaunchesFirst ==
  [][pc # "app" /\ pc' = "app" =>
       \/ AppTestBuild /\ Loads(TEST_APP_INDEX) /\ running' = TEST_APP_INDEX
       \/ Policy!First(AsRead, running')
       \/ /\ AppTestBuild /\ Fails(TEST_APP_INDEX)
          /\ Policy!First(FACTORY_INDEX, running')]_vars

\* How many steps a boot attempt still has before it, reads that fail included,
\* counted for the longest way: a factory reset, a second selection, both sweeps.
StepsLeft ==
  LET sweeps    == 4 * MaxSlots + 10
      selection == IF again THEN sweeps ELSE sweeps + 12
      read(step) == IF step \in unread THEN 0 ELSE 1
      try(p)     == IF p \in missed THEN 0 ELSE 1
  IN CASE pc \in {"app", "shell"} -> 0
       [] pc = "markwrite"  -> 1
       [] pc = "mark"       -> 2 + read("mark")
       [] pc = "fwd"        -> 4 + 2 * (MaxSlots - i) + try(i)
       [] pc = "back"       -> 2 * MaxSlots + 6 + 2 * (i + 2) + try(i)
       [] pc = "test"       -> sweeps + try(TEST_APP_INDEX)
       [] pc = "abort"      -> selection + 2 * (2 - sec)
       [] pc = "abortwrite" -> selection + 2 * (2 - sec) - 1
       [] pc = "read"       -> selection + 5 + read("read")
       [] pc = "wipe"       -> sweeps + 7 + (2 - sec) + read("wipe")
       [] pc = "gpio"       -> sweeps + 11
       [] pc = "table"      -> sweeps + 19 + read("table")

(* A boot attempt cannot go on for ever: whatever the flash holds and whichever
   commands and reads fail, every step leaves fewer before it, so that no sweep,
   abort pass or factory reset is gone through twice (utility.rs 405-417, 443-481,
   603-628). *)
BootBounded ==
  [][pc \notin {"app", "shell"} => StepsLeft' \in 0 .. StepsLeft - 1]_vars

(* Every boot attempt ends: in an application or in a reset. *)
BootEnds == pc = "table" ~> pc \in {"app", "shell"}

\* The partitions the sweep may start, on a device whose table is valid.
Startable == {p \in Parts : layout.valid /\ p >= FACTORY_INDEX /\ Loadable(p)}

(* The two sweeps leave no partition out: a device that holds a bootable partition
   is not reset by its own bootloader, whatever commands fail, unless the table or
   every one of the bootable partitions could not be read in the same attempt
   (utility.rs 603-628, partition.rs 193-196, main.rs 82-90). *)
NeverStranded ==
  [][Startable # {} /\ BootStep /\ pc' = "shell" =>
       "table" \in unread \/ Startable \subseteq missed]_vars

(* A device that holds a bootable partition gets to run one, unless its power is
   cut or reads of its flash fail for ever: failing writes, torn entries, stale boot
   records and a bad selected image do not stop it, and it is not caught in resets of
   its own. *)
PowerStays == <>[][BootStep \/ AppWritesOtaData \/ AppWritesImage]_vars

EventuallyRuns == PowerStays => (Startable # {} ~> pc = "app")
=============================================================================
