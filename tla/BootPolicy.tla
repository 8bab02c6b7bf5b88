----------------------------- MODULE BootPolicy -----------------------------
(***************************************************************************)
(* What the bootloader promises an application developer, with no word on   *)
(* sectors, copies or sweeps: the chip runs the bootable partition that     *)
(* comes first in the order set by the recorded selection, and only an      *)
(* application (or a factory reset) changes that record.                    *)
(*                                                                          *)
(* Flash that cannot be read in one boot weakens the promise for that boot: *)
(* without the record it goes by the factory app's order and may overwrite  *)
(* the record, and a partition it could not read is passed over, or starts  *)
(* although only its version forbids it.                                    *)
(***************************************************************************)
EXTENDS Integers

CONSTANTS
  MaxSlots,           (* OTA slots 0 .. MaxSlots-1; factory is -1, test -2  *)
  AppTestBuild,       (* a button may select the test application           *)
  FactoryResetBuild,  (* a button may discard the recorded selection        *)
  StateTears,         (* a power loss may leave another record behind       *)
  Off                 (* no application is running                          *)

VARIABLES
  whole,      \* the partitions whose image is intact
  bootable,   \* those of them whose version is allowed
  record,     \* the recorded selection: an OTA slot or factory
  running,    \* the partition that runs, or Off
  blind,      \* this boot could not read the record
  missed      \* the partitions this boot could not read

policyVars == <<whole, bootable, record, running, blind, missed>>

Test    == -2
Factory == -1
Choices == Factory .. (MaxSlots - 1)
Any     == Choices \cup {Test}

\* Position of p in the search order that starts at s: s itself, then down to
\* the factory app, then the slots above s.
Rank(s, p) == IF p <= s THEN s - p ELSE p + 1

First(s, p) ==
  /\ p \in (bootable \cup (whole \cap missed)) \cap Choices
  /\ \A q \in (bootable \ missed) \cap Choices : Rank(s, p) <= Rank(s, q)

PolicyInit ==
  /\ whole \in SUBSET Any /\ bootable \in SUBSET whole
  /\ record \in Choices
  /\ running = Off /\ blind = FALSE /\ missed = {}

\* What was not read is forgotten with the boot.
NextBoot == blind' = FALSE /\ missed' = {}

Boot ==
  /\ running = Off
  /\ \E p \in Choices :
       First(IF blind THEN Factory ELSE record, p) /\ running' = p
  /\ NextBoot
  /\ UNCHANGED <<whole, bootable, record>>

BootTest ==
  /\ AppTestBuild
  /\ running = Off /\ running' = Test
  /\ Test \in bootable \cup (whole \cap missed)
  /\ NextBoot
  /\ UNCHANGED <<whole, bootable, record>>

\* A test application that does not load gives way to the order of the
\* factory app, not to that of the record.
BootInsteadOfTest ==
  /\ AppTestBuild
  /\ running = Off /\ Test \notin bootable \ missed
  /\ \E p \in Choices : First(Factory, p) /\ running' = p
  /\ NextBoot
  /\ UNCHANGED <<whole, bootable, record>>

\* A read fails, or works when it is repeated.
Misread ==
  /\ running = Off
  /\ blind' \in BOOLEAN /\ missed' \in SUBSET Any
  /\ UNCHANGED <<whole, bootable, record, running>>

\* A boot is broken off: by a reset, a power loss, or for want of a partition.
\* Only one that was blind has written where the record may be.
GiveUp ==
  /\ running = Off /\ NextBoot
  /\ IF blind \/ StateTears THEN record' \in Choices ELSE UNCHANGED record
  /\ UNCHANGED <<whole, bootable, running>>

Overwrite ==
  /\ running = Off /\ blind
  /\ record' \in Choices
  /\ UNCHANGED <<whole, bootable, running, blind, missed>>

\* A reset may come in the middle of what the application writes to the record.
Stop ==
  /\ running # Off /\ running' = Off
  /\ record' \in Choices
  /\ UNCHANGED <<whole, bootable, blind, missed>>

AppUpdates ==
  /\ running # Off
  /\ whole' \in SUBSET Any /\ bootable' \in SUBSET whole'
  /\ record' \in Choices
  /\ UNCHANGED <<running, blind, missed>>

\* Not one step in the code, so the record may show either entry meanwhile.
FactoryReset ==
  /\ FactoryResetBuild /\ running = Off
  /\ record' \in Choices /\ blind' \in BOOLEAN /\ missed' \in SUBSET Any
  /\ UNCHANGED <<whole, bootable, running>>

PolicyNext ==
  \/ Boot \/ BootTest \/ BootInsteadOfTest \/ Misread \/ GiveUp \/ Overwrite
  \/ Stop \/ AppUpdates \/ FactoryReset

PolicySpec == PolicyInit /\ [][PolicyNext]_policyVars
=============================================================================
