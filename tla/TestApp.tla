------------------------------ MODULE TestApp ------------------------------
(***************************************************************************)
(* The bootloader together with the repository's own application,           *)
(* src/test_app.c, in its two builds: v1 receives an update over the serial *)
(* port into slot 0 and records it in otadata, v2 confirms itself when it   *)
(* starts.  The application runs from RAM, so it may overwrite the slot it  *)
(* was loaded from; it ignores the results of its flash calls, which are    *)
(* taken to work unless the power goes.                                     *)
(***************************************************************************)
EXTENDS Bootloader

CONSTANT
  Blank       \* what a partly erased or partly written slot holds

Programs == {"v1", "v2"}

\* The flash layout the application is built for: it writes to fixed
\* addresses, those of ota_0 and otadata, and only ever to otadata sector 0,
\* so nothing that outranks slot 0 may be provisioned in sector 1.  What other
\* applications would write to otadata is left open.
ASSUME TestAppAssumption ==
  /\ Blank \in Images /\ ~Blank.intact
  /\ \A im \in Images : im.program \in Programs
  /\ \A l \in Layouts : 0 \in l.apps /\ l.otaInfo
  /\ AppEntries = Entry
  /\ \A o \in OtaDataInits : OtaSelectValid(o[1]) => o[1].seq <= 1

VARIABLES
  astep,      \* what the application is at
  incoming    \* the image the host is sending

appVars == <<astep, incoming>>
sysVars == <<vars, appVars>>

ASteps == {"start", "confirm", "confirmed",
           "prompt", "receive", "record", "seal", "done"}

SysTypeOK == TypeOK /\ astep \in ASteps /\ incoming \in Images

SysInit == Init /\ astep = "start" /\ incoming = Blank

Runs(program) == pc = "app" /\ image[running].program = program

WriteSector0(e) == otadata' = [otadata EXCEPT ![0] = e]

\* app_main of the v2 build: mark_ota_valid before anything else.
ConfirmErase ==
  /\ astep = "start" /\ Runs("v2")
  /\ WriteSector0(Erased) /\ astep' = "confirm"
  /\ UNCHANGED <<layout, image, pc, ram, incoming>>

\* Mutant: the chip is reset once the entry is written.
ConfirmWrite_Resets ==
  /\ pc = "app" /\ astep = "confirm"
  /\ WriteSector0(Sealed(1, "VALID")) /\ astep' = "start"
  /\ Reset
  /\ UNCHANGED <<layout, image, incoming>>

ConfirmWrite ==
  /\ pc = "app" /\ astep = "confirm"
  /\ WriteSector0(Sealed(1, "VALID")) /\ astep' = "confirmed"
  /\ UNCHANGED <<layout, image, pc, ram, incoming>>

\* app_main of the v1 build reaches its command loop.
Prompt ==
  /\ astep = "start" /\ Runs("v1")
  /\ astep' = "prompt"
  /\ UNCHANGED <<vars, incoming>>

\* Mutant: the whole flash is erased, the boot record of sector 1 included.
OtaErase_Chip ==
  /\ pc = "app" /\ astep = "prompt"
  /\ \E im \in Images : incoming' = im
  /\ image' = [image EXCEPT ![0] = Blank] /\ otadata' = BlankRead
  /\ astep' = "receive"
  /\ UNCHANGED <<layout, pc, ram>>

\* cmd_ota: the slot is erased, filled chunk by chunk with what the host sends
\* (nothing checks it), then otadata sector 0 is rewritten and the chip reset.
OtaErase ==
  /\ pc = "app" /\ astep = "prompt"
  /\ \E im \in Images : incoming' = im
  /\ image' = [image EXCEPT ![0] = Blank]
  /\ astep' = "receive"
  /\ UNCHANGED <<layout, otadata, pc, ram>>

OtaReceive ==
  /\ pc = "app" /\ astep = "receive"
  /\ image' = [image EXCEPT ![0] = incoming]
  /\ astep' = "record"
  /\ UNCHANGED <<layout, otadata, pc, ram, incoming>>

RecordErase ==
  /\ pc = "app" /\ astep = "record"
  /\ WriteSector0(Erased) /\ astep' = "seal"
  /\ UNCHANGED <<layout, image, pc, ram, incoming>>

\* Mutant: sequence numbers are 1-based.
RecordWrite_ZeroBased ==
  /\ pc = "app" /\ astep = "seal"
  /\ WriteSector0(Sealed(0, "NEW")) /\ astep' = "done"
  /\ UNCHANGED <<layout, image, pc, ram, incoming>>

RecordWrite ==
  /\ pc = "app" /\ astep = "seal"
  /\ WriteSector0(Sealed(1, "NEW")) /\ astep' = "done"
  /\ UNCHANGED <<layout, image, pc, ram, incoming>>

ForgetApp == astep' = "start" /\ incoming' = Blank

OtaReset ==
  /\ pc = "app" /\ astep = "done"
  /\ Reset /\ ForgetApp
  /\ UNCHANGED flash

\* A reset in the middle of one of the application's own flash commands.
TornAppFlash ==
  \/ /\ \/ astep = "start" /\ Runs("v2")
        \/ pc = "app" /\ astep = "record"
     /\ \E e \in TornErases(otadata[0]) : WriteSector0(e)
  \/ /\ pc = "app" /\ astep = "confirm"
     /\ \E e \in TornWrites(Sealed(1, "VALID")) : WriteSector0(e)
  \/ /\ pc = "app" /\ astep = "seal"
     /\ \E e \in TornWrites(Sealed(1, "NEW")) : WriteSector0(e)

SysPowerLoss ==
  /\ \/ PowerLoss
     \/ Reset /\ TornAppFlash /\ UNCHANGED <<layout, image>>
  /\ ForgetApp

AppStep ==
  \/ ConfirmErase \/ ConfirmWrite \/ Prompt
  \/ OtaReceive \/ RecordErase \/ RecordWrite \/ OtaReset

SysNext ==
  \/ (BootStep \/ Misread \/ ShellReset) /\ UNCHANGED appVars
  \/ AppStep \/ OtaErase \/ SysPowerLoss

SysSpec == SysInit /\ [][SysNext]_sysVars

\* The application is a single thread too; that somebody starts an update is
\* never promised, but once started the host sends what it announced.
SysLiveSpec ==
  SysSpec /\ WF_sysVars(BootStep /\ UNCHANGED appVars) /\ WF_sysVars(AppStep)

----------------------------------------------------------------------------
(* The application does nothing the bootloader is not prepared for: each of its
   steps, and each reset in the middle of one, is a step of some application in
   Bootloader, so what is shown there of the boot holds with this application
   too (test_app.c 131-221). *)
ImplementsBootloader == Spec

(* When cmd_ota reports OK, slot 0 is what otadata selects, whatever boot
   records and earlier entries the other sector holds (test_app.c 210-214).  Of
   flash where a cut erase may revive an aborted entry (StateTears) this is not
   claimed: one torn erase may leave a higher number, a second one its state. *)
UpdateSelected == pc = "app" /\ astep = "done" => Selected = 0

SysPowerStays ==
  <>[][(BootStep /\ UNCHANGED appVars) \/ AppStep \/ OtaErase]_sysVars

(* An update that was reported OK and whose image verifies runs after the
   reset, unless the power is cut or flash cannot be read on the way (test_app.c
   213-221, utility.rs 443-509). *)
UpdateRuns ==
  SysPowerStays =>
    (pc = "app" /\ astep = "done" /\ Loadable(0)
       ~> (pc = "app" /\ running = 0) \/ maps # <<{}, {}>>)

(* What the docs call rollback: a slot whose boot record was found pending and
   was aborted, and that no VALID entry confirms, is not selected again. *)
UnconfirmedRolledBack ==
  [][pc = "abort" /\ pc' = "gpio" =>
       \A k \in Sectors :
         two[k] = Sealed(two[k].seq, "ABORTED")
           /\ (\A j \in Sectors :
                 two[j].state = "VALID" => two[j].seq # two[k].seq)
         => start' # SlotOf(two[k])]_sysVars

(* A cut, or a read of flash that fails, may cost the update or the selection,
   never the device: an update may leave slot 0 half written, and v2 erases the
   only valid entry whenever it starts and then writes it again.  Every reset leads
   to a confirmed v2 or to a prompt from where the update can be repeated, in a
   partition that is whole (test_app.c 131-153, 186-221, 294-311). *)
ResetRecovers ==
  SysPowerStays =>
    (pc = "shell" ~>
       pc = "app" /\ astep \in {"prompt", "confirmed"} /\ image[running].intact)
=============================================================================
