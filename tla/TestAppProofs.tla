---------------------------- MODULE TestAppProofs ----------------------------
(***************************************************************************)
(* Proofs about the bootloader together with its test application, for      *)
(* every number of slots, any images and any other partitions: the boot     *)
(* records of earlier boots never outrank an update that was reported.      *)
(***************************************************************************)
EXTENDS TestApp, BootloaderProofs

(* The application only ever writes sector 0, and what the bootloader writes to
   sector 1 is pending, aborted or torn, none of which counts, unless a torn
   erase may revive the state of an aborted entry. *)
SpareInv == ~StateTears /\ Counts(otadata[1]) => otadata[1].seq <= 1

AppInv ==
  /\ astep \in ASteps /\ incoming \in Images
  /\ astep # "start" => pc = "app"
  /\ astep = "done" => otadata[0] = Sealed(1, "NEW")

CopyAborted == pc = "abortwrite" => two[sec].state = "ABORTED"

SysInv == TypeInv /\ SpareInv /\ AppInv /\ CopyAborted

LEMMA AppFacts ==
  /\ Blank \in Images
  /\ \A l \in Layouts : 0 \in l.apps /\ l.otaInfo
  /\ {Erased, Sealed(1, "NEW"), Sealed(1, "VALID")} \subseteq Entry
  /\ AppEntries = Entry
  /\ 0 \in Sectors /\ 1 \in Sectors
<1>1. 1 \in 0 .. SeqMax /\ {"NEW", "VALID"} \subseteq OtaStates
  BY SlotAssumption DEF OtaStates
<1>2. {Erased, Sealed(1, "NEW"), Sealed(1, "VALID")} \subseteq Entry
  BY <1>1, ErasedType, SealedType
<1> QED BY <1>2, TestAppAssumption DEF Sectors

LEMMA SysInitInv == SysInit => SysInv
<1> SUFFICES ASSUME SysInit PROVE SysInv
  OBVIOUS
<1>1. Init /\ astep = "start" /\ incoming = Blank
  BY DEF SysInit
<1>2. TypeInv
  BY <1>1, InitTypeInv
<1>3. SpareInv
  <2>1. otadata \in OtaDataInits
    BY <1>1 DEF Init
  <2> QED BY <2>1, TestAppAssumption DEF SpareInv, Counts
<1>4. AppInv /\ CopyAborted
  BY <1>1, AppFacts DEF Init, AppInv, ASteps, CopyAborted
<1> QED BY <1>2, <1>3, <1>4 DEF SysInv

(* What a step of the bootloader leaves in a sector it writes does not count. *)
Weakens ==
  \/ otadata' = otadata
  \/ \E k \in Sectors, e \in Entry : ~Counts(e) /\ otadata' = [otadata EXCEPT ![k] = e]

LEMMA BootWeakens ==
  ASSUME TypeInv, CopyAborted, BootStep \/ Misread \/ ShellReset \/ PowerLoss,
         ~StateTears
  PROVE  Weakens
<1>1. /\ otadata \in [Sectors -> Entry] /\ two \in [Sectors -> Entry]
      /\ pc \in {"abortwrite", "markwrite"} => sec \in Sectors
      /\ pc = "markwrite" => BootRecord \in Entry /\ BootRecord.state = "PENDING_VERIFY"
  BY EntryFacts
<1>2. Erased \in Entry /\ ~Counts(Erased)
  BY ErasedType DEF Counts
<1>3. ASSUME NEW k \in Sectors, NEW e \in TornErases(otadata[k]),
             otadata' = [otadata EXCEPT ![k] = e]
      PROVE  Weakens
  <2>1. e \in Entry /\ (e = otadata[k] \/ ~Counts(e))
    BY <1>1, TornEraseType DEF Counts
  <2>2. CASE e = otadata[k]
    BY <1>1, <1>3, <2>2 DEF Weakens
  <2> QED BY <1>3, <2>1, <2>2 DEF Weakens
<1>4. ASSUME NEW k \in Sectors, NEW d \in Entry, d.state \in {"ABORTED", "PENDING_VERIFY"},
             NEW e \in TornWrites(d) \cup {d}, otadata' = [otadata EXCEPT ![k] = e]
      PROVE  Weakens
  <2>1. e \in Entry /\ ~Counts(e)
    BY <1>4, TornWriteType DEF Counts, OtaSelectValid
  <2> QED BY <1>4, <2>1 DEF Weakens
<1>5. CASE AbortErase \/ WipeSector \/ MarkErase
  <2>1. WriteSector(otadata) \in Sectors
    BY WriteSectorType
  <2> QED BY <1>2, <1>5, <2>1 DEF AbortErase, WipeSector, MarkErase, Weakens
<1>6. CASE AbortWrite \/ MarkWrite
  <2>1. CASE AbortWrite
    <3>1. sec \in Sectors /\ two[sec] \in Entry /\ two[sec].state = "ABORTED"
      BY <1>1, <2>1 DEF AbortWrite, CopyAborted
    <3> QED BY <1>4, <2>1, <3>1 DEF AbortWrite, WriteOutcomes
  <2>2. CASE MarkWrite
    <3>1. sec \in Sectors /\ BootRecord \in Entry /\ BootRecord.state = "PENDING_VERIFY"
      BY <1>1, <2>2 DEF MarkWrite
    <3> QED BY <1>4, <2>2, <3>1 DEF MarkWrite, WriteOutcomes
  <2> QED BY <1>6, <2>1, <2>2
<1>7. CASE PowerLoss
  <2>1. TornFlash
    BY <1>7 DEF PowerLoss
  <2>2. CASE UNCHANGED otadata
    BY <2>2 DEF Weakens
  <2>3. CASE /\ pc = "abortwrite"
             /\ \E e \in TornWrites(two[sec]) : otadata' = [otadata EXCEPT ![sec] = e]
    <3>1. sec \in Sectors /\ two[sec] \in Entry /\ two[sec].state = "ABORTED"
      BY <1>1, <2>3 DEF CopyAborted
    <3> QED BY <1>4, <2>3, <3>1
  <2>4. CASE /\ pc = "markwrite"
             /\ \E e \in TornWrites(BootRecord) : otadata' = [otadata EXCEPT ![sec] = e]
    BY <1>1, <1>4, <2>4
  <2>5. CASE \/ /\ sec \in Sectors
                /\ \E e \in TornErases(otadata[sec]) : otadata' = [otadata EXCEPT ![sec] = e]
             \/ \E e \in TornErases(otadata[WriteSector(otadata)]) :
                  otadata' = [otadata EXCEPT ![WriteSector(otadata)] = e]
    BY <1>3, <2>5, WriteSectorType
  <2> QED BY <2>1, <2>2, <2>3, <2>4, <2>5 DEF TornFlash
<1>8. CASE ~(AbortErase \/ WipeSector \/ MarkErase \/ AbortWrite \/ MarkWrite \/ PowerLoss)
  <2>1. otadata' = otadata
    BY <1>8 DEF BootStep, ShellBoot, ShellReset, Select, Sweep, Mark, LoadTable, TableInvalid,
       NoOtaData, ReadOtaData, AbortSkip, AbortEraseFails, SelectSlot, FactoryResetHeld,
       TestAppHeld, NoOverride, WipeDone, TryTestApp, TestAppFails, TryLoads, BackNext,
       BackDone, FwdNext, GiveUp, MarkNothing, MarkEraseFails, Misread, MapFails,
       ImageMapFails, flash
  <2> QED BY <2>1 DEF Weakens
<1> QED BY <1>5, <1>6, <1>7, <1>8

LEMMA WeakensSpare ==
  ASSUME TypeInv, SpareInv, Weakens
  PROVE  SpareInv'
  BY AppFacts, EntryFacts DEF Weakens, SpareInv

(* The bootloader runs when no application does, and writes back nothing but
   what it aborted. *)
LEMMA BootOnly ==
  ASSUME BootStep \/ Misread \/ ShellReset
  PROVE  pc # "app"
  BY DEF BootStep, ShellBoot, ShellReset, Select, Sweep, Mark, LoadTable, TableInvalid,
     NoOtaData, ReadOtaData, AbortSkip, AbortErase, AbortEraseFails, AbortWrite, SelectSlot,
     FactoryResetHeld, TestAppHeld, NoOverride, WipeSector, WipeDone, TryTestApp,
     TestAppFails, TryLoads, BackNext, BackDone, FwdNext, GiveUp, MarkNothing, MarkErase,
     MarkEraseFails, MarkWrite, Misread, MapFails, ImageMapFails, ReadPCs

LEMMA BootAborted ==
  ASSUME TypeInv, BootStep \/ Misread \/ ShellReset, pc' = "abortwrite"
  PROVE  two'[sec'].state = "ABORTED"
<1>0. ~Misread
  BY DEF Misread, MapFails, ImageMapFails, ReadPCs
<1>1. AbortErase
  BY <1>0 DEF BootStep, ShellBoot, ShellReset, Select, Sweep, Mark, LoadTable, TableInvalid,
     NoOtaData, ReadOtaData, AbortSkip, AbortErase, AbortEraseFails, AbortWrite, SelectSlot,
     FactoryResetHeld, TestAppHeld, NoOverride, WipeSector, WipeDone, TryTestApp,
     TestAppFails, TryLoads, BackNext, BackDone, FwdNext, GiveUp, MarkNothing, MarkErase,
     MarkEraseFails, MarkWrite, SelectionDone, Launch, Reset
<1>2. sec' = sec /\ sec \in Sectors /\ two' = [two EXCEPT ![sec] = Abort(two[sec])]
  BY <1>1 DEF AbortErase
<1> QED BY <1>2, EntryFacts, AbortType

(* A step of the application, but for what a reset may cut short, is one that an
   arbitrary application may take. *)
LEMMA AppStepIsNext ==
  ASSUME TypeInv, AppInv, AppStep \/ OtaErase
  PROVE  [Next]_vars
<1>1. layout \in Layouts /\ 0 \in layout.apps /\ incoming \in Images
  BY AppFacts DEF TypeInv, TypeOK, AppInv
<1>2. CASE ConfirmErase \/ ConfirmWrite \/ RecordErase \/ RecordWrite
  <2>1. AppWritesOtaData
    BY <1>2, AppFacts DEF ConfirmErase, ConfirmWrite, RecordErase, RecordWrite, Runs,
       WriteSector0, AppEntry, AppWritesOtaData
  <2> QED BY <2>1 DEF Next
<1>3. CASE OtaErase \/ OtaReceive
  <2>1. AppWritesImage
    BY <1>1, <1>3, AppFacts DEF OtaErase, OtaReceive, AppWritesImage
  <2> QED BY <2>1 DEF Next
<1>4. CASE Prompt
  BY <1>4 DEF Prompt
<1>5. CASE OtaReset
  <2>1. PowerLoss
    BY <1>5 DEF OtaReset, PowerLoss, TornFlash, flash
  <2> QED BY <2>1 DEF Next
<1> QED BY <1>2, <1>3, <1>4, <1>5 DEF AppStep

LEMMA TornAppKeeps ==
  ASSUME TypeInv, TornAppFlash
  PROVE  /\ otadata' \in [Sectors -> Entry] /\ otadata'[1] = otadata[1]
         /\ pc = "app" /\ \E e \in Entry : WriteSector0(e)
<1>1. PICK new \in Entry : WriteSector0(new)
  <2>1. otadata[0] \in Entry
    BY AppFacts, EntryFacts
  <2>2. Sealed(1, "VALID") \in Entry /\ Sealed(1, "NEW") \in Entry
    BY AppFacts
  <2>3. \A x \in TornErases(otadata[0]) \cup TornWrites(Sealed(1, "VALID"))
                  \cup TornWrites(Sealed(1, "NEW")) : x \in Entry
    BY <2>1, <2>2, TornEraseType, TornWriteType
  <2> QED BY <2>3 DEF TornAppFlash
<1>2. pc = "app"
  BY DEF TornAppFlash, Runs
<1>3. \E e \in Entry : WriteSector0(e)
  BY <1>1
<1>4. otadata' \in [Sectors -> Entry] /\ otadata'[1] = otadata[1]
  BY <1>1, AppFacts, EntryFacts DEF WriteSector0
<1> QED BY <1>2, <1>3, <1>4

LEMMA SysStepInv == SysInv /\ [SysNext]_sysVars => SysInv'
<1> SUFFICES ASSUME SysInv, [SysNext]_sysVars PROVE SysInv'
  OBVIOUS
<1>0. TypeInv /\ SpareInv /\ AppInv /\ CopyAborted
  BY DEF SysInv
<1>1. CASE (BootStep \/ Misread \/ ShellReset) /\ UNCHANGED appVars
  <2>1. TypeInv'
    BY <1>0, <1>1, NextTypeInv DEF Next
  <2>2. SpareInv'
    BY <1>0, <1>1, BootWeakens, WeakensSpare DEF SpareInv
  <2>3. AppInv'
    BY <1>0, <1>1, BootOnly DEF AppInv, appVars
  <2>4. CopyAborted'
    BY <1>0, <1>1, BootAborted DEF CopyAborted
  <2> QED BY <2>1, <2>2, <2>3, <2>4 DEF SysInv
<1>2. CASE AppStep \/ OtaErase
  <2>1. TypeInv'
    BY <1>0, <1>2, AppStepIsNext, NextTypeInv
  <2>2. otadata'[1] = otadata[1]
    BY <1>0, <1>2, AppFacts, EntryFacts DEF AppStep, OtaErase, ConfirmErase, ConfirmWrite,
       Prompt, OtaReceive, RecordErase, RecordWrite, OtaReset, WriteSector0, flash, vars
  <2>3. AppInv'
    <3>1. astep' \in ASteps /\ incoming' \in Images
      BY <1>0, <1>2, AppFacts DEF AppInv, AppStep, OtaErase, ConfirmErase, ConfirmWrite,
         Prompt, OtaReceive, RecordErase, RecordWrite, OtaReset, ForgetApp, ASteps
    <3>2. astep' # "start" => pc' = "app"
      BY <1>0, <1>2 DEF AppInv, AppStep, OtaErase, ConfirmErase, ConfirmWrite, Prompt,
         OtaReceive, RecordErase, RecordWrite, OtaReset, ForgetApp, Runs, vars
    <3>3. astep' = "done" => otadata'[0] = Sealed(1, "NEW")
      <4>1. astep' = "done" => RecordWrite
        BY <1>2 DEF AppStep, OtaErase, ConfirmErase, ConfirmWrite, Prompt, OtaReceive,
           RecordErase, OtaReset, ForgetApp
      <4> QED BY <1>0, <4>1, AppFacts, EntryFacts DEF RecordWrite, WriteSector0
    <3> QED BY <3>1, <3>2, <3>3 DEF AppInv
  <2>4. pc' # "abortwrite"
    BY <1>2 DEF AppStep, OtaErase, ConfirmErase, ConfirmWrite, Prompt, OtaReceive,
       RecordErase, RecordWrite, OtaReset, Reset, Runs, vars
  <2> QED BY <1>0, <2>1, <2>2, <2>3, <2>4 DEF SysInv, SpareInv, CopyAborted
<1>3. CASE SysPowerLoss
  <2>1. ForgetApp /\ (PowerLoss \/ (Reset /\ TornAppFlash /\ UNCHANGED <<layout, image>>))
    BY <1>3 DEF SysPowerLoss
  <2>2. pc' = "shell"
    BY <2>1 DEF PowerLoss, Reset
  <2>3. AppInv' /\ CopyAborted'
    BY <2>1, <2>2, AppFacts DEF ForgetApp, AppInv, ASteps, CopyAborted
  <2>4. CASE PowerLoss
    <3>1. TypeInv'
      BY <1>0, <2>4, NextTypeInv DEF Next
    <3>2. SpareInv'
      BY <1>0, <2>4, BootWeakens, WeakensSpare DEF SpareInv
    <3> QED BY <2>3, <3>1, <3>2 DEF SysInv
  <2>5. CASE Reset /\ TornAppFlash /\ UNCHANGED <<layout, image>>
    <3>1. otadata' \in [Sectors -> Entry] /\ otadata'[1] = otadata[1]
      BY <1>0, <2>5, TornAppKeeps
    <3>2. TypeInv'
      BY <1>0, <2>5, <3>1, ResetTypeInv DEF TypeInv
    <3> QED BY <1>0, <2>3, <3>1, <3>2 DEF SysInv, SpareInv
  <2> QED BY <2>1, <2>4, <2>5
<1>4. CASE UNCHANGED sysVars
  <2>1. UNCHANGED vars /\ UNCHANGED <<otadata, pc, two, sec, astep, incoming>>
    BY <1>4 DEF sysVars, vars, appVars
  <2>2. TypeInv'
    BY <1>0, <2>1, NextTypeInv
  <2> QED BY <1>0, <2>1, <2>2 DEF SysInv, SpareInv, AppInv, CopyAborted
<1> QED BY <1>1, <1>2, <1>3, <1>4 DEF SysNext

LEMMA SysInvariant == SysSpec => []SysInv
  BY SysInitInv, SysStepInv, PTL DEF SysSpec

(* Every step of the whole system is a step of the bootloader with an application
   nothing is assumed about: of the boot, of the application, or a reset in the
   middle of either. *)
LEMMA SysStepIsNext ==
  ASSUME TypeInv, AppInv, [SysNext]_sysVars
  PROVE  [Next]_vars
<1>1. CASE BootStep \/ Misread \/ ShellReset
  BY <1>1 DEF Next
<1>2. CASE AppStep \/ OtaErase
  BY <1>2, AppStepIsNext
<1>3. CASE SysPowerLoss
  <2>1. CASE PowerLoss
    BY <2>1 DEF Next
  <2>2. CASE Reset /\ TornAppFlash /\ UNCHANGED <<layout, image>>
    <3>1. pc = "app" /\ \E e \in AppEntries : WriteSector0(e)
      BY <2>2, AppFacts, TornAppKeeps
    <3>2. AppEntry
      BY <3>1, AppFacts DEF AppEntry, WriteSector0
    <3> QED BY <2>2, <3>2 DEF AppPowerLoss, Next
  <2> QED BY <1>3, <2>1, <2>2 DEF SysPowerLoss
<1>4. CASE UNCHANGED sysVars
  BY <1>4 DEF sysVars
<1> QED BY <1>1, <1>2, <1>3, <1>4 DEF SysNext

(* The bootloader with its test application is the bootloader with some
   application, so that every theorem about Bootloader holds of it: nothing that
   cmd_ota or mark_ota_valid do, and no cut in the middle of their flash commands,
   is outside what the boot is proved for (test_app.c 131-221). *)
THEOREM TestAppIsAnApp == SysSpec => ImplementsBootloader
<1>1. SysInit => Init
  BY DEF SysInit
<1>2. SysInv /\ [SysNext]_sysVars => [Next]_vars
  BY SysStepIsNext DEF SysInv
<1> QED BY <1>1, <1>2, SysInvariant, PTL DEF SysSpec, ImplementsBootloader, Spec

(* What is proved of the boot carries over: with the test application too, the boot
   keeps the selection, follows it, and is over after a bounded number of steps,
   in an application if there is one to start. *)
COROLLARY BootWithTestApp ==
  SysSpec => SelectionStable /\ PendingNamesRunning /\ LaunchesFirst
               /\ BootBounded /\ NeverStranded
BY TestAppIsAnApp, BootKeepsSelection, PendingIsOwn, BootFollowsCopy, AttemptEnds,
   BootStrandsNobody, PTL
DEF ImplementsBootloader

(* Typing of the whole system: what the application does to flash keeps
   everything the bootloader computes from it in range. *)
THEOREM SysTypeCorrect == SysSpec => []SysTypeOK
<1>1. SysInv => SysTypeOK
  BY DEF SysInv, TypeInv, AppInv, SysTypeOK
<1> QED BY <1>1, SysInvariant, PTL

(* An update that was reported OK is what otadata selects, whatever boots,
   resets and torn commands of earlier updates left in the other sector, if no
   cut erase changes the state of an entry alone. *)
THEOREM UpdateIsSelected == ~StateTears => (SysSpec => []UpdateSelected)
<1> SUFFICES ASSUME ~StateTears PROVE SysSpec => []UpdateSelected
  OBVIOUS
<1>1. SysInv => UpdateSelected
  <2> SUFFICES ASSUME SysInv, pc = "app", astep = "done" PROVE Selected = 0
    BY DEF UpdateSelected
  <2> DEFINE o == Settled(otadata)
  <2>1. /\ otadata \in [Sectors -> Entry] /\ otadata[0] = Sealed(1, "NEW")
        /\ SpareInv /\ 0 \in layout.apps /\ layout.otaInfo
    BY EntryFacts, AppFacts DEF SysInv, AppInv, TypeInv, TypeOK
  <2>2. /\ OtaSelectValid(o[0]) /\ o[0].seq = 1
        /\ OtaSelectValid(o[1]) => o[1].seq <= 1
    <3>1. Counts(otadata[0]) /\ otadata[0].seq = 1
      BY <2>1, SlotAssumption DEF Counts, OtaSelectValid, Sealed
    <3> QED BY <2>1, <3>1, SettledFacts, AppFacts DEF SpareInv
  <2>3. o[1].seq \in Nat
    BY <2>1, SettledFacts, AppFacts, SlotAssumption DEF Entry
  <2> HIDE DEF o
  <2>4. ActiveOtaData(o) = 0
    BY <2>2, <2>3 DEF ActiveOtaData
  <2>5. SlotOf(o[0]) = 0
    BY <2>2 DEF SlotOf
  <2>6. Chosen(o, layout.apps) = 0
    BY <2>1, <2>4, <2>5, SlotAssumption DEF Chosen
  <2> QED BY <2>1, <2>6 DEF Selected, Selection, Settled, o
<1> QED BY <1>1, SysInvariant, PTL
=============================================================================
