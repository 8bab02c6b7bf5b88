--------------------------- MODULE BootloaderProofs ---------------------------
(***************************************************************************)
(* Proofs about Bootloader, for every number of slots, every partition      *)
(* table, every image and every application.                                *)
(***************************************************************************)
EXTENDS Bootloader, TLAPS

USE DEF FACTORY_INDEX, TEST_APP_INDEX

----------------------------------------------------------------------------
(* Entries: what flash commands that complete or are interrupted leave. *)

LEMMA ErasedType == Erased \in Entry /\ ~OtaSelectValid(Erased)
  BY SlotAssumption DEF Erased, Entry, OtaStates, OtaSelectValid

LEMMA SealedType ==
  ASSUME NEW s \in 0 .. SeqMax, NEW st \in OtaStates
  PROVE  Sealed(s, st) \in Entry
  BY DEF Sealed, Entry

LEMMA AbortType ==
  ASSUME NEW e \in Entry
  PROVE  Abort(e) \in Entry /\ ~OtaSelectValid(Abort(e))
                            /\ Abort(e).state = "ABORTED"
  BY DEF Abort, Sealed, Entry, OtaStates, OtaSelectValid

LEMMA UnsealedType ==
  ASSUME NEW seqs \in SUBSET (0 .. SeqMax), NEW t \in Unsealed(seqs)
  PROVE  t \in Entry /\ ~OtaSelectValid(t)
<1>1. PICK n \in 0 .. SeqMax : t = [seq |-> n, state |-> "PENDING_VERIFY", crcOk |-> FALSE]
  BY DEF Unsealed
<1> QED  BY <1>1 DEF Entry, OtaStates, OtaSelectValid

(* An interrupted write leaves an entry nothing selects, and a pending one
   only if a pending one was being written. *)
LEMMA TornWriteType ==
  ASSUME NEW e \in Entry, NEW t \in TornWrites(e)
  PROVE  /\ t \in Entry /\ ~OtaSelectValid(t)
         /\ t.state = "PENDING_VERIFY" => e.state = "PENDING_VERIFY"
<1>1. CASE t = Erased
  BY <1>1, ErasedType DEF Erased
<1>2. CASE e.state = "PENDING_VERIFY" /\ t \in Unsealed({e.seq})
  <2>1. {e.seq} \in SUBSET (0 .. SeqMax)
    BY DEF Entry
  <2> QED  BY <1>2, <2>1, UnsealedType
<1> QED  BY <1>1, <1>2 DEF TornWrites

LEMMA WriteOutcomeType ==
  ASSUME NEW e \in Entry, NEW t \in WriteOutcomes(e)
  PROVE  /\ t \in Entry
         /\ t.state = "PENDING_VERIFY" => e.state = "PENDING_VERIFY"
         /\ t = e \/ ~OtaSelectValid(t)
  BY TornWriteType DEF WriteOutcomes

(* An interrupted erase leaves the old entry, or one nothing selects, or, where
   a cut erase may do that, one that differs in its state. *)
LEMMA TornEraseType ==
  ASSUME NEW e \in Entry, NEW t \in TornErases(e)
  PROVE  /\ t \in Entry
         /\ \/ t = e \/ ~OtaSelectValid(t)
            \/ StateTears /\ e.crcOk /\ t = [e EXCEPT !.state = t.state]
<1>1. CASE t = e \/ t = Erased
  BY <1>1, ErasedType
<1>2. CASE t \in Unsealed(0 .. SeqMax)
  BY <1>2, UnsealedType
<1>3. CASE StateTears /\ e.crcOk /\ \E s \in OtaStates : t = [e EXCEPT !.state = s]
  <2>1. PICK s \in OtaStates : t = [e EXCEPT !.state = s]
    BY <1>3
  <2>2. t \in Entry /\ t.state = s
    BY <2>1 DEF Entry
  <2> QED  BY <1>3, <2>1, <2>2
<1> QED  BY <1>1, <1>2, <1>3 DEF TornErases

LEMMA WriteSectorType ==
  ASSUME NEW o PROVE WriteSector(o) \in Sectors
  BY DEF WriteSector, Sectors

(* The selection is an OTA slot the table lists, or factory. *)
LEMMA ChosenType ==
  ASSUME NEW o \in [Sectors -> Entry], NEW apps \in SUBSET Parts
  PROVE  Chosen(o, apps) \in Parts /\ Chosen(o, apps) >= FACTORY_INDEX
<1>1. ActiveOtaData(o) \in {-1, 0, 1}
  BY DEF ActiveOtaData
<1>2. CASE ActiveOtaData(o) = -1
  BY <1>2, SlotAssumption DEF Chosen, Parts
<1>3. CASE ActiveOtaData(o) # -1
  <2>1. o[ActiveOtaData(o)] \in Entry
    BY <1>1, <1>3 DEF Sectors
  <2>2. SlotOf(o[ActiveOtaData(o)]) \in Nat
    BY <2>1, SlotAssumption DEF SlotOf, Entry
  <2> QED  BY <2>2, SlotAssumption DEF Chosen, Parts
<1> QED  BY <1>2, <1>3

----------------------------------------------------------------------------
(* Type correctness.  Next to TypeOK the invariant says what the indexes the
   steps use can be. *)

Indexes ==
  /\ pc \in {"abortwrite", "markwrite"} => sec \in Sectors
  /\ pc \in {"gpio", "back", "fwd"} => start >= FACTORY_INDEX
  /\ pc \in {"mark", "markwrite"} => i \in Parts
  /\ pc = "markwrite" => i >= 0
  /\ pc = "fwd" => i >= 0
  /\ pc \in {"app", "shell"} => unread = {} /\ missed = {}

TypeInv == TypeOK /\ Indexes

LEMMA LayoutType ==
  ASSUME layout \in Layouts
  PROVE  /\ layout \in Layout /\ layout.apps \in SUBSET Parts
         /\ layout.app_count \in 0 .. MaxSlots
  BY LayoutAssumption DEF Layout

LEMMA PartsType ==
  /\ FACTORY_INDEX \in Parts /\ TEST_APP_INDEX \in Parts
  /\ Parts \subseteq TEST_APP_INDEX .. MaxSlots
  BY SlotAssumption DEF Parts

LEMMA InitTypeInv == Init => TypeInv
<1> SUFFICES ASSUME Init PROVE TypeInv
  OBVIOUS
<1>1. two \in [Sectors -> Entry] /\ otadata \in [Sectors -> Entry]
  BY ErasedType, EntryAssumption DEF Init, BlankRead
<1>a. again \in BOOLEAN
  BY Zenon DEF Init
<1>2. TypeOK
  BY <1>1, <1>a, PartsType DEF Init, TypeOK, PCs, BootPCs
<1>3. pc = "shell"
  BY DEF Init
<1>4. Indexes
  BY <1>3 DEF Indexes, Init
<1> QED  BY <1>2, <1>4 DEF TypeInv

LEMMA ResetTypeInv ==
  ASSUME TypeOK, Reset, otadata' \in [Sectors -> Entry], UNCHANGED <<layout, image>>
  PROVE  TypeInv'
<1>1. BlankRead \in [Sectors -> Entry]
  BY ErasedType DEF BlankRead
<1>a. again' \in BOOLEAN
  BY Zenon DEF Reset, ForgetRam
<1>2. TypeOK'
  BY <1>1, <1>a, PartsType DEF TypeOK, Reset, ForgetRam, PCs, BootPCs
<1>3. pc' = "shell"
  BY DEF Reset
<1>4. Indexes'
  BY <1>3 DEF Indexes, Reset, ForgetRam
<1> QED  BY <1>2, <1>4 DEF TypeInv

LEMMA LaunchTypeInv ==
  ASSUME TypeOK, NEW p \in Parts, Launch(p),
         otadata' \in [Sectors -> Entry], UNCHANGED <<layout, image>>
  PROVE  TypeInv'
<1>1. BlankRead \in [Sectors -> Entry]
  BY ErasedType DEF BlankRead
<1>a. again' \in BOOLEAN
  BY Zenon DEF Launch, ForgetRam
<1>2. TypeOK'
  BY <1>1, <1>a, PartsType DEF TypeOK, Launch, ForgetRam, PCs, BootPCs
<1>3. pc' = "app"
  BY DEF Launch
<1>4. Indexes'
  BY <1>3 DEF Indexes, Launch, ForgetRam
<1> QED  BY <1>2, <1>4 DEF TypeInv

LEMMA TornFlashType ==
  ASSUME TypeInv, TornFlash
  PROVE  otadata' \in [Sectors -> Entry]
<1> USE DEF TypeInv, TypeOK, Indexes
<1>1. CASE UNCHANGED otadata
  BY <1>1
<1>2. ASSUME sec \in Sectors, NEW e \in TornErases(otadata[sec]),
             otadata' = [otadata EXCEPT ![sec] = e]
      PROVE  otadata' \in [Sectors -> Entry]
  BY <1>2, TornEraseType
<1>3. ASSUME pc = "abortwrite", NEW e \in TornWrites(two[sec]),
             otadata' = [otadata EXCEPT ![sec] = e]
      PROVE  otadata' \in [Sectors -> Entry]
  BY <1>3, TornWriteType
<1>4. ASSUME NEW e \in TornErases(otadata[WriteSector(otadata)]),
             otadata' = [otadata EXCEPT ![WriteSector(otadata)] = e]
      PROVE  otadata' \in [Sectors -> Entry]
  BY <1>4, TornEraseType, WriteSectorType
<1>5. ASSUME pc = "markwrite", NEW e \in TornWrites(BootRecord),
             otadata' = [otadata EXCEPT ![sec] = e]
      PROVE  otadata' \in [Sectors -> Entry]
  <2>1. BootRecord \in Entry
    BY <1>5, SealedType, SlotAssumption DEF BootRecord, Parts, OtaStates
  <2> QED  BY <1>5, <2>1, TornWriteType
<1> QED  BY <1>1, <1>2, <1>3, <1>4, <1>5 DEF TornFlash

LEMMA AppEntryType ==
  ASSUME TypeInv, AppEntry
  PROVE  otadata' \in [Sectors -> Entry]
  BY EntryAssumption DEF AppEntry, TypeInv, TypeOK

LEMMA NextTypeInv == TypeInv /\ [Next]_vars => TypeInv'
<1> SUFFICES ASSUME TypeInv, [Next]_vars PROVE TypeInv'
  OBVIOUS
<1> USE DEF TypeInv, TypeOK, maps
<1> DEFINE L == layout \in Layout /\ layout.apps \in SUBSET Parts
                /\ layout.app_count \in 0 .. MaxSlots
<1>0. L
  BY LayoutType
<1> HIDE DEF L
<1>1. CASE UNCHANGED vars
  BY <1>1 DEF vars, Indexes
<1>2. CASE ShellBoot \/ LoadTable
  BY <1>2 DEF ShellBoot, LoadTable, flash, ram, Indexes, PCs, BootPCs
<1>3. CASE ShellReset \/ TableInvalid \/ GiveUp
  BY <1>3, ResetTypeInv DEF ShellReset, TableInvalid, GiveUp, flash
<1>4. CASE NoOtaData
  BY <1>4, SlotAssumption
  DEF NoOtaData, SelectionDone, flash, Indexes, PCs, BootPCs, Parts
<1>5. CASE ReadOtaData
  BY <1>5 DEF ReadOtaData, flash, Indexes, PCs, BootPCs
<1>6. CASE AbortSkip
  BY <1>6 DEF AbortSkip, flash, Indexes, Sectors
<1>7. CASE AbortErase
  <2>1. two[sec] \in Entry /\ sec \in Sectors
    BY <1>7 DEF AbortErase
  <2>2. otadata' \in [Sectors -> Entry] /\ two' \in [Sectors -> Entry]
    BY <1>7, <2>1, ErasedType, AbortType DEF AbortErase
  <2> QED  BY <1>7, <2>2 DEF AbortErase, Indexes, PCs, BootPCs
<1>8. CASE AbortEraseFails
  <2>1. two[sec] \in Entry /\ sec \in Sectors
    BY <1>8 DEF AbortEraseFails
  <2>2. two' \in [Sectors -> Entry]
    BY <1>8, <2>1, AbortType DEF AbortEraseFails
  <2> QED  BY <1>8, <2>1, <2>2 DEF AbortEraseFails, flash, Indexes, Sectors
<1>9. CASE AbortWrite
  <2>1. sec \in Sectors /\ two[sec] \in Entry
    BY <1>9 DEF AbortWrite, Indexes
  <2>2. otadata' \in [Sectors -> Entry]
    BY <1>9, <2>1, WriteOutcomeType DEF AbortWrite
  <2> QED  BY <1>9, <2>1, <2>2 DEF AbortWrite, Indexes, Sectors, PCs, BootPCs
<1>10. CASE SelectSlot
  <2> DEFINE c == Chosen(two, layout.apps)
  <2>1. c \in Parts /\ c >= FACTORY_INDEX /\ c \in TEST_APP_INDEX .. MaxSlots
    BY <1>0, ChosenType, PartsType DEF L
  <2> HIDE DEF c
  <2>2. /\ start' = c
        /\ \/ pc' = "back" /\ i' = c
           \/ pc' = "gpio" /\ i' = i
        /\ UNCHANGED <<flash, two, sec, again, running, maps>>
    BY <1>10 DEF SelectSlot, SelectionDone, c
  <2>3. TypeOK'
    BY <2>1, <2>2 DEF flash, PCs, BootPCs
  <2> QED  BY <2>1, <2>2, <2>3 DEF Indexes
<1>11. CASE FactoryResetHeld \/ TestAppHeld \/ NoOverride
  <2>1. CASE FactoryResetHeld
    BY <2>1 DEF FactoryResetHeld, flash, Indexes, PCs, BootPCs
  <2>2. CASE TestAppHeld
    BY <2>2, SlotAssumption DEF TestAppHeld, flash, Indexes, PCs, BootPCs, Parts
  <2>3. CASE NoOverride
    BY <2>3, SlotAssumption DEF NoOverride, flash, Indexes, PCs, BootPCs, Parts
  <2> QED  BY <1>11, <2>1, <2>2, <2>3
<1>12. CASE WipeSector
  BY <1>12, ErasedType DEF WipeSector, Indexes, Sectors
<1>13. CASE WipeDone
  BY <1>13 DEF WipeDone, flash, Indexes, PCs, BootPCs
<1>14. CASE TryTestApp
  BY <1>14, SlotAssumption, LaunchTypeInv DEF TryTestApp, flash, Parts
<1>15. CASE TestAppFails
  BY <1>15, SlotAssumption DEF TestAppFails, flash, Indexes, PCs, BootPCs, Parts
<1>16. CASE TryLoads
  BY <1>16, <1>0 DEF TryLoads, Loads, flash, ram, Indexes, PCs, BootPCs, L
<1>17. CASE BackNext
  BY <1>17, SlotAssumption DEF BackNext, flash, Indexes
<1>18. CASE BackDone
  BY <1>18, SlotAssumption DEF BackDone, flash, Indexes, Parts, PCs, BootPCs
<1>19. CASE FwdNext
  BY <1>19, <1>0, SlotAssumption DEF FwdNext, flash, Indexes, L
<1>20. CASE MarkNothing \/ MarkEraseFails
  BY <1>20, LaunchTypeInv DEF MarkNothing, MarkEraseFails, flash, Indexes
<1>21. CASE MarkErase
  BY <1>21, ErasedType, WriteSectorType
  DEF MarkErase, Indexes, PCs, BootPCs, Sectors
<1>22. CASE MarkWrite
  <2>1. BootRecord \in Entry
    BY <1>22, SealedType, SlotAssumption
    DEF MarkWrite, BootRecord, Indexes, Parts, OtaStates
  <2>2. otadata' \in [Sectors -> Entry]
    BY <1>22, <2>1, WriteOutcomeType DEF MarkWrite
  <2> QED  BY <1>22, <2>2, LaunchTypeInv DEF MarkWrite, Indexes
<1>23. CASE PowerLoss
  BY <1>23, TornFlashType, ResetTypeInv DEF PowerLoss
<1>24. CASE AppWritesOtaData
  BY <1>24, AppEntryType DEF AppWritesOtaData, ram, Indexes
<1>25. CASE AppWritesImage
  BY <1>25 DEF AppWritesImage, ram, Indexes
<1>26. CASE AppPowerLoss
  BY <1>26, AppEntryType, ResetTypeInv DEF AppPowerLoss
<1>27. CASE MapFails
  BY <1>27 DEF MapFails, flash, Indexes, ReadPCs
<1>28. CASE ImageMapFails
  <2>1. Candidate \in Parts
    BY <1>28, <1>0 DEF ImageMapFails, L
  <2> QED  BY <1>28, <2>1 DEF ImageMapFails, flash, Indexes
<1> QED
  BY <1>1, <1>2, <1>3, <1>4, <1>5, <1>6, <1>7, <1>8, <1>9, <1>10, <1>11, <1>12,
     <1>13, <1>14, <1>15, <1>16, <1>17, <1>18, <1>19, <1>20, <1>21, <1>22, <1>23,
     <1>24, <1>25, <1>26, <1>27, <1>28
  DEF Next, Misread, BootStep, Select, Sweep, Mark

(* TypeOK holds in every reachable state. *)
THEOREM TypeCorrect == Spec => []TypeOK
<1>1. TypeInv => TypeOK
  BY DEF TypeInv
<1> QED  BY <1>1, InitTypeInv, NextTypeInv, PTL DEF Spec

----------------------------------------------------------------------------
(* The two sweeps of bootloader_utility_load_boot_image: nothing is left    *)
(* out, and what is launched comes first in the order of the start index.   *)
(* Holds whether or not flash commands fail.                                *)

\* No partition from a up to b would load, or the reads of it failed.
NoneIn(a, b) == \A p \in Parts : a <= p /\ p <= b => Fails(p)

\* p is found before every other partition by a sweep that starts at s.
FoundFrom(s, p) ==
  \/ FACTORY_INDEX <= p /\ p <= s /\ NoneIn(p + 1, s)
  \/ s < p /\ NoneIn(FACTORY_INDEX, p - 1)

SweepInv ==
  /\ pc = "back" => i <= start /\ NoneIn(i + 1, start)
  /\ pc = "fwd"  => start < i /\ NoneIn(FACTORY_INDEX, i - 1)
  /\ pc \in {"mark", "markwrite"} => Loads(i) /\ FoundFrom(start, i)

LEMMA TypeFacts ==
  ASSUME TypeInv
  PROVE  /\ start \in Int /\ i \in Int /\ MaxSlots \in Nat
         /\ pc \in {"back", "fwd"} => start >= FACTORY_INDEX
         /\ layout.app_count \in Nat /\ layout.app_count <= MaxSlots
         /\ LayoutOK(layout)
  BY LayoutType, LayoutAssumption, SlotAssumption
  DEF TypeInv, TypeOK, Indexes, Parts

\* What a step that leaves the table, the images and the reads of them alone does
\* not disturb.
LEMMA SameImages ==
  ASSUME UNCHANGED <<layout, image>>
  PROVE  \A p : Loadable(p)' <=> Loadable(p)
  BY DEF Loadable

LEMMA SameTries ==
  ASSUME UNCHANGED <<layout, image, missed>>
  PROVE  /\ \A p : Loads(p)' <=> Loads(p)
         /\ \A p : Fails(p)' <=> Fails(p)
         /\ \A a, b : NoneIn(a, b)' <=> NoneIn(a, b)
         /\ \A s, p : FoundFrom(s, p)' <=> FoundFrom(s, p)
<1>1. \A p : (Loads(p)' <=> Loads(p)) /\ (Fails(p)' <=> Fails(p))
  BY SameImages DEF Loads, Fails
<1>2. \A a, b : NoneIn(a, b)' <=> NoneIn(a, b)
  BY <1>1 DEF NoneIn
<1> QED  BY <1>1, <1>2 DEF FoundFrom

\* One more partition that cannot be read.
LEMMA MoreMissed ==
  ASSUME UNCHANGED <<layout, image>>, missed \subseteq missed'
  PROVE  /\ \A p : Fails(p) => Fails(p)'
         /\ \A a, b : NoneIn(a, b) => NoneIn(a, b)'
<1>1. \A p : Fails(p) => Fails(p)'
  BY SameImages DEF Fails
<1> QED  BY <1>1 DEF NoneIn

LEMMA EmptyRange ==
  ASSUME NEW a \in Int, NEW p \in Parts PROVE ~(a + 1 <= p /\ p <= a)
<1>1. p \in Int
  BY SlotAssumption DEF Parts
<1> QED  BY <1>1

LEMMA NextSweepInv ==
  ASSUME TypeInv, SweepInv, [Next]_vars
  PROVE  SweepInv'
<1>0. /\ start \in Int /\ i \in Int /\ MaxSlots \in Nat
      /\ pc \in {"back", "fwd"} => start >= FACTORY_INDEX
      /\ layout.app_count \in Nat
  BY TypeFacts
\* Steps that end outside the sweep and the boot record.
<1>1. CASE pc' \notin {"back", "fwd", "mark", "markwrite"}
  BY <1>1 DEF SweepInv
<1>2. CASE UNCHANGED vars
  BY <1>2, SameTries DEF SweepInv, vars
\* Steps that begin a sweep.
<1>3. CASE UNCHANGED <<layout, image>> /\ pc' = "back" /\ i' = start'
           /\ start' \in Int
  BY <1>3, EmptyRange DEF SweepInv, NoneIn
<1>4. CASE TryLoads
  <2>1. UNCHANGED <<layout, image, missed>> /\ UNCHANGED <<start, i>> /\ pc' = "mark"
    BY <1>4 DEF TryLoads, flash, ram
  <2>2. Loads(i) /\ FoundFrom(start, i)
    BY <1>4, <1>0 DEF TryLoads, SweepInv, FoundFrom
  <2> QED  BY <2>1, <2>2, SameTries DEF SweepInv
<1>5. CASE BackNext
  <2>1. UNCHANGED <<layout, image, missed>> /\ UNCHANGED <<start, pc>> /\ pc = "back" /\ i' = i - 1
    BY <1>5 DEF BackNext, flash, maps
  <2>2. i - 1 <= start /\ NoneIn((i - 1) + 1, start)
    BY <1>5, <1>0 DEF BackNext, SweepInv, NoneIn, Parts
  <2> QED  BY <2>1, <2>2, SameTries DEF SweepInv
<1>6. CASE BackDone
  <2>1. UNCHANGED <<layout, image, missed>> /\ UNCHANGED start /\ pc' = "fwd" /\ i' = start + 1
    BY <1>6 DEF BackDone, flash, maps
  <2>2. start < start + 1 /\ NoneIn(FACTORY_INDEX, (start + 1) - 1)
    BY <1>6, <1>0 DEF BackDone, SweepInv, NoneIn, Parts
  <2> QED  BY <2>1, <2>2, SameTries DEF SweepInv
<1>7. CASE FwdNext
  <2>1. UNCHANGED <<layout, image, missed>> /\ UNCHANGED <<start, pc>> /\ pc = "fwd" /\ i' = i + 1
    BY <1>7 DEF FwdNext, flash, maps
  <2>2. start < i + 1 /\ NoneIn(FACTORY_INDEX, (i + 1) - 1)
    BY <1>7, <1>0 DEF FwdNext, SweepInv, NoneIn, Parts
  <2> QED  BY <2>1, <2>2, SameTries DEF SweepInv
<1>8. CASE MarkErase
  BY <1>8, SameTries DEF MarkErase, maps, SweepInv
<1>14. CASE MapFails
  BY <1>14, SameTries DEF MapFails, flash, SweepInv
<1>15. CASE ImageMapFails
  <2>1. /\ pc \in {"test", "back", "fwd"} /\ UNCHANGED <<layout, image, pc, start, i>>
        /\ missed \subseteq missed'
    BY <1>15 DEF ImageMapFails, flash
  <2> QED  BY <2>1, MoreMissed DEF SweepInv
<1>9. CASE SelectSlot \/ NoOtaData
  <2>1. start' \in Parts /\ UNCHANGED <<layout, image>>
    BY <1>9, NextTypeInv DEF TypeInv, TypeOK, SelectSlot, NoOtaData, flash
  <2>2. start' \in Int
    BY <2>1, SlotAssumption DEF Parts
  <2>3. (pc' = "back" /\ i' = start') \/ pc' = "gpio"
    BY <1>9, Zenon DEF SelectSlot, NoOtaData, SelectionDone
  <2> QED  BY <2>1, <2>2, <2>3, <1>1, <1>3
<1>10. CASE NoOverride
  BY <1>10, <1>0, <1>3 DEF NoOverride, flash
<1>11. CASE TestAppFails
  BY <1>11, <1>3 DEF TestAppFails, flash
<1>12. CASE \/ ShellBoot \/ ShellReset \/ PowerLoss \/ LoadTable \/ TableInvalid
            \/ ReadOtaData \/ AbortSkip \/ AbortErase \/ AbortEraseFails \/ AbortWrite
            \/ FactoryResetHeld \/ TestAppHeld \/ WipeSector \/ WipeDone
            \/ AppWritesOtaData \/ AppWritesImage \/ AppPowerLoss
  BY <1>12, <1>1
  DEF ShellBoot, ShellReset, PowerLoss, LoadTable, TableInvalid, ReadOtaData,
      AbortSkip, AbortErase, AbortEraseFails, AbortWrite, FactoryResetHeld,
      TestAppHeld, WipeSector, WipeDone, AppWritesOtaData, AppWritesImage, AppEntry,
      AppPowerLoss, Reset
<1>13. CASE \/ TryTestApp \/ GiveUp \/ MarkNothing \/ MarkEraseFails \/ MarkWrite
  BY <1>13, <1>1
  DEF TryTestApp, GiveUp, MarkNothing, MarkEraseFails, MarkWrite, Reset, Launch
<1> QED
  BY <1>2, <1>4, <1>5, <1>6, <1>7, <1>8, <1>9, <1>10, <1>11, <1>12, <1>13,
     <1>14, <1>15
  DEF Next, Misread, BootStep, Select, Sweep, Mark

\* The two sweeps leave no partition out: the forward sweep ends past every
\* partition that is listed, and nothing it or the backward one tried has loaded.
NothingLeftOut ==
  pc = "fwd" /\ i >= layout.app_count =>
    \A p \in Parts : p >= FACTORY_INDEX => Fails(p)

LEMMA SweepCovers == ASSUME TypeInv, SweepInv PROVE NothingLeftOut
<1> SUFFICES ASSUME pc = "fwd", i >= layout.app_count,
                    NEW p \in Parts, p >= FACTORY_INDEX, ~Fails(p)
             PROVE  FALSE
  BY DEF NothingLeftOut
<1>1. p < layout.app_count
  BY TypeFacts DEF Fails, Loadable, LayoutOK
<1>2. p <= i - 1
  BY <1>1, TypeFacts DEF Parts
<1> QED  BY <1>2 DEF SweepInv, NoneIn

----------------------------------------------------------------------------
(* What the flash commands of a boot that can read otadata do to the record there:
   nothing they do changes the selection, for flash whose erases work, whatever the writes do
   and wherever the power is cut.  The selection depends on little of an entry:
   whether it counts, and which sequence number it has if it does. *)

Counts(e) == OtaSelectValid(e) /\ e.state # "PENDING_VERIFY"

SameRecord(d, e) == (Counts(d) <=> Counts(e)) /\ (Counts(d) => d.seq = e.seq)

\* The copy of otadata the selection is made from.
Settled(o) == [k \in Sectors |->
  IF o[k].state = "PENDING_VERIFY" THEN Abort(o[k]) ELSE o[k]]

LEMMA SettledFacts ==
  ASSUME NEW o \in [Sectors -> Entry], NEW k \in Sectors
  PROVE  /\ Settled(o)[k] \in Entry
         /\ OtaSelectValid(Settled(o)[k]) <=> Counts(o[k])
         /\ Settled(o)[k].seq = o[k].seq
<1>1. o[k] \in Entry
  OBVIOUS
<1>2. CASE o[k].state = "PENDING_VERIFY"
  <2>1. Settled(o)[k] = Abort(o[k])
    BY <1>2 DEF Settled
  <2> QED  BY <1>1, <1>2, <2>1, AbortType DEF Counts, Abort, Sealed
<1>3. CASE o[k].state # "PENDING_VERIFY"
  <2>1. Settled(o)[k] = o[k]
    BY <1>3 DEF Settled
  <2> QED  BY <1>1, <1>3, <2>1 DEF Counts
<1> QED  BY <1>2, <1>3

\* Chosen looks at the active entry alone.
LEMMA ChosenDepends ==
  ASSUME NEW d \in [Sectors -> Entry], NEW e \in [Sectors -> Entry], NEW apps,
         \A k \in Sectors : /\ OtaSelectValid(d[k]) <=> OtaSelectValid(e[k])
                            /\ OtaSelectValid(d[k]) => d[k].seq = e[k].seq
  PROVE  Chosen(d, apps) = Chosen(e, apps)
<1>1. 0 \in Sectors /\ 1 \in Sectors
  BY DEF Sectors
<1>2. ActiveOtaData(d) = ActiveOtaData(e)
  BY <1>1 DEF ActiveOtaData
<1>3. CASE ActiveOtaData(d) = -1
  BY <1>2, <1>3 DEF Chosen
<1>4. CASE ActiveOtaData(d) # -1
  <2>1. ActiveOtaData(d) \in Sectors /\ OtaSelectValid(d[ActiveOtaData(d)])
    BY <1>4 DEF ActiveOtaData, Sectors
  <2>2. SlotOf(d[ActiveOtaData(d)]) = SlotOf(e[ActiveOtaData(d)])
    BY <2>1 DEF SlotOf
  <2> QED  BY <1>2, <2>2 DEF Chosen
<1> QED  BY <1>3, <1>4

LEMMA SelectionDepends ==
  ASSUME NEW d \in [Sectors -> Entry], NEW e \in [Sectors -> Entry], NEW apps,
         \A k \in Sectors : SameRecord(d[k], e[k])
  PROVE  Selection(d, apps) = Selection(e, apps)
<1>1. Settled(d) \in [Sectors -> Entry] /\ Settled(e) \in [Sectors -> Entry]
  BY SettledFacts DEF Settled
<1>2. \A k \in Sectors :
        /\ OtaSelectValid(Settled(d)[k]) <=> OtaSelectValid(Settled(e)[k])
        /\ OtaSelectValid(Settled(d)[k]) => Settled(d)[k].seq = Settled(e)[k].seq
  BY SettledFacts DEF SameRecord
<1>3. Chosen(Settled(d), apps) = Chosen(Settled(e), apps)
  BY <1>1, <1>2, ChosenDepends
<1> QED  BY <1>3 DEF Selection, Settled

\* Without pending entries the selection is the one the copy itself gives.
LEMMA SelectionSettled ==
  ASSUME NEW o \in [Sectors -> Entry], NEW apps,
         \A k \in Sectors : o[k].state # "PENDING_VERIFY"
  PROVE  Selection(o, apps) = Chosen(o, apps)
<1>1. Settled(o) \in [Sectors -> Entry]
  BY SettledFacts DEF Settled
<1>2. \A k \in Sectors :
        /\ OtaSelectValid(Settled(o)[k]) <=> OtaSelectValid(o[k])
        /\ OtaSelectValid(Settled(o)[k]) => Settled(o)[k].seq = o[k].seq
  BY SettledFacts DEF Counts
<1>3. Chosen(Settled(o), apps) = Chosen(o, apps)
  BY <1>1, <1>2, ChosenDepends
<1> QED  BY <1>3 DEF Selection, Settled

\* The sector set_actual_ota_seq writes to is not the active one, so an entry
\* there that does not count changes nothing.
LEMMA WriteSectorSpare ==
  ASSUME NEW o \in [Sectors -> Entry], NEW apps, NEW e \in Entry,
         \A k \in Sectors : o[k].state # "PENDING_VERIFY", ~Counts(e)
  PROVE  Selection([o EXCEPT ![WriteSector(o)] = e], apps) = Selection(o, apps)
<1> DEFINE w == WriteSector(o)
           n == [o EXCEPT ![w] = e]
<1>1. w \in Sectors /\ n \in [Sectors -> Entry]
  BY WriteSectorType
<1>2. 0 \in Sectors /\ 1 \in Sectors
  BY DEF Sectors
<1>3. ActiveOtaData(o) # w /\ (ActiveOtaData(o) = -1 => \A k \in Sectors : ~OtaSelectValid(o[k]))
  BY DEF WriteSector, ActiveOtaData, Sectors
<1>4. Settled(n) \in [Sectors -> Entry] /\ Settled(o) \in [Sectors -> Entry]
  BY <1>1, SettledFacts DEF Settled
<1>5. \A k \in Sectors :
        /\ OtaSelectValid(Settled(o)[k]) <=> OtaSelectValid(o[k])
        /\ Settled(o)[k].seq = o[k].seq
  BY SettledFacts DEF Counts
<1>6. ~OtaSelectValid(Settled(n)[w])
  BY <1>1, SettledFacts
<1>7. \A k \in Sectors : k # w => Settled(n)[k] = Settled(o)[k]
  BY <1>1 DEF Settled
<1> HIDE DEF w, n
<1>8. Chosen(Settled(n), apps) = Chosen(Settled(o), apps)
  <2>1. CASE w = 0
    <3>1. ActiveOtaData(o) = 1
      BY <2>1 DEF WriteSector, w
    <3>2. OtaSelectValid(o[1]) /\ OtaSelectValid(Settled(o)[1])
      BY <3>1, <1>2, <1>5 DEF ActiveOtaData
    <3>3. ActiveOtaData(Settled(o)) = 1
      BY <3>1, <1>2, <1>5 DEF ActiveOtaData
    <3>4. ActiveOtaData(Settled(n)) = 1 /\ Settled(n)[1] = Settled(o)[1]
      BY <2>1, <3>2, <1>2, <1>6, <1>7 DEF ActiveOtaData
    <3> QED  BY <3>3, <3>4 DEF Chosen
  <2>2. CASE w = 1
    <3>1. ActiveOtaData(o) # 1
      BY <2>2 DEF WriteSector, w
    <3>2. ActiveOtaData(Settled(o)) = (IF OtaSelectValid(o[0]) THEN 0 ELSE -1)
      BY <3>1, <1>2, <1>5 DEF ActiveOtaData
    <3>3. Settled(n)[0] = Settled(o)[0]
      BY <2>2, <1>2, <1>7
    <3>4. ActiveOtaData(Settled(n)) = (IF OtaSelectValid(o[0]) THEN 0 ELSE -1)
      BY <2>2, <3>3, <1>2, <1>5, <1>6 DEF ActiveOtaData
    <3> QED  BY <3>2, <3>3, <3>4 DEF Chosen
  <2> QED  BY <1>1, <2>1, <2>2 DEF Sectors
<1> QED  BY <1>8 DEF Selection, Settled, n, w

----------------------------------------------------------------------------
(* The inductive invariant.  AbortInv relates the working copy to the flash
   while the abort pass is at sector sec; LoadInv says what is left for the
   sweep: no pending entry, and a start index that is the selection. *)

NoPending == \A k \in Sectors : otadata[k].state # "PENDING_VERIFY"

Agree(k) ==
  \/ two[k] = otadata[k]
  \/ ~OtaSelectValid(two[k]) /\ ~OtaSelectValid(otadata[k])

AbortInv ==
  pc \in {"abort", "abortwrite"} =>
    /\ layout.otaInfo /\ ~Blind
    /\ \A k \in Sectors :
         /\ k < sec => /\ two[k].state # "PENDING_VERIFY"
                       /\ otadata[k].state # "PENDING_VERIFY" /\ Agree(k)
         /\ k > sec => two[k] = otadata[k]
         /\ k = sec /\ pc = "abort" => two[k] = otadata[k]
         /\ k = sec /\ pc = "abortwrite" =>
              two[k].state = "ABORTED" /\ otadata[k] = Erased

\* Where the selection sends the sweep: to factory if otadata was not read.
Aim == IF Blind THEN FACTORY_INDEX ELSE Selected

StartInv ==
  /\ pc = "gpio" => start = Aim
  /\ pc \in {"back", "fwd", "mark", "markwrite"} =>
       \/ start = Aim
       \/ AppTestBuild /\ Fails(TEST_APP_INDEX) /\ start = FACTORY_INDEX

LoadInv ==
  /\ pc \in {"gpio", "test", "back", "fwd", "mark", "markwrite"}
       /\ layout.otaInfo /\ ~Blind => NoPending
  /\ pc = "markwrite" => layout.otaInfo /\ otadata[sec] = Erased
  /\ pc = "wipe" => FactoryResetBuild /\ \A k \in Sectors : k < sec => otadata[k] = Erased
  /\ pc = "test" => AppTestBuild
  /\ pc = "app" => ~again
  /\ again /\ Wipes => \A k \in Sectors : ~OtaSelectValid(otadata[k])

RecordInv == ~EraseMayFail => AbortInv /\ StartInv /\ LoadInv

----------------------------------------------------------------------------
(* Every step that is neither the application's nor a factory reset's leaves the
   selection as it is, if otadata has been read, or is one the power was cut in. *)

LEMMA EntryFacts ==
  ASSUME TypeInv
  PROVE  /\ otadata \in [Sectors -> Entry] /\ two \in [Sectors -> Entry]
         /\ layout.apps \in SUBSET Parts
         /\ pc \in {"abortwrite", "markwrite"} => sec \in Sectors
         /\ pc = "markwrite" => BootRecord \in Entry /\ BootRecord.state = "PENDING_VERIFY"
<1>1. ASSUME pc = "markwrite" PROVE i + 1 \in 0 .. SeqMax
  BY <1>1, SlotAssumption DEF TypeInv, Indexes, Parts
<1>2. ASSUME pc = "markwrite" PROVE BootRecord \in Entry /\ BootRecord.state = "PENDING_VERIFY"
  BY <1>1, <1>2, SealedType DEF BootRecord, Sealed, OtaStates
<1> QED  BY <1>2, LayoutType DEF TypeInv, TypeOK, Indexes

\* An entry that does not count gives way to another one that does not.
LEMMA EntryReplaced ==
  ASSUME TypeInv, UNCHANGED layout, NEW k \in Sectors, NEW e \in Entry,
         otadata' = [otadata EXCEPT ![k] = e], ~Counts(otadata[k]), ~Counts(e)
  PROVE  Selected' = Selected
<1>1. otadata \in [Sectors -> Entry] /\ otadata' \in [Sectors -> Entry]
  BY EntryFacts
<1>2. \A j \in Sectors : SameRecord(otadata'[j], otadata[j])
  BY <1>1 DEF SameRecord
<1>3. Selection(otadata', layout.apps) = Selection(otadata, layout.apps)
  BY <1>1, <1>2, SelectionDepends
<1> QED  BY <1>3 DEF Selected

LEMMA SpareReplaced ==
  ASSUME TypeInv, UNCHANGED layout, NoPending, NEW e \in Entry, ~Counts(e),
         otadata' = [otadata EXCEPT ![WriteSector(otadata)] = e]
  PROVE  Selected' = Selected
<1>1. Selection(otadata', layout.apps) = Selection(otadata, layout.apps)
  BY EntryFacts, WriteSectorSpare DEF NoPending
<1> QED  BY <1>1 DEF Selected

\* A cut erase has left the entry, one that does not count, or one in another state.
LEMMA TornEraseKeeps ==
  ASSUME TypeInv, UNCHANGED layout, pc' = "shell", NEW k \in Sectors,
         NEW e \in TornErases(otadata[k]), otadata' = [otadata EXCEPT ![k] = e],
         ~Counts(e) => Selected' = Selected
  PROVE  Selected' = Selected \/ (StateTears /\ \E j \in Sectors : StateTorn(j))
<1>1. otadata \in [Sectors -> Entry] /\ otadata[k] \in Entry
  BY EntryFacts
<1>2. CASE e = otadata[k]
  <2>1. otadata' = otadata
    BY <1>1, <1>2
  <2> QED  BY <2>1 DEF Selected
<1>3. CASE ~OtaSelectValid(e)
  BY <1>3 DEF Counts
<1>4. CASE e # otadata[k] /\ StateTears /\ otadata[k].crcOk
           /\ e = [otadata[k] EXCEPT !.state = e.state]
  <2>1. otadata'[k] = e
    BY <1>1
  <2>2. StateTorn(k)
    BY <1>4, <2>1 DEF StateTorn
  <2> QED  BY <1>4, <2>2
<1> QED  BY <1>1, <1>2, <1>3, <1>4, TornEraseType

LEMMA TornFlashKeeps ==
  ASSUME TypeInv, RecordInv, ~EraseMayFail, UNCHANGED layout, TornFlash, pc' = "shell",
         ~(pc = "wipe" /\ Wipes), ~Blind
  PROVE  Selected' = Selected \/ (StateTears /\ \E j \in Sectors : StateTorn(j))
<1> USE EntryFacts
<1>1. CASE UNCHANGED otadata
  BY <1>1 DEF Selected
<1>2. ASSUME pc = "abort", sec \in Sectors, two[sec].state = "PENDING_VERIFY",
             NEW e \in TornErases(otadata[sec]),
             otadata' = [otadata EXCEPT ![sec] = e]
      PROVE  Selected' = Selected \/ (StateTears /\ \E j \in Sectors : StateTorn(j))
  <2>1. otadata[sec] = two[sec] /\ otadata[sec] \in Entry
    BY <1>2 DEF RecordInv, AbortInv
  <2>2. e \in Entry /\ ~Counts(otadata[sec])
    BY <1>2, <2>1, TornEraseType DEF Counts
  <2>3. ~Counts(e) => Selected' = Selected
    BY <1>2, <2>2, EntryReplaced
  <2> QED  BY <1>2, <2>3, TornEraseKeeps
<1>3. ASSUME pc = "abortwrite", NEW e \in TornWrites(two[sec]),
             otadata' = [otadata EXCEPT ![sec] = e]
      PROVE  Selected' = Selected
  <2>1. otadata[sec] = Erased /\ sec \in Sectors /\ two[sec] \in Entry
    BY <1>3 DEF RecordInv, AbortInv
  <2>2. e \in Entry /\ ~Counts(otadata[sec]) /\ ~Counts(e)
    BY <1>3, <2>1, TornWriteType, ErasedType DEF Counts
  <2> QED  BY <1>3, <2>1, <2>2, EntryReplaced
<1>4. ASSUME pc = "mark", layout.otaInfo,
             NEW e \in TornErases(otadata[WriteSector(otadata)]),
             otadata' = [otadata EXCEPT ![WriteSector(otadata)] = e]
      PROVE  Selected' = Selected \/ (StateTears /\ \E j \in Sectors : StateTorn(j))
  <2>1. PICK w \in Sectors : w = WriteSector(otadata)
    BY WriteSectorType
  <2>2. NoPending /\ e \in Entry
    BY <1>4, <2>1, TornEraseType DEF RecordInv, LoadInv
  <2>3. ~Counts(e) => Selected' = Selected
    BY <1>4, <2>2, SpareReplaced
  <2> QED  BY <1>4, <2>1, <2>3, TornEraseKeeps
<1>5. ASSUME pc = "markwrite", NEW e \in TornWrites(BootRecord),
             otadata' = [otadata EXCEPT ![sec] = e]
      PROVE  Selected' = Selected
  <2>1. otadata[sec] = Erased /\ sec \in Sectors /\ BootRecord \in Entry
    BY <1>5 DEF RecordInv, LoadInv
  <2>2. e \in Entry /\ ~Counts(otadata[sec]) /\ ~Counts(e)
    BY <1>5, <2>1, TornWriteType, ErasedType DEF Counts
  <2> QED  BY <1>5, <2>1, <2>2, EntryReplaced
<1> QED  BY <1>1, <1>2, <1>3, <1>4, <1>5 DEF TornFlash

\* The boot record is written where nothing counts, and it is pending.
LEMMA RecordKept ==
  ASSUME TypeInv, RecordInv, ~EraseMayFail, MarkWrite
  PROVE  Selected' = Selected
<1> USE EntryFacts
<1>1. PICK e \in WriteOutcomes(BootRecord) : otadata' = [otadata EXCEPT ![sec] = e]
  BY DEF MarkWrite
<1>2. /\ sec \in Sectors /\ otadata[sec] = Erased /\ UNCHANGED layout
      /\ BootRecord \in Entry /\ BootRecord.state = "PENDING_VERIFY"
  BY DEF MarkWrite, RecordInv, LoadInv
<1>3. ~Counts(otadata[sec]) /\ ~Counts(e) /\ e \in Entry
  BY <1>2, ErasedType, WriteOutcomeType DEF Counts, OtaSelectValid
<1> QED  BY <1>1, <1>2, <1>3, EntryReplaced

LEMMA SelectedKept ==
  ASSUME TypeInv, RecordInv, ~EraseMayFail, [Next]_vars,
         pc # "app", ~(pc = "wipe" /\ Wipes), ~Blind
  PROVE  \/ Selected' = Selected
         \/ StateTears /\ pc' = "shell" /\ \E k \in Sectors : StateTorn(k)
<1> USE EntryFacts
<1>1. CASE UNCHANGED <<layout, otadata>>
  BY <1>1 DEF Selected
<1>2. CASE AbortErase
  <2>1. sec \in Sectors /\ otadata[sec] = two[sec] /\ two[sec].state = "PENDING_VERIFY"
    BY <1>2 DEF AbortErase, RecordInv, AbortInv
  <2>2. ~Counts(otadata[sec]) /\ ~Counts(Erased) /\ Erased \in Entry
    BY <2>1, ErasedType DEF Counts
  <2>3. UNCHANGED layout /\ otadata' = [otadata EXCEPT ![sec] = Erased]
    BY <1>2 DEF AbortErase
  <2> QED  BY <2>1, <2>2, <2>3, EntryReplaced
<1>3. CASE AbortWrite
  <2>1. PICK e \in WriteOutcomes(two[sec]) : otadata' = [otadata EXCEPT ![sec] = e]
    BY <1>3 DEF AbortWrite
  <2>2. /\ sec \in Sectors /\ otadata[sec] = Erased
        /\ two[sec].state = "ABORTED" /\ two[sec] \in Entry
    BY <1>3 DEF AbortWrite, RecordInv, AbortInv
  <2>3. ~Counts(otadata[sec]) /\ ~Counts(e) /\ e \in Entry
    BY <2>2, ErasedType, WriteOutcomeType DEF Counts, OtaSelectValid
  <2>4. UNCHANGED layout
    BY <1>3 DEF AbortWrite
  <2> QED  BY <2>1, <2>2, <2>3, <2>4, EntryReplaced
<1>4. CASE MarkErase
  <2>1. NoPending /\ UNCHANGED layout
        /\ otadata' = [otadata EXCEPT ![WriteSector(otadata)] = Erased]
    BY <1>4 DEF MarkErase, RecordInv, LoadInv
  <2>2. Erased \in Entry /\ ~Counts(Erased)
    BY ErasedType DEF Counts
  <2> QED  BY <2>1, <2>2, SpareReplaced
<1>5. CASE MarkWrite
  BY <1>5, RecordKept
<1>6. CASE PowerLoss
  BY <1>6, TornFlashKeeps DEF PowerLoss, Reset
<1>7. CASE AppWritesOtaData \/ AppWritesImage \/ AppPowerLoss \/ WipeSector
  BY <1>7 DEF AppWritesOtaData, AppWritesImage, AppPowerLoss, AppEntry, WipeSector
<1> QED
  BY <1>1, <1>2, <1>3, <1>4, <1>5, <1>6, <1>7
  DEF Next, Misread, MapFails, ImageMapFails, BootStep, Select, Sweep, Mark, vars, flash, ShellBoot, ShellReset,
      LoadTable, TableInvalid, NoOtaData, ReadOtaData, AbortSkip, AbortEraseFails,
      SelectSlot, FactoryResetHeld, TestAppHeld, NoOverride, WipeDone, TryTestApp,
      TestAppFails, TryLoads, BackNext, BackDone, FwdNext, GiveUp, MarkNothing,
      MarkEraseFails

----------------------------------------------------------------------------
(* The invariant is inductive: one lemma for each of its parts. *)

LEMMA NextAbortInv ==
  ASSUME TypeInv, RecordInv, ~EraseMayFail, [Next]_vars
  PROVE  AbortInv'
<1> USE EntryFacts DEF Agree, Blind, maps
<1>0. AbortInv
  BY DEF RecordInv
<1>1. CASE pc' \notin {"abort", "abortwrite"}
  BY <1>1 DEF AbortInv
<1>2. CASE UNCHANGED vars
  BY <1>0, <1>2 DEF AbortInv, vars
<1>3. CASE ReadOtaData
  BY <1>3 DEF ReadOtaData, AbortInv, Sectors, flash
<1>4. CASE AbortSkip
  BY <1>0, <1>4 DEF AbortSkip, AbortInv, Sectors, flash
<1>5. CASE AbortErase
  <2>1. /\ sec \in Sectors /\ pc = "abort" /\ pc' = "abortwrite"
        /\ UNCHANGED <<sec, layout, unread>>
        /\ two' = [two EXCEPT ![sec] = Abort(two[sec])]
        /\ otadata' = [otadata EXCEPT ![sec] = Erased]
    BY <1>5 DEF AbortErase
  <2>2. two'[sec].state = "ABORTED" /\ otadata'[sec] = Erased
    BY <2>1, AbortType
  <2>3. \A k \in Sectors : k # sec => two'[k] = two[k] /\ otadata'[k] = otadata[k]
    BY <2>1
  <2> QED  BY <1>0, <2>1, <2>2, <2>3 DEF AbortInv, Sectors
<1>6. CASE AbortWrite
  <2>1. PICK e \in WriteOutcomes(two[sec]) : otadata' = [otadata EXCEPT ![sec] = e]
    BY <1>6 DEF AbortWrite
  <2>2. /\ sec \in Sectors /\ pc = "abortwrite" /\ pc' = "abort" /\ sec' = sec + 1
        /\ UNCHANGED <<two, layout, unread>>
        /\ two[sec].state = "ABORTED" /\ two[sec] \in Entry
    BY <1>0, <1>6 DEF AbortWrite, AbortInv
  <2>3. e.state # "PENDING_VERIFY" /\ ~OtaSelectValid(e) /\ ~OtaSelectValid(two[sec])
    BY <2>2, WriteOutcomeType DEF OtaSelectValid
  <2>4. otadata'[sec] = e /\ \A k \in Sectors : k # sec => otadata'[k] = otadata[k]
    BY <2>1, <2>2
  <2> QED  BY <1>0, <2>2, <2>3, <2>4 DEF AbortInv, Sectors
<1>7. CASE AbortEraseFails \/ MarkEraseFails
  BY <1>7 DEF AbortEraseFails, MarkEraseFails
<1>8. CASE AppWritesOtaData \/ AppWritesImage \/ WipeSector
  BY <1>8, <1>1 DEF AppWritesOtaData, AppWritesImage, AppEntry, WipeSector
<1>11. CASE MapFails \/ ImageMapFails
  BY <1>0, <1>1, <1>11 DEF MapFails, ImageMapFails, ReadPCs
<1>9. CASE \/ ShellBoot \/ LoadTable \/ NoOtaData \/ SelectSlot
           \/ FactoryResetHeld \/ TestAppHeld \/ NoOverride \/ WipeDone
           \/ TestAppFails \/ TryLoads \/ BackNext \/ BackDone \/ FwdNext
           \/ MarkErase
  BY <1>9, <1>1
  DEF ShellBoot, LoadTable, NoOtaData, SelectSlot, SelectionDone, FactoryResetHeld,
      TestAppHeld, NoOverride, WipeDone, TestAppFails, TryLoads, BackNext, BackDone,
      FwdNext, MarkErase
<1>10. CASE \/ ShellReset \/ TableInvalid \/ GiveUp \/ PowerLoss \/ AppPowerLoss
            \/ TryTestApp \/ MarkNothing \/ MarkWrite
  BY <1>10, <1>1
  DEF ShellReset, TableInvalid, GiveUp, PowerLoss, AppPowerLoss, TryTestApp,
      MarkNothing, MarkWrite, Reset, Launch
<1> QED
  BY <1>2, <1>3, <1>4, <1>5, <1>6, <1>7, <1>8, <1>9, <1>10, <1>11
  DEF Next, Misread, BootStep, Select, Sweep, Mark

\* After the abort pass the copy and the flash select the same.
LEMMA SelectSlotSelects ==
  ASSUME TypeInv, AbortInv, pc = "abort", sec = 2
  PROVE  /\ Chosen(two, layout.apps) = Selected
         /\ NoPending
<1> USE EntryFacts
<1>1. layout.otaInfo /\ \A k \in Sectors : otadata[k].state # "PENDING_VERIFY" /\ Agree(k)
  BY DEF AbortInv, Sectors
<1>2. Selection(otadata, layout.apps) = Chosen(otadata, layout.apps)
  BY <1>1, SelectionSettled
<1>3. Chosen(two, layout.apps) = Chosen(otadata, layout.apps)
  BY <1>1, ChosenDepends DEF Agree
<1> QED  BY <1>1, <1>2, <1>3 DEF Selected, NoPending

LEMMA NextStartInv ==
  ASSUME TypeInv, RecordInv, ~EraseMayFail, [Next]_vars
  PROVE  StartInv'
<1>0. StartInv /\ AbortInv
  BY DEF RecordInv
<1>1. CASE pc' \notin {"gpio", "back", "fwd", "mark", "markwrite"}
  BY <1>1 DEF StartInv
<1>2. CASE UNCHANGED vars
  <2>1. Aim' = Aim /\ (Fails(TEST_APP_INDEX)' <=> Fails(TEST_APP_INDEX))
    BY <1>2, SameTries DEF Aim, Blind, Selected, vars
  <2> QED  BY <1>0, <1>2, <2>1 DEF StartInv, vars
\* Steps of a selection or a sweep leave the aim where it is.
<1>a. ASSUME pc \notin {"app", "wipe"}, pc' # "shell", Blind' <=> Blind
      PROVE  Aim' = Aim
  <2>1. CASE Blind
    BY <1>a, <2>1 DEF Aim
  <2>2. CASE ~Blind
    BY <1>a, <2>2, SelectedKept DEF Aim
  <2> QED  BY <2>1, <2>2
<1>3. CASE pc \notin {"app", "wipe"} /\ pc' # "shell" /\ (Blind' <=> Blind) /\ start' = Aim
  BY <1>a, <1>3 DEF StartInv
<1>4. CASE NoOtaData
  <2>1. pc = "read" /\ start' = FACTORY_INDEX /\ pc' # "shell" /\ UNCHANGED unread
        /\ (~layout.otaInfo \/ Blind)
    BY <1>4 DEF NoOtaData, SelectionDone, maps, Blind
  <2> QED  BY <1>3, <2>1 DEF Aim, Selected, Blind
<1>5. CASE SelectSlot
  <2>1. /\ pc = "abort" /\ sec = 2 /\ start' = Chosen(two, layout.apps) /\ pc' # "shell"
        /\ UNCHANGED unread
    BY <1>5 DEF SelectSlot, SelectionDone, maps
  <2>2. ~Blind
    BY <1>0, <2>1 DEF AbortInv
  <2> QED  BY <1>0, <1>3, <2>1, <2>2, SelectSlotSelects DEF Aim, Blind
<1>6. CASE NoOverride
  <2>1. /\ pc = "gpio" /\ start' = start /\ pc' # "shell" /\ UNCHANGED unread
    BY <1>6 DEF NoOverride, maps
  <2> QED  BY <1>0, <1>3, <2>1 DEF StartInv, Blind
<1>7. CASE TestAppFails
  <2>1. AppTestBuild /\ pc' = "back" /\ start' = FACTORY_INDEX
        /\ UNCHANGED <<layout, image, missed>> /\ Fails(TEST_APP_INDEX)
    BY <1>7 DEF TestAppFails, RecordInv, LoadInv, flash, maps
  <2> QED  BY <2>1, SameTries DEF StartInv
<1>8. CASE \/ TryLoads \/ BackNext \/ BackDone \/ FwdNext \/ MarkErase
           \/ ImageMapFails
           \/ pc \in {"back", "fwd", "mark"} /\ MapFails
  <2>1. /\ pc \in {"back", "fwd", "mark"} \/ (pc = "test" /\ pc' = "test")
        /\ pc' \notin {"gpio", "shell"} /\ UNCHANGED <<layout, image, start>>
        /\ missed \subseteq missed'
    BY <1>8
    DEF TryLoads, BackNext, BackDone, FwdNext, MarkErase, ImageMapFails, MapFails,
        flash, ram, maps
  <2>2. Blind' <=> Blind
    BY <1>8
    DEF TryLoads, BackNext, BackDone, FwdNext, MarkErase, ImageMapFails, MapFails,
        Blind, ReadPCs, ram, maps
  <2>3. Aim' = Aim
    BY <1>a, <2>1, <2>2
  <2>4. Fails(TEST_APP_INDEX) => Fails(TEST_APP_INDEX)'
    BY <2>1, MoreMissed
  <2> QED  BY <1>0, <1>1, <2>1, <2>3, <2>4 DEF StartInv
<1>11. CASE pc \notin {"back", "fwd", "mark"} /\ MapFails
  BY <1>1, <1>11 DEF MapFails, ReadPCs
<1>9. CASE \/ ShellBoot \/ ShellReset \/ LoadTable \/ TableInvalid \/ ReadOtaData
           \/ AbortSkip \/ AbortErase \/ AbortEraseFails \/ AbortWrite
           \/ FactoryResetHeld \/ TestAppHeld \/ WipeSector \/ WipeDone
           \/ AppWritesOtaData \/ AppWritesImage
  BY <1>9, <1>1
  DEF ShellBoot, ShellReset, LoadTable, TableInvalid, ReadOtaData, AbortSkip,
      AbortErase, AbortEraseFails, AbortWrite, FactoryResetHeld, TestAppHeld,
      WipeSector, WipeDone, AppWritesOtaData, AppWritesImage, AppEntry, Reset
<1>10. CASE \/ GiveUp \/ PowerLoss \/ AppPowerLoss \/ TryTestApp \/ MarkNothing
            \/ MarkEraseFails \/ MarkWrite
  BY <1>10, <1>1
  DEF GiveUp, PowerLoss, AppPowerLoss, TryTestApp, MarkNothing, MarkEraseFails, MarkWrite,
      Reset, Launch
<1> QED
  BY <1>2, <1>4, <1>5, <1>6, <1>7, <1>8, <1>9, <1>10, <1>11
  DEF Next, Misread, BootStep, Select, Sweep, Mark

\* While selection runs again after a factory reset, nothing in otadata counts
\* and the steps that write there keep it so.
LEMMA NextLoadInv ==
  ASSUME TypeInv, RecordInv, ~EraseMayFail, [Next]_vars
  PROVE  LoadInv'
<1> USE EntryFacts DEF NoPending, Blind, Wipes
<1>0. LoadInv /\ AbortInv
  BY DEF RecordInv
<1>1. CASE pc' \in {"shell", "table"} /\ again' = FALSE
  BY <1>1, Zenon DEF LoadInv
<1>2. CASE pc' = "app" /\ again' = FALSE
  BY <1>2, Zenon DEF LoadInv
<1>3. CASE UNCHANGED vars
  BY <1>0, <1>3 DEF LoadInv, vars
<1>4. CASE UNCHANGED <<layout, otadata, again, unread>> /\ pc' \in {"read", "abort"} /\ pc # "wipe"
  BY <1>0, <1>4 DEF LoadInv
<1>5. CASE ShellBoot
  BY <1>0, <1>5 DEF ShellBoot, LoadInv, flash, ram
<1>6. CASE LoadTable \/ ReadOtaData \/ AbortSkip
  BY <1>6, <1>4 DEF LoadTable, ReadOtaData, AbortSkip, flash, ram, maps
<1>7. CASE NoOtaData
  BY <1>7, <1>0 DEF NoOtaData, SelectionDone, LoadInv, flash, maps
<1>8. CASE SelectSlot
  BY <1>8, <1>0, SelectSlotSelects DEF SelectSlot, SelectionDone, LoadInv, flash, maps
<1>9. CASE AbortErase
  <2>1. /\ sec \in Sectors /\ pc' = "abortwrite" /\ UNCHANGED <<layout, again, unread>>
        /\ otadata' = [otadata EXCEPT ![sec] = Erased]
    BY <1>9 DEF AbortErase, maps
  <2>2. \A k \in Sectors : otadata'[k] = otadata[k] \/ otadata'[k] = Erased
    BY <2>1
  <2> QED  BY <1>0, <2>1, <2>2, ErasedType DEF LoadInv
<1>10. CASE AbortWrite
  <2>1. PICK e \in WriteOutcomes(two[sec]) : otadata' = [otadata EXCEPT ![sec] = e]
    BY <1>10 DEF AbortWrite
  <2>2. /\ sec \in Sectors /\ pc' = "abort" /\ UNCHANGED <<layout, again, unread>>
        /\ two[sec].state = "ABORTED" /\ two[sec] \in Entry
    BY <1>10, <1>0 DEF AbortWrite, AbortInv, maps
  <2>3. ~OtaSelectValid(e)
    BY <2>2, WriteOutcomeType DEF OtaSelectValid
  <2>4. \A k \in Sectors : otadata'[k] = otadata[k] \/ otadata'[k] = e
    BY <2>1, <2>2
  <2> QED  BY <1>0, <2>2, <2>3, <2>4 DEF LoadInv
<1>11. CASE FactoryResetHeld
  BY <1>0, <1>11 DEF FactoryResetHeld, LoadInv, Sectors, flash, maps
<1>12. CASE TestAppHeld \/ NoOverride \/ TestAppFails
  BY <1>0, <1>12 DEF TestAppHeld, NoOverride, TestAppFails, LoadInv, flash, maps
<1>13. CASE WipeSector
  <2>1. /\ sec \in Sectors /\ pc = "wipe" /\ sec' = sec + 1
        /\ UNCHANGED <<layout, again, pc, unread>>
        /\ otadata' = [otadata EXCEPT ![sec] = Erased]
    BY <1>13 DEF WipeSector, maps
  <2>2. \A k \in Sectors : otadata'[k] = IF k = sec THEN Erased ELSE otadata[k]
    BY <2>1
  <2> QED  BY <1>0, <2>1, <2>2, ErasedType DEF LoadInv, Sectors
<1>14. CASE WipeDone
  <2>1. /\ pc = "wipe" /\ pc' = "read" /\ UNCHANGED <<layout, otadata>>
        /\ sec = 2 \/ ~Wipes
        /\ unread' = unread \ {"read"}
    BY <1>14 DEF WipeDone, flash
  <2>2. Wipes => \A k \in Sectors : otadata[k] = Erased
    BY <1>0, <2>1 DEF LoadInv, Sectors
  <2>3. Wipes' => Wipes
    BY <1>14 DEF WipeDone, flash
  <2> QED  BY <2>1, <2>2, <2>3, ErasedType DEF LoadInv
<1>21. CASE MapFails
  <2>1. /\ UNCHANGED <<flash, pc, sec, again>> /\ unread \subseteq unread'
        /\ pc # "app"
    BY <1>21 DEF MapFails, ReadPCs
  <2> QED  BY <1>0, <2>1 DEF LoadInv, flash
<1>22. CASE ImageMapFails
  BY <1>0, <1>22 DEF ImageMapFails, LoadInv, flash
<1>15. CASE TryLoads \/ BackNext \/ BackDone \/ FwdNext
  BY <1>0, <1>15 DEF TryLoads, BackNext, BackDone, FwdNext, LoadInv, flash, ram, maps
<1>16. CASE MarkErase
  <2>1. /\ pc = "mark" /\ pc' = "markwrite" /\ layout.otaInfo /\ UNCHANGED <<layout, again, unread>>
        /\ sec' = WriteSector(otadata) /\ sec' \in Sectors
        /\ otadata' = [otadata EXCEPT ![sec'] = Erased]
    BY <1>16, WriteSectorType DEF MarkErase, maps
  <2>2. otadata'[sec'] = Erased
        /\ \A k \in Sectors : otadata'[k] = otadata[k] \/ otadata'[k] = Erased
    BY <2>1
  <2> QED  BY <1>0, <2>1, <2>2, ErasedType DEF LoadInv, Erased
<1>17. CASE AbortEraseFails \/ MarkEraseFails
  BY <1>17 DEF AbortEraseFails, MarkEraseFails
<1>18. CASE AppWritesOtaData \/ AppWritesImage
  BY <1>0, <1>18 DEF AppWritesOtaData, AppWritesImage, AppEntry, LoadInv, ram
<1>19. CASE ShellReset \/ TableInvalid \/ GiveUp \/ PowerLoss \/ AppPowerLoss
  BY <1>19, <1>1, Zenon
  DEF ShellReset, TableInvalid, GiveUp, PowerLoss, AppPowerLoss, Reset, ForgetRam
<1>20. CASE TryTestApp \/ MarkNothing \/ MarkWrite
  BY <1>20, <1>2, Zenon DEF TryTestApp, MarkNothing, MarkWrite, Launch, ForgetRam
<1> QED
  BY <1>3, <1>5, <1>6, <1>7, <1>8, <1>9, <1>10, <1>11, <1>12, <1>13, <1>14, <1>15,
     <1>16, <1>17, <1>18, <1>19, <1>20, <1>21, <1>22
  DEF Next, Misread, BootStep, Select, Sweep, Mark

----------------------------------------------------------------------------
Inv == TypeInv /\ SweepInv /\ RecordInv

LEMMA InitInv == Init => Inv
<1> SUFFICES ASSUME Init PROVE Inv
  OBVIOUS
<1>1. pc = "shell" /\ ~again
  BY Zenon DEF Init
<1>2. SweepInv
  BY <1>1 DEF SweepInv
<1>3. AbortInv /\ StartInv /\ LoadInv
  BY <1>1 DEF AbortInv, StartInv, LoadInv
<1> QED  BY <1>2, <1>3, InitTypeInv DEF Inv, RecordInv

LEMMA NextInv == Inv /\ [Next]_vars => Inv'
<1> SUFFICES ASSUME Inv, [Next]_vars PROVE Inv'
  OBVIOUS
<1>1. TypeInv' /\ SweepInv'
  BY NextTypeInv, NextSweepInv DEF Inv
<1>2. ASSUME ~EraseMayFail PROVE (AbortInv /\ StartInv /\ LoadInv)'
  BY <1>2, NextAbortInv, NextStartInv, NextLoadInv DEF Inv
<1> QED  BY <1>1, <1>2 DEF Inv, RecordInv

LEMMA Invariant == Spec => []Inv
  BY InitInv, NextInv, PTL DEF Spec

(* Neither the abort pass nor set_actual_ota_seq of a boot that has read otadata,
   cut at any point, changes which slot otadata selects, unless a cut erase has
   changed the state of an entry and nothing else of it. *)
THEOREM BootKeepsSelection == Spec => SelectionStable
<1>1. Inv /\ [Next]_vars =>
        [~EraseMayFail /\ pc # "app" /\ ~(pc = "wipe" /\ Wipes) /\ ~Blind =>
           Selected' = Selected \/ \E k \in Sectors : StateTorn(k)]_vars
  BY SelectedKept DEF Inv
<1> QED  BY <1>1, Invariant, PTL DEF Spec, SelectionStable

\* With nothing valid in otadata, or without otadata, factory is selected.
LEMMA NothingSelected ==
  ASSUME TypeInv, layout.otaInfo => \A k \in Sectors : ~OtaSelectValid(otadata[k])
  PROVE  Selected = FACTORY_INDEX
<1>1. CASE ~layout.otaInfo
  BY <1>1 DEF Selected
<1>2. CASE layout.otaInfo
  <2>1. \A k \in Sectors : ~OtaSelectValid(Settled(otadata)[k])
    BY <1>2, EntryFacts, SettledFacts DEF Counts
  <2>2. ActiveOtaData(Settled(otadata)) = -1
    BY <2>1 DEF ActiveOtaData, Sectors
  <2>3. Chosen(Settled(otadata), layout.apps) = FACTORY_INDEX
    BY <2>2 DEF Chosen
  <2> QED  BY <1>2, <2>3 DEF Selected, Selection, Settled
<1> QED  BY <1>1, <1>2

(* A factory reset that found otadata and whose erases worked sends the sweep to
   the factory app, whatever was recorded before (utility.rs 407-417). *)
THEOREM ResetForgets == Spec => []FactoryResetForgets
<1>1. Inv => FactoryResetForgets
  <2> SUFFICES ASSUME Inv, again, ~EraseMayFail, Wipes,
                      pc \in {"back", "fwd", "mark", "markwrite"}
               PROVE  start = FACTORY_INDEX
    BY DEF FactoryResetForgets
  <2>1. \A k \in Sectors : ~OtaSelectValid(otadata[k])
    BY DEF Inv, RecordInv, LoadInv
  <2>2. Selected = FACTORY_INDEX
    BY <2>1, NothingSelected DEF Inv
  <2> QED  BY <2>2 DEF Inv, RecordInv, StartInv, Aim
<1> QED  BY <1>1, Invariant, PTL

(* After a boot that has read otadata an application starts with no other pending record around than the one that
   names its own slot (utility.rs 335-379 and 460-481). *)
THEOREM PendingIsOwn == Spec => PendingNamesRunning
<1> DEFINE Own == \A k \in Sectors :
             OtaSelectValid(otadata'[k]) /\ otadata'[k].state = "PENDING_VERIFY"
               => otadata'[k].seq = running' + 1
<1>1. ASSUME Inv, [Next]_vars, ~EraseMayFail, layout.otaInfo, ~Blind, pc # "app", pc' = "app"
      PROVE  Own
  <2>1. pc \in {"test", "mark", "markwrite"} => NoPending
    BY <1>1 DEF Inv, RecordInv, LoadInv
  <2>2. CASE TryTestApp \/ MarkNothing \/ MarkEraseFails
    <3>1. otadata' = otadata /\ pc \in {"test", "mark"}
      BY <2>2 DEF TryTestApp, MarkNothing, MarkEraseFails, flash
    <3> QED  BY <2>1, <3>1 DEF NoPending
  <2>3. CASE MarkWrite
    <3>1. PICK e \in WriteOutcomes(BootRecord) : otadata' = [otadata EXCEPT ![sec] = e]
      BY <2>3 DEF MarkWrite
    <3>2. pc = "markwrite" /\ running' = i
      BY <2>3 DEF MarkWrite, Launch
    <3>3. sec \in Sectors /\ otadata \in [Sectors -> Entry] /\ BootRecord \in Entry
      BY <1>1, <3>2, EntryFacts DEF Inv
    <3>4. OtaSelectValid(e) => e.seq = running' + 1
      BY <3>2, <3>3, WriteOutcomeType DEF BootRecord, Sealed
    <3>5. \A k \in Sectors : otadata'[k] = otadata[k] \/ otadata'[k] = e
      BY <3>1, <3>3
    <3> QED  BY <2>1, <3>2, <3>4, <3>5 DEF NoPending
  <2> QED
    BY <1>1, <2>2, <2>3
    DEF Next, Misread, MapFails, ImageMapFails, BootStep, Select, Sweep, Mark, vars, ShellBoot, ShellReset, PowerLoss,
        Reset, LoadTable, TableInvalid, NoOtaData, ReadOtaData, AbortSkip, AbortErase,
        AbortEraseFails, AbortWrite, SelectSlot, SelectionDone, FactoryResetHeld,
        TestAppHeld, NoOverride, WipeSector, WipeDone, TestAppFails, TryLoads,
        BackNext, BackDone, FwdNext, GiveUp, MarkErase, AppWritesOtaData, AppWritesImage,
        AppEntry, AppPowerLoss
<1>2. Inv /\ [Next]_vars =>
        [~EraseMayFail /\ layout.otaInfo /\ ~Blind /\ pc # "app" /\ pc' = "app" => Own]_vars
  BY <1>1
<1> QED  BY <1>2, Invariant, PTL DEF Spec, PendingNamesRunning

----------------------------------------------------------------------------
(* A boot attempt ends: what every step has left before it is a natural number,
   and each step leaves less. *)

\* Where a selection that is done sends the boot.
LEMMA SelectionDoneLowers ==
  ASSUME NEW idx \in Parts, SelectionDone(idx), UNCHANGED <<again, unread, missed>>, again \in BOOLEAN,
         pc \in {"read", "abort"}, pc = "abort" => sec = 2
  PROVE  StepsLeft' \in 0 .. StepsLeft - 1
<1>1. MaxSlots \in Nat \ {0} /\ idx \in -2 .. (MaxSlots - 1)
  BY SlotAssumption DEF Parts
<1>2. CASE again
  BY <1>1, <1>2 DEF SelectionDone, StepsLeft
<1>3. CASE ~again
  BY <1>1, <1>3 DEF SelectionDone, StepsLeft
<1> QED  BY <1>2, <1>3

LEMMA StepLowers ==
  ASSUME TypeInv, Next, pc \notin {"app", "shell"}
  PROVE  StepsLeft' \in 0 .. StepsLeft - 1
<1> DEFINE Less == StepsLeft' \in 0 .. StepsLeft - 1
<1>0. /\ MaxSlots \in Nat \ {0} /\ sec \in 0 .. 2 /\ i \in -2 .. MaxSlots
      /\ start \in -2 .. (MaxSlots - 1)
      /\ pc \in {"back", "fwd"} => start >= -1
      /\ pc = "fwd" => i >= 0
      /\ layout.app_count \in 0 .. MaxSlots /\ pc \in BootPCs
      /\ pc = "abortwrite" => sec \in Sectors
  BY LayoutType, SlotAssumption DEF TypeInv, TypeOK, Indexes, Parts, PCs
<1>b. again \in BOOLEAN
  BY DEF TypeInv, TypeOK
<1> USE DEF maps, flash
<1>1. StepsLeft \in Nat \ {0}
  BY <1>0 DEF StepsLeft, BootPCs, Sectors
\* Steps that end the attempt.
<1>2. CASE pc' \in {"app", "shell"}
  <2>1. StepsLeft' = 0
    BY <1>2 DEF StepsLeft
  <2> QED  BY <1>1, <2>1
<1>3. CASE LoadTable \/ ReadOtaData \/ AbortSkip \/ AbortErase \/ AbortEraseFails
  <2>1. CASE LoadTable
    BY <1>0, <2>1 DEF LoadTable, ram, StepsLeft
  <2>2. CASE ReadOtaData
    BY <1>0, <2>2 DEF ReadOtaData, StepsLeft
  <2>3. CASE AbortSkip
    BY <1>0, <2>3 DEF AbortSkip, Sectors, StepsLeft
  <2>4. CASE AbortErase
    BY <1>0, <2>4 DEF AbortErase, Sectors, StepsLeft
  <2>5. CASE AbortEraseFails
    BY <1>0, <2>5 DEF AbortEraseFails, Sectors, StepsLeft
  <2> QED  BY <1>3, <2>1, <2>2, <2>3, <2>4, <2>5
<1>4. CASE AbortWrite
  BY <1>0, <1>4 DEF AbortWrite, Sectors, StepsLeft
<1>5. CASE NoOtaData
  <2>1. PICK idx \in Parts : SelectionDone(idx)
    BY <1>5, PartsType DEF NoOtaData
  <2>2. UNCHANGED <<again, unread, missed>> /\ pc \in {"read", "abort"} /\ pc # "abort"
    BY <1>5 DEF NoOtaData
  <2> QED  BY <1>b, <2>1, <2>2, SelectionDoneLowers
<1>6. CASE SelectSlot
  <2>1. Chosen(two, layout.apps) \in Parts
    BY LayoutType, ChosenType DEF TypeInv, TypeOK
  <2>2. UNCHANGED <<again, unread, missed>> /\ pc \in {"read", "abort"} /\ sec = 2
        /\ SelectionDone(Chosen(two, layout.apps))
    BY <1>6 DEF SelectSlot
  <2> QED  BY <1>b, <2>1, <2>2, SelectionDoneLowers
<1>7. CASE FactoryResetHeld \/ TestAppHeld \/ NoOverride
  <2>1. CASE FactoryResetHeld
    BY <1>0, <2>1 DEF FactoryResetHeld, StepsLeft
  <2>2. CASE TestAppHeld
    BY <1>0, <2>2 DEF TestAppHeld, StepsLeft
  <2>3. CASE NoOverride
    BY <1>0, <2>3 DEF NoOverride, StepsLeft
  <2> QED  BY <1>7, <2>1, <2>2, <2>3
<1>8. CASE WipeSector
  BY <1>0, <1>8 DEF WipeSector, Sectors, StepsLeft
<1>9. CASE WipeDone
  BY <1>0, <1>9 DEF WipeDone, StepsLeft
<1>10. CASE TestAppFails
  BY <1>0, <1>10 DEF TestAppFails, StepsLeft
<1>11. CASE TryLoads
  <2>1. pc \in {"back", "fwd"} /\ pc' = "mark" /\ i >= -1
        /\ (pc = "fwd" => i < MaxSlots)
    BY <1>0, <1>11 DEF TryLoads
  <2>2. StepsLeft' \in {2, 3}
    BY <2>1 DEF StepsLeft
  <2>3. StepsLeft \in Nat /\ StepsLeft > 3
    <3>1. CASE pc = "back"
      BY <1>0, <2>1, <3>1 DEF StepsLeft
    <3>2. CASE pc = "fwd"
      BY <1>0, <2>1, <3>2 DEF StepsLeft
    <3> QED  BY <2>1, <3>1, <3>2
  <2> QED  BY <2>2, <2>3
<1>12. CASE BackNext \/ BackDone
  <2>1. CASE BackNext
    BY <1>0, <2>1 DEF BackNext, StepsLeft
  <2>2. CASE BackDone
    BY <1>0, <2>2 DEF BackDone, StepsLeft
  <2> QED  BY <1>12, <2>1, <2>2
<1>13. CASE FwdNext
  BY <1>0, <1>13 DEF FwdNext, StepsLeft
<1>14. CASE MarkErase
  BY <1>14 DEF MarkErase, StepsLeft
<1>17. CASE MapFails
  <2>1. /\ pc \in ReadPCs /\ pc \notin unread /\ pc \in unread' /\ pc' = pc
        /\ UNCHANGED <<layout, sec, again, i, missed>>
    BY <1>17 DEF MapFails
  <2>2. pc \in {"table", "read", "wipe", "mark"}
    BY <2>1 DEF ReadPCs
  <2>3. CASE pc = "table"
    BY <1>0, <2>1, <2>3 DEF StepsLeft
  <2>4. CASE pc = "read"
    BY <1>0, <2>1, <2>4 DEF StepsLeft
  <2>5. CASE pc = "wipe"
    BY <1>0, <2>1, <2>5 DEF StepsLeft
  <2>6. CASE pc = "mark"
    BY <1>0, <2>1, <2>6 DEF StepsLeft
  <2> QED  BY <2>2, <2>3, <2>4, <2>5, <2>6
<1>18. CASE ImageMapFails
  <2>1. /\ pc \in {"test", "back", "fwd"} /\ pc' = pc
        /\ Candidate \notin missed /\ Candidate \in missed'
        /\ UNCHANGED <<layout, again, i, unread>>
    BY <1>18 DEF ImageMapFails
  <2>2. CASE pc = "test"
    BY <1>0, <2>1, <2>2 DEF StepsLeft, Candidate
  <2>3. CASE pc = "back"
    BY <1>0, <2>1, <2>3 DEF StepsLeft, Candidate
  <2>4. CASE pc = "fwd"
    BY <1>0, <2>1, <2>4 DEF StepsLeft, Candidate
  <2> QED  BY <2>1, <2>2, <2>3, <2>4
<1>15. CASE \/ ShellReset \/ TableInvalid \/ GiveUp \/ PowerLoss \/ AppPowerLoss
            \/ TryTestApp \/ MarkNothing \/ MarkEraseFails \/ MarkWrite
  BY <1>2, <1>15
  DEF ShellReset, TableInvalid, GiveUp, PowerLoss, AppPowerLoss, TryTestApp,
      MarkNothing, MarkEraseFails, MarkWrite, Reset, Launch
<1>16. CASE ShellBoot \/ AppWritesOtaData \/ AppWritesImage
  BY <1>16 DEF ShellBoot, AppWritesOtaData, AppWritesImage, AppEntry
<1> QED
  BY <1>3, <1>4, <1>5, <1>6, <1>7, <1>8, <1>9, <1>10, <1>11, <1>12, <1>13, <1>14,
     <1>15, <1>16, <1>17, <1>18
  DEF Next, Misread, BootStep, Select, Sweep, Mark

(* A boot attempt ends after at most 4 * MaxSlots + 30 steps, whatever the flash
   holds and whichever of its commands and reads fail (utility.rs 405-417, 443-629). *)
THEOREM AttemptEnds == Spec => BootBounded
<1>1. TypeInv /\ [Next]_vars =>
        [pc \notin {"app", "shell"} => StepsLeft' \in 0 .. StepsLeft - 1]_vars
  BY StepLowers
<1> QED  BY <1>1, InitTypeInv, NextTypeInv, PTL DEF Spec, BootBounded

----------------------------------------------------------------------------
(* The bootloader implements BootPolicy: every step maps to a step of the policy
   or leaves what the policy sees unchanged. *)
USE DEF Policy!Factory, Policy!Test, Policy!Choices, Policy!Any, Off

\* What the policy sees of the state.
Whole    == {p \in layout.apps : image[p].intact}
Bootable == {p \in Parts : Loadable(p)}
RunsNow  == IF pc = "app" THEN running ELSE Off

LEMMA SelectedType == TypeInv => Selected \in Policy!Choices
<1> SUFFICES ASSUME TypeInv PROVE Selected \in Policy!Choices
  OBVIOUS
<1>1. Settled(otadata) \in [Sectors -> Entry]
  BY EntryFacts, SettledFacts DEF Settled
<1>2. Chosen(Settled(otadata), layout.apps) \in FACTORY_INDEX .. (MaxSlots - 1)
  BY <1>1, EntryFacts, ChosenType, SlotAssumption DEF Parts
<1> QED  BY <1>2, SlotAssumption DEF Selected, Selection, Settled

LEMMA PartsAre == Parts = Policy!Any
  BY SlotAssumption DEF Parts

LEMMA SetsType ==
  TypeInv => /\ Whole \in SUBSET Policy!Any /\ Bootable \in SUBSET Whole
             /\ Blind \in BOOLEAN /\ missed \in SUBSET Policy!Any
<1> SUFFICES ASSUME TypeInv
             PROVE  /\ Whole \in SUBSET Policy!Any /\ Bootable \in SUBSET Whole
                    /\ Blind \in BOOLEAN /\ missed \in SUBSET Policy!Any
  OBVIOUS
<1>1. layout.apps \subseteq Parts /\ missed \subseteq Parts
  BY LayoutType DEF TypeInv, TypeOK
<1> HIDE DEF Policy!Any
<1> QED  BY <1>1, PartsAre DEF Whole, Bootable, Loadable, Blind

\* Who may start, and who has to be preferred.
LEMMA TriesAre ==
  ASSUME TypeInv, NEW p \in Parts
  PROVE  /\ Loads(p) => p \in Bootable \cup (Whole \cap missed)
         /\ p \in Bootable \ missed <=> ~Fails(p)
  BY DEF Loads, Fails, Loadable, Bootable, Whole

\* What a sweep from s finds first comes first in the policy's order.
LEMMA FoundIsFirst ==
  ASSUME TypeInv, NEW s \in FACTORY_INDEX .. (MaxSlots - 1), NEW p \in Parts,
         p >= FACTORY_INDEX, Loads(p), FoundFrom(s, p)
  PROVE  Policy!First(s, p)
<1>1. p \in (Bootable \cup (Whole \cap missed)) \cap Policy!Choices
  BY TriesAre, SlotAssumption DEF Parts
<1>2. ASSUME NEW q \in (Bootable \ missed) \cap Policy!Choices
      PROVE  Policy!Rank(s, p) <= Policy!Rank(s, q)
  <2>1. q \in Parts /\ q >= FACTORY_INDEX /\ ~Fails(q) /\ q \in Int
    BY <1>2, TriesAre, SlotAssumption DEF Parts
  <2>2. p \in Int /\ s \in Int /\ s >= FACTORY_INDEX
    BY SlotAssumption DEF Parts
  <2>3. CASE p <= s /\ NoneIn(p + 1, s)
    <3>1. ~(p + 1 <= q /\ q <= s)
      BY <2>1, <2>3 DEF NoneIn
    <3> QED  BY <2>1, <2>2, <2>3, <3>1 DEF Policy!Rank
  <2>4. CASE s < p /\ NoneIn(FACTORY_INDEX, p - 1)
    <3>1. ~(q <= p - 1)
      BY <2>1, <2>4 DEF NoneIn
    <3> QED  BY <2>1, <2>2, <2>4, <3>1 DEF Policy!Rank
  <2> QED  BY <2>3, <2>4 DEF FoundFrom
<1> QED  BY <1>1, <1>2 DEF Policy!First, Bootable, Whole

LEMMA InitPolicy == Init /\ TypeInv => Policy!PolicyInit
<1> SUFFICES ASSUME Init, TypeInv PROVE Policy!PolicyInit
  OBVIOUS
<1>1. pc = "shell" /\ unread = {} /\ missed = {}
  BY DEF Init
<1>2. Selected \in Policy!Choices /\ Whole \in SUBSET Policy!Any /\ Bootable \in SUBSET Whole
  BY SelectedType, SetsType
<1> QED  BY <1>1, <1>2 DEF Policy!PolicyInit, Whole, Bootable, Blind

LEMMA SameSets ==
  ASSUME UNCHANGED <<layout, image>> PROVE Whole' = Whole /\ Bootable' = Bootable
  BY SameImages DEF Whole, Bootable

\* A launch that starts the partition the sweep found.
LEMMA LaunchIsBoot ==
  ASSUME Inv, ~EraseMayFail, [Next]_vars, MarkNothing \/ MarkWrite
  PROVE  Policy!Boot \/ Policy!BootInsteadOfTest
<1>1. /\ pc \in {"mark", "markwrite"} /\ pc' = "app" /\ running' = i
      /\ UNCHANGED <<layout, image>> /\ unread' = {} /\ missed' = {}
  BY DEF MarkNothing, MarkWrite, Launch, ForgetRam, flash
<1>2. ASSUME MarkNothing PROVE Selected' = Selected
  BY <1>2 DEF MarkNothing, Selected, flash
<1>3. ASSUME MarkWrite PROVE Selected' = Selected
  BY <1>3, RecordKept DEF Inv
<1>4. Whole' = Whole /\ Bootable' = Bootable /\ Selected' = Selected
      /\ RunsNow = Off /\ RunsNow' = i /\ Blind' = FALSE
  BY <1>1, <1>2, <1>3, SameSets DEF RunsNow, Blind
<1>5. Loads(i) /\ FoundFrom(start, i) /\ i \in Parts
  BY <1>1 DEF Inv, SweepInv, TypeInv, Indexes
<1>6. Aim \in FACTORY_INDEX .. (MaxSlots - 1)
  <2>1. FACTORY_INDEX \in FACTORY_INDEX .. (MaxSlots - 1)
    BY SlotAssumption
  <2> QED  BY <2>1, SelectedType DEF Inv, Aim
<1>7. i \in Int /\ MaxSlots \in Nat \ {0}
  BY <1>5, SlotAssumption DEF Parts
<1>8. CASE start = Aim
  <2>1. i >= FACTORY_INDEX
    BY <1>5, <1>6, <1>7, <1>8 DEF FoundFrom
  <2>2. Policy!First(Aim, i) /\ i \in Policy!Choices
    BY <1>5, <1>6, <1>7, <1>8, <2>1, FoundIsFirst DEF Inv, Parts
  <2>3. Policy!First(IF Blind THEN Policy!Factory ELSE Selected, i)
    BY <2>2 DEF Aim
  <2> QED
    BY <1>1, <1>4, <2>2, <2>3 DEF Policy!Boot, Policy!NextBoot, Whole, Bootable, RunsNow
<1>9. CASE AppTestBuild /\ Fails(TEST_APP_INDEX) /\ start = FACTORY_INDEX
  <2>1. i >= FACTORY_INDEX /\ FACTORY_INDEX \in FACTORY_INDEX .. (MaxSlots - 1)
    BY <1>5, <1>7, <1>9 DEF FoundFrom
  <2>2. Policy!First(FACTORY_INDEX, i) /\ i \in Policy!Choices
    BY <1>5, <1>7, <1>9, <2>1, FoundIsFirst DEF Inv, Parts
  <2>3. TEST_APP_INDEX \notin Bootable \ missed
    BY <1>9, TriesAre, PartsType DEF Inv
  <2> QED
    BY <1>1, <1>4, <1>9, <2>2, <2>3
    DEF Policy!BootInsteadOfTest, Policy!NextBoot, Whole, Bootable, RunsNow
<1> QED  BY <1>1, <1>8, <1>9 DEF Inv, RecordInv, StartInv

LEMMA NextPolicy ==
  ASSUME Inv, Inv', ~EraseMayFail, [Next]_vars
  PROVE  [Policy!PolicyNext]_(Policy!policyVars)
<1>a. Selected \in Policy!Choices /\ TypeInv
  BY SelectedType DEF Inv
<1>b. TypeInv'
  BY DEF Inv
<1>c. (Selected \in Policy!Choices)'
  BY <1>b, SelectedType, PTL
<1>d. (/\ Whole \in SUBSET Policy!Any /\ Bootable \in SUBSET Whole
       /\ Blind \in BOOLEAN /\ missed \in SUBSET Policy!Any)'
  BY <1>b, SetsType, PTL
<1>0. /\ Selected \in Policy!Choices /\ Selected' \in Policy!Choices
      /\ Whole' \in SUBSET Policy!Any /\ Bootable' \in SUBSET Whole'
      /\ Blind' \in BOOLEAN /\ missed' \in SUBSET Policy!Any
  BY <1>a, <1>c, <1>d
<1> USE DEF Policy!policyVars, RunsNow
<1> DEFINE Same == Whole' = Whole /\ Bootable' = Bootable
<1>s. UNCHANGED <<layout, image>> => Same
  BY SameSets
\* Boot steps that neither read, reset nor launch: only a blind one moves the record.
<1>1. ASSUME pc \notin {"app", "wipe"}, pc' \notin {"app", "shell"},
             UNCHANGED <<layout, image, unread, missed>>
      PROVE  Policy!PolicyNext \/ UNCHANGED Policy!policyVars
  <2>1. Same /\ Blind' = Blind
    BY <1>1, <1>s DEF Blind
  <2>2. CASE Blind
    BY <1>0, <1>1, <2>1, <2>2 DEF Policy!Overwrite, Policy!PolicyNext, Whole, Bootable
  <2>3. CASE ~Blind
    <3>1. Selected' = Selected
      BY <1>1, <2>3, SelectedKept DEF Inv
    <3> QED  BY <1>1, <2>1, <3>1 DEF Whole, Bootable
  <2> QED  BY <2>2, <2>3
\* A factory reset, or a reset in the middle of one.
<1>2. ASSUME pc = "wipe", pc' # "app", UNCHANGED <<layout, image>>
      PROVE  Policy!FactoryReset
  <2>1. Same /\ FactoryResetBuild
    BY <1>2, <1>s DEF Inv, RecordInv, LoadInv
  <2> QED  BY <1>0, <1>2, <2>1 DEF Policy!FactoryReset, Whole, Bootable
\* Other resets.
<1>3. ASSUME pc \notin {"app", "wipe"}, Reset, UNCHANGED <<layout, image>>
      PROVE  Policy!GiveUp
  <2>1. Same /\ pc' = "shell" /\ unread' = {} /\ missed' = {}
    BY <1>3, <1>s DEF Reset, ForgetRam
  <2>2. Blind \/ StateTears \/ Selected' = Selected
    BY <1>3, SelectedKept DEF Inv
  <2>3. Blind' = FALSE
    BY <2>1 DEF Blind
  <2> QED
    BY <1>0, <1>3, <2>1, <2>2, <2>3 DEF Policy!GiveUp, Policy!NextBoot, Whole, Bootable
\* Reads that fail.
<1>4. CASE Misread
  <2>1. /\ pc # "app" /\ pc' = pc /\ UNCHANGED <<layout, image, otadata>>
    BY <1>4 DEF Misread, MapFails, ImageMapFails, ReadPCs, flash
  <2>2. Same /\ Selected' = Selected
    BY <2>1, <1>s DEF Selected
  <2> QED
    BY <1>0, <2>1, <2>2 DEF Policy!Misread, Policy!PolicyNext, Whole, Bootable
<1>5. CASE MarkNothing \/ MarkWrite
  BY <1>5, LaunchIsBoot DEF Policy!PolicyNext
<1>6. CASE TryTestApp
  <2>1. /\ pc = "test" /\ pc' = "app" /\ running' = TEST_APP_INDEX
        /\ UNCHANGED <<layout, image, otadata>> /\ Loads(TEST_APP_INDEX)
        /\ unread' = {} /\ missed' = {}
    BY <1>6 DEF TryTestApp, Launch, ForgetRam, flash
  <2>2. Same /\ Selected' = Selected /\ AppTestBuild /\ Blind' = FALSE
    BY <2>1, <1>s DEF Selected, Inv, RecordInv, LoadInv, Blind
  <2>3. TEST_APP_INDEX \in Bootable \cup (Whole \cap missed)
    BY <1>a, <2>1, TriesAre, PartsType
  <2> QED
    BY <2>1, <2>2, <2>3
    DEF Policy!BootTest, Policy!NextBoot, Policy!PolicyNext, Whole, Bootable
\* The application's turn.
<1>7. ASSUME pc = "app"
      PROVE  running \in Parts /\ running # Off /\ unread = {} /\ missed = {}
  BY <1>7, SlotAssumption DEF Inv, TypeInv, TypeOK, Indexes, Parts
<1>8. ASSUME pc = "app", Reset, UNCHANGED <<layout, image>>
      PROVE  Policy!Stop
  <2>1. Same /\ pc' = "shell" /\ unread' = {} /\ missed' = {}
    BY <1>8, <1>s DEF Reset, ForgetRam
  <2>2. Blind' = Blind /\ missed' = missed
    BY <1>7, <1>8, <2>1 DEF Blind
  <2> QED  BY <1>0, <1>7, <1>8, <2>1, <2>2 DEF Policy!Stop, Whole, Bootable
<1>9. CASE AppWritesOtaData \/ AppWritesImage
  <2>1. pc = "app" /\ pc' = "app" /\ UNCHANGED <<running, unread, missed>>
    BY <1>9 DEF AppWritesOtaData, AppWritesImage, AppEntry, ram
  <2>2. Blind' = Blind
    BY <2>1 DEF Blind
  <2> QED
    BY <1>0, <1>7, <2>1, <2>2 DEF Policy!AppUpdates, Policy!PolicyNext, Whole, Bootable
<1>10. CASE UNCHANGED vars
  <2>1. Same /\ Selected' = Selected /\ Blind' = Blind
    BY <1>10, <1>s DEF vars, Selected, Blind
  <2> QED  BY <1>10, <2>1 DEF vars, Whole, Bootable
<1>11. CASE ShellReset \/ TableInvalid \/ GiveUp \/ PowerLoss \/ AppPowerLoss
  <2>1. Reset /\ UNCHANGED <<layout, image>> /\ pc' # "app"
    BY <1>11 DEF ShellReset, TableInvalid, GiveUp, PowerLoss, AppPowerLoss, Reset, flash
  <2> QED  BY <1>2, <1>3, <1>8, <2>1 DEF Policy!PolicyNext
<1>12. CASE WipeSector \/ WipeDone
  BY <1>2, <1>12 DEF WipeSector, WipeDone, flash, Policy!PolicyNext
<1>13. CASE \/ ShellBoot \/ LoadTable \/ NoOtaData \/ ReadOtaData \/ AbortSkip
            \/ AbortErase \/ AbortWrite \/ SelectSlot \/ FactoryResetHeld
            \/ TestAppHeld \/ NoOverride \/ TestAppFails \/ TryLoads \/ BackNext
            \/ BackDone \/ FwdNext \/ MarkErase
  <2>1. pc \notin {"app", "wipe"} /\ pc' \notin {"app", "shell"}
        /\ UNCHANGED <<layout, image, unread, missed>>
    BY <1>13
    DEF ShellBoot, LoadTable, NoOtaData, ReadOtaData, AbortSkip, AbortErase, AbortWrite,
        SelectSlot, SelectionDone, FactoryResetHeld, TestAppHeld, NoOverride,
        TestAppFails, TryLoads, BackNext, BackDone, FwdNext, MarkErase, flash, ram, maps
  <2> QED  BY <1>1, <2>1
<1>14. CASE AbortEraseFails \/ MarkEraseFails
  BY <1>14 DEF AbortEraseFails, MarkEraseFails
<1> QED
  BY <1>4, <1>5, <1>6, <1>9, <1>10, <1>11, <1>12, <1>13, <1>14
  DEF Next, BootStep, Select, Sweep, Mark

(* On flash whose erases work, the bootloader implements the boot policy: what
   runs comes first in the recorded order, and between two runs of an
   application the record is kept (utility.rs 335-629). *)
THEOREM BootImplementsPolicy == ASSUME ~EraseMayFail PROVE Spec => ImplementsPolicy
<1>1. Inv /\ Init => Policy!PolicyInit
  BY InitPolicy DEF Inv
<1>2. Inv /\ Inv' /\ [Next]_vars => [Policy!PolicyNext]_(Policy!policyVars)
  BY NextPolicy
<1> QED
  BY <1>1, <1>2, InitInv, Invariant, PTL DEF Spec, ImplementsPolicy, Policy!PolicySpec

----------------------------------------------------------------------------
(* What holds of a boot whatever fails: the copy of otadata the selection works
   on, and the start index that comes out of it, do not depend on whether the
   flash took what was written to it. *)

CopyInv ==
  /\ pc \in {"abort", "abortwrite"} =>
       /\ layout.otaInfo /\ ~Blind
       /\ \A k \in Sectors : k < sec => two[k].state # "PENDING_VERIFY"
  /\ pc = "abortwrite" => two[sec].state # "PENDING_VERIFY"
  /\ pc = "gpio" => start = AsRead
  /\ pc = "test" => AppTestBuild
  /\ pc \in {"back", "fwd", "mark", "markwrite"} =>
       \/ start = AsRead
       \/ AppTestBuild /\ Fails(TEST_APP_INDEX) /\ start = FACTORY_INDEX

LEMMA ReadType == TypeInv => AsRead \in FACTORY_INDEX .. (MaxSlots - 1)
<1> SUFFICES ASSUME TypeInv PROVE AsRead \in FACTORY_INDEX .. (MaxSlots - 1)
  OBVIOUS
<1>1. Settled(two) \in [Sectors -> Entry]
  BY EntryFacts, SettledFacts DEF Settled
<1>2. Chosen(Settled(two), layout.apps) \in FACTORY_INDEX .. (MaxSlots - 1)
  BY <1>1, EntryFacts, ChosenType, SlotAssumption DEF Parts
<1> QED  BY <1>2, SlotAssumption DEF AsRead, Selection, Settled

LEMMA SameRead == ASSUME UNCHANGED <<layout, two>>, Blind' <=> Blind PROVE AsRead' = AsRead
  BY DEF AsRead

LEMMA NextCopyInv ==
  ASSUME TypeInv, CopyInv, [Next]_vars
  PROVE  CopyInv'
<1>1. CASE pc' \in {"shell", "app", "table", "read", "wipe"}
  BY <1>1 DEF CopyInv
<1>2. CASE UNCHANGED vars
  <2>1. UNCHANGED <<layout, image, two, start, pc, sec, unread, missed>>
    BY <1>2 DEF vars
  <2>2. AsRead' = AsRead /\ (Fails(TEST_APP_INDEX)' <=> Fails(TEST_APP_INDEX))
    BY <2>1, SameRead, SameTries DEF Blind
  <2> QED  BY <2>1, <2>2 DEF CopyInv, Blind
<1>3. CASE ReadOtaData
  BY <1>3 DEF ReadOtaData, CopyInv, Sectors, flash, maps, Blind
<1>4. CASE AbortSkip
  BY <1>4 DEF AbortSkip, CopyInv, Sectors, flash, maps, Blind
<1>5. CASE AbortErase \/ AbortEraseFails
  <2>1. /\ sec \in Sectors /\ pc = "abort" /\ UNCHANGED <<layout, unread>>
        /\ two' = [two EXCEPT ![sec] = Abort(two[sec])]
        /\ \/ pc' = "abortwrite" /\ sec' = sec
           \/ pc' = "abort" /\ sec' = sec + 1
    BY <1>5 DEF AbortErase, AbortEraseFails, flash, maps
  <2>2. /\ two'[sec].state # "PENDING_VERIFY"
        /\ \A k \in Sectors : k # sec => two'[k] = two[k]
    BY <2>1, EntryFacts, AbortType
  <2> QED  BY <2>1, <2>2 DEF CopyInv, Sectors, Blind
<1>6. CASE AbortWrite
  BY <1>6, EntryFacts DEF AbortWrite, CopyInv, Sectors, maps, Blind
<1>7. CASE SelectSlot
  <2>1. /\ pc = "abort" /\ sec = 2 /\ UNCHANGED <<layout, two, unread>>
        /\ start' = Chosen(two, layout.apps) /\ pc' \in {"gpio", "back"}
    BY <1>7 DEF SelectSlot, SelectionDone, flash, maps
  <2>2. layout.otaInfo /\ ~Blind /\ \A k \in Sectors : two[k].state # "PENDING_VERIFY"
    BY <2>1 DEF CopyInv, Sectors
  <2>3. Selection(two, layout.apps) = Chosen(two, layout.apps)
    BY <2>2, EntryFacts, SelectionSettled
  <2>4. start' = AsRead'
    BY <2>1, <2>2, <2>3 DEF AsRead, Blind
  <2> QED  BY <2>1, <2>4 DEF CopyInv
<1>8. CASE NoOtaData
  <2>1. (~layout.otaInfo \/ Blind) /\ UNCHANGED <<layout, unread>> /\ start' = FACTORY_INDEX
        /\ pc' \in {"gpio", "back"}
    BY <1>8 DEF NoOtaData, SelectionDone, flash, maps, Blind
  <2>2. start' = AsRead'
    BY <2>1 DEF AsRead, Blind
  <2> QED  BY <2>1, <2>2 DEF CopyInv
<1>9. CASE TestAppHeld
  BY <1>9 DEF TestAppHeld, CopyInv
<1>10. CASE TestAppFails
  <2>1. /\ pc = "test" /\ pc' = "back" /\ start' = FACTORY_INDEX
        /\ Fails(TEST_APP_INDEX) /\ UNCHANGED <<layout, image, missed>> /\ AppTestBuild
    BY <1>10 DEF TestAppFails, flash, maps, CopyInv
  <2> QED  BY <2>1, SameTries DEF CopyInv
<1>11. CASE \/ NoOverride \/ TryLoads \/ BackNext \/ BackDone \/ FwdNext \/ MarkErase
            \/ pc \in {"test", "back", "fwd", "mark"} /\ (MapFails \/ ImageMapFails)
  <2>1. /\ \/ /\ pc \in {"gpio", "back", "fwd", "mark"}
              /\ pc' \in {"back", "fwd", "mark", "markwrite"}
           \/ pc = "test" /\ pc' = "test"
        /\ UNCHANGED <<layout, image, two, start>> /\ missed \subseteq missed'
    BY <1>11
    DEF NoOverride, TryLoads, BackNext, BackDone, FwdNext, MarkErase, MapFails,
        ImageMapFails, flash, ram, maps
  <2>2. Blind' <=> Blind
    BY <1>11
    DEF NoOverride, TryLoads, BackNext, BackDone, FwdNext, MarkErase, MapFails,
        ImageMapFails, ReadPCs, ram, maps, Blind
  <2>3. AsRead' = AsRead /\ (Fails(TEST_APP_INDEX) => Fails(TEST_APP_INDEX)')
    BY <2>1, <2>2, SameRead, MoreMissed
  <2> QED  BY <2>1, <2>3 DEF CopyInv
<1>13. CASE pc \notin {"test", "back", "fwd", "mark"} /\ (MapFails \/ ImageMapFails)
  BY <1>1, <1>13 DEF MapFails, ImageMapFails, ReadPCs
<1>12. CASE \/ ShellBoot \/ ShellReset \/ LoadTable \/ TableInvalid \/ FactoryResetHeld
            \/ WipeSector \/ WipeDone \/ TryTestApp \/ GiveUp \/ MarkNothing
            \/ MarkEraseFails \/ MarkWrite \/ PowerLoss \/ AppPowerLoss
            \/ AppWritesOtaData \/ AppWritesImage
  BY <1>1, <1>12
  DEF ShellBoot, ShellReset, LoadTable, TableInvalid, FactoryResetHeld, WipeSector,
      WipeDone, TryTestApp, GiveUp, MarkNothing, MarkEraseFails, MarkWrite, PowerLoss,
      AppPowerLoss, AppWritesOtaData, AppWritesImage, AppEntry, Reset, Launch
<1> QED
  BY <1>2, <1>3, <1>4, <1>5, <1>6, <1>7, <1>8, <1>9, <1>10, <1>11, <1>12, <1>13
  DEF Next, Misread, BootStep, Select, Sweep, Mark

BootInv == TypeInv /\ SweepInv /\ CopyInv

LEMMA BootInvariant == Spec => []BootInv
<1>1. Init => BootInv
  <2> SUFFICES ASSUME Init PROVE BootInv
    OBVIOUS
  <2>1. pc = "shell"
    BY DEF Init
  <2> QED  BY <2>1, InitTypeInv DEF BootInv, SweepInv, CopyInv
<1>2. BootInv /\ [Next]_vars => BootInv'
  BY NextTypeInv, NextSweepInv, NextCopyInv DEF BootInv
<1> QED  BY <1>1, <1>2, PTL DEF Spec

\* How an application comes to run.
LEMMA LaunchSteps ==
  ASSUME Next, pc # "app", pc' = "app"
  PROVE  \/ TryTestApp
         \/ pc \in {"mark", "markwrite"} /\ running' = i
  BY DEF Next, Misread, MapFails, ImageMapFails, BootStep, Select, Sweep, Mark, ShellBoot, ShellReset, PowerLoss,
      Reset, LoadTable, TableInvalid, NoOtaData, ReadOtaData, AbortSkip, AbortErase,
      AbortEraseFails, AbortWrite, SelectSlot, SelectionDone, FactoryResetHeld,
      TestAppHeld, NoOverride, WipeSector, WipeDone, TestAppFails, TryLoads,
      BackNext, BackDone, FwdNext, GiveUp, MarkErase, AppWritesOtaData, AppWritesImage,
      AppEntry, AppPowerLoss, MarkNothing, MarkEraseFails, MarkWrite, Launch

(* On flash that fails too, its reads included, a boot runs what comes first in the
   order of the record it has read, and of the partitions it could read (utility.rs
   443-508, 603-628). *)
THEOREM BootFollowsCopy == Spec => LaunchesFirst
<1> DEFINE Right ==
      \/ AppTestBuild /\ Loads(TEST_APP_INDEX) /\ running' = TEST_APP_INDEX
      \/ Policy!First(AsRead, running')
      \/ /\ AppTestBuild /\ Fails(TEST_APP_INDEX)
         /\ Policy!First(FACTORY_INDEX, running')
<1>1. ASSUME BootInv, Next, pc # "app", pc' = "app" PROVE Right
  <2>1. CASE TryTestApp
    BY <1>1, <2>1 DEF TryTestApp, Launch, BootInv, CopyInv
  <2>2. CASE pc \in {"mark", "markwrite"} /\ running' = i
    <3>1. Loads(i) /\ FoundFrom(start, i) /\ i \in Parts /\ i \in Int /\ MaxSlots \in Nat \ {0}
      BY <1>1, <2>2, SlotAssumption DEF BootInv, SweepInv, TypeInv, Indexes, Parts
    <3>2. AsRead \in FACTORY_INDEX .. (MaxSlots - 1)
      BY <1>1, ReadType DEF BootInv
    <3>3. CASE start = AsRead
      <4>1. i >= FACTORY_INDEX
        BY <3>1, <3>2, <3>3 DEF FoundFrom
      <4>2. Policy!First(AsRead, i)
        BY <1>1, <3>1, <3>2, <3>3, <4>1, FoundIsFirst DEF BootInv
      <4> QED  BY <2>2, <4>2
    <3>4. CASE AppTestBuild /\ Fails(TEST_APP_INDEX) /\ start = FACTORY_INDEX
      <4>1. i >= FACTORY_INDEX /\ FACTORY_INDEX \in FACTORY_INDEX .. (MaxSlots - 1)
        BY <3>1, <3>4 DEF FoundFrom
      <4>2. Policy!First(FACTORY_INDEX, i)
        BY <1>1, <3>1, <3>4, <4>1, FoundIsFirst DEF BootInv
      <4> QED  BY <2>2, <3>4, <4>2
    <3> QED  BY <1>1, <2>2, <3>3, <3>4 DEF BootInv, CopyInv
  <2> QED  BY <1>1, <2>1, <2>2, LaunchSteps
<1>2. BootInv /\ [Next]_vars => [pc # "app" /\ pc' = "app" => Right]_vars
  BY <1>1
<1> QED  BY <1>2, BootInvariant, PTL DEF Spec, LaunchesFirst

(* A device that holds a bootable partition is not reset by its own bootloader,
   unless the table or all of the bootable partitions could not be read (utility.rs
   603-628, partition.rs 193-196, main.rs 88-90). *)
THEOREM BootStrandsNobody == Spec => NeverStranded
<1>1. ASSUME BootInv, BootStep, Startable # {}, pc' = "shell"
      PROVE  "table" \in unread \/ Startable \subseteq missed
  <2>1. TableInvalid \/ GiveUp
    BY <1>1
    DEF BootStep, Select, Sweep, Mark, ShellBoot, LoadTable, NoOtaData, ReadOtaData,
      AbortSkip, AbortErase, AbortEraseFails, AbortWrite, SelectSlot, SelectionDone,
      FactoryResetHeld, TestAppHeld, NoOverride, WipeSector, WipeDone, TryTestApp,
      TestAppFails, TryLoads, BackNext, BackDone, FwdNext, MarkErase, MarkNothing,
      MarkEraseFails, MarkWrite, Launch
  <2>2. CASE TableInvalid
    BY <1>1, <2>2 DEF TableInvalid, Startable
  <2>3. CASE GiveUp
    <3>1. NothingLeftOut
      BY <1>1, SweepCovers DEF BootInv
    <3> QED  BY <2>3, <3>1 DEF GiveUp, NothingLeftOut, Startable, Fails
  <2> QED  BY <2>1, <2>2, <2>3
<1>2. BootInv /\ [Next]_vars =>
        [Startable # {} /\ BootStep /\ pc' = "shell" =>
           "table" \in unread \/ Startable \subseteq missed]_vars
  <2> SUFFICES ASSUME BootInv
               PROVE  Startable # {} /\ BootStep /\ pc' = "shell" =>
                        "table" \in unread \/ Startable \subseteq missed
    OBVIOUS
  <2> QED  BY <1>1
<1> QED  BY <1>2, BootInvariant, PTL DEF Spec, NeverStranded
=============================================================================
