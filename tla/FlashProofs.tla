----------------------------- MODULE FlashProofs -----------------------------
(***************************************************************************)
(* Proofs about SpiFlash and FlashRead, for every set of chips, of registers *)
(* left behind, of sectors, of ranges and of applications.                  *)
(***************************************************************************)
EXTENDS FlashRead, Division, SequenceTheorems

----------------------------------------------------------------------------
(* The chip and its identification. *)

LEMMA ChipFacts ==
  ASSUME NEW c \in Chips
  PROVE  /\ c.mf \in Byte /\ c.type \in Byte /\ c.cap \in Byte
         /\ c.qe_sr \in {1, 2} /\ c.qe_bit \in Bits /\ c.bp \in SUBSET Bits
         /\ c.locked \in BOOLEAN
  BY ChipAssumption DEF Chip

\* The callers of read_flash_id see the capacity byte.
LEMMA CapacityForManufacturer ==
  ASSUME chip \in Chips PROVE MfId = chip.cap
<1>1. chip.mf \in Byte /\ chip.type \in Byte /\ chip.cap \in Byte
  BY ChipFacts
<1>2. \A m, t, c \in Byte : (m * 65536 + t * 256 + c) % 256 = c
  <2> TAKE m, t, c \in Byte
  <2>1. m \in Nat /\ t \in Nat /\ c \in 0 .. 255
    BY DEF Byte
  <2>2. PICK q \in Nat : q = m * 256 + t
    BY <2>1
  <2>3. m * 65536 + t * 256 + c = 256 * q + c
    BY <2>1, <2>2
  <2> QED  BY <2>1, <2>3
<1> QED  BY <1>1, <1>2 DEF MfId, ReadFlashId

----------------------------------------------------------------------------
(* A step of the driver, or one that only moves among idle, read and app. *)

Reading ==
  /\ pc \in {"idle", "read"} /\ pc' \in {"idle", "read", "app"}
  /\ UNCHANGED <<chip, sr1, sr2, wel, busy, mode, quad, write, polled, done, dest, mem, said>>

LEMMA FlashSteps ==
  ASSUME [FlashNext]_flashVars PROVE [SpiNext]_spiVars \/ Reading
<1>1. CASE UNCHANGED flashVars
  BY <1>1 DEF flashVars
<1>2. CASE (InitStep \/ EraseSector \/ FlashWrite \/ ChipReady) /\ UNCHANGED readVars
  BY <1>2 DEF SpiNext
<1>3. CASE Restart /\ ForgetReads
  BY <1>3 DEF SpiNext
<1>4. CASE MmapRaw \/ Munmap \/ ReadWord
  BY <1>4 DEF MmapRaw, Munmap, ReadWord
<1>5. CASE MmapCached
  BY <1>5 DEF MmapCached, Reading
<1>6. CASE ReadDone
  BY <1>6 DEF ReadDone, Reading
<1>7. CASE StartApp
  BY <1>7 DEF StartApp, Reading
<1> QED  BY <1>1, <1>2, <1>3, <1>4, <1>5, <1>6, <1>7 DEF FlashNext, ReadStep

----------------------------------------------------------------------------
(* Types, and which commands the chip is ready for. *)

\* A write of the registers is enabled when it is sent, and writing is disabled
\* whenever the driver returns to its caller.
LatchInv ==
  /\ SpiTypeOK
  /\ busy => pc = "poll"
  /\ pc = "wrsr" => wel
  /\ pc \in {"program", "idle", "read", "app"} => ~wel

LEMMA InitLatch == ReadInit => LatchInv
<1> SUFFICES ASSUME SpiInit PROVE LatchInv
  BY DEF ReadInit
<1>1. wel \in BOOLEAN /\ busy \in BOOLEAN /\ quad \in BOOLEAN
  BY DEF SpiInit, PowerUp
<1>2. sr1 \in SUBSET Bits /\ sr2 \in SUBSET Bits /\ dest \in Sectors
  BY ChipAssumption DEF SpiInit, PowerUp
<1>3. write \in Writes
  BY DEF SpiInit, NoWrite, Writes
<1> QED  BY <1>1, <1>2, <1>3 DEF SpiInit, PowerUp, LatchInv, SpiTypeOK

\* What a command does to a chip that listens.
LEMMA CommandHeard ==
  ASSUME SpiTypeOK, ~busy, NEW cmd \in {"WREN", "WRDI", "WRSR"}, Command(cmd)
  PROVE  /\ wel' \in BOOLEAN /\ busy' \in BOOLEAN
         /\ sr1' \in SUBSET Bits /\ sr2' \in SUBSET Bits
         /\ cmd = "WREN" => wel' /\ ~busy' /\ sr1' = sr1 /\ sr2' = sr2
         /\ cmd = "WRDI" => ~wel' /\ ~busy' /\ sr1' = sr1 /\ sr2' = sr2
         /\ cmd = "WRSR" /\ wel => ~wel'
<1>1. CASE cmd = "WREN"
  <2>1. wel' = TRUE /\ sr1' = sr1 /\ sr2' = sr2 /\ busy' = busy
    BY <1>1 DEF Command
  <2> QED  BY <2>1, <1>1 DEF SpiTypeOK
<1>2. CASE cmd = "WRDI"
  <2>1. wel' = FALSE /\ sr1' = sr1 /\ sr2' = sr2 /\ busy' = busy
    BY <1>2 DEF Command
  <2> QED  BY <2>1, <1>2 DEF SpiTypeOK
<1>3. CASE cmd = "WRSR"
  <2>1. /\ busy' = wel /\ wel' = FALSE
        /\ sr1' = IF wel /\ ~chip.locked /\ write.cmd # "sr2" THEN write.sr1 ELSE sr1
        /\ sr2' = IF wel /\ ~chip.locked /\ write.cmd # "sr1" THEN write.sr2 ELSE sr2
    BY <1>3 DEF Command
  <2>2. write.sr1 \in SUBSET Bits /\ write.sr2 \in SUBSET Bits
    BY DEF SpiTypeOK, Writes
  <2> QED  BY <2>1, <2>2, <1>3 DEF SpiTypeOK
<1> QED  BY <1>1, <1>2, <1>3

LEMMA NextLatch == LatchInv /\ [SpiNext]_spiVars => LatchInv'
<1> SUFFICES ASSUME LatchInv, [SpiNext]_spiVars PROVE LatchInv'
  OBVIOUS
<1> USE DEF LatchInv, Goto
<1>0. SpiTypeOK
  OBVIOUS
<1>1. CASE UNCHANGED spiVars
  BY <1>1 DEF spiVars, SpiTypeOK
<1>2. CASE Resume \/ CheckMode \/ Configure \/ Poll
  BY <1>2 DEF Resume, CheckMode, Configure, Poll, Rest, SpiTypeOK
<1>3. CASE Unlock
  <2>1. sr1 \in SUBSET Bits /\ sr2 \in SUBSET Bits
    BY DEF SpiTypeOK
  <2>2. write' \in Writes
    BY <1>3, <2>1 DEF Unlock, Writes
  <2>3. /\ pc = "unlock" /\ pc' \in {"wren", "wrdi"} /\ polled' = "wrdi"
        /\ UNCHANGED <<sr1, sr2, wel, busy, done, chip, mode, quad, dest, mem, said>>
    BY <1>3 DEF Unlock, Rest
  <2> QED  BY <2>2, <2>3 DEF SpiTypeOK
<1>4. CASE WriteEnable
  <2>1. /\ pc = "wren" /\ pc' = "wrsr" /\ Command("WREN")
        /\ UNCHANGED <<write, polled, done, chip, mode, quad, dest, mem, said>>
    BY <1>4 DEF WriteEnable, Rest
  <2>2. ~busy
    BY <2>1
  <2>3. /\ wel' \in BOOLEAN /\ busy' \in BOOLEAN /\ wel' /\ ~busy'
        /\ sr1' \in SUBSET Bits /\ sr2' \in SUBSET Bits
    BY <2>1, <2>2, CommandHeard
  <2> QED  BY <2>1, <2>3 DEF SpiTypeOK
<1>5. CASE WriteStatus
  <2>1. /\ pc = "wrsr" /\ pc' = "poll" /\ Command("WRSR")
        /\ UNCHANGED <<write, polled, done, chip, mode, quad, dest, mem, said>>
    BY <1>5 DEF WriteStatus, Rest
  <2>2. ~busy
    BY <2>1
  <2>3. /\ wel' \in BOOLEAN /\ busy' \in BOOLEAN
        /\ sr1' \in SUBSET Bits /\ sr2' \in SUBSET Bits
    BY <2>1, <2>2, CommandHeard
  <2> QED  BY <2>1, <2>3 DEF SpiTypeOK
<1>6. CASE WriteDisable \/ Protect
  <2>1. /\ pc \in {"wrdi", "protect"} /\ Command("WRDI")
        /\ pc' \in {"mode", "config", "program", "idle"} /\ write' \in Writes
        /\ UNCHANGED <<polled, done, chip, mode, quad, dest, mem, said>>
    BY <1>6 DEF WriteDisable, Protect, Rest, SpiTypeOK, NoWrite, Writes
  <2>2. ~busy
    BY <2>1
  <2>3. /\ wel' \in BOOLEAN /\ busy' \in BOOLEAN /\ ~wel' /\ ~busy'
        /\ sr1' \in SUBSET Bits /\ sr2' \in SUBSET Bits
    BY <2>1, <2>2, CommandHeard
  <2> QED  BY <2>1, <2>3 DEF SpiTypeOK
<1>7. CASE EnableQio
  <2>1. /\ sr1 \in SUBSET Bits /\ sr2 \in SUBSET Bits /\ QeBit(MfId) \in Bits
    BY DEF SpiTypeOK, QeBit, Bits
  <2>2. write' \in Writes
    <3>1. \A s \in SUBSET Bits : s \cup {QeBit(MfId)} \in SUBSET Bits
      BY <2>1
    <3>2. \A s \in SUBSET Bits :
            /\ [NoWrite EXCEPT !.sr1 = s] \in Writes
            /\ [NoWrite EXCEPT !.cmd = "sr2", !.sr2 = s] \in Writes
      BY DEF NoWrite, Writes
    <3>3. \/ write' = write
          \/ write' = [NoWrite EXCEPT !.sr1 = sr1 \cup {QeBit(MfId)}]
          \/ write' = [NoWrite EXCEPT !.cmd = "sr2", !.sr2 = sr2 \cup {QeBit(MfId)}]
      BY <1>7 DEF EnableQio, QeSr
    <3>4. write \in Writes
      BY DEF SpiTypeOK
    <3> QED  BY <2>1, <3>1, <3>2, <3>3, <3>4
  <2>3. /\ pc = "qe" /\ pc' \in {"quad", "wren"} /\ polled' = "quad" /\ done' = "config"
        /\ UNCHANGED <<sr1, sr2, wel, busy, chip, mode, quad, dest, mem, said>>
    BY <1>7 DEF EnableQio, Rest
  <2> QED  BY <2>2, <2>3 DEF SpiTypeOK
<1>8. CASE SetQuad
  BY <1>8 DEF SetQuad, SpiTypeOK
<1>12. CASE ChipReady
  BY <1>12 DEF ChipReady, SpiTypeOK
<1>9. CASE EraseSector \/ Program
  <2>1. PICK s \in Sectors, to \in {"erased", "written"} : RomCommand(s, to)
    BY <1>9 DEF EraseSector, Program, SpiTypeOK
  <2>2. /\ mem' \in [Sectors -> {"erased", "written", "other"}]
        /\ said' \in [Sectors -> {"erased", "written", "other"}]
    BY <2>1 DEF RomCommand, SpiTypeOK
  <2>3. /\ pc \in {"idle", "program"} /\ pc' = "idle" /\ dest' \in Sectors
        /\ UNCHANGED <<chip, sr1, sr2, wel, busy, mode, quad, write, polled, done>>
    BY <1>9, ChipAssumption DEF EraseSector, Program, SpiTypeOK
  <2> QED  BY <2>2, <2>3 DEF SpiTypeOK
<1>10. CASE FlashWrite
  BY <1>10 DEF FlashWrite, SpiTypeOK
<1>11. CASE Restart
  <2>1. /\ sr1' \in SUBSET Bits /\ sr2' \in SUBSET Bits
        /\ mem' \in [Sectors -> {"erased", "written", "other"}] /\ said' = mem'
    BY <1>11, ChipAssumption DEF Restart, SpiTypeOK
  <2>2. /\ wel' \in BOOLEAN /\ quad' = FALSE /\ mode' \in Modes
        /\ pc \in {"idle", "app"} /\ pc' = "resume"
        /\ UNCHANGED <<chip, busy, write, polled, done, dest>>
    BY <1>11, Zenon DEF Restart
  <2> QED  BY <2>1, <2>2 DEF SpiTypeOK
<1> QED  BY <1>1, <1>2, <1>3, <1>4, <1>5, <1>6, <1>7, <1>8, <1>9, <1>10, <1>11,
         <1>12 DEF SpiNext, InitStep

LEMMA NextLatchFlash == LatchInv /\ [FlashNext]_flashVars => LatchInv'
<1> SUFFICES ASSUME LatchInv, [FlashNext]_flashVars PROVE LatchInv'
  OBVIOUS
<1>1. CASE [SpiNext]_spiVars
  BY <1>1, NextLatch
<1>2. CASE Reading
  BY <1>2 DEF Reading, LatchInv, SpiTypeOK
<1> QED  BY <1>1, <1>2, FlashSteps

LEMMA AlwaysLatch == FlashSpec => []LatchInv
<1> QED  BY InitLatch, NextLatchFlash, PTL DEF FlashSpec

(* No command is sent to a chip that is still writing its registers
   (flash.rs 454, 670), and the driver returns to its callers with writing
   disabled (flash.rs 729), whatever chip it is. *)
THEOREM NoCommandLost == FlashSpec => []CommandsHeard
<1>1. LatchInv => CommandsHeard
  BY DEF LatchInv, CommandsHeard
<1> QED  BY <1>1, AlwaysLatch, PTL

----------------------------------------------------------------------------
(* Protection and the quad enable bit. *)

\* The status registers once the write in preparation is through.
New1 == IF write.cmd # "sr2" THEN write.sr1 ELSE sr1
New2 == IF write.cmd # "sr1" THEN write.sr2 ELSE sr2

\* Unlocking clears every protection bit of the chips in use.
UnlockClears == \A c \in Chips : c.bp \cap Kept1(c.cap) = {}

\* Between the unlocking of the chip and the next restart nothing is protected,
\* and no write that could bring protection back is on its way.
ProtectionInv ==
  ~chip.locked =>
    /\ pc \notin {"resume", "unlock", "wren", "wrsr"} => ~Protected
    /\ pc \in {"wren", "wrsr"} => New1 \cap chip.bp = {}
    /\ ResultsTrue

\* What WRSR leaves in the registers of a chip that listens.
LEMMA WriteTakes ==
  ASSUME LatchInv, WriteStatus, ~chip.locked
  PROVE  sr1' = New1 /\ sr2' = New2
<1>1. wel /\ ~busy /\ Command("WRSR")
  BY DEF WriteStatus, LatchInv
<1> QED  BY <1>1 DEF Command, New1, New2

\* What commands leave of the registers.
LEMMA RegistersKept ==
  ASSUME LatchInv, WriteEnable \/ WriteDisable \/ Protect
  PROVE  sr1' = sr1 /\ sr2' = sr2
<1>1. ~busy /\ (Command("WREN") \/ Command("WRDI"))
  BY DEF WriteEnable, WriteDisable, Protect, LatchInv
<1>2. SpiTypeOK
  BY DEF LatchInv
<1> QED  BY <1>1, <1>2, CommandHeard

\* What Unlock and EnableQio prepare.
LEMMA UnlockPrepares ==
  ASSUME LatchInv, Unlock
  PROVE  /\ New1' = sr1 \cap Kept1(chip.cap)
         /\ New2' = sr2 \cap {1}
         /\ pc' = "wrdi" => sr1 = sr1 \cap Kept1(chip.cap)
         /\ pc' \in {"wren", "wrdi"} /\ polled' = "wrdi"
         /\ UNCHANGED <<sr1, sr2, chip, quad, mem, said>>
<1>1. MfId = chip.cap
  BY CapacityForManufacturer DEF LatchInv, SpiTypeOK
<1>2. write' = [cmd |-> IF sr2 \cap {1} # sr2 THEN "both" ELSE "sr1",
                sr1 |-> sr1 \cap Kept1(chip.cap), sr2 |-> sr2 \cap {1}]
  BY <1>1 DEF Unlock
<1>3. UNCHANGED <<sr1, sr2, chip, quad, mem, said>> /\ polled' = "wrdi"
  BY DEF Unlock, Rest
<1>4. /\ pc' \in {"wren", "wrdi"}
      /\ pc' = "wrdi" => sr1 = sr1 \cap Kept1(chip.cap) /\ sr2 = sr2 \cap {1}
  BY <1>1 DEF Unlock, Goto
<1> QED  BY <1>2, <1>3, <1>4 DEF New1, New2

LEMMA EnablePrepares ==
  ASSUME LatchInv, EnableQio
  PROVE  /\ UNCHANGED <<sr1, sr2, chip, quad, mem, said>> /\ polled' = "quad"
         /\ \/ /\ pc' = "quad"
               /\ QeBit(chip.cap) \in (IF QeSr(chip.cap) = 1 THEN sr1 ELSE sr2)
            \/ /\ pc' = "wren" /\ QeSr(chip.cap) = 1
               /\ New1' = sr1 \cup {QeBit(chip.cap)} /\ New2' = sr2
            \/ /\ pc' = "wren" /\ QeSr(chip.cap) = 2
               /\ New1' = sr1 /\ New2' = sr2 \cup {QeBit(chip.cap)}
<1>1. MfId = chip.cap
  BY CapacityForManufacturer DEF LatchInv, SpiTypeOK
<1>2. UNCHANGED <<sr1, sr2, chip, quad, mem, said>> /\ polled' = "quad"
  BY DEF EnableQio, Rest
<1>3. QeSr(chip.cap) \in {1, 2}
  BY DEF QeSr
<1>4. CASE QeBit(chip.cap) \in (IF QeSr(chip.cap) = 1 THEN sr1 ELSE sr2)
  BY <1>1, <1>2, <1>4 DEF EnableQio, Goto
<1>5. CASE QeBit(chip.cap) \notin (IF QeSr(chip.cap) = 1 THEN sr1 ELSE sr2)
  <2>1. /\ pc' = "wren"
        /\ write' = IF QeSr(chip.cap) = 1
                      THEN [NoWrite EXCEPT !.sr1 = sr1 \cup {QeBit(chip.cap)}]
                      ELSE [NoWrite EXCEPT !.cmd = "sr2", !.sr2 = sr2 \cup {QeBit(chip.cap)}]
    BY <1>1, <1>5 DEF EnableQio, Goto
  <2>2. CASE QeSr(chip.cap) = 1
    <3>1. write'.cmd = "sr1" /\ write'.sr1 = sr1 \cup {QeBit(chip.cap)}
      BY <2>1, <2>2 DEF NoWrite
    <3> QED  BY <1>2, <2>1, <2>2, <3>1 DEF New1, New2
  <2>3. CASE QeSr(chip.cap) = 2
    <3>1. write'.cmd = "sr2" /\ write'.sr2 = sr2 \cup {QeBit(chip.cap)}
      BY <2>1, <2>3 DEF NoWrite
    <3> QED  BY <1>2, <2>1, <2>3, <3>1 DEF New1, New2
  <2> QED  BY <1>3, <2>2, <2>3
<1> QED  BY <1>4, <1>5

LEMMA InitProtection == ReadInit => ProtectionInv
  BY DEF ReadInit, SpiInit, PowerUp, ProtectionInv, ResultsTrue

LEMMA NextProtection ==
  ASSUME UnlockClears, LatchInv, ProtectionInv, [SpiNext]_spiVars
  PROVE  ProtectionInv'
<1> USE DEF Goto, Protected
<1>0. chip' = chip /\ chip \in Chips /\ chip.bp \cap Kept1(chip.cap) = {}
  <2>1. [SpiNext]_spiVars => chip' = chip
    BY DEF SpiNext, InitStep, spiVars, Resume, Unlock, WriteEnable, WriteStatus, Poll,
           WriteDisable, CheckMode, EnableQio, SetQuad, Configure, Protect, Program,
           EraseSector, FlashWrite, ChipReady, Restart, Rest
  <2> QED  BY <2>1 DEF UnlockClears, LatchInv, SpiTypeOK
<1> SUFFICES ASSUME ~chip.locked
             PROVE  /\ pc' \notin {"resume", "unlock", "wren", "wrsr"} => ~Protected'
                    /\ pc' \in {"wren", "wrsr"} => New1' \cap chip.bp = {}
                    /\ ResultsTrue'
  BY <1>0 DEF ProtectionInv
<1>a. /\ pc \notin {"resume", "unlock", "wren", "wrsr"} => ~Protected
      /\ pc \in {"wren", "wrsr"} => New1 \cap chip.bp = {}
      /\ \A s \in Sectors : said[s] # "other" => mem[s] = said[s]
  BY DEF ProtectionInv, ResultsTrue
<1>b. UNCHANGED <<mem, said>> => ResultsTrue'
  BY <1>a DEF ResultsTrue
<1>1. CASE UNCHANGED spiVars
  BY <1>1, <1>a, <1>b DEF spiVars, New1
<1>2. CASE Resume \/ CheckMode \/ Configure \/ Poll \/ FlashWrite \/ ChipReady \/ SetQuad
  <2>1. /\ UNCHANGED <<sr1, write, mem, said>>
        /\ pc \in {"wren", "wrsr"} <=> pc' \in {"wren", "wrsr"}
        /\ pc \in {"resume", "unlock"} => pc' \in {"resume", "unlock"}
    BY <1>2 DEF Resume, CheckMode, Configure, Poll, FlashWrite, ChipReady, SetQuad, Rest,
                LatchInv, SpiTypeOK
  <2> QED  BY <2>1, <1>0, <1>a, <1>b DEF New1
<1>3. CASE Unlock
  BY <1>3, <1>0, <1>b, UnlockPrepares
<1>4. CASE WriteEnable
  <2>1. pc = "wren" /\ pc' = "wrsr" /\ UNCHANGED <<write, mem, said>>
    BY <1>4 DEF WriteEnable, Rest
  <2>2. sr1' = sr1
    BY <1>4, RegistersKept
  <2> QED  BY <2>1, <2>2, <1>a, <1>b DEF New1
<1>5. CASE WriteStatus
  <2>1. pc = "wrsr" /\ pc' = "poll" /\ UNCHANGED <<mem, said>>
    BY <1>5 DEF WriteStatus, Rest
  <2> QED  BY <1>5, <2>1, <1>0, <1>a, <1>b, WriteTakes
<1>6. CASE WriteDisable \/ Protect
  <2>1. /\ pc \in {"wrdi", "protect"} /\ pc' \in {"mode", "config", "program", "idle"}
        /\ UNCHANGED <<mem, said>>
    BY <1>6 DEF WriteDisable, Protect, Rest, LatchInv, SpiTypeOK
  <2>2. sr1' = sr1
    BY <1>6, RegistersKept
  <2> QED  BY <2>1, <2>2, <1>0, <1>a, <1>b
<1>7. CASE EnableQio
  <2>1. pc = "qe" /\ ~Protected
    BY <1>7, <1>a DEF EnableQio
  <2>2. QeSr(chip.cap) = 1 => QeBit(chip.cap) \notin chip.bp
    BY <1>0 DEF QeSr, QeBit, Kept1, ISSI, MXIC
  <2> QED  BY <1>7, <1>0, <1>b, <2>1, <2>2, EnablePrepares
<1>8. CASE EraseSector \/ Program
  <2>1. /\ pc \in {"idle", "program"} /\ pc' = "idle" /\ sr1' = sr1
    BY <1>8 DEF EraseSector, Program
  <2>2. ~Protected
    BY <2>1, <1>a
  <2>3. PICK s \in Sectors, to \in {"erased", "written"} : RomCommand(s, to)
    BY <1>8 DEF EraseSector, Program, LatchInv, SpiTypeOK
  <2>4. PICK r \in {to, "other"} :
          mem' = [mem EXCEPT ![s] = r] /\ said' = [said EXCEPT ![s] = r]
    BY <2>2, <2>3 DEF RomCommand
  <2>5. DOMAIN mem = Sectors /\ DOMAIN said = Sectors
    BY DEF LatchInv, SpiTypeOK
  <2>6. \A t \in Sectors : said'[t] # "other" => mem'[t] = said'[t]
    BY <2>4, <2>5, <1>a
  <2> QED  BY <2>1, <2>2, <2>6, <1>0 DEF ResultsTrue
<1>9. CASE Restart
  BY <1>9 DEF Restart, ResultsTrue
<1> QED  BY <1>1, <1>2, <1>3, <1>4, <1>5, <1>6, <1>7, <1>8, <1>9 DEF SpiNext, InitStep

LEMMA NextProtectionFlash ==
  ASSUME UnlockClears, LatchInv, ProtectionInv, [FlashNext]_flashVars
  PROVE  ProtectionInv'
<1>1. CASE Reading
  BY <1>1 DEF Reading, ProtectionInv, Protected, New1, ResultsTrue
<1> QED  BY <1>1, NextProtection, FlashSteps

(* An erase or a write that reports success has happened (flash.rs 778-800), on
   every chip whose protection bits the masks of bootloader_flash_unlock clear. *)
THEOREM SuccessIsTrue ==
  ASSUME UnlockClears PROVE FlashSpec => []ResultsTrue
<1>1. LatchInv /\ ProtectionInv /\ [FlashNext]_flashVars => ProtectionInv'
  BY NextProtectionFlash
<1>2. ProtectionInv => ResultsTrue
  BY DEF ProtectionInv, ResultsTrue
<1> QED  BY <1>1, <1>2, InitProtection, AlwaysLatch, PTL DEF FlashSpec

QeIn(s1, s2) == chip.qe_bit \in (IF chip.qe_sr = 1 THEN s1 ELSE s2)

\* The bit is set once the controller reads in quad mode, and no write on its way
\* clears it.
QuadInv ==
  ~chip.locked /\ QePlaced =>
    /\ quad \/ pc = "quad" => QeIn(sr1, sr2)
    /\ pc = "poll" /\ polled = "quad" => QeIn(sr1, sr2)
    /\ pc \in {"wren", "wrsr"} =>
         /\ QeIn(sr1, sr2) => QeIn(New1, New2)
         /\ polled = "quad" => QeIn(New1, New2)

LEMMA InitQuad == ReadInit => QuadInv
  BY DEF ReadInit, SpiInit, PowerUp, QuadInv

LEMMA NextQuad ==
  ASSUME LatchInv, QuadInv, [SpiNext]_spiVars
  PROVE  QuadInv'
<1> USE DEF Goto
<1>00. chip' = chip /\ chip \in Chips
  <2>1. [SpiNext]_spiVars => chip' = chip
    BY DEF SpiNext, InitStep, spiVars, Resume, Unlock, WriteEnable, WriteStatus, Poll,
           WriteDisable, CheckMode, EnableQio, SetQuad, Configure, Protect, Program,
           EraseSector, FlashWrite, ChipReady, Restart, Rest
  <2> QED  BY <2>1 DEF LatchInv, SpiTypeOK
<1> SUFFICES ASSUME ~chip.locked, QePlaced
             PROVE  /\ quad' \/ pc' = "quad" => QeIn(sr1', sr2')
                    /\ pc' = "poll" /\ polled' = "quad" => QeIn(sr1', sr2')
                    /\ pc' \in {"wren", "wrsr"} =>
                         /\ QeIn(sr1', sr2') => QeIn(New1', New2')
                         /\ polled' = "quad" => QeIn(New1', New2')
  BY <1>00 DEF QuadInv, QeIn, QePlaced
<1>0. /\ chip' = chip /\ chip \in Chips
      /\ chip.qe_sr = QeSr(chip.cap) /\ chip.qe_bit = QeBit(chip.cap)
  BY <1>00 DEF QePlaced
<1>a. /\ quad \/ pc = "quad" => QeIn(sr1, sr2)
      /\ pc = "poll" /\ polled = "quad" => QeIn(sr1, sr2)
      /\ pc \in {"wren", "wrsr"} =>
           /\ QeIn(sr1, sr2) => QeIn(New1, New2)
           /\ polled = "quad" => QeIn(New1, New2)
  BY DEF QuadInv
<1>1. CASE UNCHANGED spiVars
  BY <1>1, <1>a DEF spiVars, New1, New2
<1>2. CASE Resume \/ CheckMode \/ Configure \/ FlashWrite \/ EraseSector \/ Program
  <2>1. /\ UNCHANGED <<sr1, sr2, quad>>
        /\ pc' \notin {"quad", "poll", "wren", "wrsr"}
    BY <1>2 DEF Resume, CheckMode, Configure, FlashWrite, EraseSector, Program, Rest
  <2> QED  BY <2>1, <1>a
<1>3. CASE ChipReady
  BY <1>3, <1>a DEF ChipReady, New1, New2
<1>4. CASE Unlock
  <2>1. /\ UNCHANGED <<sr1, sr2, quad>> /\ polled' = "wrdi"
        /\ New1' = sr1 \cap Kept1(chip.cap) /\ New2' = sr2 \cap {1}
        /\ pc' \in {"wren", "wrdi"}
    BY <1>4, UnlockPrepares
  <2>2. QeSr(chip.cap) = 1 => QeBit(chip.cap) \in Kept1(chip.cap)
    BY DEF QeSr, QeBit, Kept1, ISSI, MXIC
  <2>3. QeSr(chip.cap) # 1 => QeBit(chip.cap) = 1
    BY DEF QeSr, QeBit
  <2>4. QeIn(sr1, sr2) => QeIn(New1', New2')
    BY <2>1, <2>2, <2>3, <1>0 DEF QeIn
  <2> QED  BY <2>1, <2>4, <1>a
<1>5. CASE WriteEnable
  <2>1. /\ pc = "wren" /\ pc' = "wrsr" /\ UNCHANGED <<write, polled, quad>>
    BY <1>5 DEF WriteEnable, Rest
  <2>2. sr1' = sr1 /\ sr2' = sr2
    BY <1>5, RegistersKept
  <2> QED  BY <2>1, <2>2, <1>a DEF New1, New2
<1>6. CASE WriteStatus
  <2>1. pc = "wrsr" /\ pc' = "poll" /\ UNCHANGED <<quad, polled>>
    BY <1>6 DEF WriteStatus, Rest
  <2>2. sr1' = New1 /\ sr2' = New2
    BY <1>6, WriteTakes
  <2> QED  BY <2>1, <2>2, <1>a
<1>7. CASE Poll
  <2>1. /\ pc = "poll" /\ pc' = polled /\ polled \in {"wrdi", "quad"}
        /\ UNCHANGED <<sr1, sr2, quad, polled>>
    BY <1>7 DEF Poll, Rest, LatchInv, SpiTypeOK
  <2> QED  BY <2>1, <1>a
<1>8. CASE WriteDisable \/ Protect
  <2>1. /\ UNCHANGED <<quad, polled>>
        /\ pc' \in {"mode", "config", "program", "idle"}
    BY <1>8 DEF WriteDisable, Protect, Rest, LatchInv, SpiTypeOK
  <2>2. sr1' = sr1 /\ sr2' = sr2
    BY <1>8, RegistersKept
  <2> QED  BY <2>1, <2>2, <1>a
<1>9. CASE EnableQio
  <2>0. pc = "qe"
    BY <1>9 DEF EnableQio
  <2>1. UNCHANGED <<quad, sr1, sr2>> /\ pc' \in {"quad", "wren"}
    BY <1>9, EnablePrepares
  <2>2. pc' = "quad" => QeIn(sr1, sr2)
    BY <1>9, <1>0, EnablePrepares DEF QeIn
  <2>3. pc' = "wren" => QeIn(New1', New2')
    BY <1>9, <1>0, EnablePrepares DEF QeIn
  <2> QED  BY <2>0, <2>1, <2>2, <2>3, <1>a
<1>10. CASE SetQuad
  BY <1>10, <1>a DEF SetQuad
<1>11. CASE Restart
  BY <1>11 DEF Restart
<1> QED  BY <1>1, <1>2, <1>3, <1>4, <1>5, <1>6, <1>7, <1>8, <1>9, <1>10, <1>11
         DEF SpiNext, InitStep

LEMMA NextQuadFlash ==
  ASSUME LatchInv, QuadInv, [FlashNext]_flashVars
  PROVE  QuadInv'
<1>1. CASE Reading
  BY <1>1 DEF Reading, QuadInv, QePlaced, QeIn, New1, New2
<1> QED  BY <1>1, NextQuad, FlashSteps

(* The controller reads in quad mode only while the chip has it enabled
   (BOOTLOADER.md 243), on every chip that has the bit where the code looks. *)
THEOREM QuadModeEnabled == FlashSpec => []QuadEnabled
<1>1. LatchInv /\ QuadInv /\ [FlashNext]_flashVars => QuadInv'
  BY NextQuadFlash
<1>2. QuadInv => QuadEnabled
  BY DEF QuadInv, QuadEnabled, QeIn, QeSet
<1> QED  BY <1>1, <1>2, InitQuad, AlwaysLatch, PTL DEF FlashSpec

----------------------------------------------------------------------------
(* The MMU when an application starts. *)

LEMMA SizeFacts ==
  /\ WordSize \in Nat \ {0} /\ SectorSize \in Nat \ {0} /\ PageSize \in Nat \ {0}
  /\ VPages \in Nat \ {0} /\ PageSize % WordSize = 0
  BY ReadAssumption

\* Places at the same offset of a page keep in step as one goes on from them.
LEMMA SameOffset ==
  ASSUME NEW addr \in Nat, NEW load \in Nat, NEW n \in Nat,
         addr % PageSize = load % PageSize
  PROVE  /\ (load + n) \div PageSize >= load \div PageSize
         /\ PageOf(addr + n)
              = PageOf(addr) + ((load + n) \div PageSize - (load \div PageSize)) * PageSize
<1> DEFINE P == PageSize
           q == addr \div P
           p == load \div P
           r == load % P
           k == (r + n) \div P
           t == (r + n) % P
<1>1. /\ P \in Nat \ {0} /\ q \in Nat /\ p \in Nat /\ r \in 0 .. P - 1
      /\ addr = P * q + r /\ load = P * p + r
  BY SizeFacts, DivMod
<1>2. r + n \in Nat
  BY <1>1
<1>3. k \in Nat /\ t \in 0 .. P - 1 /\ r + n = P * k + t
  BY <1>1, <1>2, DivMod
<1> HIDE DEF q, p, r, k, t
<1>4. load + n = P * (p + k) + t /\ addr + n = P * (q + k) + t
  BY <1>1, <1>3
<1>5. p + k \in Nat /\ q + k \in Nat
  BY <1>1, <1>3
<1>a. (load + n) \div P = p + k
  <2>1. PICK a \in Nat : a = p + k
    BY <1>5
  <2>2. load + n = P * a + t
    BY <1>4, <2>1
  <2>3. (P * a + t) \div P = a
    BY <1>1, <1>3, DivUnique
  <2> QED  BY <2>1, <2>2, <2>3
<1>6. (addr + n) % P = t
  <2>1. PICK a \in Nat : a = q + k
    BY <1>5
  <2>2. addr + n = P * a + t
    BY <1>4, <2>1
  <2>3. (P * a + t) % P = t
    BY <1>1, <1>3, DivUnique
  <2> QED  BY <2>2, <2>3
<1>7. PageOf(addr + n) = P * (q + k)
  BY <1>1, <1>3, <1>4, <1>5, <1>6 DEF PageOf
<1>8. addr % P = r /\ load \div P = p
  BY DEF p, r
<1>9. PageOf(addr) = P * q
  BY <1>1, <1>8 DEF PageOf
<1>10. P * (q + k) = P * q + k * P
  BY <1>1, <1>3
<1>11. (p + k) - p = k /\ p + k >= p
  BY <1>1, <1>3
<1> QED  BY <1>1, <1>a, <1>7, <1>8, <1>9, <1>10, <1>11

\* The number of pages bootloader_cache_pages_to_map counts is that of the pages
\* the segment lies on.
LEMMA PagesCounted ==
  ASSUME NEW seg \in Segment, seg.size > 0,
         NEW first, first = seg.load \div PageSize,
         NEW pages, pages = (seg.size + (seg.load % PageSize) + PageSize - 1) \div PageSize
  PROVE  VPagesOf(seg) = first .. first + pages - 1
<1> DEFINE P == PageSize
           r == seg.load % P
           w == seg.size - 1
           k == (r + w) \div P
           t == (r + w) % P
<1>0. seg.load \in Nat /\ seg.size \in Nat /\ w \in Nat /\ P \in Nat \ {0}
  BY SizeFacts DEF Segment
<1>1. first \in Nat /\ r \in 0 .. P - 1 /\ seg.load = P * first + r
  BY <1>0, DivMod
<1> HIDE DEF r, w
<1>2. r + w \in Nat
  BY <1>0, <1>1
<1>3. k \in Nat /\ t \in 0 .. P - 1 /\ r + w = P * k + t
  BY <1>0, <1>2, DivMod
<1>4. seg.size + r + P - 1 = P * (k + 1) + t
  <2> HIDE DEF k, t
  <2>1. seg.size = w + 1
    BY <1>0 DEF w
  <2>2. P * (k + 1) = P * k + P /\ P * k \in Nat
    BY <1>0, <1>3
  <2> QED  BY <1>0, <1>1, <1>3, <2>1, <2>2
<1>5. pages = k + 1
  <2>1. PICK a \in Nat : a = k + 1
    BY <1>3
  <2>2. (P * a + t) \div P = a
    BY <1>0, <1>3, DivUnique
  <2> QED  BY <1>4, <2>1, <2>2 DEF r
<1> HIDE DEF k, t
<1>6. ASSUME NEW n \in 0 .. w
      PROVE  (seg.load + n) \div P \in first .. first + k
  <2> DEFINE a == (r + n) \div P
             b == (r + n) % P
  <2>1. r + n \in Nat /\ r + n <= r + w
    BY <1>0, <1>1
  <2>2. a \in Nat /\ b \in 0 .. P - 1 /\ r + n = P * a + b
    BY <1>0, <2>1, DivMod
  <2> HIDE DEF a, b
  <2>3. a <= k
    <3> SUFFICES ASSUME k < a PROVE FALSE
      BY <2>2, <1>3
    <3>1. P * k + P <= P * a
      BY <1>0, <1>3, <2>2, ProductGap
    <3>2. P * k \in Nat /\ P * a \in Nat
      BY <1>0, <1>3, <2>2
    <3> QED  BY <1>0, <1>1, <1>3, <2>1, <2>2, <3>1, <3>2
  <2>4. seg.load + n = P * (first + a) + b /\ first + a \in Nat
    BY <1>0, <1>1, <2>2
  <2>5. (seg.load + n) \div P = first + a
    <3>1. PICK c \in Nat : c = first + a
      BY <2>4
    <3>2. (P * c + b) \div P = c
      BY <1>0, <2>2, DivUnique
    <3> QED  BY <2>4, <3>1, <3>2
  <2> QED  BY <1>1, <1>3, <2>2, <2>3, <2>5
<1>7. ASSUME NEW v \in first .. first + k
      PROVE  \E n \in 0 .. w : (seg.load + n) \div P = v
  <2>1. CASE v = first
    <3>1. (seg.load + 0) \div P = first
      BY <1>0
    <3> QED  BY <1>0, <2>1, <3>1
  <2>2. CASE v # first
    <3>1. PICK d \in Nat : v = first + d /\ d >= 1 /\ d <= k
      <4>1. v - first \in Nat /\ v - first >= 1 /\ v - first <= k
        BY <1>1, <1>3, <2>2
      <4> QED  BY <4>1, <1>1
    <3>2. P * d >= P /\ P * d <= P * k /\ P * d \in Nat /\ P * k \in Nat
      <4>1. d < k => P * d + P <= P * k
        BY <1>0, <1>3, <3>1, ProductGap
      <4>2. 1 < d => P * 1 + P <= P * d
        BY <1>0, <3>1, ProductGap
      <4> QED  BY <1>0, <1>3, <3>1, <4>1, <4>2
    <3>3. P * d - r \in 0 .. w
      BY <1>0, <1>1, <1>3, <3>2
    <3>4. v \in Nat /\ P * v = P * first + P * d
      <4>0. first \in Nat
        BY <1>1
      <4>1. v \in Nat /\ v = first + d
        BY <4>0, <3>1
      <4>2. P * (first + d) = P * first + P * d
        BY <1>0, <1>1, <3>1
      <4> QED  BY <4>1, <4>2
    <3>5. seg.load + (P * d - r) = P * v + 0
      BY <1>0, <1>1, <3>2, <3>4
    <3>6. (seg.load + (P * d - r)) \div P = v
      <4>1. 0 \in 0 .. P - 1
        BY <1>0
      <4> QED  BY <1>0, <3>4, <3>5, <4>1, DivUnique
    <3> QED  BY <3>3, <3>6
  <2> QED  BY <2>1, <2>2
<1>8. first + pages - 1 = first + k
  BY <1>1, <1>3, <1>5
<1>9. VPagesOf(seg) = {(seg.load + n) \div P : n \in 0 .. w}
  BY DEF VPagesOf, w
<1> QED  BY <1>6, <1>7, <1>8, <1>9

\* Mapping a segment shows its pages where it is linked and nothing else.
LEMMA SegmentMapped ==
  ASSUME NEW seg \in Segment, NEW map, DOMAIN map = 0 .. Window,
         seg.size > 0 => /\ seg.addr > 0 /\ seg.addr % PageSize = seg.load % PageSize
                         /\ VPagesOf(seg) \subseteq 0 .. Window
  PROVE  /\ DOMAIN MapSegment(map, seg) = 0 .. Window
         /\ \A v \in (0 .. Window) \ VPagesOf(seg) : MapSegment(map, seg)[v] = map[v]
         /\ \A n \in 0 .. seg.size - 1 :
              /\ (seg.load + n) \div PageSize \in VPagesOf(seg)
              /\ MapSegment(map, seg)[(seg.load + n) \div PageSize] = PageOf(seg.addr + n)
<1>0. seg.addr \in Nat /\ seg.load \in Nat /\ seg.size \in Nat
  BY DEF Segment
<1>1. CASE seg.size = 0
  <2>1. MapSegment(map, seg) = map /\ 0 .. seg.size - 1 = {}
    BY <1>1 DEF MapSegment
  <2> QED  BY <2>1
<1>2. CASE seg.size > 0
  <2> DEFINE first == seg.load \div PageSize
             pages == (seg.size + (seg.load % PageSize) + PageSize - 1) \div PageSize
  <2>1. ~(seg.size = 0 \/ seg.addr = 0)
    BY <1>0, <1>2
  <2>2. VPagesOf(seg) = first .. first + pages - 1
    BY <1>2, PagesCounted
  <2>3. MapSegment(map, seg) =
          [v \in 0 .. Window |-> IF v \in VPagesOf(seg)
                                 THEN PageOf(seg.addr) + (v - first) * PageSize ELSE map[v]]
    BY <2>1, <2>2 DEF MapSegment
  <2>4. \A n \in 0 .. seg.size - 1 : (seg.load + n) \div PageSize \in VPagesOf(seg)
    BY DEF VPagesOf
  <2>5. \A n \in 0 .. seg.size - 1 :
          PageOf(seg.addr + n)
            = PageOf(seg.addr) + ((seg.load + n) \div PageSize - first) * PageSize
    <3>1. \A n \in 0 .. seg.size - 1 : n \in Nat
      OBVIOUS
    <3> QED  BY <1>0, <1>2, <3>1, SameOffset
  <2> HIDE DEF first, pages
  <2> QED  BY <1>2, <2>3, <2>4, <2>5
<1> QED  BY <1>0, <1>1, <1>2

\* The MMU of an application that has been started.
AppInv ==
  pc = "app" =>
    app \in Apps /\ mmu = MapSegment(MapSegment(NoPages, app.drom), app.irom)

LEMMA NextApp ==
  ASSUME LatchInv, AppInv, [FlashNext]_flashVars PROVE AppInv'
<1>1. CASE UNCHANGED flashVars
  BY <1>1 DEF flashVars, spiVars, readVars, AppInv
<1>2. CASE (InitStep \/ EraseSector \/ FlashWrite \/ ChipReady) /\ UNCHANGED readVars
  <2>1. pc' = "app" => pc = "app"
    BY <1>2 DEF InitStep, Resume, Unlock, WriteEnable, WriteStatus, Poll, WriteDisable,
       CheckMode, EnableQio, SetQuad, Configure, Protect, Program, EraseSector, FlashWrite,
       ChipReady, Goto, LatchInv, SpiTypeOK
  <2> QED  BY <1>2, <2>1 DEF readVars, AppInv
<1>3. CASE Restart /\ ForgetReads
  BY <1>3 DEF Restart, Goto, AppInv
<1>4. CASE MmapRaw \/ MmapCached \/ ReadWord \/ ReadDone \/ Munmap
  <2>1. pc' # "app"
    BY <1>4 DEF MmapRaw, MmapCached, ReadWord, ReadDone, Munmap, spiVars
  <2> QED  BY <2>1 DEF AppInv
<1>5. CASE StartApp
  BY <1>5 DEF StartApp, AppInv
<1> QED  BY <1>1, <1>2, <1>3, <1>4, <1>5 DEF FlashNext, ReadStep

LEMMA AppMapped == AppInv => AppSeesItself
<1> SUFFICES ASSUME AppInv, pc = "app", Linked(app)
             PROVE  /\ \A seg \in {app.drom, app.irom} : \A n \in 0 .. seg.size - 1 :
                         mmu[(seg.load + n) \div PageSize] = PageOf(seg.addr + n)
                    /\ \A v \in DOMAIN mmu :
                         mmu[v] # Nowhere => v \in VPagesOf(app.drom) \cup VPagesOf(app.irom)
  BY DEF AppSeesItself
<1> DEFINE d == app.drom
           r == app.irom
           one == MapSegment(NoPages, d)
<1>1. d \in Segment /\ r \in Segment
  BY ReadAssumption DEF AppInv
<1>2. /\ \A seg \in {d, r} :
            seg.size > 0 => /\ seg.addr > 0 /\ seg.addr % PageSize = seg.load % PageSize
                            /\ VPagesOf(seg) \subseteq 0 .. Window
      /\ VPagesOf(d) \cap VPagesOf(r) = {}
  BY DEF Linked
<1>3. DOMAIN NoPages = 0 .. Window /\ \A v \in 0 .. Window : NoPages[v] = Nowhere
  BY DEF NoPages
<1>4. mmu = MapSegment(one, r)
  BY DEF AppInv
<1> HIDE DEF d, r
<1>5. /\ DOMAIN one = 0 .. Window
      /\ \A v \in (0 .. Window) \ VPagesOf(d) : one[v] = NoPages[v]
      /\ \A n \in 0 .. d.size - 1 :
           /\ (d.load + n) \div PageSize \in VPagesOf(d)
           /\ one[(d.load + n) \div PageSize] = PageOf(d.addr + n)
  BY <1>1, <1>2, <1>3, SegmentMapped
<1> HIDE DEF one
<1>6. /\ DOMAIN mmu = 0 .. Window
      /\ \A v \in (0 .. Window) \ VPagesOf(r) : mmu[v] = one[v]
      /\ \A n \in 0 .. r.size - 1 : mmu[(r.load + n) \div PageSize] = PageOf(r.addr + n)
  <2>1. r.size > 0 => /\ r.addr > 0 /\ r.addr % PageSize = r.load % PageSize
                      /\ VPagesOf(r) \subseteq 0 .. Window
    BY <1>2
  <2>2. r \in Segment /\ DOMAIN one = 0 .. Window
    BY <1>1, <1>5
  <2> QED  BY <1>4, <2>1, <2>2, SegmentMapped
<1>7. \A n \in 0 .. d.size - 1 : mmu[(d.load + n) \div PageSize] = PageOf(d.addr + n)
  <2> TAKE n \in 0 .. d.size - 1
  <2>1. d.size > 0
    BY <1>1 DEF Segment
  <2>2. (d.load + n) \div PageSize \in (0 .. Window) \ VPagesOf(r)
    BY <1>2, <1>5, <2>1
  <2> QED  BY <1>5, <1>6, <2>2
<1>8. \A v \in 0 .. Window : mmu[v] # Nowhere => v \in VPagesOf(d) \cup VPagesOf(r)
  BY <1>3, <1>5, <1>6
<1> QED  BY <1>6, <1>7, <1>8 DEF d, r

(* An application finds its mapped segments at their load addresses and nothing
   else (utility.rs 746-833), whatever the page size and its segments. *)
THEOREM AppsAreMapped == FlashSpec => []AppSeesItself
<1>1. ReadInit => AppInv
  BY DEF ReadInit, SpiInit, PowerUp, AppInv
<1>2. LatchInv /\ AppInv /\ [FlashNext]_flashVars => AppInv'
  BY NextApp
<1> QED  BY <1>1, <1>2, AppMapped, AlwaysLatch, PTL DEF FlashSpec

----------------------------------------------------------------------------
(* Reading through the window. *)

Line(page, l) == [n \in 1 .. WordSize |-> Cell(page + l * WordSize + n - 1)]
Cells == {Cell(a) : a \in Nat}

\* While a range is read, the cache holds lines of the page the window shows and
\* the buffer the words of the range that have been read.
CacheInv ==
  /\ DOMAIN lines = DOMAIN NoLines
  /\ pc # "read" => current = Nowhere
  /\ pc = "read" =>
       /\ enc /\ asked \in Reads /\ word \in Nat
       /\ current # Nowhere =>
            \A l \in DOMAIN NoLines : lines[l] = <<>> \/ lines[l] = Line(current, l)
       /\ buf \in Seq(Cells \cup {<<>>}) /\ Len(buf) = word * WordSize
       /\ \A n \in 1 .. word * WordSize :
            Shown(asked, n) => buf[n] = Cell(asked.src + n - 1)

LEMMA InitCache == ReadInit => CacheInv
  BY DEF ReadInit, SpiInit, PowerUp, CacheInv

LEMMA PageAligned ==
  ASSUME NEW a \in Nat, NEW n \in Nat
  PROVE  /\ PageOf(a) \in Nat /\ a - PageOf(a) \in Nat
         /\ (PageOf(a) + n * PageSize) % PageSize = 0
<1> DEFINE P == PageSize
           q == a \div P
           m == a % P
<1>1. P \in Nat \ {0} /\ q \in Nat /\ m \in 0 .. P - 1 /\ a = P * q + m
  BY SizeFacts, DivMod
<1>2. PageOf(a) = a - m
  BY DEF PageOf
<1> HIDE DEF q, m, P
<1>3. P * q \in Nat /\ P * q = a - m
  BY <1>1
<1>4. PICK k \in Nat : k = q + n
  BY <1>1
<1>5. P * k = P * q + n * P
  BY <1>1, <1>4
<1>6. (P * k + 0) % P = 0
  BY <1>1, DivUnique
<1>7. P * k + 0 = PageOf(a) + n * P
  <2>1. P * q \in Nat /\ n * P \in Nat
    BY <1>1
  <2> QED BY <1>2, <1>3, <1>5, <2>1
<1> QED BY <1>1, <1>2, <1>3, <1>6, <1>7 DEF P

\* A byte of the page lies on one of its lines.
LEMMA LineOf ==
  ASSUME NEW o \in Nat, o < PageSize
  PROVE  o \div WordSize \in DOMAIN NoLines /\ (o % WordSize) + 1 \in 1 .. WordSize
<1> DEFINE W == WordSize
           K == PageSize \div W
           l == o \div W
<1>1. W \in Nat \ {0} /\ K \in Nat /\ PageSize = W * K + (PageSize % W) /\ PageSize % W = 0
  BY SizeFacts, DivMod
<1>2. l \in Nat /\ o % W \in 0 .. W - 1 /\ o = W * l + (o % W)
  BY <1>1, DivMod
<1>3. DOMAIN NoLines = 0 .. K - 1
  BY DEF NoLines
<1> HIDE DEF W, K, l
<1>4. W * K \in Nat /\ W * l \in Nat
  BY <1>1, <1>2
<1>5. W * l < W * K
  BY <1>1, <1>2, <1>4
<1>6. ~(K < l) /\ K # l
  <2>1. K < l => W * K + W <= W * l
    BY <1>1, <1>2, ProductGap
  <2> QED BY <1>1, <1>4, <1>5, <2>1
<1>7. l < K
  BY <1>1, <1>2, <1>6
<1> QED BY <1>1, <1>2, <1>3, <1>7 DEF l, W

\* A byte of the page an address lies in.
LEMMA InPage ==
  ASSUME NEW a \in Nat, NEW n \in Nat, PageOf(a + n) = PageOf(a)
  PROVE  a + n - PageOf(a) < PageSize
<1>1. PICK b \in Nat : b = a + n
  OBVIOUS
<1>2. b % PageSize \in 0 .. PageSize - 1 /\ PageOf(b) = b - (b % PageSize)
  BY SizeFacts, DivMod DEF PageOf
<1>3. PageOf(a) \in Nat /\ PageOf(b) = PageOf(a)
  BY <1>1, PageAligned
<1> QED  BY <1>1, <1>2, <1>3, SizeFacts

\* The lines that are left once the window shows the page of the next word.
HeldLines ==
  IF PageOf(asked.src + word * WordSize) # current THEN NoLines ELSE lines

LEMMA LinesHeld ==
  ASSUME CacheInv, ReadWord
  PROVE  /\ DOMAIN HeldLines = DOMAIN NoLines
         /\ \A l \in DOMAIN NoLines :
              \/ HeldLines[l] = <<>>
              \/ HeldLines[l] = Line(PageOf(asked.src + word * WordSize), l)
<1> DEFINE at == asked.src + word * WordSize
           page == PageOf(at)
<1>0. pc = "read" /\ word \in Nat /\ asked \in Reads /\ DOMAIN lines = DOMAIN NoLines
  BY DEF ReadWord, CacheInv
<1>1. CASE page # current
  <2>1. HeldLines = NoLines
    BY <1>1 DEF HeldLines
  <2> QED BY <2>1 DEF NoLines
<1>2. CASE page = current
  <2>1. asked.src \in Nat /\ word * WordSize \in Nat
    BY <1>0, ReadAssumption, SizeFacts DEF FlashRange
  <2>2. at \in Nat
    BY <2>1
  <2>3. at % PageSize \in 0 .. PageSize - 1 /\ at \div PageSize \in Nat
        /\ at = PageSize * (at \div PageSize) + (at % PageSize)
    BY <2>2, SizeFacts, DivMod
  <2>4. PageSize * (at \div PageSize) \in Nat
    BY <2>3, SizeFacts
  <2> HIDE DEF at
  <2>5. page \in Nat
    BY <2>2, <2>3, <2>4, SizeFacts DEF PageOf
  <2>6. current # Nowhere /\ HeldLines = lines
    BY <1>2, <2>5 DEF Nowhere, HeldLines, at
  <2>7. \A l \in DOMAIN NoLines : lines[l] = <<>> \/ lines[l] = Line(current, l)
    BY <1>0, <2>6 DEF CacheInv
  <2> QED BY <1>0, <1>2, <2>6, <2>7 DEF at
<1> QED BY <1>1, <1>2

\* What a word read through the window adds to the buffer.
LEMMA WordRead ==
  ASSUME CacheInv, ReadWord
  PROVE  /\ \A l \in DOMAIN NoLines : lines'[l] = <<>> \/ lines'[l] = Line(current', l)
         /\ DOMAIN lines' = DOMAIN NoLines
         /\ current' = PageOf(asked.src + word * WordSize)
         /\ mmu' = [mmu EXCEPT ![Window] = current']
         /\ \E new \in Seq(Cells \cup {<<>>}) :
              /\ buf' = buf \o new /\ Len(new) = WordSize
              /\ \A n \in 1 .. WordSize :
                   LET a == asked.src + word * WordSize IN
                   PageOf(a + (n - 1)) = PageOf(a) => new[n] = Cell(a + (n - 1))
<1> DEFINE at == asked.src + word * WordSize
           page == PageOf(at)
           held == IF page # current THEN NoLines ELSE lines
           line(l) == IF held[l] # <<>> THEN held[l] ELSE Line(page, l)
           byte(o) == IF o < PageSize THEN line(o \div WordSize)[(o % WordSize) + 1] ELSE <<>>
           bytes == at - page .. at - page + WordSize - 1
           new == [n \in 1 .. WordSize |-> byte(at - page + n - 1)]
<1>0. /\ pc = "read" /\ word \in Nat /\ asked \in Reads /\ WordSize \in Nat \ {0}
      /\ DOMAIN lines = DOMAIN NoLines
  BY SizeFacts DEF ReadWord, CacheInv
<1>1. /\ lines' = [l \in DOMAIN held |->
                     IF \E o \in bytes : o \div WordSize = l THEN line(l) ELSE held[l]]
      /\ current' = page /\ mmu' = [mmu EXCEPT ![Window] = page]
      /\ buf' = buf \o new
  BY DEF ReadWord, Line
<1>2. asked.src \in Nat /\ at \in Nat
  <2>1. asked.src \in Nat
    BY <1>0, ReadAssumption DEF FlashRange
  <2>2. word * WordSize \in Nat
    BY <1>0
  <2> QED  BY <2>1, <2>2
<1>3. DOMAIN held = DOMAIN NoLines
  BY <1>0
<1>4. \A l \in DOMAIN NoLines : held[l] = <<>> \/ held[l] = Line(page, l)
  BY LinesHeld DEF HeldLines
<1>a. page \in Nat /\ at - page \in Nat
  BY <1>2, PageAligned
<1> HIDE DEF held, page, bytes, at
<1>5. \A l \in DOMAIN NoLines : lines'[l] = <<>> \/ lines'[l] = Line(page, l)
  BY <1>1, <1>3, <1>4
<1>6. ASSUME NEW o \in Nat, o < PageSize
      PROVE  byte(o) = Cell(page + o)
  <2> DEFINE l == o \div WordSize
             k == (o % WordSize) + 1
  <2>1. l \in DOMAIN NoLines /\ k \in 1 .. WordSize
    BY <1>6, LineOf
  <2>2. l \in Nat /\ o = WordSize * l + (k - 1) /\ k - 1 = o % WordSize
    BY <1>0, DivMod
  <2>3. byte(o) = Line(page, l)[k]
    BY <1>4, <1>6, <2>1
  <2> HIDE DEF l, k, line, byte
  <2>4. Line(page, l)[k] = Cell(page + l * WordSize + k - 1)
    BY <2>1 DEF Line
  <2>5. l * WordSize = WordSize * l /\ l * WordSize \in Nat
    BY <1>0, <2>2
  <2>6. page + l * WordSize + k - 1 = page + o
    BY <1>0, <1>a, <2>1, <2>2, <2>5
  <2> QED  BY <2>3, <2>4, <2>6
<1> HIDE DEF byte, line
<1>7. \A n \in 1 .. WordSize : byte(at - page + n - 1) \in Cells \cup {<<>>}
  <2> TAKE n \in 1 .. WordSize
  <2>1. PICK o \in Nat : o = at - page + n - 1
    BY <1>0, <1>a
  <2>2. CASE o < PageSize
    <3>1. page + o \in Nat
      BY <1>a
    <3> QED  BY <1>6, <2>1, <2>2, <3>1 DEF Cells
  <2>3. CASE ~(o < PageSize)
    BY <2>1, <2>3 DEF byte
  <2> QED  BY <2>2, <2>3
<1>8. \A n \in 1 .. WordSize :
        PageOf(at + (n - 1)) = page => byte(at - page + n - 1) = Cell(at + (n - 1))
  <2> SUFFICES ASSUME NEW n \in 1 .. WordSize, PageOf(at + (n - 1)) = page
               PROVE  byte(at - page + n - 1) = Cell(at + (n - 1))
    OBVIOUS
  <2>1. n - 1 \in Nat
    BY <1>0
  <2>2. at + (n - 1) - page < PageSize
    BY <1>2, <2>1, InPage DEF page
  <2>3. PICK o \in Nat : o = at - page + n - 1
    BY <1>0, <1>a
  <2>4. o < PageSize /\ page + o = at + (n - 1)
    BY <1>2, <1>a, <2>1, <2>2, <2>3
  <2> QED  BY <1>6, <2>3, <2>4
<1>9. new \in Seq(Cells \cup {<<>>}) /\ Len(new) = WordSize
      /\ \A n \in 1 .. WordSize : new[n] = byte(at - page + n - 1)
  <2>1. new \in [1 .. WordSize -> Cells \cup {<<>>}] /\ WordSize \in Nat
    BY <1>0, <1>7
  <2> QED  BY <2>1
<1> HIDE DEF new
<1> QED  BY <1>1, <1>3, <1>5, <1>8, <1>9 DEF at, page

LEMMA NextCache ==
  ASSUME LatchInv, CacheInv, [FlashNext]_flashVars
  PROVE  /\ CacheInv'
         /\ ~mapped /\ mapped' =>
              \A n \in 1 .. asked'.size :
                (enc => Shown(asked', n)) => buf'[n] = Cell(asked'.src + n - 1)
<1> DEFINE Held == ~mapped /\ mapped' =>
                     \A n \in 1 .. asked'.size :
                       (enc => Shown(asked', n)) => buf'[n] = Cell(asked'.src + n - 1)
<1>1. CASE UNCHANGED flashVars
  <2>1. mem' = mem /\ UNCHANGED <<pc, enc, mapped, asked, word, current, buf, lines>>
    BY <1>1 DEF flashVars, spiVars, readVars
  <2> QED  BY <2>1 DEF CacheInv, Line, Cells, Cell
<1>2. CASE (InitStep \/ EraseSector \/ FlashWrite \/ ChipReady) /\ UNCHANGED readVars
  <2>1. /\ pc' = "read" <=> pc = "read"
        /\ pc = "read" => mem' = mem
    BY <1>2 DEF InitStep, Resume, Unlock, WriteEnable, WriteStatus, Poll, WriteDisable,
       CheckMode, EnableQio, SetQuad, Configure, Protect, Program, EraseSector, FlashWrite,
       ChipReady, Goto, LatchInv, SpiTypeOK
  <2>2. UNCHANGED <<enc, mapped, asked, word, current, buf, lines>>
    BY <1>2 DEF readVars
  <2>3. CASE pc = "read"
    <3>1. pc' = pc /\ mem' = mem
      BY <2>1, <2>3
    <3> QED  BY <2>2, <3>1 DEF CacheInv, Line, Cells, Cell
  <2>4. CASE pc # "read"
    BY <2>1, <2>2, <2>4 DEF CacheInv
  <2> QED  BY <2>3, <2>4
<1>3. CASE Restart /\ ForgetReads
  <2>1. pc' = "resume" /\ current' = Nowhere /\ lines' = NoLines /\ mapped' = FALSE
    BY <1>3 DEF Restart, Goto, ForgetReads
  <2> QED  BY <2>1 DEF CacheInv
<1>4. CASE MmapRaw
  <2>1. PICK r \in Reads : asked' = r /\ buf' = FlashReadRaw(r)
    BY <1>4 DEF MmapRaw
  <2>2. r.src \in Nat /\ r.size \in Nat
    BY ReadAssumption DEF FlashRange
  <2>3. \A n \in 1 .. r.size : buf'[n] = Cell(r.src - 1 + n)
    BY <2>1 DEF FlashReadRaw, RomRead
  <2>4. \A n \in 1 .. r.size : r.src - 1 + n = r.src + n - 1
    BY <2>2
  <2>5. Held
    BY <2>1, <2>3, <2>4
  <2>6. pc = "idle" /\ pc' = pc /\ UNCHANGED <<current, lines>>
    BY <1>4 DEF MmapRaw, spiVars
  <2> QED  BY <2>5, <2>6 DEF CacheInv
<1>5. CASE MmapCached
  <2>1. /\ pc = "idle" /\ enc /\ pc' = "read" /\ word' = 0 /\ buf' = <<>>
        /\ asked' \in Reads /\ UNCHANGED <<enc, mapped, current, lines, mem>>
    BY <1>5 DEF MmapCached
  <2>2. <<>> \in Seq(Cells') /\ Len(<<>>) = 0 * WordSize /\ 1 .. 0 * WordSize = {}
    BY SizeFacts
  <2> QED  BY <2>1, <2>2 DEF CacheInv
<1>6. CASE ReadWord
  <2>1. /\ pc = "read" /\ pc' = pc /\ mem' = mem /\ word' = word + 1
        /\ UNCHANGED <<enc, mapped, asked>>
    BY <1>6 DEF ReadWord, spiVars
  <2>2. /\ \A l \in DOMAIN NoLines : lines'[l] = <<>> \/ lines'[l] = Line(current', l)
        /\ DOMAIN lines' = DOMAIN NoLines
    BY <1>6, WordRead
  <2>3. (\A p, l : Line(p, l)' = Line(p, l)) /\ Cells' = Cells /\ \A a : Cell(a)' = Cell(a)
    BY <2>1 DEF Line, Cells, Cell
  <2>4. /\ buf' \in Seq(Cells \cup {<<>>}) /\ Len(buf') = (word + 1) * WordSize
        /\ \A n \in 1 .. (word + 1) * WordSize :
             Shown(asked, n) => buf'[n] = Cell(asked.src + n - 1)
    <3> DEFINE W == WordSize
               w == word * W
               C == Cells \cup {<<>>}
               src == asked.src
    <3>1. /\ buf \in Seq(C) /\ Len(buf) = w /\ word \in Nat /\ src \in Nat
          /\ \A n \in 1 .. w : Shown(asked, n) => buf[n] = Cell(src + n - 1)
      BY <2>1, ReadAssumption DEF CacheInv, FlashRange
    <3>2. W \in Nat \ {0} /\ w \in Nat /\ (word + 1) * W = w + W /\ w = W * word
      BY <3>1, SizeFacts
    <3>3. PICK new \in Seq(C) :
            /\ buf' = buf \o new /\ Len(new) = W
            /\ \A n \in 1 .. W :
                 PageOf(src + w + (n - 1)) = PageOf(src + w) => new[n] = Cell(src + w + (n - 1))
      BY <1>6, WordRead
    <3>4. ASSUME NEW n \in w + 1 .. w + W
          PROVE  Shown(asked, n) <=> PageOf(src + n - 1) = PageOf(src + w)
      <4>1. n - w - 1 \in 0 .. W - 1 /\ n - 1 = W * word + (n - w - 1)
        BY <3>2
      <4>2. (W * word + (n - w - 1)) \div W = word
        BY <3>1, <3>2, <4>1, DivUnique
      <4>3. W * ((n - 1) \div W) = w
        BY <3>2, <4>1, <4>2
      <4> QED  BY <4>3 DEF Shown
    <3> HIDE DEF w, W, C, src
    <3>a. /\ buf \o new \in Seq(C) /\ Len(buf \o new) = Len(buf) + Len(new)
          /\ \A n \in 1 .. Len(buf) + Len(new) :
               (buf \o new)[n] = IF n <= Len(buf) THEN buf[n] ELSE new[n - Len(buf)]
      BY <3>1, <3>3, ConcatProperties
    <3>6. buf' \in Seq(C) /\ Len(buf') = w + W
      BY <3>1, <3>3, <3>a
    <3>b. \A n \in 1 .. w + W : buf'[n] = IF n <= w THEN buf[n] ELSE new[n - w]
      BY <3>1, <3>3, <3>a
    <3>7. ASSUME NEW n \in 1 .. w + W, Shown(asked, n)
          PROVE  buf'[n] = Cell(src + n - 1)
      <4>1. CASE n <= w
        BY <3>1, <3>2, <3>7, <3>b, <4>1
      <4>2. CASE w < n
        <5>1. n - w \in 1 .. W /\ src + w + ((n - w) - 1) = src + n - 1 /\ n \in w + 1 .. w + W
          BY <3>1, <3>2, <4>2
        <5>2. buf'[n] = new[n - w]
          BY <3>2, <3>b, <4>2
        <5>3. PageOf(src + n - 1) = PageOf(src + w)
          BY <3>4, <3>7, <5>1
        <5>4. PageOf(src + w + ((n - w) - 1)) = PageOf(src + w)
          BY <5>1, <5>3
        <5>5. new[n - w] = Cell(src + w + ((n - w) - 1))
          BY <3>3, <5>1, <5>4
        <5> QED  BY <5>1, <5>2, <5>5
      <4> QED  BY <3>2, <4>1, <4>2
    <3> QED  BY <3>2, <3>6, <3>7 DEF W, C, src
  <2>5. word' \in Nat /\ enc' /\ asked' \in Reads
    BY <2>1 DEF CacheInv
  <2> QED  BY <2>1, <2>2, <2>3, <2>4, <2>5 DEF CacheInv
<1>7. CASE ReadDone
  <2>1. /\ pc = "read" /\ pc' = "idle" /\ current' = Nowhere
        /\ word * WordSize >= asked.size /\ UNCHANGED <<asked, buf, lines>>
    BY <1>7 DEF ReadDone
  <2>2. enc /\ asked \in Reads /\ word \in Nat
    BY <2>1 DEF CacheInv
  <2>3. asked.size \in Nat /\ word * WordSize \in Nat
    BY <2>2, ReadAssumption, SizeFacts DEF FlashRange
  <2>4. \A n \in 1 .. word * WordSize : Shown(asked, n) => buf[n] = Cell(asked.src + n - 1)
    BY <2>1 DEF CacheInv
  <2>a. enc' = enc /\ (\A n : Shown(asked', n) <=> Shown(asked, n)) /\ \A x : Cell(x)' = Cell(x)
    BY <1>7, <2>1 DEF ReadDone, Shown, Cell
  <2>5. Held
    BY <2>1, <2>2, <2>3, <2>4, <2>a
  <2> QED  BY <2>1, <2>5 DEF CacheInv
<1>8. CASE Munmap \/ StartApp
  <2>1. /\ pc = "idle" /\ pc' # "read" /\ mapped' = FALSE
        /\ current' = current /\ lines' \in {lines, NoLines}
    BY <1>8 DEF Munmap, StartApp, spiVars
  <2> QED  BY <2>1 DEF CacheInv
<1> QED  BY <1>1, <1>2, <1>3, <1>4, <1>5, <1>6, <1>7, <1>8 DEF FlashNext, ReadStep

(* A mapping holds what flash holds when it is made (BOOTLOADER.md 244, 257;
   flash.rs 778-876): no earlier position of the window and no line left in the
   cache shows through, for every page and word size and wherever the range
   starts; only a word that the end of the window cuts has bytes that are not
   what flash holds. *)
THEOREM MappingsAreTrue == FlashSpec => MappingTrue
<1> DEFINE Held == ~mapped /\ mapped' =>
                     \A i \in 1 .. asked'.size :
                       (enc => Shown(asked', i)) => buf'[i] = Cell(asked'.src + i - 1)
<1>1. LatchInv /\ CacheInv /\ [FlashNext]_flashVars => CacheInv' /\ [Held]_flashVars
  BY NextCache
<1> QED  BY <1>1, InitCache, AlwaysLatch, PTL DEF FlashSpec, MappingTrue

----------------------------------------------------------------------------
(* Types of what is read. *)

Aligned(map) ==
  /\ DOMAIN map = 0 .. Window
  /\ \A v \in DOMAIN map : map[v] = Nowhere \/ map[v] % PageSize = 0

\* A cell says where in flash it is; behind the window there is none.
Placed(c) == c = <<>> \/ c[1] \in Nat
AllPlaced(b) == \E S : b \in Seq(S) /\ \A c \in S : Placed(c)

LEMMA SegmentAligned ==
  ASSUME NEW seg \in Segment, NEW map, Aligned(map)
  PROVE  Aligned(MapSegment(map, seg))
<1>0. seg.addr \in Nat /\ seg.load \in Nat
  BY DEF Segment
<1>1. CASE seg.size = 0 \/ seg.addr = 0
  BY <1>1 DEF MapSegment
<1>2. CASE ~(seg.size = 0 \/ seg.addr = 0)
  <2> DEFINE first == seg.load \div PageSize
             pages == (seg.size + (seg.load % PageSize) + PageSize - 1) \div PageSize
  <2>1. MapSegment(map, seg) =
          [v \in DOMAIN map |-> IF v \in first .. first + pages - 1
                                THEN PageOf(seg.addr) + (v - first) * PageSize ELSE map[v]]
    BY <1>2 DEF MapSegment
  <2>2. first \in Nat
    BY <1>0, SizeFacts, DivMod
  <2>3. ASSUME NEW v \in 0 .. Window, v \in first .. first + pages - 1
        PROVE  (PageOf(seg.addr) + (v - first) * PageSize) % PageSize = 0
    <3>1. v - first \in Nat
      BY <2>2, <2>3
    <3> QED BY <1>0, <3>1, PageAligned
  <2> HIDE DEF first, pages
  <2> QED BY <2>1, <2>3 DEF Aligned
<1> QED BY <1>1, <1>2

LEMMA NoPagesAligned == Aligned(NoPages)
  BY DEF Aligned, NoPages

\* Whether a range starts at a word or not, what is read are cells or nothing.
LEMMA WordPlaced ==
  ASSUME CacheInv, ReadWord
  PROVE  /\ mmu' = [mmu EXCEPT ![Window] = current']
         /\ \E a \in Nat : current' = PageOf(a)
         /\ \E S : \E new \in Seq(S) : buf' = buf \o new /\ \A c \in S : Placed(c)
<1>1. asked.src + word * WordSize \in Nat
  <2>1. word \in Nat /\ asked.src \in Nat
    BY ReadAssumption DEF ReadWord, CacheInv, FlashRange
  <2>2. word * WordSize \in Nat
    BY <2>1, SizeFacts
  <2> QED  BY <2>1, <2>2
<1>2. \A c \in Cells \cup {<<>>} : Placed(c)
  BY DEF Cells, Cell, Placed
<1> QED  BY <1>1, <1>2, WordRead

FlashTypeInv ==
  /\ enc \in BOOLEAN /\ mapped \in BOOLEAN /\ asked \in Reads \cup {Nothing}
  /\ word \in Nat /\ word <= asked.size + WordSize
  /\ ~mapped /\ pc # "read" => word = 0
  /\ pc = "read" => asked \in Reads
  /\ current = Nowhere \/ current = mmu[Window]
  /\ AllPlaced(buf)
  /\ Aligned(mmu)
  /\ app \in Apps \cup {NoApp}

LEMMA NothingRead == AllPlaced(<<>>)
<1> DEFINE None == {}
<1>1. <<>> \in Seq(None) /\ \A c \in None : Placed(c)
  OBVIOUS
<1> HIDE DEF None
<1> QED BY <1>1 DEF AllPlaced

LEMMA InitFlashType == ReadInit => FlashTypeInv
<1> SUFFICES ASSUME ReadInit PROVE FlashTypeInv
  OBVIOUS
<1>1. /\ enc \in BOOLEAN /\ mapped = FALSE /\ asked = Nothing /\ word = 0
      /\ current = Nowhere /\ buf = <<>> /\ mmu = NoPages /\ app = NoApp /\ pc = "resume"
  BY DEF ReadInit, SpiInit, PowerUp
<1>2. asked.size = 0
  BY <1>1 DEF Nothing
<1>3. AllPlaced(buf)
  BY <1>1, NothingRead
<1>4. word \in Nat /\ word <= asked.size + WordSize
  BY <1>1, <1>2, SizeFacts
<1>5. Aligned(mmu)
  BY <1>1, NoPagesAligned
<1> QED BY <1>1, <1>3, <1>4, <1>5 DEF FlashTypeInv

LEMMA NextFlashType ==
  ASSUME LatchInv, CacheInv, FlashTypeInv, [FlashNext]_flashVars
  PROVE  FlashTypeInv'
<1>0. ASSUME UNCHANGED readVars, pc' = "read" <=> pc = "read"
      PROVE  FlashTypeInv'
  <2>1. UNCHANGED <<enc, mapped, asked, word, current, buf, mmu, app>>
    BY <1>0 DEF readVars
  <2> QED BY <1>0, <2>1 DEF FlashTypeInv, Aligned
<1>1. CASE UNCHANGED flashVars
  BY <1>0, <1>1 DEF flashVars, spiVars
<1>2. CASE (InitStep \/ EraseSector \/ FlashWrite \/ ChipReady) /\ UNCHANGED readVars
  <2>1. pc' = "read" <=> pc = "read"
    BY <1>2 DEF InitStep, Resume, Unlock, WriteEnable, WriteStatus, Poll, WriteDisable,
       CheckMode, EnableQio, SetQuad, Configure, Protect, Program, EraseSector, FlashWrite,
       ChipReady, Goto, LatchInv, SpiTypeOK
  <2> QED BY <1>0, <1>2, <2>1
<1>3. CASE Restart /\ ForgetReads
  <2>1. /\ mapped' = FALSE /\ asked' = Nothing /\ word' = 0 /\ current' = Nowhere /\ buf' = <<>>
        /\ mmu' = NoPages /\ app' = NoApp /\ enc' = enc /\ pc' # "read"
    BY <1>3 DEF Restart, Goto, ForgetReads
  <2>2. asked'.size = 0 /\ Aligned(mmu')
    BY <2>1, NoPagesAligned DEF Nothing
  <2>3. AllPlaced(buf')
    BY <2>1, NothingRead
  <2>4. word' \in Nat /\ word' <= asked'.size + WordSize
    BY <2>1, <2>2, SizeFacts
  <2> QED BY <2>1, <2>2, <2>3, <2>4 DEF FlashTypeInv, Aligned
<1>4. CASE MmapRaw
  <2>1. PICK r \in Reads : asked' = r /\ buf' = FlashReadRaw(r)
    BY <1>4 DEF MmapRaw
  <2>2. r.src \in Nat /\ r.src > 0 /\ r.size \in Nat
    BY ReadAssumption DEF FlashRange
  <2>3. pc = "idle" /\ ~mapped /\ mapped' = TRUE /\ UNCHANGED <<pc, enc, word, current, mmu, app>>
    BY <1>4 DEF MmapRaw, spiVars
  <2>4. word' = 0
    BY <2>3 DEF FlashTypeInv
  <2>5. AllPlaced(buf')
    <3>1. FlashReadRaw(r) = [n \in 1 .. r.size |-> Cell(r.src - 1 + n)]
      BY DEF FlashReadRaw, RomRead
    <3>2. \A n \in 1 .. r.size : Cell(r.src - 1 + n) \in Cells
      <4> TAKE n \in 1 .. r.size
      <4>1. r.src - 1 + n \in Nat
        BY <2>2
      <4> QED BY <4>1 DEF Cells
    <3>3. buf' \in Seq(Cells)
      BY <2>1, <2>2, <3>1, <3>2
    <3>4. \A c \in Cells : Placed(c)
      BY DEF Cells, Cell, Placed
    <3> QED BY <3>3, <3>4 DEF AllPlaced
  <2>6. asked' \in Reads /\ asked'.size \in Nat
    BY <2>1, <2>2
  <2> QED BY <2>3, <2>4, <2>5, <2>6, SizeFacts DEF FlashTypeInv, Aligned
<1>5. CASE MmapCached
  <2>1. /\ pc' = "read" /\ word' = 0 /\ buf' = <<>> /\ asked' \in Reads
        /\ UNCHANGED <<enc, mapped, current, mmu, app>>
    BY <1>5 DEF MmapCached
  <2>2. asked'.size \in Nat
    BY <2>1, ReadAssumption DEF FlashRange
  <2>3. AllPlaced(buf')
    BY <2>1, NothingRead
  <2> QED BY <2>1, <2>2, <2>3, SizeFacts DEF FlashTypeInv, Aligned
<1>6. CASE ReadWord
  <2>1. /\ pc = "read" /\ pc' = pc /\ word' = word + 1 /\ word * WordSize < asked.size
        /\ UNCHANGED <<enc, mapped, asked, app>>
    BY <1>6 DEF ReadWord, spiVars
  <2>2. /\ mmu' = [mmu EXCEPT ![Window] = current']
        /\ \E a \in Nat : current' = PageOf(a)
        /\ \E S : \E new \in Seq(S) : buf' = buf \o new /\ \A c \in S : Placed(c)
    BY <1>6, WordPlaced
  <2>3. word + 1 <= asked.size + WordSize
    <3>1. word \in Nat /\ asked.size \in Nat
      BY <2>1, ReadAssumption DEF FlashTypeInv, FlashRange
    <3>2. word <= word * WordSize /\ word * WordSize \in Nat
      BY <3>1, SizeFacts
    <3> QED BY <2>1, <3>1, <3>2, SizeFacts
  <2>4. Window \in DOMAIN mmu
    BY SizeFacts DEF FlashTypeInv, Aligned, Window
  <2>5. current' % PageSize = 0
    <3>1. PICK a \in Nat : current' = PageOf(a)
      BY <2>2
    <3>2. PageOf(a) \in Nat /\ (PageOf(a) + 0 * PageSize) % PageSize = 0
      BY PageAligned
    <3>3. PageOf(a) + 0 * PageSize = PageOf(a)
      BY <3>2, SizeFacts
    <3> QED BY <3>1, <3>2, <3>3
  <2>6. Aligned(mmu') /\ current' = mmu'[Window]
    BY <2>2, <2>4, <2>5 DEF FlashTypeInv, Aligned
  <2>7. AllPlaced(buf')
    <3>1. PICK S : buf \in Seq(S) /\ \A c \in S : Placed(c)
      BY Zenon DEF FlashTypeInv, AllPlaced
    <3>2. PICK T : \E new \in Seq(T) : buf' = buf \o new /\ \A c \in T : Placed(c)
      BY <2>2
    <3>3. PICK new \in Seq(T) : buf' = buf \o new /\ \A c \in T : Placed(c)
      BY <3>2
    <3> DEFINE B == S \cup T
    <3>4. \A c \in B : Placed(c)
      BY <3>1, <3>3
    <3>5. buf \in Seq(B) /\ new \in Seq(B)
      BY <3>1, <3>3
    <3> HIDE DEF B
    <3>6. buf' \in Seq(B)
      BY <3>3, <3>5
    <3> QED BY <3>4, <3>6 DEF AllPlaced
  <2>8. asked' \in Reads /\ word' \in Nat
    BY <2>1 DEF FlashTypeInv
  <2> QED BY <2>1, <2>3, <2>6, <2>7, <2>8 DEF FlashTypeInv, Aligned
<1>7. CASE ReadDone
  <2>1. /\ pc' = "idle" /\ mapped' = TRUE /\ current' = Nowhere
        /\ UNCHANGED <<enc, asked, word, buf, mmu, app>>
    BY <1>7 DEF ReadDone
  <2> QED BY <2>1 DEF FlashTypeInv, Aligned
<1>8. CASE Munmap
  <2>1. /\ pc = "idle" /\ mapped' = FALSE /\ asked' = Nothing /\ buf' = <<>> /\ word' = 0
        /\ UNCHANGED <<pc, enc, current, mmu, app>>
    BY <1>8 DEF Munmap, spiVars
  <2>2. asked'.size = 0
    BY <2>1 DEF Nothing
  <2>3. AllPlaced(buf')
    BY <2>1, NothingRead
  <2>4. word' \in Nat /\ word' <= asked'.size + WordSize
    BY <2>1, <2>2, SizeFacts
  <2> QED BY <2>1, <2>3, <2>4 DEF FlashTypeInv, Aligned
<1>9. CASE StartApp
  <2>1. /\ pc = "idle" /\ ~mapped /\ pc' = "app" /\ app' \in Apps
        /\ mmu' = MapSegment(MapSegment(NoPages, app'.drom), app'.irom)
        /\ UNCHANGED <<enc, mapped, asked, word, current, buf>>
    BY <1>9 DEF StartApp
  <2>2. app'.drom \in Segment /\ app'.irom \in Segment
    BY <2>1, ReadAssumption
  <2>3. Aligned(mmu')
    <3>1. Aligned(MapSegment(NoPages, app'.drom))
      BY <2>2, NoPagesAligned, SegmentAligned
    <3> QED BY <2>1, <2>2, <3>1, SegmentAligned
  <2>4. current' = Nowhere
    BY <2>1 DEF CacheInv
  <2> QED BY <2>1, <2>3, <2>4 DEF FlashTypeInv, Aligned
<1> QED BY <1>1, <1>2, <1>3, <1>4, <1>5, <1>6, <1>7, <1>8, <1>9 DEF FlashNext, ReadStep

(* The chip, the window, the cache and the buffer have their types: pages of the
   MMU start at a page of flash, the window never runs further than a word past
   the range, and what is read are bytes of flash, whatever offset a range
   starts at (flash.rs 778-876). *)
THEOREM ReadTypeCorrect == FlashSpec => []FlashTypeOK
<1>1. ASSUME LatchInv, CacheInv, FlashTypeInv PROVE FlashTypeOK
  <2>1. word \in 0 .. asked.size + WordSize
    <3>1. asked.size \in Nat
      <4>1. asked \in Reads \/ asked = Nothing
        BY <1>1 DEF FlashTypeInv
      <4> QED BY <4>1, ReadAssumption DEF FlashRange, Nothing
    <3> QED BY <1>1, <3>1, SizeFacts DEF FlashTypeInv
  <2>2. \A i \in DOMAIN buf : buf[i] = <<>> \/ buf[i][1] \in Nat
    <3>1. PICK S : buf \in Seq(S) /\ \A c \in S : Placed(c)
      BY <1>1, Zenon DEF FlashTypeInv, AllPlaced
    <3>2. \A i \in DOMAIN buf : buf[i] \in S
      BY <3>1
    <3> QED BY <3>1, <3>2 DEF Placed
  <2> QED BY <1>1, <2>1, <2>2 DEF LatchInv, CacheInv, FlashTypeInv, Aligned, FlashTypeOK
<1>2. LatchInv /\ CacheInv /\ [FlashNext]_flashVars => CacheInv'
  BY NextCache
<1>3. LatchInv /\ CacheInv /\ FlashTypeInv /\ [FlashNext]_flashVars => FlashTypeInv'
  BY NextFlashType
<1>4. LatchInv /\ CacheInv /\ FlashTypeInv => FlashTypeOK
  BY <1>1
<1> QED BY <1>2, <1>3, <1>4, InitCache, InitFlashType, AlwaysLatch, PTL DEF FlashSpec
=============================================================================
