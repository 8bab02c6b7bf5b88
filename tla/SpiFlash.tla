------------------------------ MODULE SpiFlash ------------------------------
(***************************************************************************)
(* The SPI flash chip and the commands the bootloader sends it              *)
(* (src/flash.rs): unlocking, enabling quad mode, programming and erasing.  *)
(* A step is one command.  A status register is the set of its bits that    *)
(* are 1; the busy and the write enable bit of the first one are variables  *)
(* of their own.                                                            *)
(***************************************************************************)
EXTENDS Integers, FiniteSets

CONSTANTS
  Chips,               (* the chips a board may carry                        *)
  Sr1Left, Sr2Left,    (* status registers an application may leave behind   *)
  Sectors              (* flash sectors, numbered from 0                     *)

Byte == 0 .. 255
Bits == 0 .. 7

\* mf, type, cap: what RDID answers, in this order.  qe_sr, qe_bit: where the
\* quad enable bit is.  bp: the block protection bits of status register 1.
\* locked: the status registers are write protected by hardware.
Chip == [mf : Byte, type : Byte, cap : Byte, qe_sr : {1, 2}, qe_bit : Bits,
         bp : SUBSET Bits, locked : BOOLEAN]

\* QIO and QOUT read over four lines, the other modes over one or two.
Modes == {"quad", "dual"}

ASSUME ChipAssumption ==
  /\ Chips \subseteq Chip
  /\ Sr1Left \subseteq SUBSET Bits /\ Sr2Left \subseteq SUBSET Bits
  /\ Sectors \subseteq Nat /\ 0 \in Sectors

VARIABLES
  chip,       \* the chip of this board
  sr1, sr2,   \* its status registers
  wel, busy,  \* its write enable latch; it is writing its status registers
  mode,       \* read mode the ROM has configured the controller for
  quad,       \* FREAD_QIO and FREAD_QUAD of SPI0 and SPI1
  pc,         \* the command that comes next
  write,      \* the status register write in preparation
  polled, done,  \* where that write, and the procedure around it, return to
  dest,       \* sector bootloader_flash_write is to program, 0 when it is not called
  mem, said   \* what each sector holds, and what the results of erasing and
              \* programming it say it holds

chipVars == <<chip, sr1, sr2, wel, busy>>
spiVars  == <<chip, sr1, sr2, wel, busy, mode, quad, pc, write, polled, done, dest, mem, said>>

Writes  == [cmd : {"sr1", "both", "sr2"}, sr1 : SUBSET Bits, sr2 : SUBSET Bits]
NoWrite == [cmd |-> "sr1", sr1 |-> {}, sr2 |-> {}]

SpiTypeOK ==
  /\ chip \in Chips /\ sr1 \in SUBSET Bits /\ sr2 \in SUBSET Bits
  /\ wel \in BOOLEAN /\ busy \in BOOLEAN
  /\ mode \in Modes /\ quad \in BOOLEAN
  /\ pc \in {"resume", "unlock", "wren", "wrsr", "poll", "wrdi", "mode", "qe", "quad",
             "config", "protect", "program", "idle", "read", "app"}
  /\ write \in Writes
  /\ polled \in {"wrdi", "quad"} /\ done \in {"mode", "config", "program"}
  /\ dest \in Sectors
  /\ mem \in [Sectors -> {"erased", "written", "other"}]
  /\ said \in [Sectors -> {"erased", "written", "other"}]

\* The application before the last reset left the chip as it pleased.
PowerUp ==
  /\ mode \in Modes /\ quad = FALSE /\ pc = "resume"
  /\ sr1 \in Sr1Left /\ sr2 \in Sr2Left /\ wel \in BOOLEAN

SpiInit ==
  /\ PowerUp
  /\ chip \in Chips /\ busy = FALSE
  /\ write = NoWrite
  /\ polled = "wrdi" /\ done = "mode" /\ dest = 0
  /\ mem = [s \in Sectors |-> "other"] /\ said = mem
----------------------------------------------------------------------------
\* The bytes of RDID are put together the other way round, so the lowest byte,
\* which the callers take for the manufacturer, is the capacity.
ReadFlashId == chip.mf * 65536 + chip.type * 256 + chip.cap
MfId        == ReadFlashId % 256

ISSI == 157
MXIC == 194

\* What the chip makes of a command: nothing while it is busy.
Command(cmd) ==
  CASE busy -> UNCHANGED <<sr1, sr2, wel, busy>>
    [] ~busy /\ cmd = "WREN" -> wel' = TRUE  /\ UNCHANGED <<sr1, sr2, busy>>
    [] ~busy /\ cmd = "WRDI" -> wel' = FALSE /\ UNCHANGED <<sr1, sr2, busy>>
    [] ~busy /\ cmd = "WRSR" ->
         /\ busy' = wel /\ wel' = FALSE
         /\ sr1' = IF wel /\ ~chip.locked /\ write.cmd # "sr2" THEN write.sr1 ELSE sr1
         /\ sr2' = IF wel /\ ~chip.locked /\ write.cmd # "sr1" THEN write.sr2 ELSE sr2

Goto(p) == pc' = p
Rest    == UNCHANGED <<chip, mode, quad, dest, mem, said>>

\* spi_flash_resume wakes the chip up.
Resume ==
  /\ pc = "resume" /\ Goto("unlock") /\ done' = "mode"
  /\ UNCHANGED <<sr1, sr2, wel, busy, write, polled>> /\ Rest

\* The masks of bootloader_flash_unlock.
Kept1(mf) == CASE mf = ISSI -> {0, 1, 2, 7}
               [] mf = MXIC -> {0, 1, 6, 7}
               [] OTHER     -> {0, 1, 7}

\* Mutant: the quad enable bit of status register 2 is cleared too.
Unlock_ClearsSr2 ==
  /\ pc = "unlock"
  /\ write' = [cmd |-> IF sr2 # {} THEN "both" ELSE "sr1",
               sr1 |-> sr1 \cap Kept1(MfId), sr2 |-> {}]
  /\ polled' = "wrdi"
  /\ IF write'.sr1 # sr1 \/ write'.sr2 # sr2 THEN Goto("wren") ELSE Goto("wrdi")
  /\ UNCHANGED <<sr1, sr2, wel, busy, done>> /\ Rest

\* Mutant: only status register 2 is looked at.
Unlock_Sr2Only ==
  /\ pc = "unlock"
  /\ write' = [cmd |-> "both", sr1 |-> sr1 \cap Kept1(MfId), sr2 |-> sr2 \cap {1}]
  /\ polled' = "wrdi"
  /\ IF write'.sr2 # sr2 THEN Goto("wren") ELSE Goto("wrdi")
  /\ UNCHANGED <<sr1, sr2, wel, busy, done>> /\ Rest

Unlock ==
  /\ pc = "unlock"
  /\ LET new1 == sr1 \cap Kept1(MfId)
         new2 == sr2 \cap {1} IN
     /\ write' = [cmd |-> IF new2 # sr2 THEN "both" ELSE "sr1", sr1 |-> new1, sr2 |-> new2]
     /\ IF new1 # sr1 \/ new2 # sr2 THEN Goto("wren") ELSE Goto("wrdi")
  /\ polled' = "wrdi"
  /\ UNCHANGED <<sr1, sr2, wel, busy, done>> /\ Rest

WriteEnable ==
  /\ pc = "wren" /\ Goto("wrsr") /\ Command("WREN")
  /\ UNCHANGED <<write, polled, done>> /\ Rest

\* Mutant: nobody waits for the write to end.
WriteStatus_NoPoll ==
  /\ pc = "wrsr" /\ Goto(polled) /\ Command("WRSR")
  /\ UNCHANGED <<write, polled, done>> /\ Rest

WriteStatus ==
  /\ pc = "wrsr" /\ Goto("poll") /\ Command("WRSR")
  /\ UNCHANGED <<write, polled, done>> /\ Rest

\* Mutant: a write that has ended is taken for one that was not heard.
Poll_Repeats ==
  /\ pc = "poll" /\ ~busy /\ Goto("wren")
  /\ UNCHANGED <<sr1, sr2, wel, busy, write, polled, done>> /\ Rest

Poll ==
  /\ pc = "poll" /\ ~busy /\ Goto(polled)
  /\ UNCHANGED <<sr1, sr2, wel, busy, write, polled, done>> /\ Rest

WriteDisable ==
  /\ pc = "wrdi" /\ Goto(done) /\ Command("WRDI") /\ write' = NoWrite
  /\ UNCHANGED <<polled, done>> /\ Rest

CheckMode ==
  /\ pc = "mode"
  /\ IF mode = "quad" THEN Goto("qe") ELSE Goto("config")
  /\ UNCHANGED <<sr1, sr2, wel, busy, write, polled, done>> /\ Rest

\* QIO_CHIPS: every entry but that of MXIC has the bit in status register 2.
QeSr(mf)  == IF mf = MXIC THEN 1 ELSE 2
QeBit(mf) == IF mf = MXIC THEN 6 ELSE 1

EnableQio ==
  /\ pc = "qe" /\ polled' = "quad" /\ done' = "config"
  /\ LET bit == QeBit(MfId)
         sr  == IF QeSr(MfId) = 1 THEN sr1 ELSE sr2 IN
     IF bit \in sr THEN Goto("quad") /\ UNCHANGED write
     ELSE /\ Goto("wren")
          /\ write' = IF QeSr(MfId) = 1
                        THEN [NoWrite EXCEPT !.sr1 = sr \cup {bit}]
                        ELSE [NoWrite EXCEPT !.cmd = "sr2", !.sr2 = sr \cup {bit}]
  /\ UNCHANGED <<sr1, sr2, wel, busy>> /\ Rest

SetQuad ==
  /\ pc = "quad" /\ Goto("wrdi") /\ quad' = TRUE
  /\ UNCHANGED <<chip, sr1, sr2, wel, busy, mode, write, polled, done, dest, mem, said>>

\* The image header at address 0 gives the ROM a chip size.
Configure ==
  /\ pc = "config" /\ Goto("protect")
  /\ UNCHANGED <<sr1, sr2, wel, busy, write, polled, done>> /\ Rest

Protect ==
  /\ pc = "protect" /\ Goto("idle") /\ Command("WRDI")
  /\ UNCHANGED <<write, polled, done>> /\ Rest
----------------------------------------------------------------------------
\* A protected chip ignores an erase or a program command, and the ROM does not
\* notice; the ROM may also report an error, and then nobody knows.
Protected == sr1 \cap chip.bp # {}

RomCommand(s, to) ==
  \E ok \in BOOLEAN :
    LET result == IF ok THEN to ELSE "other" IN
    /\ mem'  = IF Protected THEN mem ELSE [mem EXCEPT ![s] = result]
    /\ said' = [said EXCEPT ![s] = result]

EraseSector ==
  /\ pc = "idle"
  /\ \E s \in Sectors : RomCommand(s, "erased")
  /\ UNCHANGED <<chip, sr1, sr2, wel, busy, mode, quad, pc, write, polled, done, dest>>

\* Only what has been erased is written.
FlashWrite ==
  /\ pc = "idle" /\ Goto("unlock") /\ done' = "program"
  /\ dest' \in {s \in Sectors : said[s] = "erased"}
  /\ UNCHANGED <<chip, sr1, sr2, wel, busy, mode, quad, write, polled, mem, said>>

\* Mutant: the destination moves on to the sector after the one written.
Program_Advances ==
  /\ pc = "program" /\ Goto("idle")
  /\ RomCommand(dest, "written") /\ dest' = dest + 1
  /\ UNCHANGED <<chip, sr1, sr2, wel, busy, mode, quad, write, polled, done>>

Program ==
  /\ pc = "program" /\ Goto("idle")
  /\ RomCommand(dest, "written") /\ dest' = 0
  /\ UNCHANGED <<chip, sr1, sr2, wel, busy, mode, quad, write, polled, done>>

\* The chip ends a status register write.
ChipReady ==
  /\ busy /\ busy' = FALSE
  /\ UNCHANGED <<chip, sr1, sr2, wel, mode, quad, pc, write, polled, done, dest, mem, said>>

\* The bootloader resets the chip, or an application has run until a reset.
Restart ==
  /\ pc \in {"idle", "app"} /\ Goto("resume")
  /\ mode' \in Modes /\ quad' = FALSE
  /\ IF chip.locked THEN UNCHANGED <<sr1, sr2>> ELSE sr1' \in Sr1Left /\ sr2' \in Sr2Left
  /\ wel' \in BOOLEAN
  /\ mem' = [s \in Sectors |-> "other"] /\ said' = mem'
  /\ UNCHANGED <<chip, busy, write, polled, done, dest>>

InitStep ==
  \/ Resume \/ Unlock \/ WriteEnable \/ WriteStatus \/ Poll \/ WriteDisable \/ CheckMode
  \/ EnableQio \/ SetQuad \/ Configure \/ Protect \/ Program

SpiNext == InitStep \/ EraseSector \/ FlashWrite \/ ChipReady \/ Restart
----------------------------------------------------------------------------
QeSet == chip.qe_bit \in (IF chip.qe_sr = 1 THEN sr1 ELSE sr2)

\* The chip has the bit where bootloader_enable_qio_mode, which goes by the
\* capacity byte, looks for it: not so MXIC, whose it is in status register 1.
QePlaced == chip.qe_sr = QeSr(chip.cap) /\ chip.qe_bit = QeBit(chip.cap)

(* BOOTLOADER.md 243: the controller reads in quad mode only while the quad
   enable bit of the chip is set, which every later bootloader_flash_write must
   respect when it unlocks the chip again.  Line 242 has a procedure for each
   vendor; the code takes the capacity byte for the manufacturer (flash.rs 404, 653)
   and sets a bit of no use in a chip that has its own elsewhere. *)
QuadEnabled == quad /\ ~chip.locked /\ QePlaced => QeSet

(* No command is sent to a chip that is still writing its registers, which
   would not hear it: each write is polled to its end (flash.rs 454, 670).  And
   every call leaves the chip write disabled (flash.rs 729). *)
CommandsHeard ==
  /\ busy => pc = "poll"
  /\ pc = "idle" => ~wel

(* An erase or a write that reports success has happened: initialisation has
   removed the protection of all blocks, and bootloader_flash_erase_sector,
   which does not unlock, may rely on it. *)
ResultsTrue ==
  ~chip.locked => \A s \in Sectors : said[s] # "other" => mem[s] = said[s]

(* Every poll ends: initialising the chip, unlocking it before a write and
   reading from it come to an end. *)
DriverReturns == pc \notin {"idle", "app"} ~> pc = "idle"
=============================================================================
