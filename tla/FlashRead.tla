------------------------------ MODULE FlashRead ------------------------------
(***************************************************************************)
(* Reading flash (src/flash.rs): bootloader_mmap copies a range into its     *)
(* buffer, straight from the chip or, on a device with flash encryption,     *)
(* word by word through a window of one MMU page, which slides over flash    *)
(* and is seen through the cache.  The MMU is programmed for good when an    *)
(* application is started (src/utility.rs).                                  *)
(***************************************************************************)
EXTENDS SpiFlash, Sequences

CONSTANTS
  WordSize, SectorSize, PageSize,   (* in bytes                               *)
  VPages,                           (* MMU entries, the last is the window    *)
  Reads,                            (* ranges the callers ask for             *)
  Apps                              (* segments of the applications           *)

FlashRange == [src : Nat, size : Nat]
Segment    == [addr : Nat, load : Nat, size : Nat]

ASSUME ReadAssumption ==
  /\ {WordSize, SectorSize, PageSize, VPages} \subseteq Nat \ {0}
  /\ PageSize % WordSize = 0 /\ PageSize % SectorSize = 0
  /\ Reads \subseteq FlashRange /\ \A r \in Reads : r.src > 0 /\ r.size > 0
  /\ Apps \subseteq [drom : Segment, irom : Segment]

VARIABLES
  enc,          \* the eFuses enable flash encryption
  mapped,       \* MAPPED
  asked,        \* the range bootloader_mmap was called with
  word,         \* index of the next word to read through the window
  current,      \* CURRENT_READ_MAPPING
  buf,          \* MMAP_BUF: the cells of flash its bytes were read from
  mmu,          \* flash address of the page each MMU entry shows
  lines,        \* the words of the window that the cache holds
  app           \* the application that has been started

readVars == <<enc, mapped, asked, word, current, buf, mmu, lines, app>>
flashVars == <<spiVars, readVars>>

Nowhere == -1
Nothing == [src |-> 0, size |-> 0]
Window  == VPages - 1
PageOf(a) == a - (a % PageSize)
NoPages   == [v \in 0 .. Window |-> Nowhere]
NoLines   == [l \in 0 .. (PageSize \div WordSize) - 1 |-> <<>>]
NoSegment == [addr |-> 0, load |-> 0, size |-> 0]
NoApp     == [drom |-> NoSegment, irom |-> NoSegment]

\* A byte of flash with what it holds now.
Cell(a) == <<a, mem[a \div SectorSize]>>

ReadInit ==
  /\ SpiInit
  /\ enc \in BOOLEAN /\ mapped = FALSE /\ asked = Nothing /\ word = 0
  /\ current = Nowhere /\ buf = <<>> /\ mmu = NoPages /\ lines = NoLines /\ app = NoApp
----------------------------------------------------------------------------
\* The ROM function of the emulator reads one byte further than it is told.
RomRead(a, n) == [i \in 1 .. n |-> Cell(a + i)]

FlashReadRaw(r) == RomRead(r.src - 1, r.size)

\* A read that the ROM reports as failed maps nothing: a step that changes nothing.
MmapRaw ==
  /\ pc = "idle" /\ ~mapped /\ ~enc
  /\ mapped' = TRUE
  /\ \E r \in Reads : asked' = r /\ buf' = FlashReadRaw(r)
  /\ UNCHANGED <<spiVars, enc, word, current, mmu, lines, app>>

MmapCached ==
  /\ pc = "idle" /\ ~mapped /\ enc
  /\ pc' = "read" /\ word' = 0 /\ buf' = <<>> /\ asked' \in Reads
  /\ UNCHANGED <<chip, sr1, sr2, wel, busy, mode, quad, write, polled, done, dest, mem, said>>
  /\ UNCHANGED <<enc, mapped, current, mmu, lines, app>>

\* One word of flash_read_via_cache, byte by byte where it is not aligned.  What
\* lies behind the end of the window is read from whatever those addresses show.
ReadWord ==
  /\ pc = "read" /\ word * WordSize < asked.size
  /\ LET at       == asked.src + word * WordSize
         page     == PageOf(at)
         held     == IF page # current THEN NoLines ELSE lines
         line(l)  == IF held[l] # <<>> THEN held[l]
                     ELSE [i \in 1 .. WordSize |-> Cell(page + l * WordSize + i - 1)]
         bytes    == at - page .. at - page + WordSize - 1
         byte(o)  == IF o < PageSize THEN line(o \div WordSize)[(o % WordSize) + 1] ELSE <<>> IN
     /\ lines' = [l \in DOMAIN held |->
                    IF \E o \in bytes : o \div WordSize = l THEN line(l) ELSE held[l]]
     /\ mmu' = [mmu EXCEPT ![Window] = page]
     /\ current' = page
     /\ buf' = buf \o [i \in 1 .. WordSize |-> byte(at - page + i - 1)]
  /\ word' = word + 1
  /\ UNCHANGED <<spiVars, enc, mapped, asked, app>>

\* Mutant: the next read takes the window for mapped.
ReadDone_KeepsWindow ==
  /\ pc = "read" /\ word * WordSize >= asked.size
  /\ pc' = "idle" /\ mapped' = TRUE
  /\ UNCHANGED <<chip, sr1, sr2, wel, busy, mode, quad, write, polled, done, dest, mem, said>>
  /\ UNCHANGED <<enc, asked, word, buf, current, mmu, lines, app>>

ReadDone ==
  /\ pc = "read" /\ word * WordSize >= asked.size
  /\ pc' = "idle" /\ mapped' = TRUE /\ current' = Nowhere
  /\ UNCHANGED <<chip, sr1, sr2, wel, busy, mode, quad, write, polled, done, dest, mem, said>>
  /\ UNCHANGED <<enc, asked, word, buf, mmu, lines, app>>

Munmap ==
  /\ pc = "idle" /\ mapped
  /\ mapped' = FALSE /\ asked' = Nothing /\ buf' = <<>> /\ word' = 0
  /\ UNCHANGED <<spiVars, enc, current, mmu, lines, app>>
----------------------------------------------------------------------------
\* Mutant: the number of pages follows from the size alone.
MapSegment_SizeOnly(map, seg) ==
  IF seg.size = 0 \/ seg.addr = 0 THEN map
  ELSE LET first == seg.load \div PageSize
           pages == (seg.size + PageSize - 1) \div PageSize IN
       [v \in DOMAIN map |-> IF v \in first .. first + pages - 1
                               THEN PageOf(seg.addr) + (v - first) * PageSize ELSE map[v]]

MapSegment(map, seg) ==
  IF seg.size = 0 \/ seg.addr = 0 THEN map
  ELSE LET first == seg.load \div PageSize
           pages == (seg.size + (seg.load % PageSize) + PageSize - 1) \div PageSize IN
       [v \in DOMAIN map |-> IF v \in first .. first + pages - 1
                               THEN PageOf(seg.addr) + (v - first) * PageSize ELSE map[v]]

\* set_cache_and_start_app: invalidate the cache, clear the MMU, map DROM and IROM.
StartApp ==
  /\ pc = "idle" /\ ~mapped /\ pc' = "app"
  /\ app' \in Apps
  /\ mmu' = MapSegment(MapSegment(NoPages, app'.drom), app'.irom)
  /\ lines' = NoLines
  /\ UNCHANGED <<chip, sr1, sr2, wel, busy, mode, quad, write, polled, done, dest, mem, said>>
  /\ UNCHANGED <<enc, mapped, asked, word, current, buf>>

ForgetReads ==
  /\ mapped' = FALSE /\ asked' = Nothing /\ word' = 0 /\ current' = Nowhere /\ buf' = <<>>
  /\ mmu' = NoPages /\ lines' = NoLines /\ app' = NoApp
  /\ UNCHANGED enc

ReadStep == ReadWord \/ ReadDone

FlashNext ==
  \/ (InitStep \/ EraseSector \/ FlashWrite \/ ChipReady) /\ UNCHANGED readVars
  \/ Restart /\ ForgetReads
  \/ MmapRaw \/ MmapCached \/ ReadStep \/ Munmap \/ StartApp

FlashSpec ==
  /\ ReadInit /\ [][FlashNext]_flashVars
  /\ WF_flashVars(InitStep /\ UNCHANGED readVars)
  /\ WF_flashVars(ChipReady /\ UNCHANGED readVars)
  /\ WF_flashVars(ReadStep)
----------------------------------------------------------------------------
FlashTypeOK ==
  /\ SpiTypeOK
  /\ enc \in BOOLEAN /\ mapped \in BOOLEAN /\ asked \in Reads \cup {Nothing}
  /\ word \in 0 .. asked.size + WordSize
  /\ current = Nowhere \/ current = mmu[Window]
  /\ \A i \in DOMAIN buf : buf[i] = <<>> \/ buf[i][1] \in Nat
  /\ DOMAIN mmu = 0 .. Window /\ \A v \in DOMAIN mmu : mmu[v] = Nowhere \/ mmu[v] % PageSize = 0
  /\ DOMAIN lines = DOMAIN NoLines /\ app \in Apps \cup {NoApp}

\* Byte i of a range lies in the page the window shows for the word it is read in.
Shown(r, i) ==
  PageOf(r.src + i - 1) = PageOf(r.src + WordSize * ((i - 1) \div WordSize))

(* BOOTLOADER.md 244, 257: a mapping holds what flash holds at its range when it
   is made, whatever page the window showed before and whatever has been erased
   or written since the cache saw it.  Line 812 promises plaintext of all of it; on
   a device with flash encryption that is not so for a byte of a word that the end
   of the window cuts, which a range that starts inside a word and crosses a page
   has: segment headers follow data of any length (image.rs 496).  The checksum of
   an image, its one byte the last of 16 (image.rs 503), is covered. *)
MappingTrue ==
  [][~mapped /\ mapped' =>
       \A i \in 1 .. asked'.size :
         (enc => Shown(asked', i)) => buf'[i] = Cell(asked'.src + i - 1)]_flashVars

\* As the linker places segments: at the same offset in a page as in flash, on
\* pages of the MMU that the other segment does not use.
VPagesOf(seg) == {(seg.load + i) \div PageSize : i \in 0 .. seg.size - 1}
Linked(a) ==
  /\ \A seg \in {a.drom, a.irom} :
       seg.size > 0 => /\ seg.addr > 0 /\ seg.addr % PageSize = seg.load % PageSize
                       /\ VPagesOf(seg) \subseteq 0 .. Window
  /\ VPagesOf(a.drom) \cap VPagesOf(a.irom) = {}

(* An application that is linked for this finds every byte of its mapped
   segments at its load address, and nothing else of flash is mapped: the page
   flash was read through is gone. *)
AppSeesItself ==
  pc = "app" /\ Linked(app) =>
    /\ \A seg \in {app.drom, app.irom} : \A i \in 0 .. seg.size - 1 :
         mmu[(seg.load + i) \div PageSize] = PageOf(seg.addr + i)
    /\ \A v \in DOMAIN mmu : mmu[v] # Nowhere => v \in VPagesOf(app.drom) \cup VPagesOf(app.irom)
=============================================================================
