----------------------------- MODULE ImageLoad -----------------------------
(***************************************************************************)
(* Loading an application image (src/image.rs), with the one flash mapping  *)
(* (src/flash.rs) and the pool of SHA-256 contexts (src/sha256.rs) that all *)
(* the images the boot sweep tries share.  A step runs from one use of the  *)
(* mapping to the next.  Load addresses are words 0 .. AddrMax that wrap,   *)
(* and two of them may lead to the same word of SRAM; a place in flash is   *)
(* named by what is stored there, and a hash is the sequence of places that *)
(* were hashed.  A loader that was overwritten goes on here as if it were   *)
(* not: one of the ways it may go on, of which nothing is claimed.          *)
(***************************************************************************)
EXTENDS Integers, Sequences, FiniteSets

CONSTANTS
  Cands,             (* the partitions the sweep may try                    *)
  Images,            (* what such a partition may hold                      *)
  MaxSegments,       (* ESP_IMAGE_MAX_SEGMENTS                              *)
  AddrMax,           (* u32::MAX                                            *)
  MmapMax,           (* the most bytes bootloader_mmap maps: 4093           *)
  SigSize,           (* size of the signature block: 4096                   *)
  PoolSize,          (* POOL_SIZE                                           *)
  Ram, Drom, Irom,   (* load addresses that are copied to, or mapped        *)
  Cell,              (* the SRAM word behind an address: soc.rs 136-139     *)
  TextStart, TextEnd, DataStart, BssEnd, StackStart,   (* linker.ld         *)
  RomStack, Headroom (* SOC_ROM_STACK_START and the distance kept from it   *)

Words == 0 .. AddrMax
Bits  == {0, 1}

\* data: the exclusive or of the payload.
Segment == [load_addr : Words, data_len : Words, data : Bits]

\* header: magic and chip are right.  hash, signed: the stored hash and the
\* signature fit the image.  allowed: secure_version is not below the eFuse.
Image ==
  [header : BOOLEAN, segs : Seq(Segment), hash_appended : BOOLEAN, checksum : Bits,
   hash : BOOLEAN, signed : BOOLEAN, allowed : BOOLEAN]

Loc == [of : Cands, what : {"desc", "header", "segment", "data", "checksum", "hash", "sig"},
        at : 0 .. MaxSegments]
NoLoc == [what |-> "nothing"]

ASSUME MemoryAssumption ==
  /\ {MaxSegments, AddrMax, MmapMax, SigSize, PoolSize} \subseteq Nat \ {0}
  /\ Ram \subseteq Words /\ Drom \subseteq Words /\ Irom \subseteq Words
  /\ Ram \cap (Drom \cup Irom) = {} /\ Drom \cap Irom = {}
  /\ {TextStart, TextEnd, DataStart, BssEnd, StackStart, RomStack, Headroom} \subseteq Words
  /\ \A a \in Ram : a + MmapMax <= AddrMax
  /\ Cell \in [Words -> Words]
  /\ Images \subseteq Image

\* image.rs 592 asks for 4096 bytes at once, flash.rs 778 grants 4093.
ASSUME SignatureAssumption == SigSize > MmapMax

VARIABLES
  flash,      \* the image in each partition
  secure,     \* the signature is to be checked (feature and eFuse)
  pc, cand,   \* progress, and the partition being tried
  seg,        \* segment process_image is at, from 1
  mapped,     \* MAPPED
  buf,        \* what MMAP_BUF holds; it outlives the mapping
  used,       \* entries of CTX_USED that are set
  handle,     \* process_image holds a context
  fed,        \* what it hashed so far
  checksum,   \* exclusive or so far
  meta,       \* EspImageMetadata, shared by all tries
  ram,        \* where the content of each word of SRAM was copied from
  unread      \* ghost: a flash read of this try failed

imageVars ==
  <<flash, secure, pc, cand, seg, mapped, buf, used, handle, fed, checksum, meta, ram, unread>>

Zero == [load_addr |-> 0, data_len |-> 0, data |-> 0]

PcValues == {"next", "header", "start", "seg", "segment", "data", "hash", "finish", "sig",
             "launched", "rejected"}

ImageTypeOK ==
  /\ flash \in [Cands -> Images] /\ secure \in BOOLEAN
  /\ pc \in PcValues /\ cand \in Cands
  /\ seg \in 1 .. (MaxSegments + 1)
  /\ mapped \in BOOLEAN /\ buf \in Loc \cup {NoLoc}
  /\ used \in 0 .. PoolSize /\ handle \in BOOLEAN
  /\ fed \in Seq(Loc \cup {NoLoc}) /\ checksum \in Bits
  /\ meta \in [count : Nat, segs : [1 .. MaxSegments -> Segment],
               pos : [1 .. MaxSegments -> Loc \cup {NoLoc}]]
  /\ ram \in [Words -> Loc \cup {NoLoc}] /\ unread \in BOOLEAN

ImageInit ==
  /\ flash \in [Cands -> Images] /\ secure \in BOOLEAN
  /\ pc = "next" /\ cand \in Cands /\ seg = 1
  /\ mapped = FALSE /\ buf = NoLoc /\ used = 0 /\ handle = FALSE
  /\ fed = <<>> /\ checksum = 1
  /\ meta = [count |-> 0, segs |-> [k \in 1 .. MaxSegments |-> Zero],
             pos |-> [k \in 1 .. MaxSegments |-> NoLoc]]
  /\ ram = [a \in Words |-> NoLoc] /\ unread = FALSE
----------------------------------------------------------------------------
Img == flash[cand]
At(what, k) == [of |-> cand, what |-> what, at |-> k]
Xor(a, b) == (a + b) % 2

\* bootloader_mmap refuses an empty or oversized request and a second mapping;
\* otherwise the flash read decides.
Refused(len) == mapped \/ len \notin 1 .. MmapMax
Mmap(len)    == IF Refused(len) THEN {FALSE} ELSE BOOLEAN

\* A read of len bytes at loc, from mmap to munmap.
Read(ok, loc, len) ==
  /\ buf' = IF ok THEN loc ELSE buf
  /\ mapped' = IF ok THEN FALSE ELSE mapped
  /\ unread' = (unread \/ (~ok /\ ~Refused(len)))

\* bootloader_sha256_data; without a context it does nothing.
Feed(loc) == fed' = IF handle THEN Append(fed, loc) ELSE fed

\* bootloader_sha256_start of a hash that begins with loc: without a handle if
\* the pool is exhausted.
Sha256Start(loc) ==
  IF used < PoolSize
    THEN used' = used + 1 /\ handle' = TRUE /\ fed' = <<loc>>
    ELSE UNCHANGED <<used, handle, fed>>

\* bootloader_sha256_finish returns the context, if there is one, to the pool.
Sha256Finish ==
  /\ used' = IF handle THEN used - 1 ELSE used
  /\ handle' = FALSE

\* Mutant: sha_abort frees a context that was never taken.
Reject_Always ==
  /\ pc' = "rejected"
  /\ used' = used - 1
  /\ handle' = FALSE

\* return false, after sha_abort where a context is held.
Reject == pc' = "rejected" /\ Sha256Finish

Goto(next) == pc' = next /\ UNCHANGED <<used, handle>>

\* check_anti_rollback, then process_image; an unreadable descriptor is allowed.
TryPartition ==
  /\ pc \in {"next", "rejected"}
  /\ \E c \in Cands, ok \in Mmap(1) :
       /\ cand' = c
       /\ buf' = IF ok THEN [of |-> c, what |-> "desc", at |-> 0] ELSE buf
       /\ unread' = (~ok /\ ~mapped)
       /\ pc' = IF ok /\ ~flash[c].allowed THEN "rejected" ELSE "header"
  /\ seg' = 1 /\ checksum' = 1 /\ fed' = <<>>
  /\ UNCHANGED <<flash, secure, mapped, used, handle, meta, ram>>

ReadHeader ==
  /\ pc = "header"
  /\ \E ok \in Mmap(1) :
       /\ Read(ok, At("header", 0), 1)
       /\ IF ok THEN Goto("start") ELSE Reject
       /\ meta' = IF ok THEN [meta EXCEPT !.count = Len(Img.segs)] ELSE meta
  /\ UNCHANGED <<flash, secure, cand, seg, fed, checksum, ram>>

VerifyHeader == Img.header /\ meta.count \in 1 .. MaxSegments

\* The header is hashed from the buffer, the mapping being gone.
StartImage ==
  /\ pc = "start"
  /\ IF ~VerifyHeader THEN Reject /\ UNCHANGED fed
     ELSE /\ pc' = "seg"
          /\ IF Img.hash_appended THEN Sha256Start(buf)
                                  ELSE UNCHANGED <<used, handle, fed>>
  /\ UNCHANGED <<flash, secure, cand, seg, mapped, buf, checksum, meta, ram, unread>>

ReadSegment ==
  /\ pc = "seg" /\ seg <= meta.count
  /\ \E ok \in Mmap(1) :
       /\ Read(ok, At("segment", seg), 1)
       /\ IF ok THEN Goto("segment") ELSE Reject
       /\ meta' = IF ok THEN [meta EXCEPT !.segs[seg] = Img.segs[seg],
                                          !.pos[seg] = At("data", seg)] ELSE meta
  /\ UNCHANGED <<flash, secure, cand, seg, fed, checksum, ram>>

\* Mutant: only the first address is compared.
LoadAddressOK_Start(addr, len) ==
  /\ ~(addr < TextEnd /\ addr >= TextStart)
  /\ ~(addr < BssEnd /\ addr >= DataStart)
  /\ ~(addr + Headroom > RomStack /\ addr < RomStack + Headroom)

\* verify_load_addresses, with the wrapping sum of its caller.
LoadAddressOK(addr, len) ==
  LET sum      == addr + len
      load_end == IF sum > AddrMax THEN sum - AddrMax - 1 ELSE sum IN
  /\ ~(addr < TextEnd /\ load_end > TextStart)
  /\ ~(addr < BssEnd /\ load_end > DataStart)
  /\ ~(addr + Headroom > RomStack /\ addr < RomStack + Headroom)

DoLoad(s) == s.load_addr \in Ram

\* Mutant: the segment header is not hashed.
CheckSegment_NoHash ==
  /\ pc = "segment"
  /\ LET s == meta.segs[seg] IN
     IF DoLoad(s) /\ ~LoadAddressOK(s.load_addr, s.data_len) THEN Reject ELSE Goto("data")
  /\ UNCHANGED <<flash, secure, cand, seg, mapped, buf, fed, checksum, meta, ram, unread>>

CheckSegment ==
  /\ pc = "segment"
  /\ Feed(buf)
  /\ LET s == meta.segs[seg] IN
     IF DoLoad(s) /\ ~LoadAddressOK(s.load_addr, s.data_len) THEN Reject ELSE Goto("data")
  /\ UNCHANGED <<flash, secure, cand, seg, mapped, buf, checksum, meta, ram, unread>>

Copied(s)   == s.load_addr .. (s.load_addr + s.data_len - 1)
Covers(s, c) == DoLoad(s) /\ \E a \in Copied(s) : Cell[a] = c

SegmentDone == seg' = seg + 1 /\ Goto("seg")

ProcessData ==
  /\ pc = "data"
  /\ LET s == meta.segs[seg] IN
     IF s.data_len = 0
     THEN SegmentDone /\ UNCHANGED <<mapped, buf, fed, checksum, ram, unread>>
     ELSE \E ok \in Mmap(s.data_len) :
            /\ Read(ok, At("data", seg), s.data_len)
            /\ IF ok
               THEN /\ checksum' = Xor(checksum, s.data)
                    /\ Feed(At("data", seg))
                    /\ ram' = [c \in Words |-> IF Covers(s, c) THEN At("data", seg) ELSE ram[c]]
                    /\ SegmentDone
               ELSE Reject /\ UNCHANGED <<seg, fed, checksum, ram>>
  /\ UNCHANGED <<flash, secure, cand, meta>>

\* Mutant: a checksum mismatch returns without sha_abort.
CheckChecksum_Leaks ==
  /\ pc = "seg" /\ seg > meta.count
  /\ \E ok \in Mmap(1) :
       /\ Read(ok, At("checksum", 0), 1)
       /\ IF ok THEN Feed(At("checksum", 0)) ELSE UNCHANGED fed
       /\ IF ~ok THEN Reject
          ELSE IF checksum # Img.checksum THEN pc' = "rejected" /\ handle' = FALSE /\ UNCHANGED used
          ELSE IF Img.hash_appended THEN Goto("hash") ELSE Goto("launched")
  /\ UNCHANGED <<flash, secure, cand, seg, checksum, meta, ram>>

\* Mutant: the checksum of an image with a hash is not compared.
CheckChecksum_Skips ==
  /\ pc = "seg" /\ seg > meta.count
  /\ \E ok \in Mmap(1) :
       /\ Read(ok, At("checksum", 0), 1)
       /\ IF ok THEN Feed(At("checksum", 0)) ELSE UNCHANGED fed
       /\ IF ~ok THEN Reject
          ELSE IF Img.hash_appended THEN Goto("hash")
          ELSE IF checksum # Img.checksum THEN Reject ELSE Goto("launched")
  /\ UNCHANGED <<flash, secure, cand, seg, checksum, meta, ram>>

CheckChecksum ==
  /\ pc = "seg" /\ seg > meta.count
  /\ \E ok \in Mmap(1) :
       /\ Read(ok, At("checksum", 0), 1)
       /\ IF ok THEN Feed(At("checksum", 0)) ELSE UNCHANGED fed
       /\ IF ~ok \/ checksum # Img.checksum THEN Reject
          ELSE IF Img.hash_appended THEN Goto("hash") ELSE Goto("launched")
  /\ UNCHANGED <<flash, secure, cand, seg, checksum, meta, ram>>

ReadHash ==
  /\ pc = "hash"
  /\ \E ok \in Mmap(1) :
       /\ Read(ok, At("hash", 0), 1)
       /\ IF ok THEN Goto("finish") ELSE Reject
  /\ UNCHANGED <<flash, secure, cand, seg, fed, checksum, meta, ram>>

\* What the hash stored in an image was computed from.
Hashed(k) ==
  IF Img.segs[k].data_len = 0 THEN <<At("segment", k)>>
  ELSE <<At("segment", k), At("data", k)>>
DigestOf ==
  LET upTo[k \in 0 .. Len(Img.segs)] ==
        IF k = 0 THEN <<At("header", 0)>> ELSE upTo[k - 1] \o Hashed(k)
  IN  Append(upTo[Len(Img.segs)], At("checksum", 0))

\* Without a context the computed hash is all zeroes; the stored one is read
\* from the buffer.
FinishHash ==
  /\ pc = "finish"
  /\ Sha256Finish
  /\ pc' = IF handle /\ Img.hash /\ fed = DigestOf /\ buf = At("hash", 0)
             THEN IF secure THEN "sig" ELSE "launched"
             ELSE "rejected"
  /\ UNCHANGED <<flash, secure, cand, seg, mapped, buf, fed, checksum, meta, ram, unread>>

\* verify_secure_boot_sig.
CheckSignature ==
  /\ pc = "sig"
  /\ \E ok \in Mmap(SigSize) :
       /\ Read(ok, At("sig", 0), SigSize)
       /\ IF ok /\ Img.signed THEN Goto("launched") ELSE Reject
  /\ UNCHANGED <<flash, secure, cand, seg, fed, checksum, meta, ram>>

ImageNext ==
  \/ TryPartition \/ ReadHeader \/ StartImage \/ ReadSegment \/ CheckSegment
  \/ ProcessData \/ CheckChecksum \/ ReadHash \/ FinishHash \/ CheckSignature

ImageSpec == ImageInit /\ [][ImageNext]_imageVars

\* Mutant: all the entries of the arrays are looked at.
SegmentInfo_All(region) ==
  LET in == {k \in 1 .. MaxSegments :
               meta.segs[k].data_len # 0 /\ meta.segs[k].load_addr \in region}
      first == CHOOSE k \in in : \A j \in in : k <= j
  IN  IF in = {} THEN {} ELSE {[addr |-> meta.pos[first], seg |-> meta.segs[first]]}
----------------------------------------------------------------------------
Touches(s, lo, hi) == s.load_addr < hi /\ s.load_addr + s.data_len > lo

\* extract_segment_info: what is mapped for one of the two regions, the first
\* segment that lies in it.
SegmentInfo(region) ==
  LET in == {k \in 1 .. meta.count :
               meta.segs[k].data_len # 0 /\ meta.segs[k].load_addr \in region}
      first == CHOOSE k \in in : \A j \in in : k <= j
  IN  IF in = {} THEN {} ELSE {[addr |-> meta.pos[first], seg |-> meta.segs[first]]}

(* An image as it should be accepted: every check in arithmetic that does not
   wrap, over the whole image at once. *)
Sound(image) ==
  /\ image.header /\ Len(image.segs) \in 1 .. MaxSegments
  /\ \A k \in DOMAIN image.segs :
       LET s == image.segs[k] IN
       DoLoad(s) =>
         /\ ~Touches(s, TextStart, TextEnd) /\ ~Touches(s, DataStart, BssEnd)
         /\ s.load_addr \notin (RomStack - Headroom + 1) .. (RomStack + Headroom - 1)
  /\ image.checksum =
       (1 + Cardinality({k \in DOMAIN image.segs :
                           image.segs[k].data_len # 0 /\ image.segs[k].data = 1})) % 2
  /\ image.hash_appended => image.hash

\* Every segment fits the one mapping it is read through: a limit of this loader,
\* not of the format.
Mappable(image) == \A k \in DOMAIN image.segs : image.segs[k].data_len <= MmapMax

\* The code and the data of the bootloader, and the stack below _stack_start.
Sections == TextStart .. (TextEnd - 1) \cup DataStart .. (BssEnd - 1)
Stack    == BssEnd .. (StackStart - 1)

Written(a) == ram[Cell[a]] # NoLoc
Writer(a)  == flash[ram[Cell[a]].of].segs[ram[Cell[a]].at]

\* The loader is no longer what was started.
Overwritten == \E a \in Sections \cup Stack : Written(a)

(* What a loader that is still whole starts is sound, whatever was tried before
   it.  Two things are taken on trust: a secure version that could not be read,
   and, where signatures are to be checked, an image without a hash; no image with
   one is started there (image.rs 386-597, utility.rs 535-538). *)
LaunchedSound ==
  pc = "launched" /\ ~Overwritten =>
    /\ Sound(Img) /\ Mappable(Img)
    /\ Img.allowed \/ unread
    /\ secure => ~Img.hash_appended

(* A sound image is rejected only if flash could not be read: nothing an earlier
   try left behind, a mapping, a context or the buffer, makes it fail.  Exempt are
   images this loader has no room for, with a segment or a signature longer than
   its mapping: where signatures are checked, all that have one. *)
SoundBoots ==
  pc = "rejected" /\ ~Overwritten =>
    \/ unread \/ ~Img.allowed \/ ~Sound(Img)
    \/ ~Mappable(Img) \/ (secure /\ Img.hash_appended)

(* README.md 11 and 59, BOOTLOADER.md 20 and 725: with Secure Boot the signature
   decides.  What is started has a good one that was looked at, and an image that
   has a good one is started, if it is sound and flash can be read. *)
SecureBootVerifies ==
  secure =>
    /\ pc = "launched" => Img.hash_appended /\ Img.signed
    /\ pc = "rejected" /\ Img.hash_appended /\ Img.signed =>
         unread \/ ~Img.allowed \/ ~Sound(Img) \/ ~Mappable(Img) \/ Overwritten

(* Between two tries no mapping is active and every SHA context is free, on
   each of the error paths of process_image. *)
Released == pc \in {"next", "rejected", "launched"} => ~mapped /\ used = 0

(* No segment is ever copied over the code or the data of the bootloader at their
   own addresses, even if the end of the segment wraps around, for then it cannot
   be mapped: what overwrites a word of them does so through another address of
   the same SRAM (image.rs 256-292). *)
SectionsSpared ==
  \A a \in Sections :
    Written(a) => \E b \in Words \ Sections : b \in Copied(Writer(a)) /\ Cell[b] = Cell[a]

\* No section of the bootloader is copied over, by whichever address.
RegionsSpared == \A a \in Sections : ~Written(a)

(* image.rs 254-255, BOOTLOADER.md 123: a loaded segment does not overlap the memory
   of the running bootloader, its sections or the stack that grows down towards
   them from _stack_start, whichever address it is copied to. *)
MemorySpared == ~Overwritten

(* The application a whole loader starts finds its own segments: in each word of
   SRAM, the last of its segments that covers it, under either address; in the
   mapped regions its own first segment, not one that an earlier try left in the
   shared metadata. *)
LaunchedIntact ==
  pc = "launched" /\ ~Overwritten =>
    /\ \A k \in DOMAIN Img.segs : DoLoad(Img.segs[k]) =>
         \A a \in Copied(Img.segs[k]) :
           \E j \in DOMAIN Img.segs :
             j >= k /\ Covers(Img.segs[j], Cell[a]) /\ ram[Cell[a]] = At("data", j)
    /\ \A region \in {Drom, Irom} :
         LET own == {k \in DOMAIN Img.segs :
                       Img.segs[k].data_len # 0 /\ Img.segs[k].load_addr \in region}
         IN  SegmentInfo(region) =
               {[addr |-> At("data", k), seg |-> Img.segs[k]] :
                  k \in {m \in own : \A n \in own : m <= n}}
=============================================================================
