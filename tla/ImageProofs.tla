---------------------------- MODULE ImageProofs ----------------------------
(***************************************************************************)
(* Loading an image, for every image, any number of partitions and any      *)
(* memory layout: typing, the resources of the bootloader and its sections. *)
(***************************************************************************)
EXTENDS ImageLoad, FiniteSetTheorems, TLAPS

Walking == {"seg", "segment", "data"}

(* What the header promised holds while the segments are walked, so every
   index is in range. *)
WalkInv ==
  /\ pc \in Walking => meta.count \in 1 .. MaxSegments /\ seg <= meta.count + 1
  /\ pc \in {"segment", "data"} => seg <= meta.count
  /\ pc \in {"start"} \cup Walking => meta.count = Len(Img.segs)
  /\ pc \in {"header", "start"} => seg = 1

(* A mapping lasts for one step only, and a context is held only while an image
   with a hash is being read. *)
ResourceInv ==
  /\ mapped = FALSE
  /\ used = IF handle THEN 1 ELSE 0
  /\ handle => Img.hash_appended /\ pc \in Walking \cup {"hash", "finish"}

ImageInv == ImageTypeOK /\ WalkInv /\ ResourceInv

(* Every reference to a partition yields an image. *)
LEMMA ImgType ==
  ASSUME ImageTypeOK
  PROVE  /\ Img \in Image
         /\ Len(Img.segs) \in Nat
         /\ \A k \in 1 .. Len(Img.segs) : Img.segs[k] \in Segment
<1>1. Img \in Image
  BY MemoryAssumption DEF ImageTypeOK, Img
<1>2. Img.segs \in Seq(Segment)
  BY <1>1 DEF Image
<1> QED BY <1>1, <1>2

LEMMA Numbers ==
  /\ MaxSegments \in Nat /\ MaxSegments >= 1
  /\ AddrMax \in Nat /\ MmapMax \in Nat /\ PoolSize \in Nat /\ PoolSize >= 1
  BY MemoryAssumption

LEMMA LocType ==
  ASSUME ImageTypeOK, NEW k \in 0 .. MaxSegments,
         NEW w \in {"desc", "header", "segment", "data", "checksum", "hash", "sig"}
  PROVE  At(w, k) \in Loc
  BY DEF ImageTypeOK, At, Loc

(* A read leaves nothing mapped. *)
LEMMA ReadInv ==
  ASSUME ImageTypeOK, ResourceInv, NEW loc \in Loc, NEW len, NEW ok \in Mmap(len),
         Read(ok, loc, len)
  PROVE  /\ ok \in BOOLEAN /\ unread' \in BOOLEAN
         /\ mapped' = FALSE /\ buf' \in Loc \cup {NoLoc}
<1>1. ok \in BOOLEAN
  BY DEF Mmap
<1>2. unread' \in BOOLEAN
  BY Zenon DEF Read, ImageTypeOK
<1>3. mapped' = FALSE /\ buf' \in Loc \cup {NoLoc}
  BY DEF Read, ImageTypeOK, ResourceInv
<1> QED BY <1>1, <1>2, <1>3

LEMMA FedType ==
  ASSUME NEW s \in Seq(Loc \cup {NoLoc}), NEW x \in Loc \cup {NoLoc}
  PROVE  Append(s, x) \in Seq(Loc \cup {NoLoc}) /\ <<x>> \in Seq(Loc \cup {NoLoc})
  OBVIOUS

LEMMA InvInit == ImageInit => ImageInv
<1> SUFFICES ASSUME ImageInit PROVE ImageInv
  OBVIOUS
<1>1. /\ flash \in [Cands -> Images] /\ secure \in BOOLEAN /\ pc = "next" /\ cand \in Cands
      /\ seg = 1 /\ mapped = FALSE /\ buf = NoLoc /\ used = 0 /\ handle = FALSE
      /\ fed = <<>> /\ checksum = 1 /\ unread = FALSE
  BY DEF ImageInit
<1>2. meta \in [count : Nat, segs : [1 .. MaxSegments -> Segment],
                pos : [1 .. MaxSegments -> Loc \cup {NoLoc}]]
  BY Numbers DEF ImageInit, Zero, Segment, Words, Bits
<1>3. ram \in [Words -> Loc \cup {NoLoc}]
  BY DEF ImageInit
<1>4. ImageTypeOK
  <2>1. used \in 0 .. PoolSize /\ seg \in 1 .. (MaxSegments + 1)
    BY <1>1, Numbers
  <2>2. fed \in Seq(Loc \cup {NoLoc})
    BY <1>1
  <2>3. pc \in PcValues /\ checksum \in Bits
    BY <1>1 DEF PcValues, Bits
  <2>4. mapped \in BOOLEAN /\ handle \in BOOLEAN /\ unread \in BOOLEAN /\ buf \in Loc \cup {NoLoc}
    BY <1>1
  <2> QED BY <1>1, <1>2, <1>3, <2>1, <2>2, <2>3, <2>4 DEF ImageTypeOK
<1>5. WalkInv
  BY <1>1 DEF WalkInv, Walking
<1>6. ResourceInv
  BY <1>1 DEF ResourceInv
<1> QED BY <1>4, <1>5, <1>6 DEF ImageInv

MetaType ==
  [count : Nat, segs : [1 .. MaxSegments -> Segment],
   pos : [1 .. MaxSegments -> Loc \cup {NoLoc}]]

(* What every step keeps of the typing, and what it must keep of its own: the
   arithmetic and the Boolean parts apart. *)
LEMMA TypeKept ==
  ASSUME ImageTypeOK, UNCHANGED <<flash, secure>>
  PROVE  flash' \in [Cands -> Images] /\ secure' \in BOOLEAN
  BY DEF ImageTypeOK

LEMMA TypeParts ==
  ASSUME flash' \in [Cands -> Images], secure' \in BOOLEAN,
         pc' \in PcValues, cand' \in Cands, seg' \in 1 .. (MaxSegments + 1),
         mapped' = FALSE, buf' \in Loc \cup {NoLoc}, used' \in 0 .. PoolSize,
         handle' \in BOOLEAN, fed' \in Seq(Loc \cup {NoLoc}), checksum' \in Bits,
         meta' \in MetaType, ram' \in [Words -> Loc \cup {NoLoc}], unread' \in BOOLEAN
  PROVE  ImageTypeOK'
  BY DEF ImageTypeOK, MetaType

(* A step that rejects the image gives its context back. *)
LEMMA RejectInv ==
  ASSUME ImageTypeOK, ResourceInv, Reject
  PROVE  used' = 0 /\ handle' = FALSE /\ pc' = "rejected"
  BY Numbers DEF ResourceInv, ImageTypeOK, Reject, Sha256Finish

Outcome(nexts) ==
  \/ used' = used /\ handle' = handle /\ pc' \in nexts
  \/ used' = 0 /\ handle' = FALSE /\ pc' = "rejected"

LEMMA OutcomeType ==
  ASSUME ImageTypeOK, NEW nexts \in SUBSET PcValues, Outcome(nexts)
  PROVE  used' \in 0 .. PoolSize /\ handle' \in BOOLEAN /\ pc' \in PcValues
<1>1. used' \in 0 .. PoolSize
  BY Numbers DEF Outcome, ImageTypeOK
<1>2. pc' \in PcValues
  BY DEF Outcome, PcValues
<1>3. handle' \in BOOLEAN
  BY DEF Outcome, ImageTypeOK
<1> QED BY <1>1, <1>2, <1>3

LEMMA InvStep == ImageInv /\ [ImageNext]_imageVars => ImageInv'
<1> SUFFICES ASSUME ImageInv, [ImageNext]_imageVars PROVE ImageInv'
  OBVIOUS
<1>0. ImageTypeOK /\ WalkInv /\ ResourceInv
  BY DEF ImageInv
<1> USE Numbers
<1>1. ASSUME TryPartition PROVE ImageInv'
  <2>1. PICK c \in Cands, ok \in Mmap(1) :
          /\ cand' = c
          /\ buf' = IF ok THEN [of |-> c, what |-> "desc", at |-> 0] ELSE buf
          /\ unread' = (~ok /\ ~mapped)
          /\ pc' = IF ok /\ ~flash[c].allowed THEN "rejected" ELSE "header"
    BY <1>1, Zenon DEF TryPartition
  <2>2. buf' \in Loc \cup {NoLoc}
    BY <1>0, <2>1 DEF Loc, ImageTypeOK
  <2>3. unread' \in BOOLEAN
    BY <2>1, Zenon
  <2>4. fed' \in Seq(Loc \cup {NoLoc})
    BY <1>1 DEF TryPartition
  <2>5. pc' \in {"header", "rejected"}
    BY <2>1
  <2>6. ~handle
    BY <1>0, <1>1 DEF TryPartition, ResourceInv, Walking
  <2>7. ImageTypeOK'
    BY <1>0, <1>1, <2>1, <2>2, <2>3, <2>4, <2>5 DEF TryPartition, ImageTypeOK, PcValues, Bits
  <2>8. WalkInv' /\ ResourceInv'
    BY <1>0, <1>1, <2>5, <2>6 DEF TryPartition, WalkInv, Walking, ResourceInv
  <2> QED BY <2>7, <2>8 DEF ImageInv
<1>2. ASSUME ReadHeader PROVE ImageInv'
  <2>1. PICK ok \in Mmap(1) :
          /\ Read(ok, At("header", 0), 1)
          /\ IF ok THEN Goto("start") ELSE Reject
          /\ meta' = IF ok THEN [meta EXCEPT !.count = Len(Img.segs)] ELSE meta
    BY <1>2 DEF ReadHeader
  <2>2. /\ ok \in BOOLEAN /\ mapped' = FALSE
        /\ buf' \in Loc \cup {NoLoc} /\ unread' \in BOOLEAN
    <3>1. At("header", 0) \in Loc
      BY <1>0, LocType
    <3> QED BY <1>0, <2>1, <3>1, ReadInv
  <2>3. UNCHANGED <<flash, secure, cand, seg, fed, checksum, ram>>
    BY <1>2 DEF ReadHeader
  <2>4. meta' \in MetaType
    BY <1>0, <2>1, ImgType DEF ImageTypeOK, MetaType
  <2>5. used' = 0 /\ handle' = FALSE /\ pc' \in {"start", "rejected"}
    <3>1. CASE ok
      BY <1>0, <1>2, <2>1, <3>1 DEF Goto, ReadHeader, ResourceInv, Walking
    <3>2. CASE ~ok
      BY <1>0, <2>1, <3>2, RejectInv
    <3> QED BY <2>2, <3>1, <3>2
  <2>6. ImageTypeOK'
    <3>1. pc' \in PcValues /\ used' \in 0 .. PoolSize
      BY <2>5 DEF PcValues
    <3>2. handle' \in BOOLEAN
      BY <2>5
    <3>3. /\ cand' \in Cands /\ seg' \in 1 .. (MaxSegments + 1)
          /\ fed' \in Seq(Loc \cup {NoLoc}) /\ checksum' \in Bits
          /\ ram' \in [Words -> Loc \cup {NoLoc}]
      BY <1>0, <2>3 DEF ImageTypeOK
    <3> QED BY <1>0, <2>2, <2>3, <2>4, <3>1, <3>2, <3>3, TypeKept, TypeParts
  <2>7. pc' = "start" => meta'.count = Len(Img'.segs) /\ seg' = 1
    BY <1>0, <1>2, <2>1, <2>3 DEF ReadHeader, Goto, Reject, Img, ImageTypeOK, WalkInv, Sha256Finish
  <2>8. WalkInv' /\ ResourceInv'
    BY <2>2, <2>5, <2>7 DEF WalkInv, Walking, ResourceInv
  <2> QED BY <2>6, <2>8 DEF ImageInv
<1>3. ASSUME StartImage PROVE ImageInv'
  <2>0. UNCHANGED <<flash, secure, cand, seg, mapped, buf, checksum, meta, ram, unread>>
    BY <1>3 DEF StartImage, Sha256Start
  <2>1. CASE ~VerifyHeader
    <3>1. Reject /\ UNCHANGED fed
      BY <1>3, <2>1 DEF StartImage, Sha256Start
    <3>2. used' = 0 /\ handle' = FALSE /\ pc' = "rejected"
      BY <1>0, <3>1, RejectInv
    <3>3. ImageTypeOK'
      <4>1. pc' \in PcValues /\ used' \in 0 .. PoolSize
        BY <3>2 DEF PcValues
      <4>2. handle' \in BOOLEAN /\ mapped' = FALSE
        BY <1>0, <2>0, <3>2 DEF ResourceInv
      <4>3. /\ cand' \in Cands /\ seg' \in 1 .. (MaxSegments + 1) /\ buf' \in Loc \cup {NoLoc}
            /\ fed' \in Seq(Loc \cup {NoLoc}) /\ checksum' \in Bits /\ meta' \in MetaType
            /\ ram' \in [Words -> Loc \cup {NoLoc}] /\ unread' \in BOOLEAN
        BY <1>0, <2>0, <3>1 DEF ImageTypeOK, MetaType
      <4> QED BY <1>0, <2>0, <4>1, <4>2, <4>3, TypeKept, TypeParts
    <3>4. WalkInv' /\ ResourceInv'
      BY <1>0, <2>0, <3>2 DEF WalkInv, Walking, ResourceInv
    <3> QED BY <3>3, <3>4 DEF ImageInv
  <2>2. CASE VerifyHeader
    <3>1. /\ pc' = "seg" /\ ~handle
          /\ IF Img.hash_appended /\ used < PoolSize
               THEN used' = used + 1 /\ handle' = TRUE /\ fed' = <<buf>>
               ELSE UNCHANGED <<used, handle, fed>>
      BY <1>0, <1>3, <2>2 DEF StartImage, ResourceInv, Walking, Sha256Start
    <3>2. fed' \in Seq(Loc \cup {NoLoc})
      BY <1>0, <3>1, FedType DEF ImageTypeOK
    <3>3. used' \in 0 .. PoolSize
      BY <1>0, <3>1 DEF ResourceInv
    <3>4. handle' \in BOOLEAN
      BY <1>0, <3>1 DEF ImageTypeOK
    <3>5. ImageTypeOK'
      <4>1. pc' \in PcValues /\ mapped' = FALSE
        BY <1>0, <2>0, <3>1 DEF ResourceInv, PcValues
      <4>2. /\ cand' \in Cands /\ seg' \in 1 .. (MaxSegments + 1) /\ buf' \in Loc \cup {NoLoc}
            /\ checksum' \in Bits /\ meta' \in MetaType
            /\ ram' \in [Words -> Loc \cup {NoLoc}] /\ unread' \in BOOLEAN
        BY <1>0, <2>0 DEF ImageTypeOK, MetaType
      <4> QED BY <1>0, <2>0, <3>2, <3>3, <3>4, <4>1, <4>2, TypeKept, TypeParts
    <3>6. WalkInv'
      <4>1. meta.count \in 1 .. MaxSegments /\ meta.count = Len(Img.segs) /\ seg = 1
        BY <1>0, <1>3, <2>2 DEF WalkInv, VerifyHeader, StartImage, Sha256Start
      <4>2. Img' = Img
        BY <2>0 DEF Img
      <4> QED BY <2>0, <3>1, <4>1, <4>2 DEF WalkInv, Walking
    <3>7. ResourceInv'
      BY <1>0, <2>0, <3>1 DEF ResourceInv, Walking, Img
    <3> QED BY <3>5, <3>6, <3>7 DEF ImageInv
  <2> QED BY <2>1, <2>2
<1>4. ASSUME ReadSegment PROVE ImageInv'
  <2>1. PICK ok \in Mmap(1) :
          /\ Read(ok, At("segment", seg), 1)
          /\ IF ok THEN Goto("segment") ELSE Reject
          /\ meta' = IF ok THEN [meta EXCEPT !.segs[seg] = Img.segs[seg],
                                             !.pos[seg] = At("data", seg)] ELSE meta
    BY <1>4 DEF ReadSegment
  <2>2. /\ pc = "seg" /\ seg \in 1 .. meta.count /\ seg \in 1 .. MaxSegments
        /\ meta.count = Len(Img.segs) /\ meta.count \in 1 .. MaxSegments
    BY <1>0, <1>4 DEF ReadSegment, WalkInv, Walking, ImageTypeOK
  <2>3. /\ ok \in BOOLEAN /\ mapped' = FALSE
        /\ buf' \in Loc \cup {NoLoc} /\ unread' \in BOOLEAN
    <3>1. At("segment", seg) \in Loc
      BY <1>0, <2>2, LocType
    <3> QED BY <1>0, <2>1, <3>1, ReadInv
  <2>4. UNCHANGED <<flash, secure, cand, seg, fed, checksum, ram>>
    BY <1>4 DEF ReadSegment
  <2>5. meta' \in MetaType /\ meta'.count = meta.count
    <3>1. Img.segs[seg] \in Segment /\ At("data", seg) \in Loc
      BY <1>0, <2>2, ImgType, LocType
    <3> QED BY <1>0, <2>1, <3>1 DEF ImageTypeOK, MetaType
  <2>6. \/ used' = used /\ handle' = handle /\ pc' = "segment"
        \/ used' = 0 /\ handle' = FALSE /\ pc' = "rejected"
    <3>1. CASE ok
      BY <2>1, <3>1 DEF Goto
    <3>2. CASE ~ok
      BY <1>0, <2>1, <3>2, RejectInv
    <3> QED BY <2>3, <3>1, <3>2
  <2>7. used' \in 0 .. PoolSize /\ pc' \in PcValues
    BY <1>0, <2>6 DEF ImageTypeOK, PcValues
  <2>8. handle' \in BOOLEAN
    BY <1>0, <2>6 DEF ImageTypeOK
  <2>9. ImageTypeOK'
    <3>1. /\ cand' \in Cands /\ seg' \in 1 .. (MaxSegments + 1)
          /\ fed' \in Seq(Loc \cup {NoLoc}) /\ checksum' \in Bits
          /\ ram' \in [Words -> Loc \cup {NoLoc}]
      BY <1>0, <2>4 DEF ImageTypeOK
    <3> QED BY <1>0, <2>3, <2>4, <2>5, <2>7, <2>8, <3>1, TypeKept, TypeParts
  <2>10. Img' = Img
    BY <2>4 DEF Img
  <2>11. WalkInv'
    BY <2>2, <2>4, <2>5, <2>6, <2>10 DEF WalkInv, Walking
  <2>12. ResourceInv'
    BY <1>0, <2>3, <2>6, <2>10 DEF ResourceInv, Walking
  <2> QED BY <2>9, <2>11, <2>12 DEF ImageInv
<1>5. ASSUME CheckSegment PROVE ImageInv'
  <2>0. UNCHANGED <<flash, secure, cand, seg, mapped, buf, checksum, meta, ram, unread>>
    BY <1>5 DEF CheckSegment
  <2>1. pc = "segment" /\ Outcome({"data"}) /\ Feed(buf)
    <3>1. CASE Reject
      BY <1>0, <1>5, <3>1, RejectInv DEF CheckSegment, Outcome
    <3>2. CASE Goto("data")
      BY <1>5, <3>2 DEF CheckSegment, Outcome, Goto
    <3> QED BY <1>5, <3>1, <3>2 DEF CheckSegment
  <2>2. used' \in 0 .. PoolSize /\ handle' \in BOOLEAN /\ pc' \in PcValues
    <3>1. {"data"} \in SUBSET PcValues
      BY DEF PcValues
    <3> QED BY <1>0, <2>1, <3>1, OutcomeType
  <2>3. fed' \in Seq(Loc \cup {NoLoc})
    BY <1>0, <2>1, FedType DEF Feed, ImageTypeOK
  <2>4. ImageTypeOK'
    <3>1. /\ cand' \in Cands /\ seg' \in 1 .. (MaxSegments + 1) /\ buf' \in Loc \cup {NoLoc}
          /\ checksum' \in Bits /\ meta' \in MetaType
          /\ ram' \in [Words -> Loc \cup {NoLoc}] /\ unread' \in BOOLEAN
      BY <1>0, <2>0 DEF ImageTypeOK, MetaType
    <3>2. mapped' = FALSE
      BY <1>0, <2>0 DEF ResourceInv
    <3> QED BY <1>0, <2>0, <2>2, <2>3, <3>1, <3>2, TypeKept, TypeParts
  <2>5. Img' = Img
    BY <2>0 DEF Img
  <2>6. WalkInv' /\ ResourceInv'
    BY <1>0, <2>0, <2>1, <2>5 DEF WalkInv, Walking, ResourceInv, Outcome
  <2> QED BY <2>4, <2>6 DEF ImageInv
<1>6. ASSUME ProcessData PROVE ImageInv'
  <2>0. UNCHANGED <<flash, secure, cand, meta>>
    BY <1>6 DEF ProcessData
  <2>1. /\ pc = "data" /\ seg \in 1 .. meta.count /\ seg \in 1 .. MaxSegments
        /\ meta.count = Len(Img.segs) /\ meta.count \in 1 .. MaxSegments
        /\ meta.segs[seg] \in Segment
    BY <1>0, <1>6 DEF ProcessData, WalkInv, Walking, ImageTypeOK
  <2>2. At("data", seg) \in Loc
    BY <1>0, <2>1, LocType
  <2>3. /\ Outcome({"seg"})
        /\ (seg' = seg + 1 /\ pc' = "seg") \/ (seg' = seg /\ pc' = "rejected")
        /\ mapped' = FALSE /\ buf' \in Loc \cup {NoLoc} /\ unread' \in BOOLEAN
        /\ fed' \in Seq(Loc \cup {NoLoc}) /\ checksum' \in Bits
        /\ ram' \in [Words -> Loc \cup {NoLoc}]
    <3>1. CASE meta.segs[seg].data_len = 0
      <4>1. SegmentDone /\ UNCHANGED <<mapped, buf, fed, checksum, ram, unread>>
        BY <1>6, <3>1 DEF ProcessData
      <4>2. Outcome({"seg"}) /\ seg' = seg + 1 /\ pc' = "seg"
        BY <4>1 DEF SegmentDone, Goto, Outcome
      <4>3. /\ mapped' = FALSE /\ buf' \in Loc \cup {NoLoc} /\ unread' \in BOOLEAN
            /\ fed' \in Seq(Loc \cup {NoLoc}) /\ checksum' \in Bits
            /\ ram' \in [Words -> Loc \cup {NoLoc}]
        BY <1>0, <4>1 DEF ResourceInv, ImageTypeOK
      <4> QED BY <4>2, <4>3
    <3>2. CASE meta.segs[seg].data_len # 0
      <4>1. PICK ok \in Mmap(meta.segs[seg].data_len) :
              /\ Read(ok, At("data", seg), meta.segs[seg].data_len)
              /\ IF ok
                 THEN /\ checksum' = Xor(checksum, meta.segs[seg].data)
                      /\ Feed(At("data", seg))
                      /\ ram' = [c \in Words |->
                                   IF Covers(meta.segs[seg], c) THEN At("data", seg) ELSE ram[c]]
                      /\ SegmentDone
                 ELSE Reject /\ UNCHANGED <<seg, fed, checksum, ram>>
        BY <1>6, <3>2 DEF ProcessData
      <4>2. /\ ok \in BOOLEAN /\ mapped' = FALSE
            /\ buf' \in Loc \cup {NoLoc} /\ unread' \in BOOLEAN
        BY <1>0, <2>2, <4>1, ReadInv
      <4>3. CASE ok
        <5>1. Outcome({"seg"}) /\ seg' = seg + 1 /\ pc' = "seg"
          BY <4>1, <4>3 DEF SegmentDone, Goto, Outcome
        <5>2. fed' \in Seq(Loc \cup {NoLoc})
          <6>1. fed \in Seq(Loc \cup {NoLoc})
            BY <1>0 DEF ImageTypeOK
          <6> QED BY <2>2, <4>1, <4>3, <6>1, FedType DEF Feed
        <5>3. checksum' \in Bits
          <6>1. checksum \in {0, 1} /\ meta.segs[seg].data \in {0, 1}
            BY <1>0, <2>1 DEF Bits, Segment, ImageTypeOK
          <6>2. (checksum + meta.segs[seg].data) % 2 \in {0, 1}
            BY <6>1
          <6> QED BY <4>1, <4>3, <6>2 DEF Xor, Bits
        <5>4. ram' \in [Words -> Loc \cup {NoLoc}]
          <6>1. ram \in [Words -> Loc \cup {NoLoc}]
            BY <1>0 DEF ImageTypeOK
          <6> QED BY <2>2, <4>1, <4>3, <6>1
        <5> QED BY <4>2, <5>1, <5>2, <5>3, <5>4
      <4>4. CASE ~ok
        <5>1. Outcome({"seg"}) /\ seg' = seg /\ pc' = "rejected"
          BY <1>0, <4>1, <4>4, RejectInv DEF Outcome
        <5>2. /\ fed' \in Seq(Loc \cup {NoLoc}) /\ checksum' \in Bits
              /\ ram' \in [Words -> Loc \cup {NoLoc}]
          BY <1>0, <4>1, <4>4 DEF ImageTypeOK
        <5> QED BY <4>2, <5>1, <5>2
      <4> QED BY <4>2, <4>3, <4>4
    <3> QED BY <3>1, <3>2
  <2>4. used' \in 0 .. PoolSize /\ handle' \in BOOLEAN /\ pc' \in PcValues
    <3>1. {"seg"} \in SUBSET PcValues
      BY DEF PcValues
    <3> QED BY <1>0, <2>3, <3>1, OutcomeType
  <2>5. ImageTypeOK'
    <3>1. cand' \in Cands /\ meta' \in MetaType
      BY <1>0, <2>0 DEF ImageTypeOK, MetaType
    <3>2. seg' \in 1 .. (MaxSegments + 1)
      BY <2>1, <2>3
    <3> QED BY <1>0, <2>0, <2>3, <2>4, <3>1, <3>2, TypeKept, TypeParts
  <2>6. Img' = Img
    BY <2>0 DEF Img
  <2>7. WalkInv' /\ ResourceInv'
    BY <1>0, <2>0, <2>1, <2>3, <2>6 DEF WalkInv, Walking, ResourceInv, Outcome
  <2> QED BY <2>5, <2>7 DEF ImageInv
<1>7. ASSUME CheckChecksum PROVE ImageInv'
  <2>0. UNCHANGED <<flash, secure, cand, seg, checksum, meta, ram>>
    BY <1>7 DEF CheckChecksum
  <2>1. PICK ok \in Mmap(1) :
          /\ Read(ok, At("checksum", 0), 1)
          /\ IF ok THEN Feed(At("checksum", 0)) ELSE UNCHANGED fed
          /\ IF ~ok \/ checksum # Img.checksum THEN Reject
             ELSE IF Img.hash_appended THEN Goto("hash") ELSE Goto("launched")
    BY <1>7 DEF CheckChecksum
  <2>2. /\ ok \in BOOLEAN /\ mapped' = FALSE
        /\ buf' \in Loc \cup {NoLoc} /\ unread' \in BOOLEAN
    <3>1. At("checksum", 0) \in Loc
      BY <1>0, LocType
    <3> QED BY <1>0, <2>1, <3>1, ReadInv
  <2>3. Outcome({"hash", "launched"})
    <3>1. CASE Reject
      BY <1>0, <3>1, RejectInv DEF Outcome
    <3>2. CASE Goto("hash") \/ Goto("launched")
      BY <3>2 DEF Goto, Outcome
    <3> QED BY <2>1, <3>1, <3>2
  <2>4. used' \in 0 .. PoolSize /\ handle' \in BOOLEAN /\ pc' \in PcValues
    <3>1. {"hash", "launched"} \in SUBSET PcValues
      BY DEF PcValues
    <3> QED BY <1>0, <2>3, <3>1, OutcomeType
  <2>5. fed' \in Seq(Loc \cup {NoLoc})
    <3>1. At("checksum", 0) \in Loc
      BY <1>0, LocType
    <3>2. fed \in Seq(Loc \cup {NoLoc}) /\ fed' \in {fed, Append(fed, At("checksum", 0))}
      BY <1>0, <2>1 DEF Feed, ImageTypeOK
    <3>3. At("checksum", 0) \in Loc \cup {NoLoc}
      BY <3>1
    <3> QED BY <3>2, <3>3, FedType
  <2>6. ImageTypeOK'
    <3>1. /\ cand' \in Cands /\ seg' \in 1 .. (MaxSegments + 1) /\ checksum' \in Bits
          /\ meta' \in MetaType /\ ram' \in [Words -> Loc \cup {NoLoc}]
      BY <1>0, <2>0 DEF ImageTypeOK, MetaType
    <3> QED BY <1>0, <2>0, <2>2, <2>4, <2>5, <3>1, TypeKept, TypeParts
  <2>7. Img' = Img
    BY <2>0 DEF Img
  <2>8. WalkInv' /\ ResourceInv'
    BY <1>0, <1>7, <2>0, <2>1, <2>2, <2>3, <2>7
       DEF WalkInv, Walking, ResourceInv, Outcome, Goto, Reject, Sha256Finish
  <2> QED BY <2>6, <2>8 DEF ImageInv
<1>8. ASSUME ReadHash PROVE ImageInv'
  <2>0. UNCHANGED <<flash, secure, cand, seg, checksum, meta, ram>>
    BY <1>8 DEF ReadHash
  <2>1. PICK ok \in Mmap(1) :
          /\ Read(ok, At("hash", 0), 1)
          /\ IF ok THEN Goto("finish") ELSE Reject
    BY <1>8 DEF ReadHash
  <2>2. /\ ok \in BOOLEAN /\ mapped' = FALSE
        /\ buf' \in Loc \cup {NoLoc} /\ unread' \in BOOLEAN
    <3>1. At("hash", 0) \in Loc
      BY <1>0, LocType
    <3> QED BY <1>0, <2>1, <3>1, ReadInv
  <2>3. Outcome({"finish"})
    <3>1. CASE ok
      BY <2>1, <3>1 DEF Goto, Outcome
    <3>2. CASE ~ok
      BY <1>0, <2>1, <3>2, RejectInv DEF Outcome
    <3> QED BY <2>2, <3>1, <3>2
  <2>4. used' \in 0 .. PoolSize /\ handle' \in BOOLEAN /\ pc' \in PcValues
    <3>1. {"finish"} \in SUBSET PcValues
      BY DEF PcValues
    <3> QED BY <1>0, <2>3, <3>1, OutcomeType
  <2>5. fed' \in Seq(Loc \cup {NoLoc})
    BY <1>0, <1>8 DEF ReadHash, ImageTypeOK
  <2>6. ImageTypeOK'
    <3>1. /\ cand' \in Cands /\ seg' \in 1 .. (MaxSegments + 1) /\ checksum' \in Bits
          /\ meta' \in MetaType /\ ram' \in [Words -> Loc \cup {NoLoc}]
      BY <1>0, <2>0 DEF ImageTypeOK, MetaType
    <3> QED BY <1>0, <2>0, <2>2, <2>4, <2>5, <3>1, TypeKept, TypeParts
  <2>7. Img' = Img
    BY <2>0 DEF Img
  <2>8. WalkInv' /\ ResourceInv'
    BY <1>0, <1>8, <2>0, <2>1, <2>2, <2>3, <2>7
       DEF WalkInv, Walking, ResourceInv, Outcome, ReadHash
  <2> QED BY <2>6, <2>8 DEF ImageInv
<1>9. ASSUME FinishHash PROVE ImageInv'
  <2>0. UNCHANGED <<flash, secure, cand, seg, mapped, buf, fed, checksum, meta, ram, unread>>
    BY <1>9 DEF FinishHash, Sha256Finish
  <2>1. used' = 0 /\ handle' = FALSE /\ pc' \in {"sig", "launched", "rejected"}
    BY <1>0, <1>9 DEF FinishHash, ResourceInv, Sha256Finish
  <2>2. ImageTypeOK'
    <3>1. /\ cand' \in Cands /\ seg' \in 1 .. (MaxSegments + 1) /\ buf' \in Loc \cup {NoLoc}
          /\ checksum' \in Bits /\ meta' \in MetaType /\ fed' \in Seq(Loc \cup {NoLoc})
          /\ ram' \in [Words -> Loc \cup {NoLoc}] /\ unread' \in BOOLEAN
      BY <1>0, <2>0 DEF ImageTypeOK, MetaType
    <3>2. mapped' = FALSE /\ handle' \in BOOLEAN
      BY <1>0, <2>0, <2>1 DEF ResourceInv
    <3>3. used' \in 0 .. PoolSize /\ pc' \in PcValues
      BY <2>1 DEF PcValues
    <3> QED BY <1>0, <2>0, <3>1, <3>2, <3>3, TypeKept, TypeParts
  <2>3. WalkInv' /\ ResourceInv'
    BY <1>0, <2>0, <2>1 DEF WalkInv, Walking, ResourceInv
  <2> QED BY <2>2, <2>3 DEF ImageInv
<1>10. ASSUME CheckSignature PROVE ImageInv'
  <2>0. UNCHANGED <<flash, secure, cand, seg, checksum, meta, ram>>
    BY <1>10 DEF CheckSignature
  <2>1. PICK ok \in Mmap(SigSize) :
          /\ Read(ok, At("sig", 0), SigSize)
          /\ IF ok /\ Img.signed THEN Goto("launched") ELSE Reject
    BY <1>10 DEF CheckSignature
  <2>2. /\ ok \in BOOLEAN /\ mapped' = FALSE
        /\ buf' \in Loc \cup {NoLoc} /\ unread' \in BOOLEAN
    <3>1. At("sig", 0) \in Loc
      BY <1>0, LocType
    <3> QED BY <1>0, <2>1, <3>1, ReadInv
  <2>3. Outcome({"launched"})
    <3>1. CASE Reject
      BY <1>0, <3>1, RejectInv DEF Outcome
    <3>2. CASE Goto("launched")
      BY <3>2 DEF Goto, Outcome
    <3> QED BY <2>1, <3>1, <3>2
  <2>4. used' \in 0 .. PoolSize /\ handle' \in BOOLEAN /\ pc' \in PcValues
    <3>1. {"launched"} \in SUBSET PcValues
      BY DEF PcValues
    <3> QED BY <1>0, <2>3, <3>1, OutcomeType
  <2>5. fed' \in Seq(Loc \cup {NoLoc})
    BY <1>0, <1>10 DEF CheckSignature, ImageTypeOK
  <2>6. ImageTypeOK'
    <3>1. /\ cand' \in Cands /\ seg' \in 1 .. (MaxSegments + 1) /\ checksum' \in Bits
          /\ meta' \in MetaType /\ ram' \in [Words -> Loc \cup {NoLoc}]
      BY <1>0, <2>0 DEF ImageTypeOK, MetaType
    <3> QED BY <1>0, <2>0, <2>2, <2>4, <2>5, <3>1, TypeKept, TypeParts
  <2>7. Img' = Img
    BY <2>0 DEF Img
  <2>8. WalkInv' /\ ResourceInv'
    BY <1>0, <1>10, <2>0, <2>1, <2>2, <2>3, <2>7
       DEF WalkInv, Walking, ResourceInv, Outcome, CheckSignature
  <2> QED BY <2>6, <2>8 DEF ImageInv
<1>11. ASSUME UNCHANGED imageVars PROVE ImageInv'
  <2>1. ImageTypeOK'
    BY <1>0, <1>11 DEF ImageTypeOK, imageVars
  <2>2. Img' = Img /\ WalkInv' /\ ResourceInv'
    BY <1>0, <1>11 DEF WalkInv, ResourceInv, Img, imageVars
  <2> QED BY <2>1, <2>2 DEF ImageInv
<1> QED
  BY <1>1, <1>2, <1>3, <1>4, <1>5, <1>6, <1>7, <1>8, <1>9, <1>10, <1>11 DEF ImageNext

(* Typing: every index the loader uses is in range. *)
THEOREM ImageTypeCorrect == ImageSpec => []ImageTypeOK
<1>1. ImageInv => ImageTypeOK
  BY DEF ImageInv
<1> QED BY <1>1, InvInit, InvStep, PTL DEF ImageSpec

(* Every path through process_image gives back the mapping and the context. *)
THEOREM ResourcesReleased == ImageSpec => []Released
<1>1. ImageInv => Released
  BY DEF ImageInv, ResourceInv, Released, Walking
<1> QED BY <1>1, InvInit, InvStep, PTL DEF ImageSpec

----------------------------------------------------------------------------
(* A segment that is about to be copied passed verify_load_addresses. *)
CopyInv ==
  pc = "data" /\ DoLoad(meta.segs[seg]) =>
    LoadAddressOK(meta.segs[seg].load_addr, meta.segs[seg].data_len)

(* The sum that is compared wraps, but not for a segment that can be mapped:
   what may be copied keeps clear of both sections. *)
LEMMA CopySafe ==
  ASSUME NEW s \in Segment, DoLoad(s), LoadAddressOK(s.load_addr, s.data_len),
         s.data_len <= MmapMax, NEW a \in Copied(s)
  PROVE  a \notin Sections
<1>1. /\ s.load_addr \in Nat /\ s.data_len \in Nat
      /\ TextStart \in Nat /\ TextEnd \in Nat /\ DataStart \in Nat /\ BssEnd \in Nat
  BY MemoryAssumption, Numbers DEF Segment, Words
<1>2. s.load_addr + s.data_len <= AddrMax
  <2>1. s.load_addr + MmapMax <= AddrMax
    BY MemoryAssumption DEF DoLoad
  <2> QED BY <1>1, <2>1, Numbers
<1>4. /\ ~(s.load_addr < TextEnd /\ s.load_addr + s.data_len > TextStart)
      /\ ~(s.load_addr < BssEnd /\ s.load_addr + s.data_len > DataStart)
  BY <1>1, <1>2, Numbers DEF LoadAddressOK
<1>5. a \in Int /\ a >= s.load_addr /\ a <= s.load_addr + s.data_len - 1
  BY <1>1 DEF Copied
<1> QED BY <1>1, <1>4, <1>5 DEF Sections

LEMMA CopyStep == ImageInv /\ CopyInv /\ [ImageNext]_imageVars => CopyInv'
<1> SUFFICES ASSUME ImageInv, CopyInv, [ImageNext]_imageVars PROVE CopyInv'
  OBVIOUS
<1>1. CASE CheckSegment
  <2>1. CASE Reject
    BY <2>1 DEF Reject, CopyInv, Sha256Finish
  <2>2. CASE ~(DoLoad(meta.segs[seg])
               /\ ~LoadAddressOK(meta.segs[seg].load_addr, meta.segs[seg].data_len))
    BY <1>1, <2>2 DEF CheckSegment, CopyInv, DoLoad, LoadAddressOK
  <2> QED BY <1>1, <2>1, <2>2 DEF CheckSegment
<1>2. CASE UNCHANGED imageVars
  BY <1>2 DEF CopyInv, imageVars, DoLoad, LoadAddressOK
<1>3. ASSUME TryPartition \/ ReadHeader \/ StartImage \/ ReadSegment \/ ProcessData
             \/ CheckChecksum \/ ReadHash \/ FinishHash \/ CheckSignature
      PROVE  pc' # "data"
  <2>1. CASE TryPartition \/ FinishHash
    BY <2>1 DEF TryPartition, FinishHash, Sha256Finish
  <2>2. CASE ReadHeader \/ ReadSegment \/ ReadHash
    BY <2>2, Zenon DEF ReadHeader, ReadSegment, ReadHash, Goto, Reject, Sha256Finish
  <2>3. CASE CheckChecksum
    BY <2>3, Zenon DEF CheckChecksum, Goto, Reject, Sha256Finish
  <2>4. CASE CheckSignature
    BY <2>4, Zenon DEF CheckSignature, Goto, Reject, Sha256Finish
  <2>5. CASE StartImage
    BY <2>5 DEF StartImage, Reject, Sha256Finish, Sha256Start
  <2>6. CASE ProcessData
    <3>1. CASE pc' = "seg"
      BY <3>1
    <3>2. CASE pc' = "rejected"
      BY <3>2
    <3> QED BY <2>6, <3>1, <3>2, Zenon DEF ProcessData, SegmentDone, Goto, Reject, Sha256Finish
  <2> QED BY <1>3, <2>1, <2>2, <2>3, <2>4, <2>5, <2>6
<1> QED BY <1>1, <1>2, <1>3 DEF ImageNext, CopyInv

----------------------------------------------------------------------------
(* What the walk over the segments has established, for the first n of them:
   each passed its checks and is remembered in the metadata, the checksum is
   that of their payloads, SRAM holds what was copied last to each word, and
   a region they lie in has a first segment. *)
Passed(s) ==
  /\ s.data_len <= MmapMax
  /\ DoLoad(s) =>
       /\ ~Touches(s, TextStart, TextEnd) /\ ~Touches(s, DataStart, BssEnd)
       /\ s.load_addr \notin (RomStack - Headroom + 1) .. (RomStack + Headroom - 1)

Odd(n) == {k \in 1 .. n : Img.segs[k].data_len # 0 /\ Img.segs[k].data = 1}

Own(n, region) ==
  {k \in 1 .. n : Img.segs[k].data_len # 0 /\ Img.segs[k].load_addr \in region}

Holds(n, k, c) ==
  \E j \in 1 .. n : j >= k /\ Covers(Img.segs[j], c) /\ ram[c] = At("data", j)

Remembered(k) == meta.segs[k] = Img.segs[k] /\ meta.pos[k] = At("data", k)

UpTo(n) ==
  /\ \A k \in 1 .. n : Passed(Img.segs[k]) /\ Remembered(k)
  /\ checksum = (1 + Cardinality(Odd(n))) % 2
  /\ \A k \in 1 .. n : DoLoad(Img.segs[k]) => \A a \in Copied(Img.segs[k]) : Holds(n, k, Cell[a])
  /\ \A region \in {Drom, Irom} :
       Own(n, region) # {} => \E m \in Own(n, region) : \A k \in Own(n, region) : m <= k

Walked == {"hash", "finish", "sig", "launched"}

(* The verdict on an image is carried along the walk: what was read of the
   descriptor, the header and the segments, and in the end the checksum, the
   hash and the signature. *)
WalkIsRight ==
  /\ Img.header /\ Len(Img.segs) \in 1 .. MaxSegments /\ meta.count = Len(Img.segs)
  /\ \A n \in Nat : seg = n + 1 => UpTo(n)

SoundInv ==
  /\ pc \notin {"next", "rejected"} => Img.allowed \/ unread
  /\ pc \in {"header", "start"} => checksum = 1
  /\ pc \in Walking \cup Walked => WalkIsRight
  /\ pc \in {"segment", "data"} => \A n \in Nat : seg = n + 1 => Remembered(n + 1)
  /\ pc \in Walked => seg = Len(Img.segs) + 1 /\ checksum = Img.checksum
  /\ pc \in {"sig", "launched"} => (Img.hash_appended => Img.hash)
  /\ pc = "launched" => (secure => ~Img.hash_appended)

\* The copy of segment s, the one process_image is at, into SRAM.
Writes(s) == ram' = [c \in Words |-> IF Covers(s, c) THEN At("data", seg) ELSE ram[c]]

LEMMA OddFinite ==
  ASSUME NEW n \in Nat
  PROVE  IsFiniteSet(Odd(n)) /\ Cardinality(Odd(n)) \in Nat
<1>1. IsFiniteSet(1 .. n)
  BY FS_Interval
<1>2. Odd(n) \in SUBSET (1 .. n)
  BY DEF Odd
<1> QED BY <1>1, <1>2, FS_Subset, FS_CardinalityType

(* One more segment changes the parity if its payload is odd. *)
LEMMA ParityNext ==
  ASSUME NEW n \in Nat, Img.segs[n + 1].data \in Bits,
         checksum = (1 + Cardinality(Odd(n))) % 2
  PROVE  (IF Img.segs[n + 1].data_len = 0 THEN checksum
          ELSE Xor(checksum, Img.segs[n + 1].data)) = (1 + Cardinality(Odd(n + 1))) % 2
<1> DEFINE s == Img.segs[n + 1]
           c == Cardinality(Odd(n))
<1>1. IsFiniteSet(Odd(n)) /\ c \in Nat
  BY OddFinite
<1>2. CASE s.data_len # 0 /\ s.data = 1
  <2>1. Odd(n + 1) = Odd(n) \cup {n + 1} /\ n + 1 \notin Odd(n)
    BY <1>2 DEF Odd
  <2>2. Cardinality(Odd(n + 1)) = c + 1
    BY <1>1, <2>1, FS_AddElement
  <2>3. (((1 + c) % 2) + 1) % 2 = (1 + (c + 1)) % 2
    BY <1>1
  <2> QED BY <1>2, <2>2, <2>3 DEF Xor
<1>3. CASE ~(s.data_len # 0 /\ s.data = 1)
  <2>1. Odd(n + 1) = Odd(n)
    BY <1>3 DEF Odd
  <2>2. (((1 + c) % 2) + 0) % 2 = (1 + c) % 2
    BY <1>1
  <2>3. s.data_len = 0 \/ s.data = 0
    BY <1>3 DEF Bits
  <2> QED BY <2>1, <2>2, <2>3 DEF Xor
<1> QED BY <1>2, <1>3

(* One more segment keeps the first one of a region, or is it. *)
LEMMA FirstNext ==
  ASSUME NEW n \in Nat, NEW region,
         Own(n, region) # {} => \E m \in Own(n, region) : \A k \in Own(n, region) : m <= k,
         Own(n + 1, region) # {}
  PROVE  \E m \in Own(n + 1, region) : \A k \in Own(n + 1, region) : m <= k
<1>1. Own(n + 1, region) \subseteq Own(n, region) \cup {n + 1}
  BY DEF Own
<1>2. Own(n, region) \subseteq Own(n + 1, region) /\ Own(n, region) \subseteq 1 .. n
  BY DEF Own
<1>3. CASE Own(n, region) = {}
  <2>1. n + 1 \in Own(n + 1, region)
    BY <1>1, <1>3
  <2> QED BY <1>1, <1>3, <2>1
<1>4. CASE Own(n, region) # {}
  <2>1. PICK m \in Own(n, region) : \A k \in Own(n, region) : m <= k
    BY <1>4
  <2>2. m \in 1 .. n /\ m <= n + 1
    BY <1>2
  <2> QED BY <1>1, <1>2, <2>1, <2>2
<1> QED BY <1>3, <1>4

(* A segment that verify_load_addresses lets pass and that can be mapped. *)
LEMMA AddressPassed ==
  ASSUME NEW s \in Segment, s.data_len <= MmapMax,
         DoLoad(s) => LoadAddressOK(s.load_addr, s.data_len)
  PROVE  /\ Passed(s)
         /\ DoLoad(s) => Copied(s) \subseteq Words
<1>1. /\ s.load_addr \in Nat /\ s.data_len \in Nat
      /\ TextStart \in Nat /\ TextEnd \in Nat /\ DataStart \in Nat /\ BssEnd \in Nat
      /\ RomStack \in Nat /\ Headroom \in Nat
  BY MemoryAssumption, Numbers DEF Segment, Words
<1>2. ASSUME DoLoad(s) PROVE s.load_addr + s.data_len <= AddrMax
  <2>1. s.load_addr + MmapMax <= AddrMax
    BY <1>2, MemoryAssumption DEF DoLoad
  <2> QED BY <1>1, <2>1, Numbers
<1>3. ASSUME DoLoad(s)
      PROVE  /\ ~Touches(s, TextStart, TextEnd) /\ ~Touches(s, DataStart, BssEnd)
             /\ s.load_addr \notin (RomStack - Headroom + 1) .. (RomStack + Headroom - 1)
             /\ Copied(s) \subseteq Words
  <2>1. /\ ~(s.load_addr < TextEnd /\ s.load_addr + s.data_len > TextStart)
        /\ ~(s.load_addr < BssEnd /\ s.load_addr + s.data_len > DataStart)
        /\ ~(s.load_addr + Headroom > RomStack /\ s.load_addr < RomStack + Headroom)
    BY <1>1, <1>2, <1>3, Numbers DEF LoadAddressOK
  <2> QED BY <1>1, <1>2, <1>3, <2>1, Numbers DEF Touches, Copied, Words
<1> QED BY <1>3 DEF Passed

(* A step that leaves the segments alone. *)
LEMMA WalkKept ==
  ASSUME SoundInv, pc \in Walking \cup Walked,
         UNCHANGED <<flash, cand, seg, checksum, meta, ram>>, unread => unread'
  PROVE  Img' = Img /\ (Img.allowed \/ unread)' /\ WalkIsRight'
<1>1. Img' = Img
  BY DEF Img
<1>2. pc \notin {"next", "rejected"}
  BY DEF Walking, Walked
<1>3. (Img.allowed \/ unread)'
  BY <1>1, <1>2, Zenon DEF SoundInv
<1>4. WalkIsRight
  BY DEF SoundInv
<1>5. ASSUME NEW CONSTANT n \in Nat, UpTo(n) PROVE UpTo(n)'
  BY <1>1, <1>5 DEF UpTo, Remembered, Odd, Own, Holds, At
<1>6. WalkIsRight'
  BY <1>1, <1>4, <1>5 DEF WalkIsRight
<1> QED BY <1>1, <1>3, <1>6

(* The walk over one more segment. *)
LEMMA DataWalked ==
  ASSUME ImageInv, CopyInv, SoundInv, ProcessData, pc' = "seg"
  PROVE  WalkIsRight'
<1>1. /\ pc = "data" /\ seg' = seg + 1 /\ UNCHANGED <<flash, cand, meta>>
  <2>1. CASE meta.segs[seg].data_len = 0
    BY <2>1 DEF ProcessData, SegmentDone, Goto
  <2>2. CASE meta.segs[seg].data_len # 0
    <3>1. ~Reject
      BY DEF Reject
    <3>2. pc = "data" /\ SegmentDone /\ UNCHANGED <<flash, cand, meta>>
      BY <2>2, <3>1, Zenon DEF ProcessData
    <3> QED BY <3>2 DEF SegmentDone
  <2> QED BY <2>1, <2>2
<1>2. WalkIsRight /\ seg \in 1 .. Len(Img.segs)
  BY <1>1 DEF ImageInv, WalkInv, ImageTypeOK, Walking, SoundInv
<1>3. PICK n \in Nat : seg = n + 1
  <2>1. seg - 1 \in Nat /\ seg = (seg - 1) + 1
    BY <1>2 DEF WalkIsRight
  <2> QED BY <2>1
<1>4. UpTo(n) /\ Remembered(n + 1)
  BY <1>1, <1>2, <1>3 DEF WalkIsRight, SoundInv
<1> DEFINE s == Img.segs[n + 1]
<1>5. meta.segs[seg] = s /\ s \in Segment
  BY <1>2, <1>3, <1>4, ImgType DEF Remembered, ImageInv
<1>6. /\ s.data_len <= MmapMax
      /\ checksum' = IF s.data_len = 0 THEN checksum ELSE Xor(checksum, s.data)
      /\ s.data_len = 0 => ram' = ram
      /\ s.data_len # 0 => Writes(s)
  <2>1. CASE s.data_len = 0
    <3>1. checksum' = checksum /\ ram' = ram
      BY <1>5, <2>1 DEF ProcessData
    <3> QED BY <2>1, <3>1, Numbers
  <2>2. CASE s.data_len # 0
    <3>0. PICK ok \in Mmap(meta.segs[seg].data_len) :
            IF ok THEN /\ checksum' = Xor(checksum, meta.segs[seg].data)
                       /\ Writes(meta.segs[seg])
                  ELSE Reject
      <4>1. meta.segs[seg].data_len # 0
        BY <1>5, <2>2
      <4> QED BY <4>1, Zenon DEF ProcessData, Writes
    <3>1. /\ ok \in Mmap(s.data_len)
          /\ IF ok THEN /\ checksum' = Xor(checksum, s.data)
                        /\ Writes(s)
                   ELSE Reject
      BY <1>5, <3>0
    <3>2. ok /\ ok \in BOOLEAN
      BY <3>1 DEF Reject, Mmap
    <3>3. ~Refused(s.data_len)
      BY <3>1, <3>2, Zenon DEF Mmap
    <3>4. s.data_len \in 1 .. MmapMax
      BY <3>3 DEF Refused
    <3> QED BY <1>3, <2>2, <3>1, <3>2, <3>4, Numbers
  <2> QED BY <2>1, <2>2
<1>7. Passed(s) /\ (DoLoad(s) => Copied(s) \subseteq Words)
  <2>1. DoLoad(s) => LoadAddressOK(s.load_addr, s.data_len)
    BY <1>1, <1>5 DEF CopyInv
  <2> QED BY <1>5, <1>6, <2>1, AddressPassed
<1>8. Img' = Img /\ At("data", n + 1)' = At("data", n + 1)
  BY <1>1 DEF Img, At
<1>9. \A k \in 1 .. (n + 1) : Passed(Img.segs[k]) /\ Remembered(k)
  <2>1. ASSUME NEW k \in 1 .. (n + 1) PROVE k \in 1 .. n \/ k = n + 1
    OBVIOUS
  <2> QED BY <1>4, <1>7, <2>1 DEF UpTo
<1>10. checksum' = (1 + Cardinality(Odd(n + 1))) % 2
  <2>1. s.data \in Bits
    BY <1>5 DEF Segment
  <2> QED BY <1>4, <1>6, <2>1, ParityNext DEF UpTo
<1>11. ASSUME NEW CONSTANT k \in 1 .. (n + 1), DoLoad(Img.segs[k]),
              NEW CONSTANT a \in Copied(Img.segs[k])
       PROVE  Holds(n + 1, k, Cell[a])'
  <2>0. a \in Words /\ Cell[a] \in Words
    <3>1. Img.segs[k] \in Segment /\ Passed(Img.segs[k])
      BY <1>2, <1>3, <1>9, ImgType DEF ImageInv
    <3>2. Img.segs[k].load_addr + MmapMax <= AddrMax
      BY <1>11, MemoryAssumption DEF DoLoad
    <3>3. a \in Words
      BY <1>11, <3>1, <3>2, Numbers DEF Passed, Copied, Words, Segment
    <3> QED BY <3>3, MemoryAssumption
  <2>1. CASE s.data_len # 0 /\ Covers(s, Cell[a])
    <3>1. ram'[Cell[a]] = At("data", n + 1)
      BY <1>3, <1>6, <2>0, <2>1 DEF Writes
    <3>2. n + 1 \in 1 .. (n + 1) /\ n + 1 >= k
      OBVIOUS
    <3> QED BY <1>8, <2>1, <3>1, <3>2 DEF Holds, At
  <2>2. CASE ~(s.data_len # 0 /\ Covers(s, Cell[a]))
    <3>1. k # n + 1
      <4>1. s.data_len = 0 => Copied(s) = {}
        BY <1>5 DEF Copied, Segment, Words
      <4> QED BY <1>11, <2>2, <4>1 DEF Covers
    <3>2. k \in 1 .. n
      BY <3>1
    <3>3. PICK j \in 1 .. n :
            j >= k /\ Covers(Img.segs[j], Cell[a]) /\ ram[Cell[a]] = At("data", j)
      BY <1>4, <1>11, <3>2 DEF UpTo, Holds
    <3>4. ram'[Cell[a]] = ram[Cell[a]]
      BY <1>6, <2>0, <2>2 DEF Writes
    <3>5. j \in 1 .. (n + 1)
      OBVIOUS
    <3> QED BY <1>1, <1>8, <3>3, <3>4, <3>5 DEF Holds, At
  <2> QED BY <2>1, <2>2
<1>12. ASSUME NEW CONSTANT region \in {Drom, Irom}, Own(n + 1, region) # {}
       PROVE  \E m \in Own(n + 1, region) : \A k \in Own(n + 1, region) : m <= k
  <2>1. Own(n, region) # {} => \E m \in Own(n, region) : \A k \in Own(n, region) : m <= k
    BY <1>4 DEF UpTo
  <2> QED BY <1>12, <2>1, FirstNext
<1>13. UpTo(n + 1)'
  <2>1. (\A k \in 1 .. (n + 1) : Passed(Img.segs[k]) /\ Remembered(k))'
    BY <1>1, <1>8, <1>9 DEF Remembered, At
  <2>2. (checksum = (1 + Cardinality(Odd(n + 1))) % 2)'
    BY <1>8, <1>10 DEF Odd
  <2>3. (\A k \in 1 .. (n + 1) : DoLoad(Img.segs[k]) =>
           \A a \in Copied(Img.segs[k]) : Holds(n + 1, k, Cell[a]))'
    BY <1>8, <1>11
  <2>4. (\A region \in {Drom, Irom} : Own(n + 1, region) # {} =>
           \E m \in Own(n + 1, region) : \A k \in Own(n + 1, region) : m <= k)'
    BY <1>8, <1>12 DEF Own
  <2> QED BY <2>1, <2>2, <2>3, <2>4 DEF UpTo
<1>14. ASSUME NEW CONSTANT m \in Nat, seg' = m + 1 PROVE UpTo(m)'
  <2>1. m = n + 1
    BY <1>1, <1>3, <1>14
  <2> QED BY <1>13, <2>1
<1> QED BY <1>1, <1>2, <1>8, <1>14 DEF WalkIsRight

LEMMA SoundStep ==
  ImageInv /\ CopyInv /\ SoundInv /\ [ImageNext]_imageVars => SoundInv'
<1> SUFFICES ASSUME ImageInv, CopyInv, SoundInv, [ImageNext]_imageVars PROVE SoundInv'
  OBVIOUS
<1>0. CASE pc' = "rejected"
  BY <1>0 DEF SoundInv, Walking, Walked
<1>1. CASE TryPartition /\ pc' # "rejected"
  <2>1. /\ pc' = "header" /\ checksum' = 1
        /\ \E ok \in BOOLEAN : (ok => flash'[cand'].allowed) /\ (~ok => unread')
    <3>1. PICK c \in Cands, ok \in Mmap(1) :
            /\ cand' = c
            /\ unread' = (~ok /\ ~mapped)
            /\ pc' = IF ok /\ ~flash[c].allowed THEN "rejected" ELSE "header"
      BY <1>1, Zenon DEF TryPartition
    <3>2. ~mapped /\ ok \in BOOLEAN
      BY DEF ImageInv, ResourceInv, Mmap
    <3>3. checksum' = 1 /\ flash' = flash
      BY <1>1 DEF TryPartition
    <3>4. pc' = "header" /\ (ok => flash[c].allowed)
      BY <1>1, <3>1
    <3>5. ~ok => unread'
      BY <3>1, <3>2, Zenon
    <3> QED BY <3>1, <3>2, <3>3, <3>4, <3>5
  <2>2. (Img.allowed \/ unread)'
    BY <2>1, Zenon DEF Img
  <2> QED BY <2>1, <2>2 DEF SoundInv, Walking, Walked
<1>2. CASE ReadHeader /\ pc' # "rejected"
  <2>1. pc = "header" /\ pc' = "start" /\ (unread => unread')
    BY <1>2, Zenon DEF ReadHeader, Read, Goto, Reject
  <2>2. UNCHANGED <<flash, cand, checksum>>
    BY <1>2 DEF ReadHeader
  <2>3. (Img.allowed \/ unread)'
    BY <2>1, <2>2, Zenon DEF SoundInv, Img
  <2> QED BY <2>1, <2>2, <2>3 DEF SoundInv, Walking, Walked
<1>3. CASE StartImage /\ pc' # "rejected"
  <2>1. /\ pc = "start" /\ pc' = "seg" /\ VerifyHeader
        /\ UNCHANGED <<flash, cand, seg, checksum, meta, ram, unread>>
    BY <1>3 DEF StartImage, Reject
  <2>2. /\ seg = 1 /\ meta.count = Len(Img.segs) /\ checksum = 1
    BY <2>1 DEF ImageInv, WalkInv, SoundInv
  <2>3. Img' = Img
    BY <2>1 DEF Img
  <2>4. UpTo(0)
    <3>1. Odd(0) = {} /\ \A region : Own(0, region) = {}
      BY DEF Odd, Own
    <3>2. Cardinality(Odd(0)) = 0
      BY <3>1, FS_EmptySet
    <3>3. checksum = (1 + Cardinality(Odd(0))) % 2
      BY <2>2, <3>2
    <3> QED BY <3>1, <3>3 DEF UpTo
  <2>5. UpTo(0)'
    BY <2>1, <2>3, <2>4 DEF UpTo, Remembered, Odd, Own, Holds, At
  <2>6. WalkIsRight'
    <3>1. ASSUME NEW CONSTANT n \in Nat, seg' = n + 1 PROVE n = 0
      BY <2>1, <2>2, <3>1
    <3> QED BY <2>1, <2>2, <2>3, <2>5, <3>1 DEF WalkIsRight, VerifyHeader
  <2>7. (Img.allowed \/ unread)'
    BY <2>1, <2>3, Zenon DEF SoundInv
  <2> QED BY <2>1, <2>6, <2>7 DEF SoundInv, Walked
<1>4. CASE ReadSegment /\ pc' # "rejected"
  <2>1. /\ pc = "seg" /\ pc' = "segment" /\ seg <= meta.count
        /\ UNCHANGED <<flash, cand, seg, checksum, ram>>
        /\ meta' = [meta EXCEPT !.segs[seg] = Img.segs[seg], !.pos[seg] = At("data", seg)]
    BY <1>4, Zenon DEF ReadSegment, Goto, Reject
  <2>2. unread => unread'
    BY <1>4, Zenon DEF ReadSegment, Read
  <2>3. WalkIsRight /\ seg \in 1 .. MaxSegments /\ meta \in MetaType
    BY <2>1, Numbers DEF ImageInv, ImageTypeOK, SoundInv, Walking, MetaType, WalkIsRight
  <2>4. PICK n \in Nat : seg = n + 1
    <3>1. seg - 1 \in Nat /\ seg = (seg - 1) + 1
      BY <2>3, Numbers
    <3> QED BY <3>1
  <2>5. Img' = Img
    BY <2>1 DEF Img
  <2>6. /\ meta'.count = meta.count
        /\ meta'.segs[n + 1] = Img.segs[n + 1] /\ meta'.pos[n + 1] = At("data", n + 1)
        /\ \A k \in 1 .. n : meta'.segs[k] = meta.segs[k] /\ meta'.pos[k] = meta.pos[k]
    BY <2>1, <2>3, <2>4, Numbers DEF MetaType
  <2>7. UpTo(n)'
    <3>1. UpTo(n)
      BY <2>3, <2>4 DEF WalkIsRight
    <3> QED BY <2>1, <2>5, <2>6, <3>1 DEF UpTo, Remembered, Odd, Own, Holds, At
  <2>8. Remembered(n + 1)'
    BY <2>1, <2>5, <2>6 DEF Remembered, At
  <2>9. ASSUME NEW CONSTANT m \in Nat, seg' = m + 1 PROVE m = n
    BY <2>1, <2>4, <2>9
  <2>10. WalkIsRight'
    BY <2>3, <2>5, <2>6, <2>7, <2>9 DEF WalkIsRight
  <2>11. (Img.allowed \/ unread)'
    BY <2>1, <2>2, <2>5, Zenon DEF SoundInv
  <2> QED BY <2>1, <2>8, <2>9, <2>10, <2>11 DEF SoundInv, Walked
<1>5. CASE CheckSegment /\ pc' # "rejected"
  <2>1. /\ pc = "segment" /\ pc' = "data"
        /\ UNCHANGED <<flash, cand, seg, checksum, meta, ram, unread>>
    BY <1>5 DEF CheckSegment, Goto, Reject
  <2>2. Img' = Img /\ (Img.allowed \/ unread)' /\ WalkIsRight'
    <3>1. pc \in Walking /\ (unread => unread')
      BY <2>1, Zenon DEF Walking
    <3> QED BY <2>1, <3>1, WalkKept
  <2>3. \A n \in Nat : seg' = n + 1 => Remembered(n + 1)'
    BY <2>1, <2>2 DEF SoundInv, Remembered, At
  <2> QED BY <2>1, <2>2, <2>3 DEF SoundInv, Walked
<1>6. CASE ProcessData /\ pc' # "rejected"
  <2>1. pc = "data" /\ pc' = "seg" /\ UNCHANGED <<flash, cand>>
    <3>1. CASE meta.segs[seg].data_len = 0
      BY <1>6, <3>1 DEF ProcessData, SegmentDone, Goto
    <3>2. CASE meta.segs[seg].data_len # 0
      BY <1>6, <3>2, Zenon DEF ProcessData, SegmentDone, Goto, Reject
    <3> QED BY <3>1, <3>2
  <2>2. unread => unread'
    BY <1>6, Zenon DEF ProcessData, Read
  <2>3. WalkIsRight'
    BY <1>6, <2>1, DataWalked
  <2>4. (Img.allowed \/ unread)'
    BY <2>1, <2>2, Zenon DEF SoundInv, Img
  <2> QED BY <2>1, <2>3, <2>4 DEF SoundInv, Walked
<1>7. CASE CheckChecksum /\ pc' # "rejected"
  <2>1. /\ pc = "seg" /\ seg > meta.count /\ checksum = Img.checksum
        /\ pc' = IF Img.hash_appended THEN "hash" ELSE "launched"
    BY <1>7, Zenon DEF CheckChecksum, Goto, Reject
  <2>2. UNCHANGED <<flash, secure, cand, seg, checksum, meta, ram>> /\ (unread => unread')
    BY <1>7, Zenon DEF CheckChecksum, Read
  <2>3. Img' = Img /\ (Img.allowed \/ unread)' /\ WalkIsRight'
    <3>1. pc \in Walking
      BY <2>1 DEF Walking
    <3> QED BY <2>2, <3>1, WalkKept
  <2>4. seg = Len(Img.segs) + 1
    <3>1. WalkIsRight /\ seg \in Nat /\ seg <= meta.count + 1
      BY <2>1 DEF ImageInv, ImageTypeOK, WalkInv, SoundInv, Walking
    <3> QED BY <2>1, <3>1 DEF WalkIsRight
  <2> QED BY <2>1, <2>2, <2>3, <2>4 DEF SoundInv
<1>8. CASE ReadHash /\ pc' # "rejected"
  <2>1. pc = "hash" /\ pc' = "finish" /\ (unread => unread')
    BY <1>8, Zenon DEF ReadHash, Read, Goto, Reject
  <2>2. UNCHANGED <<flash, secure, cand, seg, checksum, meta, ram>>
    BY <1>8 DEF ReadHash
  <2>3. Img' = Img /\ (Img.allowed \/ unread)' /\ WalkIsRight'
    <3>1. pc \in Walked
      BY <2>1 DEF Walked
    <3> QED BY <2>1, <2>2, <3>1, WalkKept
  <2> QED BY <2>1, <2>2, <2>3 DEF SoundInv, Walked
<1>9. CASE FinishHash /\ pc' # "rejected"
  <2>1. /\ pc = "finish" /\ Img.hash /\ pc' = IF secure THEN "sig" ELSE "launched"
        /\ UNCHANGED <<flash, secure, cand, seg, checksum, meta, ram, unread>>
    BY <1>9 DEF FinishHash
  <2>2. Img' = Img /\ (Img.allowed \/ unread)' /\ WalkIsRight'
    <3>1. pc \in Walked /\ (unread => unread')
      BY <2>1, Zenon DEF Walked
    <3> QED BY <2>1, <3>1, WalkKept
  <2> QED BY <2>1, <2>2 DEF SoundInv, Walked
<1>10. CASE CheckSignature /\ pc' # "rejected"
  <2>1. PICK ok \in Mmap(SigSize) : IF ok /\ Img.signed THEN Goto("launched") ELSE Reject
    BY <1>10 DEF CheckSignature
  <2>2. ~ok
    <3>1. SigSize \notin 1 .. MmapMax
      BY SignatureAssumption, MemoryAssumption
    <3>2. Mmap(SigSize) = {FALSE}
      BY <3>1 DEF Mmap, Refused
    <3> QED BY <3>2
  <2> QED BY <1>10, <2>1, <2>2 DEF Reject
<1>11. CASE UNCHANGED imageVars
  <2>1. UNCHANGED <<flash, secure, pc, cand, seg, checksum, meta, ram, unread>> /\ Img' = Img
    BY <1>11 DEF imageVars, Img
  <2>2. CASE pc \in Walking \cup Walked
    <3>1. unread => unread'
      BY <2>1, Zenon
    <3>2. (Img.allowed \/ unread)' /\ WalkIsRight'
      BY <2>1, <2>2, <3>1, WalkKept
    <3>3. \A n \in Nat : Remembered(n + 1)' <=> Remembered(n + 1)
      BY <2>1 DEF Remembered, At
    <3> QED BY <2>1, <2>2, <3>2, <3>3 DEF SoundInv, Walking, Walked
  <2>3. CASE pc \notin Walking \cup Walked
    <3>1. (pc \notin {"next", "rejected"} => Img.allowed \/ unread)'
      BY <2>1, Zenon DEF SoundInv
    <3> QED BY <2>1, <2>3, <3>1 DEF SoundInv, Walking, Walked
  <2> QED BY <2>2, <2>3
<1> QED
  BY <1>0, <1>1, <1>2, <1>3, <1>4, <1>5, <1>6, <1>7, <1>8, <1>9, <1>10, <1>11 DEF ImageNext

LEMMA SoundAlways == ImageSpec => [](ImageInv /\ SoundInv)
<1>1. ImageInit => ImageInv /\ CopyInv /\ SoundInv
  BY InvInit DEF ImageInit, CopyInv, SoundInv, Walking, Walked
<1>2. ImageInv /\ CopyInv /\ SoundInv /\ [ImageNext]_imageVars
        => (ImageInv /\ CopyInv /\ SoundInv)'
  BY InvStep, CopyStep, SoundStep
<1> QED BY <1>1, <1>2, PTL DEF ImageSpec

LEMMA SectionsInMemory == ASSUME NEW a \in Sections PROVE a \in Words /\ Cell[a] \in Words
<1>1. {TextStart, TextEnd, DataStart, BssEnd} \subseteq 0 .. AddrMax
  BY MemoryAssumption DEF Words
<1>2. a \in TextStart .. (TextEnd - 1) \/ a \in DataStart .. (BssEnd - 1)
  BY DEF Sections
<1>3. a \in Words
  BY <1>1, <1>2, Numbers DEF Words
<1> QED BY <1>3, MemoryAssumption

(* What ProcessData does to SRAM, and what it copies. *)
LEMMA DataCopied ==
  ASSUME ImageInv, CopyInv, SoundInv, ProcessData, ram' # ram
  PROVE  /\ Writes(meta.segs[seg]) /\ meta.segs[seg] = Img.segs[seg]
         /\ DoLoad(meta.segs[seg]) => Copied(meta.segs[seg]) \subseteq Words \ Sections
<1> DEFINE s == meta.segs[seg]
<1>1. s \in Segment /\ pc = "data" /\ s.data_len \in Nat /\ seg \in 1 .. MaxSegments
  <2>1. pc = "data" /\ seg \in 1 .. MaxSegments
    BY Numbers DEF ProcessData, ImageInv, WalkInv, Walking, ImageTypeOK
  <2> QED BY <2>1, Numbers DEF ImageInv, ImageTypeOK, Segment, Words
<1>2. ~Refused(s.data_len) /\ Writes(s)
  <2>1. s.data_len # 0
    BY DEF ProcessData
  <2>2. PICK ok \in Mmap(s.data_len) : IF ok THEN Writes(s) ELSE UNCHANGED ram
    BY <2>1 DEF ProcessData, Writes
  <2>3. ok /\ ok \in BOOLEAN
    BY <2>2 DEF Mmap
  <2>4. ~Refused(s.data_len)
    BY <2>2, <2>3, Zenon DEF Mmap
  <2> QED BY <2>2, <2>3, <2>4
<1>3. s.data_len <= MmapMax
  BY <1>1, <1>2, Numbers DEF Refused
<1>4. s = Img.segs[seg]
  <2>1. PICK n \in Nat : seg = n + 1
    <3>1. seg - 1 \in Nat /\ seg = (seg - 1) + 1
      BY <1>1, Numbers
    <3> QED BY <3>1
  <2> QED BY <1>1, <2>1 DEF SoundInv, Remembered
<1>5. ASSUME NEW a \in Copied(s), DoLoad(s) PROVE a \in Words \ Sections
  <2>1. LoadAddressOK(s.load_addr, s.data_len)
    BY <1>1, <1>5 DEF CopyInv
  <2> QED BY <1>1, <1>3, <1>5, <2>1, CopySafe, AddressPassed
<1> QED BY <1>2, <1>4, <1>5

LEMMA SparedStep ==
  ImageInv /\ CopyInv /\ SoundInv /\ SectionsSpared /\ [ImageNext]_imageVars
    => SectionsSpared'
<1> SUFFICES ASSUME ImageInv, CopyInv, SoundInv, SectionsSpared, [ImageNext]_imageVars,
                    NEW CONSTANT a \in Sections, Written(a)'
             PROVE  \E b \in Words \ Sections :
                      b \in Copied(Writer(a)') /\ Cell[b] = Cell[a]
  BY DEF SectionsSpared
<1>1. a \in Words /\ Cell[a] \in Words /\ flash' = flash
  <2>1. a \in Words /\ Cell[a] \in Words
    BY SectionsInMemory
  <2>2. flash' = flash
    BY Zenon DEF ImageNext, TryPartition, ReadHeader, StartImage, ReadSegment, CheckSegment,
       ProcessData, CheckChecksum, ReadHash, FinishHash, CheckSignature, imageVars
  <2> QED BY <2>1, <2>2
<1>2. CASE ram'[Cell[a]] = ram[Cell[a]]
  <2>1. Written(a) /\ Writer(a)' = Writer(a)
    BY <1>1, <1>2 DEF Written, Writer
  <2> QED BY <2>1 DEF SectionsSpared
<1>3. CASE ProcessData /\ ram'[Cell[a]] # ram[Cell[a]]
  <2> DEFINE s == meta.segs[seg]
  <2>1. /\ Writes(s) /\ s = Img.segs[seg]
        /\ DoLoad(s) => Copied(s) \subseteq Words \ Sections
    BY <1>3, DataCopied
  <2>2. Covers(s, Cell[a]) /\ ram'[Cell[a]] = At("data", seg)
    BY <1>1, <1>3, <2>1 DEF Writes
  <2>3. Writer(a)' = s
    BY <1>1, <2>1, <2>2 DEF Writer, At, Img
  <2> QED BY <2>1, <2>2, <2>3 DEF Covers
<1>4. ASSUME TryPartition \/ ReadHeader \/ StartImage \/ ReadSegment \/ CheckSegment
             \/ CheckChecksum \/ ReadHash \/ FinishHash \/ CheckSignature
             \/ UNCHANGED imageVars
      PROVE  ram' = ram
  BY <1>4, Zenon DEF TryPartition, ReadHeader, StartImage, ReadSegment, CheckSegment,
     CheckChecksum, ReadHash, FinishHash, CheckSignature, imageVars, Sha256Finish, Sha256Start
<1> QED BY <1>2, <1>3, <1>4 DEF ImageNext

(* Whatever the images hold, the loader never copies over its own code or data at
   their own addresses: a segment that reaches them has been let pass under the
   other address of the same SRAM. *)
THEOREM LoaderSpared == ImageSpec => []SectionsSpared
<1>1. ImageInit => ImageInv /\ CopyInv /\ SoundInv /\ SectionsSpared
  <2>1. ASSUME ImageInit PROVE SectionsSpared
    <3>1. ASSUME NEW a \in Sections PROVE ~Written(a)
      BY <2>1, <3>1, SectionsInMemory DEF ImageInit, Written
    <3> QED BY <3>1 DEF SectionsSpared
  <2> QED BY <2>1, InvInit DEF ImageInit, CopyInv, SoundInv, Walking, Walked
<1>2. ImageInv /\ CopyInv /\ SoundInv /\ SectionsSpared /\ [ImageNext]_imageVars
        => (ImageInv /\ CopyInv /\ SoundInv /\ SectionsSpared)'
  BY InvStep, CopyStep, SoundStep, SparedStep
<1> QED BY <1>1, <1>2, PTL DEF ImageSpec

(* And so it is never overwritten at all where no other address reaches it. *)
COROLLARY UnaliasedSpared ==
  ASSUME \A a \in Sections, b \in Words : Cell[b] = Cell[a] => b \in Sections
  PROVE  ImageSpec => []RegionsSpared
<1>1. SectionsSpared => RegionsSpared
  BY DEF SectionsSpared, RegionsSpared
<1> QED BY <1>1, LoaderSpared, PTL

(* At the launch the walk has seen every segment. *)
LEMMA AllWalked ==
  ASSUME ImageInv, SoundInv, pc = "launched"
  PROVE  /\ Len(Img.segs) \in Nat /\ DOMAIN Img.segs = 1 .. Len(Img.segs)
         /\ meta.count = Len(Img.segs) /\ UpTo(Len(Img.segs))
<1>1. WalkIsRight /\ seg = Len(Img.segs) + 1
  BY DEF SoundInv, Walked
<1>2. Img \in Image /\ Len(Img.segs) \in Nat
  BY ImgType DEF ImageInv
<1>3. DOMAIN Img.segs = 1 .. Len(Img.segs)
  BY <1>2 DEF Image
<1> QED BY <1>1, <1>2, <1>3 DEF WalkIsRight

(* What is started passed every check of the loader, stated over the whole image
   and without wrapping, whatever was tried before it; with signatures to be
   checked it is an image without a hash, which has none. *)
THEOREM LaunchIsSound == ImageSpec => []LaunchedSound
<1>1. ImageInv /\ SoundInv => LaunchedSound
  <2> SUFFICES ASSUME ImageInv, SoundInv, pc = "launched"
               PROVE  /\ Sound(Img) /\ Mappable(Img) /\ (Img.allowed \/ unread)
                      /\ secure => ~Img.hash_appended
    BY DEF LaunchedSound
  <2>1. /\ DOMAIN Img.segs = 1 .. Len(Img.segs) /\ UpTo(Len(Img.segs))
    BY AllWalked
  <2>2. /\ Img.header /\ Len(Img.segs) \in 1 .. MaxSegments
        /\ checksum = Img.checksum
        /\ Img.hash_appended => Img.hash
    BY DEF SoundInv, WalkIsRight, Walked
  <2>3. \A k \in DOMAIN Img.segs : Passed(Img.segs[k])
    BY <2>1 DEF UpTo
  <2>4. Img.checksum =
          (1 + Cardinality({k \in DOMAIN Img.segs :
                              Img.segs[k].data_len # 0 /\ Img.segs[k].data = 1})) % 2
    BY <2>1, <2>2 DEF UpTo, Odd
  <2>5. Sound(Img) /\ Mappable(Img)
    BY <2>2, <2>3, <2>4 DEF Sound, Mappable, Passed
  <2>6. (Img.allowed \/ unread) /\ (secure => ~Img.hash_appended)
    BY Zenon DEF SoundInv
  <2> QED BY <2>5, <2>6
<1> QED BY <1>1, SoundAlways, PTL

(* What is started finds its segments: in each word of SRAM the last of them that
   covers it under any address, in the mapped regions its own first one. *)
THEOREM LaunchIsIntact == ImageSpec => []LaunchedIntact
<1>1. ImageInv /\ SoundInv => LaunchedIntact
  <2> SUFFICES ASSUME ImageInv, SoundInv, pc = "launched" PROVE LaunchedIntact
    BY DEF LaunchedIntact
  <2> DEFINE N == Len(Img.segs)
  <2>1. N \in Nat /\ DOMAIN Img.segs = 1 .. N /\ meta.count = N /\ UpTo(N)
    BY AllWalked
  <2>2. ASSUME NEW k \in DOMAIN Img.segs, DoLoad(Img.segs[k]), NEW a \in Copied(Img.segs[k])
        PROVE  \E j \in DOMAIN Img.segs :
                 j >= k /\ Covers(Img.segs[j], Cell[a]) /\ ram[Cell[a]] = At("data", j)
    BY <2>1, <2>2 DEF UpTo, Holds
  <2>3. ASSUME NEW region \in {Drom, Irom}
        PROVE  SegmentInfo(region) =
                 {[addr |-> At("data", k), seg |-> Img.segs[k]] :
                    k \in {m \in Own(N, region) : \A n \in Own(N, region) : m <= n}}
    <3> DEFINE in == {k \in 1 .. meta.count :
                        meta.segs[k].data_len # 0 /\ meta.segs[k].load_addr \in region}
               first == CHOOSE k \in in : \A j \in in : k <= j
    <3>1. in = Own(N, region) /\ in \subseteq 1 .. N
      BY <2>1 DEF UpTo, Remembered, Own
    <3>2. SegmentInfo(region) =
            IF in = {} THEN {} ELSE {[addr |-> meta.pos[first], seg |-> meta.segs[first]]}
      BY DEF SegmentInfo
    <3>3. CASE in = {}
      BY <3>1, <3>2, <3>3
    <3>4. CASE in # {}
      <4>1. \E m \in in : \A k \in in : m <= k
        BY <2>1, <3>1, <3>4 DEF UpTo
      <4>2. first \in in /\ \A j \in in : first <= j
        BY <4>1
      <4>3. {m \in in : \A n \in in : m <= n} = {first}
        <5> HIDE DEF in, first
        <5>1. ASSUME NEW m \in in, m <= first, first <= m PROVE m = first
          BY <2>1, <3>1, <4>2, <5>1
        <5> QED BY <4>2, <5>1
      <4>4. meta.pos[first] = At("data", first) /\ meta.segs[first] = Img.segs[first]
        <5>1. first \in 1 .. N
          BY <3>1, <4>2
        <5> QED BY <2>1, <5>1 DEF UpTo, Remembered
      <4> HIDE DEF in, first
      <4> QED BY <3>1, <3>2, <3>4, <4>3, <4>4
    <3> QED BY <3>3, <3>4
  <2>4. \A region \in {Drom, Irom} :
          Own(N, region) = {k \in DOMAIN Img.segs :
                              Img.segs[k].data_len # 0 /\ Img.segs[k].load_addr \in region}
    BY <2>1 DEF Own
  <2> HIDE DEF N
  <2> QED BY <2>2, <2>3, <2>4, Zenon DEF LaunchedIntact
<1> QED BY <1>1, SoundAlways, PTL

----------------------------------------------------------------------------
(* The hash stored in an image is over the places DigestOf names; digests is the
   function it is defined by, up to segment n.  The walk itself is the
   induction: it extends the function and agrees with it at each segment. *)
Digests(n, g) ==
  g = [k \in 0 .. n |-> IF k = 0 THEN <<At("header", 0)>> ELSE g[k - 1] \o Hashed(k)]

Hashing(n, s) ==
  /\ \E g : Digests(n, g)
  /\ \A g : Digests(Len(Img.segs), g) => g[n] = s

HashInv ==
  /\ pc = "start" => buf = At("header", 0)
  /\ pc = "segment" => buf = At("segment", seg)
  /\ pc = "finish" => buf = At("hash", 0)
  /\ pc \in {"hash", "finish", "sig"} => Img.hash_appended
  /\ pc = "sig" => secure
  /\ pc \in Walking \cup {"hash", "finish"} => (Img.hash_appended => handle)
  /\ handle /\ pc \in {"seg", "segment"} => \A n \in Nat : seg = n + 1 => Hashing(n, fed)
  /\ handle /\ pc = "data" =>
       \A n \in Nat : seg = n + 1 =>
         \E s \in Seq(Loc \cup {NoLoc}) :
           Hashing(n, s) /\ fed = Append(s, At("segment", n + 1))
  /\ handle /\ pc \in {"hash", "finish"} => fed = DigestOf

LEMMA HashingStart ==
  ASSUME Len(Img.segs) \in Nat PROVE Hashing(0, <<At("header", 0)>>)
<1>1. Digests(0, [k \in 0 .. 0 |-> <<At("header", 0)>>])
  BY DEF Digests
<1>2. ASSUME NEW g, Digests(Len(Img.segs), g) PROVE g[0] = <<At("header", 0)>>
  BY <1>2 DEF Digests
<1> QED BY <1>1, <1>2 DEF Hashing

LEMMA HashingNext ==
  ASSUME Len(Img.segs) \in Nat, NEW n \in Nat, n < Len(Img.segs), NEW s, Hashing(n, s)
  PROVE  Hashing(n + 1, s \o Hashed(n + 1))
<1>1. PICK g : Digests(n, g)
  BY DEF Hashing
<1> DEFINE h == [k \in 0 .. (n + 1) |-> IF k = n + 1 THEN g[n] \o Hashed(n + 1) ELSE g[k]]
<1>2. ASSUME NEW k \in 0 .. (n + 1)
      PROVE  h[k] = IF k = 0 THEN <<At("header", 0)>> ELSE h[k - 1] \o Hashed(k)
  <2>1. CASE k = n + 1
    <3>1. h[k] = g[n] \o Hashed(k) /\ h[k - 1] = g[n] /\ k # 0
      BY <2>1
    <3> QED BY <3>1
  <2>2. CASE k # n + 1
    <3>1. k \in 0 .. n
      BY <2>2
    <3>2. g[k] = IF k = 0 THEN <<At("header", 0)>> ELSE g[k - 1] \o Hashed(k)
      BY <1>1, <3>1 DEF Digests
    <3>3. h[k] = g[k] /\ (k # 0 => h[k - 1] = g[k - 1])
      BY <2>2, <3>1
    <3> HIDE DEF h
    <3> QED BY <3>2, <3>3
  <2> QED BY <2>1, <2>2
<1>3. Digests(n + 1, h)
  <2>1. h = [k \in 0 .. (n + 1) |-> h[k]]
    OBVIOUS
  <2> HIDE DEF h
  <2> QED BY <1>2, <2>1 DEF Digests
<1>4. ASSUME NEW f, Digests(Len(Img.segs), f) PROVE f[n + 1] = s \o Hashed(n + 1)
  <2>1. f[n] = s
    BY <1>4 DEF Hashing
  <2>2. n + 1 \in 0 .. Len(Img.segs) /\ n + 1 # 0 /\ (n + 1) - 1 = n
    OBVIOUS
  <2>3. f[n + 1] = f[(n + 1) - 1] \o Hashed(n + 1)
    BY <1>4, <2>2 DEF Digests
  <2> QED BY <2>1, <2>2, <2>3
<1> QED BY <1>3, <1>4 DEF Hashing

LEMMA HashingEnd ==
  ASSUME NEW s, Hashing(Len(Img.segs), s)
  PROVE  Append(s, At("checksum", 0)) = DigestOf
<1> DEFINE upTo == CHOOSE g : Digests(Len(Img.segs), g)
<1>1. Digests(Len(Img.segs), upTo)
  BY DEF Hashing
<1>2. upTo[Len(Img.segs)] = s
  BY <1>1 DEF Hashing
<1>3. DigestOf = Append(upTo[Len(Img.segs)], At("checksum", 0))
  BY Zenon DEF DigestOf, Digests
<1> QED BY <1>2, <1>3

(* A step that stays with the same image leaves the definition of its digest. *)
LEMMA HashingKept ==
  ASSUME UNCHANGED <<flash, cand>>
  PROVE  /\ Img' = Img /\ DigestOf' = DigestOf
         /\ \A w, k : At(w, k)' = At(w, k)
         /\ \A k : Hashed(k)' = Hashed(k)
         /\ \A n, s : Hashing(n, s)' <=> Hashing(n, s)
<1>1. Img' = Img
  BY DEF Img
<1>2. \A w, k : At(w, k)' = At(w, k)
  BY DEF At
<1>3. \A k : Hashed(k)' = Hashed(k)
  BY <1>1, <1>2 DEF Hashed, At
<1>4. ASSUME NEW CONSTANT n, NEW CONSTANT g PROVE Digests(n, g)' <=> Digests(n, g)
  <2>1. At("header", 0)' = At("header", 0)
    BY <1>2
  <2> QED BY <1>3, <2>1 DEF Digests
<1>6. ASSUME NEW CONSTANT n, NEW CONSTANT s PROVE Hashing(n, s)' <=> Hashing(n, s)
  BY <1>1, <1>4 DEF Hashing
<1>5. DigestOf' = DigestOf
  BY <1>1, <1>2, <1>3 DEF DigestOf, At
<1> QED BY <1>1, <1>2, <1>3, <1>5, <1>6

LEMMA HashStep ==
  ImageInv /\ SoundInv /\ HashInv /\ [ImageNext]_imageVars => HashInv'
<1> SUFFICES ASSUME ImageInv, SoundInv, HashInv, [ImageNext]_imageVars PROVE HashInv'
  OBVIOUS
<1>0. CASE pc' \in {"rejected", "header", "launched"}
  BY <1>0 DEF HashInv, Walking
<1>1. CASE TryPartition \/ FinishHash \/ CheckSignature
  <2>1. CASE TryPartition
    BY <1>0, <2>1 DEF TryPartition
  <2>2. CASE FinishHash
    <3>1. /\ pc = "finish" /\ pc' \in {"rejected", "launched", "sig"}
          /\ pc' = "sig" => secure
          /\ UNCHANGED <<flash, secure, cand>>
      BY <2>2 DEF FinishHash
    <3>2. CASE pc' = "sig"
      <4>1. Img' = Img /\ Img.hash_appended
        BY <3>1, HashingKept DEF HashInv
      <4> QED BY <3>1, <3>2, <4>1 DEF HashInv, Walking
    <3> QED BY <1>0, <3>1, <3>2
  <2>3. CASE CheckSignature
    <3>1. pc' \in {"rejected", "launched"}
      BY <2>3, Zenon DEF CheckSignature, Goto, Reject
    <3> QED BY <1>0, <3>1
  <2> QED BY <1>1, <2>1, <2>2, <2>3
<1>2. CASE ReadHeader /\ pc' # "rejected"
  <2>1. pc' = "start" /\ buf' = At("header", 0) /\ cand' = cand
    BY <1>2, Zenon DEF ReadHeader, Read, Goto, Reject
  <2>2. handle' = handle /\ ~handle
    BY <1>2, Zenon DEF ReadHeader, Goto, Reject, ImageInv, ResourceInv, Walking
  <2> QED BY <2>1, <2>2 DEF HashInv, Walking, At
<1>3. CASE StartImage /\ pc' # "rejected"
  <2>1. /\ pc = "start" /\ pc' = "seg" /\ seg' = seg /\ UNCHANGED <<flash, cand>>
        /\ IF Img.hash_appended THEN Sha256Start(buf) ELSE UNCHANGED handle
    BY <1>3 DEF StartImage, Reject
  <2>2. seg = 1 /\ buf = At("header", 0) /\ used = 0 /\ ~handle
    BY <2>1 DEF ImageInv, WalkInv, HashInv, ResourceInv, Walking
  <2>3. Img.hash_appended => handle' = TRUE /\ fed' = <<At("header", 0)>>
    BY <2>1, <2>2, Numbers DEF Sha256Start
  <2>4. handle' => Img.hash_appended
    BY <2>1, <2>2
  <2>5. Hashing(0, <<At("header", 0)>>)
    BY ImgType, HashingStart DEF ImageInv
  <2>6. ASSUME NEW CONSTANT n \in Nat, seg' = n + 1, handle' PROVE Hashing(n, fed)'
    <3>1. n = 0
      BY <2>1, <2>2, <2>6
    <3>2. fed' = <<At("header", 0)>>
      BY <2>3, <2>4, <2>6
    <3> QED BY <2>1, <2>5, <3>1, <3>2, HashingKept
  <2>7. Img' = Img
    BY <2>1, HashingKept
  <2> QED BY <2>1, <2>3, <2>6, <2>7 DEF HashInv
<1>4. CASE ReadSegment /\ pc' # "rejected"
  <2>1. /\ pc = "seg" /\ pc' = "segment" /\ buf' = At("segment", seg) /\ handle' = handle
        /\ UNCHANGED <<flash, cand, seg, fed>>
    BY <1>4, Zenon DEF ReadSegment, Read, Goto, Reject
  <2>2. buf' = At("segment", seg)'
    BY <2>1 DEF At
  <2>3. ASSUME NEW CONSTANT n \in Nat, seg' = n + 1, handle' PROVE Hashing(n, fed)'
    <3>1. Hashing(n, fed)
      BY <2>1, <2>3 DEF HashInv
    <3> QED BY <2>1, <3>1, HashingKept
  <2>4. Img' = Img
    BY <2>1, HashingKept
  <2> QED BY <2>1, <2>2, <2>3, <2>4 DEF HashInv, Walking
<1>5. CASE CheckSegment /\ pc' # "rejected"
  <2>1. /\ pc = "segment" /\ pc' = "data" /\ handle' = handle
        /\ UNCHANGED <<flash, cand, seg>> /\ (handle => fed' = Append(fed, buf))
    BY <1>5 DEF CheckSegment, Goto, Reject, Feed
  <2>2. buf = At("segment", seg)
    BY <2>1 DEF HashInv
  <2>3. ASSUME NEW CONSTANT n \in Nat, seg' = n + 1, handle'
        PROVE  \E s \in Seq(Loc \cup {NoLoc}) :
                 Hashing(n, s)' /\ fed' = Append(s, At("segment", n + 1)')
    <3>1. Hashing(n, fed) /\ fed \in Seq(Loc \cup {NoLoc})
      BY <2>1, <2>3 DEF HashInv, ImageInv, ImageTypeOK
    <3>2. fed' = Append(fed, At("segment", n + 1))
      BY <2>1, <2>2, <2>3
    <3> QED BY <2>1, <3>1, <3>2, HashingKept
  <2>4. Img' = Img
    BY <2>1, HashingKept
  <2> QED BY <2>1, <2>3, <2>4 DEF HashInv, Walking, Loc, NoLoc
<1>6. CASE ProcessData /\ pc' # "rejected"
  <2>1. /\ pc = "data" /\ pc' = "seg" /\ seg' = seg + 1 /\ handle' = handle
        /\ UNCHANGED <<flash, cand, meta>>
        /\ handle => fed' = IF meta.segs[seg].data_len = 0 THEN fed
                            ELSE Append(fed, At("data", seg))
    <3>1. CASE meta.segs[seg].data_len = 0
      BY <1>6, <3>1 DEF ProcessData, SegmentDone, Goto
    <3>2. CASE meta.segs[seg].data_len # 0
      <4>1. /\ pc = "data" /\ SegmentDone /\ Feed(At("data", seg))
            /\ UNCHANGED <<flash, cand, meta>>
        BY <1>6, <3>2, Zenon DEF ProcessData, Reject
      <4> QED BY <3>2, <4>1 DEF SegmentDone, Goto, Feed
    <3> QED BY <3>1, <3>2
  <2>2. WalkIsRight /\ seg \in 1 .. Len(Img.segs) /\ Len(Img.segs) \in Nat
    BY <2>1, ImgType DEF ImageInv, WalkInv, ImageTypeOK, Walking, SoundInv
  <2>3. ASSUME NEW CONSTANT m \in Nat, seg' = m + 1, handle' PROVE Hashing(m, fed)'
    <3>1. PICK n \in Nat : seg = n + 1
      <4>1. seg - 1 \in Nat /\ seg = (seg - 1) + 1
        BY <2>2
      <4> QED BY <4>1
    <3>2. m = n + 1 /\ n < Len(Img.segs)
      BY <2>1, <2>2, <2>3, <3>1
    <3>3. meta.segs[seg] = Img.segs[n + 1]
      BY <2>1, <3>1 DEF SoundInv, Remembered
    <3>4. PICK s \in Seq(Loc \cup {NoLoc}) :
            Hashing(n, s) /\ fed = Append(s, At("segment", n + 1))
      BY <2>1, <2>3, <3>1 DEF HashInv
    <3>5. Hashing(n + 1, s \o Hashed(n + 1))
      BY <2>2, <3>2, <3>4, HashingNext
    <3>6. fed' = s \o Hashed(n + 1)
      <4>1. CASE Img.segs[n + 1].data_len = 0
        <5>1. fed' = Append(s, At("segment", n + 1)) /\ Hashed(n + 1) = <<At("segment", n + 1)>>
          BY <2>1, <2>3, <3>3, <3>4, <4>1 DEF Hashed
        <5>2. ASSUME NEW x PROVE Append(s, x) = s \o <<x>>
          OBVIOUS
        <5> QED BY <5>1, <5>2
      <4>2. CASE Img.segs[n + 1].data_len # 0
        <5>1. /\ fed' = Append(Append(s, At("segment", n + 1)), At("data", n + 1))
              /\ Hashed(n + 1) = <<At("segment", n + 1), At("data", n + 1)>>
          BY <2>1, <2>3, <3>1, <3>3, <3>4, <4>2 DEF Hashed
        <5>2. ASSUME NEW x, NEW y PROVE Append(Append(s, x), y) = s \o <<x, y>>
          OBVIOUS
        <5> QED BY <5>1, <5>2
      <4> QED BY <4>1, <4>2
    <3> QED BY <2>1, <3>2, <3>5, <3>6, HashingKept
  <2>4. Img' = Img
    BY <2>1, HashingKept
  <2> QED BY <2>1, <2>3, <2>4 DEF HashInv, Walking
<1>7. CASE CheckChecksum /\ pc' # "rejected"
  <2>1. /\ pc = "seg" /\ seg > meta.count /\ UNCHANGED <<flash, cand, seg, handle>>
        /\ pc' = IF Img.hash_appended THEN "hash" ELSE "launched"
        /\ Feed(At("checksum", 0))
    BY <1>7, Zenon DEF CheckChecksum, Goto, Reject
  <2>2. PICK n \in Nat : seg = n + 1 /\ n = Len(Img.segs)
    <3>1. /\ WalkIsRight /\ seg \in Nat /\ seg <= meta.count + 1 
      BY <2>1 DEF ImageInv, ImageTypeOK, WalkInv, SoundInv, Walking
    <3>2. meta.count \in Nat /\ meta.count = Len(Img.segs)
      BY <3>1, Numbers DEF WalkIsRight
    <3>3. seg = Len(Img.segs) + 1 /\ Len(Img.segs) \in Nat
      BY <2>1, <3>1, <3>2
    <3> QED BY <3>3
  <2>3. handle => fed' = DigestOf
    <3> SUFFICES ASSUME handle PROVE fed' = DigestOf
      OBVIOUS
    <3>1. Hashing(Len(Img.segs), fed)
      BY <2>1, <2>2 DEF HashInv
    <3>2. fed' = Append(fed, At("checksum", 0))
      BY <2>1 DEF Feed
    <3> QED BY <3>1, <3>2, HashingEnd
  <2>4. Img' = Img /\ DigestOf' = DigestOf
    BY <2>1, HashingKept
  <2> QED BY <2>1, <2>3, <2>4 DEF HashInv, Walking
<1>8. CASE ReadHash /\ pc' # "rejected"
  <2>1. /\ pc = "hash" /\ pc' = "finish" /\ buf' = At("hash", 0) /\ handle' = handle
        /\ UNCHANGED <<flash, cand, fed>>
    BY <1>8, Zenon DEF ReadHash, Read, Goto, Reject
  <2>2. Img' = Img /\ DigestOf' = DigestOf /\ buf' = At("hash", 0)'
    BY <2>1, HashingKept DEF At
  <2> QED BY <2>1, <2>2 DEF HashInv, Walking
<1>9. CASE UNCHANGED imageVars
  <2>1. UNCHANGED <<flash, cand>> /\ UNCHANGED <<secure, pc, seg, buf, handle, fed>>
    BY <1>9 DEF imageVars
  <2>2. /\ Img' = Img /\ DigestOf' = DigestOf /\ \A w, k : At(w, k)' = At(w, k)
        /\ \A n, s : Hashing(n, s)' <=> Hashing(n, s)
    BY <2>1, HashingKept
  <2>3. At("segment", seg)' = At("segment", seg)
    BY <2>1 DEF At
  <2> QED BY <2>1, <2>2, <2>3 DEF HashInv
<1> QED
  BY <1>0, <1>1, <1>2, <1>3, <1>4, <1>5, <1>6, <1>7, <1>8, <1>9 DEF ImageNext

(* What is not started was not to be started. *)
Excused ==
  unread \/ ~Img.allowed \/ ~Sound(Img) \/ ~Mappable(Img) \/ (secure /\ Img.hash_appended)

BootsInv == pc = "rejected" => Excused

(* A flash read that fails although the request can be served. *)
LEMMA FailureSeen ==
  ASSUME NEW loc, NEW len, NEW ok \in Mmap(len), ~ok, Read(ok, loc, len), ResourceInv,
         len \in 1 .. MmapMax
  PROVE  unread'
<1>1. ~Refused(len)
  BY DEF Refused, ResourceInv
<1> QED BY <1>1, Zenon DEF Read

(* A segment that verify_load_addresses rejects fails its checks, and its image
   is not sound. *)
LEMMA AddressRejected ==
  ASSUME NEW s \in Segment, DoLoad(s), ~LoadAddressOK(s.load_addr, s.data_len)
  PROVE  ~Passed(s)
<1> SUFFICES ASSUME Passed(s) PROVE FALSE
  OBVIOUS
<1>1. /\ s.load_addr \in Nat /\ s.data_len \in Nat
      /\ TextStart \in Nat /\ TextEnd \in Nat /\ DataStart \in Nat /\ BssEnd \in Nat
      /\ RomStack \in Nat /\ Headroom \in Nat
  BY MemoryAssumption, Numbers DEF Segment, Words
<1>2. /\ s.data_len <= MmapMax
      /\ ~Touches(s, TextStart, TextEnd) /\ ~Touches(s, DataStart, BssEnd)
      /\ s.load_addr \notin (RomStack - Headroom + 1) .. (RomStack + Headroom - 1)
  BY DEF Passed
<1>3. s.load_addr + s.data_len <= AddrMax
  <2>1. s.load_addr + MmapMax <= AddrMax
    BY MemoryAssumption DEF DoLoad
  <2> QED BY <1>1, <1>2, <2>1, Numbers
<1> QED BY <1>1, <1>2, <1>3, Numbers DEF LoadAddressOK, Touches

LEMMA RejectedSegment ==
  ASSUME ImageTypeOK, NEW k \in 1 .. Len(Img.segs), DoLoad(Img.segs[k]),
         ~LoadAddressOK(Img.segs[k].load_addr, Img.segs[k].data_len)
  PROVE  ~Sound(Img) \/ ~Mappable(Img)
<1>1. Img.segs[k] \in Segment /\ k \in DOMAIN Img.segs
  <2>1. DOMAIN Img.segs = 1 .. Len(Img.segs)
    BY ImgType DEF Image
  <2> QED BY <2>1, ImgType
<1>2. ~Passed(Img.segs[k])
  BY <1>1, AddressRejected
<1> QED BY <1>1, <1>2 DEF Sound, Mappable, Passed

LEMMA BootsStep ==
  ImageInv /\ SoundInv /\ HashInv /\ BootsInv /\ [ImageNext]_imageVars => BootsInv'
<1> SUFFICES ASSUME ImageInv, SoundInv, HashInv, BootsInv, [ImageNext]_imageVars,
                    pc' = "rejected"
             PROVE  Excused'
  BY DEF BootsInv
<1>0. ImageTypeOK /\ ResourceInv /\ 1 \in 1 .. MmapMax
  BY Numbers, MemoryAssumption DEF ImageInv
<1>1. CASE TryPartition
  <2>1. PICK c \in Cands, ok \in Mmap(1) :
          cand' = c /\ pc' = IF ok /\ ~flash[c].allowed THEN "rejected" ELSE "header"
    BY <1>1, Zenon DEF TryPartition
  <2>2. ~flash[c].allowed /\ flash' = flash
    BY <1>1, <2>1 DEF TryPartition
  <2> QED BY <2>1, <2>2 DEF Excused, Img
<1>2. ASSUME UNCHANGED <<flash, secure, cand>>,
             unread' \/ ~Sound(Img) \/ ~Mappable(Img) \/ (secure /\ Img.hash_appended)
      PROVE  Excused'
  <2>1. Img' = Img /\ Sound(Img)' = Sound(Img) /\ Mappable(Img)' = Mappable(Img)
    BY <1>2 DEF Img, Sound, Mappable, DoLoad, Touches
  <2> QED BY <1>2, <2>1, Zenon DEF Excused
<1>3. CASE ReadHeader
  <2>1. PICK ok \in Mmap(1) :
          Read(ok, At("header", 0), 1) /\ (IF ok THEN Goto("start") ELSE Reject)
    BY <1>3, Zenon DEF ReadHeader
  <2>2. ~ok
    BY <2>1, Zenon DEF Goto
  <2>3. unread'
    BY <1>0, <2>1, <2>2, FailureSeen
  <2> QED BY <1>2, <1>3, <2>3 DEF ReadHeader
<1>4. CASE StartImage
  <2>1. pc = "start" /\ ~VerifyHeader /\ UNCHANGED <<flash, secure, cand>>
    BY <1>4 DEF StartImage
  <2>2. ~Sound(Img)
    BY <2>1 DEF ImageInv, WalkInv, VerifyHeader, Sound
  <2> QED BY <1>2, <2>1, <2>2
<1>5. CASE ReadSegment
  <2>1. PICK ok \in Mmap(1) :
          Read(ok, At("segment", seg), 1) /\ (IF ok THEN Goto("segment") ELSE Reject)
    BY <1>5, Zenon DEF ReadSegment
  <2>2. ~ok
    BY <2>1, Zenon DEF Goto
  <2>3. unread'
    BY <1>0, <2>1, <2>2, FailureSeen
  <2> QED BY <1>2, <1>5, <2>3 DEF ReadSegment
<1>6. ASSUME pc \in {"segment", "data"}
      PROVE  seg \in 1 .. Len(Img.segs) /\ meta.segs[seg] = Img.segs[seg]
  <2>1. seg \in 1 .. Len(Img.segs)
    BY <1>6 DEF ImageInv, WalkInv, ImageTypeOK, Walking
  <2>2. PICK n \in Nat : seg = n + 1
    <3>1. Len(Img.segs) \in Nat /\ seg - 1 \in Nat /\ seg = (seg - 1) + 1
      BY <1>0, <2>1, ImgType
    <3> QED BY <3>1
  <2> QED BY <1>6, <2>1, <2>2 DEF SoundInv, Remembered
<1>7. CASE CheckSegment
  <2>1. /\ pc = "segment" /\ UNCHANGED <<flash, secure, cand>>
        /\ DoLoad(meta.segs[seg])
        /\ ~LoadAddressOK(meta.segs[seg].load_addr, meta.segs[seg].data_len)
    BY <1>7 DEF CheckSegment, Goto
  <2>2. ~Sound(Img) \/ ~Mappable(Img)
    BY <1>0, <1>6, <2>1, RejectedSegment
  <2> QED BY <1>2, <2>1, <2>2
<1>8. CASE ProcessData
  <2> DEFINE len == meta.segs[seg].data_len
  <2>1. pc = "data" /\ len # 0 /\ UNCHANGED <<flash, secure, cand>>
    BY <1>8 DEF ProcessData, SegmentDone, Goto
  <2>2. PICK ok \in Mmap(len) :
          Read(ok, At("data", seg), len) /\ (ok => SegmentDone)
    BY <1>8, <2>1, Zenon DEF ProcessData
  <2>3. ~ok
    BY <2>2, Zenon DEF SegmentDone, Goto
  <2>4. Img.segs[seg].data_len = len /\ len \in Nat /\ seg \in DOMAIN Img.segs
    <3>1. DOMAIN Img.segs = 1 .. Len(Img.segs)
      BY <1>0, ImgType DEF Image
    <3> QED BY <1>0, <1>6, <2>1, <3>1, ImgType DEF Segment, Words
  <2>5. CASE len > MmapMax
    <3>1. ~(Img.segs[seg].data_len <= MmapMax)
      BY <2>4, <2>5, Numbers
    <3>2. ~Mappable(Img)
      BY <2>4, <3>1 DEF Mappable
    <3> QED BY <1>2, <2>1, <3>2
  <2>6. CASE len <= MmapMax
    <3>1. len \in 1 .. MmapMax
      BY <2>1, <2>4, <2>6, Numbers
    <3>2. unread'
      BY <1>0, <2>2, <2>3, <3>1, FailureSeen
    <3> QED BY <1>2, <2>1, <3>2
  <2> QED BY <2>4, <2>5, <2>6, Numbers
<1>9. CASE CheckChecksum
  <2>1. PICK ok \in Mmap(1) :
          /\ Read(ok, At("checksum", 0), 1)
          /\ (IF ~ok \/ checksum # Img.checksum THEN Reject
              ELSE IF Img.hash_appended THEN Goto("hash") ELSE Goto("launched"))
    BY <1>9, Zenon DEF CheckChecksum
  <2>2. pc = "seg" /\ seg > meta.count /\ UNCHANGED <<flash, secure, cand>>
    BY <1>9 DEF CheckChecksum
  <2>3. CASE ~ok
    <3>1. unread'
      BY <1>0, <2>1, <2>3, FailureSeen
    <3> QED BY <1>2, <2>2, <3>1
  <2>4. CASE ok
    <3>1. checksum # Img.checksum
      BY <2>1, <2>4, Zenon DEF Goto
    <3>2. WalkIsRight /\ seg \in Nat /\ seg <= meta.count + 1
      BY <2>2 DEF ImageInv, ImageTypeOK, WalkInv, SoundInv, Walking
    <3>3. Len(Img.segs) \in Nat /\ DOMAIN Img.segs = 1 .. Len(Img.segs)
      BY <1>0, ImgType DEF Image
    <3>4. UpTo(Len(Img.segs))
      <4>1. meta.count = Len(Img.segs)
        BY <3>2 DEF WalkIsRight
      <4>2. seg = Len(Img.segs) + 1
        BY <2>2, <3>2, <3>3, <4>1
      <4> QED BY <3>2, <3>3, <4>2 DEF WalkIsRight
    <3>5. checksum = (1 + Cardinality({k \in DOMAIN Img.segs :
                        Img.segs[k].data_len # 0 /\ Img.segs[k].data = 1})) % 2
      BY <3>3, <3>4 DEF UpTo, Odd
    <3>6. ~Sound(Img)
      BY <3>1, <3>5, Zenon DEF Sound
    <3> QED BY <1>2, <2>2, <3>6
  <2> QED BY <2>3, <2>4
<1>10. CASE ReadHash
  <2>1. PICK ok \in Mmap(1) :
          Read(ok, At("hash", 0), 1) /\ (IF ok THEN Goto("finish") ELSE Reject)
    BY <1>10, Zenon DEF ReadHash
  <2>2. ~ok
    BY <2>1, Zenon DEF Goto
  <2>3. unread'
    BY <1>0, <2>1, <2>2, FailureSeen
  <2> QED BY <1>2, <1>10, <2>3 DEF ReadHash
<1>11. CASE FinishHash
  <2>1. pc = "finish" /\ UNCHANGED <<flash, secure, cand>>
    BY <1>11 DEF FinishHash
  <2>2. Img.hash_appended /\ handle /\ buf = At("hash", 0) /\ fed = DigestOf
    BY <2>1 DEF HashInv
  <2>3. ~Img.hash
    BY <1>11, <2>2 DEF FinishHash
  <2>4. ~Sound(Img)
    BY <2>2, <2>3 DEF Sound
  <2> QED BY <1>2, <2>1, <2>4
<1>12. CASE CheckSignature
  <2>1. pc = "sig" /\ UNCHANGED <<flash, secure, cand>>
    BY <1>12 DEF CheckSignature
  <2>2. secure /\ Img.hash_appended
    BY <2>1 DEF HashInv
  <2> QED BY <1>2, <2>1, <2>2
<1>13. CASE UNCHANGED imageVars
  <2>1. /\ pc = "rejected" /\ UNCHANGED <<flash, secure, cand>> /\ unread' = unread
    BY <1>13 DEF imageVars
  <2>2. Img' = Img /\ Sound(Img)' = Sound(Img) /\ Mappable(Img)' = Mappable(Img)
    BY <2>1 DEF Img, Sound, Mappable, DoLoad, Touches
  <2> QED BY <2>1, <2>2, Zenon DEF BootsInv, Excused
<1> QED
  BY <1>1, <1>3, <1>4, <1>5, <1>7, <1>8, <1>9, <1>10, <1>11, <1>12, <1>13 DEF ImageNext

(* A sound image is rejected only if flash could not be read, or if it has a
   segment or, where signatures are checked, a hash and so a signature, that is too
   long for the mapping: nothing that an earlier try left behind makes it fail, nor
   does the walk itself. *)
THEOREM SoundImageBoots == ImageSpec => []SoundBoots
<1>1. ImageInit => ImageInv /\ CopyInv /\ SoundInv /\ HashInv /\ BootsInv
  BY InvInit DEF ImageInit, CopyInv, SoundInv, HashInv, BootsInv, Walking, Walked
<1>2. ImageInv /\ CopyInv /\ SoundInv /\ HashInv /\ BootsInv /\ [ImageNext]_imageVars
        => (ImageInv /\ CopyInv /\ SoundInv /\ HashInv /\ BootsInv)'
  BY InvStep, CopyStep, SoundStep, HashStep, BootsStep
<1>3. BootsInv => SoundBoots
  BY Zenon DEF BootsInv, Excused, SoundBoots
<1> QED BY <1>1, <1>2, <1>3, PTL DEF ImageSpec
=============================================================================
