---------------------------- MODULE MCImageLoad ----------------------------
(* Two partitions over a four-bit address space: data and bss at 2 and 3, the
   stack at 4, the ROM stack at 8, text at 12; the words at 5 to 7 have a second
   address, 11 to 13.  The images are sound ones and ones that fail at each of the
   checks. *)
EXTENDS ImageLoad

Seg(addr, len, bit) == [load_addr |-> addr, data_len |-> len, data |-> bit]

\* An image of these segments with the right checksum and hash.
ImageOf(segs) ==
  [header |-> TRUE, segs |-> segs, hash_appended |-> TRUE, hash |-> TRUE,
   checksum |-> (1 + Cardinality({k \in DOMAIN segs : segs[k].data_len # 0
                                                       /\ segs[k].data = 1})) % 2,
   signed |-> TRUE, allowed |-> TRUE]

\* RAM, code and constants; up to the text, over it, and onto it by its other
\* address; two segments on one word; wrap; oversize; on the stack; ...
Layouts ==
  { <<Seg(5, 1, 1)>>, <<Seg(0, 1, 1), Seg(14, 2, 0)>>, <<Seg(14, 1, 1), Seg(5, 1, 1)>>,
    <<Seg(0, 2, 1), Seg(0, 1, 1)>>, <<Seg(11, 1, 1)>>, <<Seg(11, 2, 1)>>, <<Seg(6, 1, 0)>>,
    <<Seg(5, 1, 1), Seg(11, 1, 0)>>, <<Seg(2, 15, 0)>>, <<Seg(11, 15, 0)>>, <<Seg(4, 1, 1)>>,
    <<Seg(3, 2, 1)>>, <<Seg(7, 1, 1)>>, <<Seg(13, 2, 1), Seg(0, 0, 0)>>, <<Seg(12, 0, 1)>>, <<>>,
    <<Seg(5, 1, 0), Seg(6, 1, 0), Seg(0, 1, 0)>> }

MCImages ==
  { ImageOf(segs) : segs \in Layouts }
    \cup { [ImageOf(<<Seg(5, 1, 1), Seg(14, 1, 1)>>) EXCEPT !.checksum = 0, !.hash = h,
              !.hash_appended = a] : a \in BOOLEAN, h \in BOOLEAN }
    \cup { [ImageOf(<<Seg(5, 1, 1)>>) EXCEPT !.hash_appended = FALSE],
           [ImageOf(<<Seg(5, 1, 0)>>) EXCEPT !.hash = FALSE],
           [ImageOf(<<Seg(5, 1, 0)>>) EXCEPT !.header = FALSE],
           [ImageOf(<<Seg(5, 1, 1)>>) EXCEPT !.allowed = FALSE],
           [ImageOf(<<Seg(5, 1, 0)>>) EXCEPT !.signed = FALSE] }

MCRam  == 2 .. 7 \cup 11 .. 13
MCDrom == {0}
MCIrom == {14}

MCCell == [a \in 0 .. 15 |-> IF a \in 11 .. 13 THEN a - 6 ELSE a]
=============================================================================
