----------------------------- MODULE MCSpiFlash -----------------------------
EXTENDS FlashRead
Ch(mf, cap, sr, bit, bp) ==
  [mf |-> mf, type |-> 64, cap |-> cap, qe_sr |-> sr, qe_bit |-> bit, bp |-> bp, locked |-> FALSE]
Winbond == Ch(239, 22, 2, 1, 2 .. 6)
BigXmc  == Ch(32, 32, 2, 1, 2 .. 6)
Issi    == Ch(157, 22, 2, 1, 3 .. 6)
MxicChip == Ch(194, 22, 1, 6, 2 .. 5)
MCChips == {Winbond, BigXmc, Issi, MxicChip, [Winbond EXCEPT !.locked = TRUE]}
MCSr1 == SUBSET {2, 6}
MCSr2 == SUBSET {1, 6}
\* Two pages of four bytes, two sectors of one word each, cut off inside the second.
Rd(a, n) == [src |-> a, size |-> n]
MCReads == {Rd(2, 4), Rd(4, 2), Rd(3, 2), Rd(2, 1), Rd(3, 1), Rd(1, 3)}
Seg(a, l, n) == [addr |-> a, load |-> l, size |-> n]
MCApps == {[drom |-> Seg(2, 6, 3), irom |-> Seg(5, 13, 3)],
           [drom |-> Seg(0, 0, 0), irom |-> Seg(4, 8, 4)],
           [drom |-> Seg(1, 4, 2), irom |-> Seg(5, 7, 1)]}
=============================================================================
