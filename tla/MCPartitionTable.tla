-------------------------- MODULE MCPartitionTable --------------------------
(* Tables of up to three entries over four-bit addresses and sectors of two
   bytes: neighbours, nested and overlapping partitions, ends past the flash and
   past the word, partitions that do not start or end at a sector. *)
EXTENDS FactoryReset

At(offset, size) == [offset |-> offset, size |-> size]

Positions == { At(4, 2), At(6, 4), At(7, 2), At(4, 7), At(10, 4), At(12, 8), At(6, 0), At(2, 2) }

\* Factory, test, slots 0 and 1, slot 0 again with a bit above the flag.
AppEntry(subtype, pos) ==
  [magic |-> TRUE, type |-> "app", subtype |-> subtype, pos |-> pos, label |-> "other"]

\* otadata by subtype or by label only, and by both; nvs is subtype 2 in the tools.
DataEntry(subtype, label, pos) ==
  [AppEntry(subtype, pos) EXCEPT !.type = "data", !.label = label]

MCEntries ==
  { AppEntry(s, pos) : s \in {0, 3, 6}, pos \in Positions }
    \cup { DataEntry(0, "otadata", pos) : pos \in {At(4, 2), At(7, 2), At(10, 2)} }
    \cup { DataEntry(2, "nvs", pos) : pos \in {At(3, 2), At(6, 4), At(8, 1)} }
    \cup { DataEntry(0, "other", At(10, 2)), DataEntry(2, "otadata", At(4, 2)) }
    \cup { AppEntry(1, At(10, 2)), AppEntry(2, At(10, 2)), AppEntry(4, At(10, 2)),
           [AppEntry(3, At(10, 2)) EXCEPT !.label = "garbled"],
           [AppEntry(0, At(4, 2)) EXCEPT !.magic = FALSE] }
=============================================================================
