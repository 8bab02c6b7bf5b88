---------------------------- MODULE Sha256Stream ----------------------------
(***************************************************************************)
(* The SHA-256 contexts of src/sha256.rs: a pool handed out to clients, and  *)
(* the buffering between the pieces a client feeds and the blocks that are   *)
(* compressed.  The compressed state is the sequence of the blocks it has    *)
(* absorbed; what compression computes from them is left out.                *)
(***************************************************************************)
EXTENDS Integers, Sequences

CONSTANTS
  Block,        (* bytes of a block, 64                                      *)
  LenBytes,     (* bytes of the message length at its end, 8                 *)
  PoolSize,     (* POOL_SIZE                                                 *)
  Clients,      (* computations that want a context                          *)
  Message       (* what each of them feeds, in pieces, if it gets that far   *)

ASSUME StreamAssumption ==
  /\ Block \in Nat /\ LenBytes \in Nat /\ 0 < LenBytes /\ LenBytes < Block
  /\ PoolSize \in Nat
  /\ Message \in [Clients -> Seq(Nat)]

VARIABLES
  used,      \* CTX_USED
  pool,      \* CTX_POOL
  handle,    \* the context each client holds, 0 for None
  sent,      \* how many bytes of its message it has fed into it
  refused    \* the clients that compute with the None they were handed

shaVars == <<used, pool, handle, sent, refused>>

Handles == 1 .. PoolSize
None    == 0

\* The bytes of a block that are no client's: padding, and byte i of a length.
Pad  == -1
Zero == -2
LenByte(i, count) == -(2 + count * LenBytes + i)

NewContext ==
  [blocks |-> <<>>, buffer |-> [j \in 1 .. Block |-> Zero], index |-> 0, count |-> 0]

StreamInit ==
  /\ used = [h \in Handles |-> FALSE]
  /\ pool = [h \in Handles |-> NewContext]
  /\ handle = [c \in Clients |-> None]
  /\ sent = [c \in Clients |-> 0]
  /\ refused = {}
----------------------------------------------------------------------------
\* The buffer b, its bytes behind the first i overwritten by data behind its
\* first from.
Copied(b, i, data, from) ==
  [j \in 1 .. Block |-> IF i < j /\ j - i <= Len(data) - from THEN data[from + j - i] ELSE b[j]]

Whole(data, from) ==
  [k \in 1 .. (Len(data) - from) \div Block |->
     [j \in 1 .. Block |-> data[from + (k - 1) * Block + j]]]

\* fill bytes complete the block in the buffer, whole blocks are compressed where
\* they are, the rest goes into the buffer.
Update(c, data) ==
  LET fill  == IF c.index > 0 /\ c.index + Len(data) >= Block THEN Block - c.index ELSE 0
      full  == Copied(c.buffer, c.index, data, 0)
      done  == fill + ((Len(data) - fill) \div Block) * Block
      index == IF fill > 0 THEN 0 ELSE c.index IN
  [blocks |-> c.blocks \o (IF fill > 0 THEN <<full>> ELSE <<>>) \o Whole(data, fill),
   buffer |-> Copied(IF fill > 0 THEN full ELSE c.buffer, index, data, done),
   index  |-> index + Len(data) - done,
   count  |-> c.count + Len(data) * 8]

\* Mutant: a block that is full to the length field is taken for overfull.
Finalize_Early(c) ==
  LET i     == c.index + 1
      padded == [c.buffer EXCEPT ![i] = Pad]
      extra == i >= Block - LenBytes
      spill == [j \in 1 .. Block |-> IF j > i THEN Zero ELSE padded[j]]
      from  == IF extra THEN 0 ELSE i
      last  == [j \in 1 .. Block |->
                  IF j > Block - LenBytes THEN LenByte(j - (Block - LenBytes), c.count)
                  ELSE IF j > from THEN Zero ELSE padded[j]] IN
  [c EXCEPT !.blocks = @ \o (IF extra THEN <<spill>> ELSE <<>>) \o <<last>>,
            !.buffer = last, !.index = from]

Finalize(c) ==
  LET i      == c.index + 1
      padded == [c.buffer EXCEPT ![i] = Pad]
      extra  == i > Block - LenBytes
      spill  == [j \in 1 .. Block |-> IF j > i THEN Zero ELSE padded[j]]
      from   == IF extra THEN 0 ELSE i
      last   == [j \in 1 .. Block |->
                   IF j > Block - LenBytes THEN LenByte(j - (Block - LenBytes), c.count)
                   ELSE IF j > from THEN Zero ELSE padded[j]] IN
  [c EXCEPT !.blocks = @ \o (IF extra THEN <<spill>> ELSE <<>>) \o <<last>>,
            !.buffer = last, !.index = from]
----------------------------------------------------------------------------
\* Mutant: the first context is handed out whoever holds it.
Start_First(c) ==
  /\ handle[c] = None /\ c \notin refused
  /\ \E h \in Handles :
       /\ h = 1
       /\ used' = [used EXCEPT ![h] = TRUE]
       /\ pool' = [pool EXCEPT ![h] = NewContext]
       /\ handle' = [handle EXCEPT ![c] = h]
  /\ sent' = [sent EXCEPT ![c] = 0]
  /\ UNCHANGED refused

\* bootloader_sha256_start.
Start(c) ==
  /\ handle[c] = None /\ c \notin refused
  /\ \E h \in Handles :
       /\ ~used[h] /\ \A g \in 1 .. h - 1 : used[g]
       /\ used' = [used EXCEPT ![h] = TRUE]
       /\ pool' = [pool EXCEPT ![h] = NewContext]
       /\ handle' = [handle EXCEPT ![c] = h]
  /\ sent' = [sent EXCEPT ![c] = 0]
  /\ UNCHANGED refused

\* All contexts are in use.
StartRefused(c) ==
  /\ handle[c] = None /\ c \notin refused
  /\ \A h \in Handles : used[h]
  /\ refused' = refused \cup {c}
  /\ UNCHANGED <<used, pool, handle, sent>>

\* bootloader_sha256_data; with None it does nothing, nor does the finish below.
Data(c) ==
  /\ handle[c] # None
  /\ \E n \in 1 .. Len(Message[c]) - sent[c] :
       /\ pool' = [pool EXCEPT ![handle[c]] =
                     Update(@, SubSeq(Message[c], sent[c] + 1, sent[c] + n))]
       /\ sent' = [sent EXCEPT ![c] = @ + n]
  /\ UNCHANGED <<used, handle, refused>>

\* Mutant: the context is not given back.
Finish_Keeps(c) ==
  /\ handle[c] # None
  /\ pool' = [pool EXCEPT ![handle[c]] = Finalize(@)]
  /\ handle' = [handle EXCEPT ![c] = None]
  /\ UNCHANGED <<used, sent, refused>>

\* bootloader_sha256_finish, whether the digest is wanted or not.
Finish(c) ==
  /\ handle[c] # None
  /\ pool' = [pool EXCEPT ![handle[c]] = Finalize(@)]
  /\ used' = [used EXCEPT ![handle[c]] = FALSE]
  /\ handle' = [handle EXCEPT ![c] = None]
  /\ UNCHANGED <<sent, refused>>

FinishRefused(c) ==
  /\ c \in refused
  /\ refused' = refused \ {c}
  /\ UNCHANGED <<used, pool, handle, sent>>

StreamNext ==
  \E c \in Clients : Start(c) \/ StartRefused(c) \/ Data(c) \/ Finish(c) \/ FinishRefused(c)
StreamSpec == StreamInit /\ [][StreamNext]_shaVars
----------------------------------------------------------------------------
\* The blocks of SHA-256 of the first n bytes of m, by its definition: a 1 bit,
\* zeros, and the length in bits at the end of the last block.
Padded(m, n) ==
  LET total == ((n + 1 + LenBytes + Block - 1) \div Block) * Block IN
  [i \in 1 .. total |-> IF i <= n THEN m[i]
                        ELSE IF i = n + 1 THEN Pad
                        ELSE IF i > total - LenBytes THEN LenByte(i - (total - LenBytes), n * 8)
                        ELSE Zero]

(* A digest depends on what its own client has fed and on nothing else: not on
   the pieces it came in, on what a buffer held before, or on who else computes
   (image.rs 429-498 feeds an image segment by segment). *)
DigestTrue ==
  \A c \in Clients : handle[c] # None =>
    Finalize(pool[handle[c]]).blocks = Whole(Padded(Message[c], sent[c]), 0)

(* Every context is free or has one owner: none is lost, none handed out twice.
   The client that comes when all are in use is turned away with None (sha256.rs
   298-301): the pool does not wrap, as BOOTLOADER.md 717 has it, for then the
   context of another client would be handed out a second time. *)
PoolShared ==
  \A h \in Handles :
    /\ used[h] <=> \E c \in Clients : handle[c] = h
    /\ \A c, d \in Clients : handle[c] = h /\ handle[d] = h => c = d
=============================================================================
