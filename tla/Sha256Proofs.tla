---------------------------- MODULE Sha256Proofs ----------------------------
(***************************************************************************)
(* Proofs about Sha256Stream, for every block size, pool and message.       *)
(***************************************************************************)
EXTENDS Sha256Stream, Division, SequenceTheorems

LEMMA BlockFacts ==
  Block \in Nat \ {0} /\ LenBytes \in Nat \ {0} /\ LenBytes < Block /\ PoolSize \in Nat
  BY StreamAssumption

----------------------------------------------------------------------------
(* The pool. *)

PoolType ==
  /\ used \in [Handles -> BOOLEAN]
  /\ DOMAIN pool = Handles
  /\ handle \in [Clients -> Handles \cup {None}]
  /\ sent \in [Clients -> Nat]

LEMMA NoneIsNoHandle == None \notin Handles
  BY DEF None, Handles

\* Who holds which context once one is taken or given back.
PoolInv == PoolType /\ PoolShared

LEMMA InitPool == StreamInit => PoolInv
  BY NoneIsNoHandle, BlockFacts DEF StreamInit, PoolInv, PoolType, PoolShared

LEMMA StartPool == ASSUME PoolInv, NEW c \in Clients, Start(c) PROVE PoolInv'
<1>1. PICK h \in Handles :
        /\ ~used[h]
        /\ used' = [used EXCEPT ![h] = TRUE]
        /\ pool' = [pool EXCEPT ![h] = NewContext]
        /\ handle' = [handle EXCEPT ![c] = h]
  BY DEF Start
<1>2. handle[c] = None /\ sent' = [sent EXCEPT ![c] = 0]
  BY DEF Start
<1>3. PoolType'
  BY <1>1, <1>2 DEF PoolInv, PoolType
<1>4. \A d \in Clients : handle[d] # h
  BY <1>1 DEF PoolInv, PoolShared
<1>5. \A d \in Clients : handle'[d] = IF d = c THEN h ELSE handle[d]
  BY <1>1 DEF PoolInv, PoolType
<1>6. \A g \in Handles : used'[g] = IF g = h THEN TRUE ELSE used[g]
  BY <1>1 DEF PoolInv, PoolType
<1>7. PoolShared'
  <2> SUFFICES ASSUME NEW g \in Handles
               PROVE  /\ used'[g] <=> \E d \in Clients : handle'[d] = g
                      /\ \A d, e \in Clients : handle'[d] = g /\ handle'[e] = g => d = e
    BY DEF PoolShared
  <2>1. /\ used[g] <=> \E d \in Clients : handle[d] = g
        /\ \A d, e \in Clients : handle[d] = g /\ handle[e] = g => d = e
    BY DEF PoolInv, PoolShared
  <2>2. CASE g = h
    <3>1. used'[g]
      BY <1>6, <2>2
    <3> QED  BY <1>4, <1>5, <2>2, <3>1
  <2>3. CASE g # h
    <3>1. used'[g] <=> used[g]
      BY <1>6, <2>3
    <3>2. \A d \in Clients : handle'[d] = g <=> handle[d] = g
      BY <1>2, <1>5, <2>3, NoneIsNoHandle
    <3> QED  BY <2>1, <3>1, <3>2
  <2> QED  BY <2>2, <2>3
<1> QED  BY <1>3, <1>7 DEF PoolInv

LEMMA DataPool == ASSUME PoolInv, NEW c \in Clients, Data(c) PROVE PoolInv'
<1>1. PICK n \in 1 .. Len(Message[c]) - sent[c] :
        /\ pool' = [pool EXCEPT ![handle[c]] =
                      Update(@, SubSeq(Message[c], sent[c] + 1, sent[c] + n))]
        /\ sent' = [sent EXCEPT ![c] = @ + n]
  BY DEF Data
<1>2. UNCHANGED <<used, handle>>
  BY DEF Data
<1>3. n \in Nat
  <2>1. Len(Message[c]) \in Nat /\ sent[c] \in Nat
    BY StreamAssumption DEF PoolInv, PoolType
  <2> QED  BY <2>1
<1>4. sent' \in [Clients -> Nat]
  BY <1>1, <1>3 DEF PoolInv, PoolType
<1>5. DOMAIN pool' = Handles
  BY <1>1 DEF PoolInv, PoolType
<1> QED  BY <1>2, <1>4, <1>5 DEF PoolInv, PoolType, PoolShared

LEMMA FinishPool == ASSUME PoolInv, NEW c \in Clients, Finish(c) PROVE PoolInv'
<1>1. /\ handle[c] # None
      /\ pool' = [pool EXCEPT ![handle[c]] = Finalize(@)]
      /\ used' = [used EXCEPT ![handle[c]] = FALSE]
      /\ handle' = [handle EXCEPT ![c] = None]
      /\ sent' = sent
  BY DEF Finish
<1>2. PICK h \in Handles : h = handle[c]
  BY <1>1 DEF PoolInv, PoolType
<1>3. PoolType'
  BY <1>1, <1>2 DEF PoolInv, PoolType
<1>4. \A d \in Clients : handle[d] = h => d = c
  BY <1>2 DEF PoolInv, PoolShared
<1>5. \A d \in Clients : handle'[d] = IF d = c THEN None ELSE handle[d]
  BY <1>1 DEF PoolInv, PoolType
<1>6. \A g \in Handles : used'[g] = IF g = h THEN FALSE ELSE used[g]
  BY <1>1, <1>2 DEF PoolInv, PoolType
<1>7. PoolShared'
  <2> SUFFICES ASSUME NEW g \in Handles
               PROVE  /\ used'[g] <=> \E d \in Clients : handle'[d] = g
                      /\ \A d, e \in Clients : handle'[d] = g /\ handle'[e] = g => d = e
    BY DEF PoolShared
  <2>1. /\ used[g] <=> \E d \in Clients : handle[d] = g
        /\ \A d, e \in Clients : handle[d] = g /\ handle[e] = g => d = e
    BY DEF PoolInv, PoolShared
  <2>2. CASE g = h
    <3>1. ~used'[g]
      BY <1>6, <2>2
    <3> QED  BY <1>4, <1>5, <2>2, <3>1, NoneIsNoHandle
  <2>3. CASE g # h
    <3>1. used'[g] <=> used[g]
      BY <1>6, <2>3
    <3>2. \A d \in Clients : handle'[d] = g <=> handle[d] = g
      BY <1>2, <1>5, <2>3, NoneIsNoHandle
    <3> QED  BY <2>1, <3>1, <3>2
  <2> QED  BY <2>2, <2>3
<1> QED  BY <1>3, <1>7 DEF PoolInv

LEMMA RefusedPool ==
  ASSUME PoolInv, NEW c \in Clients, StartRefused(c) \/ FinishRefused(c) PROVE PoolInv'
<1>1. UNCHANGED <<used, pool, handle, sent>>
  BY DEF StartRefused, FinishRefused
<1> QED  BY <1>1 DEF PoolInv, PoolType, PoolShared

LEMMA NextPool == PoolInv /\ [StreamNext]_shaVars => PoolInv'
<1>1. PoolInv /\ UNCHANGED shaVars => PoolInv'
  BY DEF shaVars, PoolInv, PoolType, PoolShared
<1> QED  BY <1>1, StartPool, DataPool, FinishPool, RefusedPool DEF StreamNext

(* Every context is free or has one owner (sha256.rs 26-77), for a pool of any
   size and any number of clients. *)
THEOREM ContextsShared == StreamSpec => []PoolShared
<1>1. PoolInv => PoolShared
  BY DEF PoolInv
<1> QED  BY <1>1, InitPool, NextPool, PTL DEF StreamSpec

----------------------------------------------------------------------------
(* What a context has absorbed. *)

Words == [1 .. Block -> Int]

\* The blocks compressed so far are the message, block by block.
Absorbed(blocks, m) ==
  /\ blocks \in Seq(Words)
  /\ \A k \in 1 .. Len(blocks) : \A j \in 1 .. Block : blocks[k][j] = m[(k - 1) * Block + j]

\* ... and the first i bytes of the buffer are those that follow.
Begun(blocks, buffer, i, m) ==
  /\ Absorbed(blocks, m)
  /\ buffer \in Words /\ i \in 0 .. Block - 1
  /\ \A j \in 1 .. i : buffer[j] = m[Len(blocks) * Block + j]

\* The data behind its first from bytes are those of m behind its first p.
Follows(data, from, m, p) ==
  \A t \in 1 .. Len(data) - from : data[from + t] = m[p + t]

\* Context x has been fed the first n bytes of m.
Fed(x, m, n) ==
  /\ x = [blocks |-> x.blocks, buffer |-> x.buffer, index |-> x.index, count |-> x.count]
  /\ Begun(x.blocks, x.buffer, x.index, m)
  /\ x.count = n * 8
  /\ n \in 0 .. Len(m) /\ n = Len(x.blocks) * Block + x.index

LEMMA SequencesJoined ==
  ASSUME NEW S, NEW s \in Seq(S), NEW t \in Seq(S)
  PROVE  /\ s \o t \in Seq(S) /\ Len(s \o t) = Len(s) + Len(t)
         /\ \A k \in 1 .. Len(s) : (s \o t)[k] = s[k]
         /\ \A k \in 1 .. Len(t) : (s \o t)[Len(s) + k] = t[k]
<1>1. /\ s \o t \in Seq(S) /\ Len(s \o t) = Len(s) + Len(t)
      /\ \A k \in 1 .. Len(s) + Len(t) :
           (s \o t)[k] = IF k <= Len(s) THEN s[k] ELSE t[k - Len(s)]
  BY ConcatProperties
<1>2. PICK a \in Nat, b \in Nat : a = Len(s) /\ b = Len(t)
  OBVIOUS
<1>3. \A k \in 1 .. a : (s \o t)[k] = s[k]
  BY <1>1, <1>2
<1>4. ASSUME NEW k \in 1 .. b PROVE (s \o t)[a + k] = t[k]
  <2>1. a + k \in 1 .. a + b /\ ~(a + k <= a) /\ (a + k) - a = k
    BY <1>2
  <2> QED  BY <1>1, <1>2, <2>1
<1> QED  BY <1>1, <1>2, <1>3, <1>4

\* One more run of blocks that goes on where the absorbed ones end.
LEMMA BlocksJoined ==
  ASSUME NEW m, NEW b, Absorbed(b, m), NEW w \in Seq(Words),
         \A k \in 1 .. Len(w) : \A j \in 1 .. Block :
           w[k][j] = m[Len(b) * Block + ((k - 1) * Block + j)]
  PROVE  Absorbed(b \o w, m) /\ Len(b \o w) = Len(b) + Len(w)
<1>1. b \in Seq(Words)
  BY DEF Absorbed
<1>2. PICK q \in Nat, d \in Nat : q = Len(b) /\ d = Len(w)
  BY <1>1
<1>3. /\ b \o w \in Seq(Words) /\ Len(b \o w) = q + d
      /\ \A k \in 1 .. q : (b \o w)[k] = b[k]
      /\ \A k \in 1 .. d : (b \o w)[q + k] = w[k]
  BY <1>1, <1>2, SequencesJoined
<1>4. ASSUME NEW k \in 1 .. q + d, NEW j \in 1 .. Block
      PROVE  (b \o w)[k][j] = m[(k - 1) * Block + j]
  <2>1. CASE k <= q
    <3>1. k \in 1 .. q
      BY <1>2, <2>1
    <3> QED  BY <1>2, <1>3, <3>1 DEF Absorbed
  <2>2. CASE q < k
    <3>1. PICK r \in 1 .. d : k = q + r
      <4>1. k - q \in 1 .. d /\ k = q + (k - q)
        BY <1>2, <2>2
      <4> QED  BY <4>1
    <3>2. (b \o w)[k][j] = m[q * Block + ((r - 1) * Block + j)]
      BY <1>2, <1>3, <3>1
    <3>3. q * Block + ((r - 1) * Block + j) = (k - 1) * Block + j
      <4>1. (k - 1) * Block = q * Block + (r - 1) * Block
        BY <1>2, <3>1, BlockFacts
      <4>2. q * Block \in Int /\ (r - 1) * Block \in Int /\ j \in Int
        BY <1>2, <3>1, BlockFacts
      <4> QED  BY <4>1, <4>2
    <3> QED  BY <3>2, <3>3
  <2> QED  BY <1>2, <2>1, <2>2
<1> QED  BY <1>2, <1>3, <1>4 DEF Absorbed

LEMMA CopiedBytes ==
  ASSUME NEW b \in Words, NEW i \in 0 .. Block - 1, NEW data \in Seq(Nat),
         NEW from \in 0 .. Len(data)
  PROVE  /\ Copied(b, i, data, from) \in Words
         /\ \A j \in 1 .. i : Copied(b, i, data, from)[j] = b[j]
         /\ \A t \in 1 .. Len(data) - from :
              i + t <= Block => Copied(b, i, data, from)[i + t] = data[from + t]
<1>0. PICK l \in Nat : l = Len(data)
  OBVIOUS
<1>1. Copied(b, i, data, from)
        = [j \in 1 .. Block |-> IF i < j /\ j - i <= l - from THEN data[from + j - i] ELSE b[j]]
  BY <1>0 DEF Copied
<1>2. ASSUME NEW j \in 1 .. Block, i < j, j - i <= l - from
      PROVE  data[from + j - i] \in Int
  <2>1. from + j - i \in 1 .. l
    BY <1>0, <1>2
  <2> QED  BY <1>0, <2>1
<1>3. Copied(b, i, data, from) \in Words
  BY <1>1, <1>2 DEF Words
<1>4. \A j \in 1 .. i : Copied(b, i, data, from)[j] = b[j]
  BY <1>1, BlockFacts
<1>5. ASSUME NEW t \in 1 .. l - from, i + t <= Block
      PROVE  Copied(b, i, data, from)[i + t] = data[from + t]
  <2>1. /\ i + t \in 1 .. Block /\ i < i + t /\ (i + t) - i <= l - from
        /\ from + (i + t) - i = from + t
    BY <1>0, <1>5, BlockFacts
  <2> QED  BY <1>1, <2>1
<1> QED  BY <1>0, <1>3, <1>4, <1>5

LEMMA WholeBlocks ==
  ASSUME NEW data \in Seq(Nat), NEW from \in 0 .. Len(data)
  PROVE  LET d == (Len(data) - from) \div Block
             r == (Len(data) - from) % Block IN
         /\ d \in Nat /\ r \in 0 .. Block - 1 /\ Len(data) = from + d * Block + r
         /\ Whole(data, from) \in Seq(Words) /\ Len(Whole(data, from)) = d
         /\ \A k \in 1 .. d : \A j \in 1 .. Block :
              /\ from + ((k - 1) * Block + j) \in 1 .. Len(data)
              /\ Whole(data, from)[k][j] = data[from + ((k - 1) * Block + j)]
<1> DEFINE d == (Len(data) - from) \div Block
           r == (Len(data) - from) % Block
<1>0. Len(data) \in Nat /\ from \in Nat /\ Len(data) - from \in Nat
  OBVIOUS
<1>1. d \in Nat /\ r \in 0 .. Block - 1 /\ Len(data) - from = Block * d + r
  BY <1>0, BlockFacts, DivMod
<1>2. Whole(data, from)
        = [k \in 1 .. d |-> [j \in 1 .. Block |-> data[from + (k - 1) * Block + j]]]
  BY DEF Whole
<1> HIDE DEF d, r
<1>3. Len(data) = from + d * Block + r /\ d * Block \in Nat /\ d * Block = Block * d
  <2>1. d * Block = Block * d /\ d * Block \in Nat
    BY <1>1, BlockFacts
  <2> QED  BY <1>0, <1>1, <2>1
<1>4. ASSUME NEW k \in 1 .. d, NEW j \in 1 .. Block
      PROVE  /\ from + ((k - 1) * Block + j) \in 1 .. Len(data)
             /\ from + (k - 1) * Block + j = from + ((k - 1) * Block + j)
  <2>1. PICK a \in Nat : a = k - 1 /\ a < d
    <3>1. k - 1 \in Nat /\ k - 1 < d
      BY <1>1
    <3> QED  BY <3>1
  <2>2. Block * a + Block <= Block * d /\ Block * a \in Nat /\ (k - 1) * Block = Block * a
    BY <1>1, <2>1, BlockFacts, ProductGap
  <2> QED  BY <1>0, <1>1, <1>3, <2>2, BlockFacts
<1>5. \A k \in 1 .. d : [j \in 1 .. Block |-> data[from + (k - 1) * Block + j]] \in Words
  <2> TAKE k \in 1 .. d
  <2>1. \A j \in 1 .. Block : data[from + (k - 1) * Block + j] \in Int
    BY <1>4
  <2> QED  BY <2>1 DEF Words
<1>6. Whole(data, from) \in Seq(Words) /\ Len(Whole(data, from)) = d
  <2>1. Whole(data, from) \in [1 .. d -> Words]
    BY <1>2, <1>5
  <2> QED  BY <1>1, <2>1
<1>7. \A k \in 1 .. d : \A j \in 1 .. Block :
        Whole(data, from)[k][j] = data[from + ((k - 1) * Block + j)]
  BY <1>2, <1>4
<1> QED  BY <1>1, <1>3, <1>4, <1>6, <1>7 DEF d, r

\* What bootloader_sha256_data does with the bytes behind those that complete a
\* block: whole blocks are compressed, the rest starts the next block.
LEMMA RestFed ==
  ASSUME NEW m, NEW b, NEW buffer, NEW i, Begun(b, buffer, i, m),
         NEW data \in Seq(Nat), NEW from \in 0 .. Len(data),
         Follows(data, from, m, Len(b) * Block + i),
         NEW done
  PROVE  /\ i = 0 \/ i + (Len(data) - from) < Block
         /\ done = from + ((Len(data) - from) \div Block) * Block
         =>
         LET blocks == b \o Whole(data, from)
             index  == i + Len(data) - done IN
         /\ Begun(blocks, Copied(buffer, i, data, done), index, m)
         /\ Len(blocks) * Block + index = (Len(b) * Block + i) + (Len(data) - from)
<1>a. /\ Absorbed(b, m) /\ buffer \in Words /\ i \in 0 .. Block - 1
      /\ \A j \in 1 .. i : buffer[j] = m[Len(b) * Block + j]
      /\ \A t \in 1 .. Len(data) - from : data[from + t] = m[(Len(b) * Block + i) + t]
  BY DEF Begun, Follows
<1>b. SUFFICES ASSUME i = 0 \/ i + (Len(data) - from) < Block,
                      done = from + ((Len(data) - from) \div Block) * Block
               PROVE  LET blocks == b \o Whole(data, from)
                          index  == i + Len(data) - done IN
                      /\ Begun(blocks, Copied(buffer, i, data, done), index, m)
                      /\ Len(blocks) * Block + index
                           = (Len(b) * Block + i) + (Len(data) - from)
  OBVIOUS
<1> DEFINE blocks == b \o Whole(data, from)
           index  == i + Len(data) - done
           rest   == Copied(buffer, i, data, done)
           d      == (Len(data) - from) \div Block
           r      == (Len(data) - from) % Block
<1>0. PICK l \in Nat, q \in Nat : l = Len(data) /\ q = Len(b)
  BY <1>a DEF Absorbed
<1>1. /\ d \in Nat /\ r \in 0 .. Block - 1 /\ l = from + d * Block + r
      /\ Whole(data, from) \in Seq(Words) /\ Len(Whole(data, from)) = d
      /\ \A k \in 1 .. d : \A j \in 1 .. Block :
           /\ from + ((k - 1) * Block + j) \in 1 .. l
           /\ Whole(data, from)[k][j] = data[from + ((k - 1) * Block + j)]
  BY <1>0, WholeBlocks
<1>2. done = from + d * Block
  BY <1>b
<1> HIDE DEF d, r
<1>3. PICK D \in Nat, Q \in Nat : D = d * Block /\ Q = q * Block /\ (q + d) * Block = Q + D
  <2>1. d * Block \in Nat /\ q * Block \in Nat /\ (q + d) * Block = q * Block + d * Block
    BY <1>0, <1>1, BlockFacts
  <2> QED  BY <2>1
<1>4. Block \in Nat /\ from \in 0 .. l /\ i \in 0 .. Block - 1 /\ r \in 0 .. Block - 1
  BY <1>a, <1>0, <1>1, BlockFacts
<1>5. i = 0 \/ (d = 0 /\ D = 0 /\ i + r < Block)
  <2>0. SUFFICES ASSUME i # 0 PROVE d = 0 /\ D = 0 /\ i + r < Block
    OBVIOUS
  <2>1. i + (l - from) < Block
    BY <1>b, <1>0, <2>0
  <2>2. l = from + D + r
    BY <1>1, <1>3
  <2>3. i + D + r < Block
    <3>1. /\ i \in Nat /\ D \in Nat /\ r \in Nat /\ from \in Nat /\ l \in Nat
          /\ Block \in Nat
      BY <1>3, <1>4
    <3> QED  BY <2>1, <2>2, <3>1
  <2>4. d = 0
    <3>0. SUFFICES ASSUME 0 < d PROVE FALSE
      BY <1>1
    <3>1. Block * 0 + Block <= Block * d
      BY <1>1, <3>0, BlockFacts, ProductGap
    <3>2. Block * 0 = 0 /\ Block * d = D
      BY <1>1, <1>3, <1>4
    <3> QED  BY <1>3, <1>4, <2>3, <3>1, <3>2
  <2>5. D = 0
    BY <1>3, <1>4, <2>4
  <2> QED  BY <1>4, <2>3, <2>4, <2>5
<1>6. l = from + D + r /\ done = from + D
  BY <1>1, <1>2, <1>3
<1>t. /\ from \in Nat /\ i \in Nat /\ r \in Nat /\ l \in Nat /\ D \in Nat /\ Q \in Nat
      /\ from <= l
  BY <1>3, <1>4
<1>7. /\ done \in 0 .. l /\ l - done = r /\ index = i + r /\ index \in 0 .. Block - 1
  <2>1. done \in 0 .. l /\ l - done = r
    BY <1>6, <1>t
  <2>2. i + l - done = i + r
    BY <1>t, <1>6
  <2>3. index = i + r
    BY <1>0, <2>2
  <2> HIDE DEF index
  <2>4. i + r \in 0 .. Block - 1
    BY <1>4, <1>5
  <2> QED  BY <2>1, <2>3, <2>4
<1>8. ASSUME NEW k \in 1 .. d, NEW j \in 1 .. Block
      PROVE  Whole(data, from)[k][j] = m[q * Block + ((k - 1) * Block + j)]
  <2>1. PICK a \in Nat : a = (k - 1) * Block
    <3>1. k - 1 \in Nat
      BY <1>1
    <3>2. \A y \in Nat : y * Block \in Nat
      BY <1>4
    <3> QED  BY <3>1, <3>2
  <2>2. PICK t \in Nat : t = a + j /\ t > 0
    BY <1>4, <2>1
  <2>3. from + t \in 1 .. l /\ Whole(data, from)[k][j] = data[from + t]
    BY <1>1, <2>1, <2>2
  <2>4. t \in 1 .. l - from
    BY <1>4, <2>2, <2>3
  <2>5. i = 0
    BY <1>1, <1>5
  <2>6. (Q + i) + t = Q + t
    BY <1>3, <2>2, <2>5
  <2>7. data[from + t] = m[(Q + i) + t]
    BY <1>a, <1>0, <1>3, <2>4
  <2> QED  BY <1>3, <2>1, <2>2, <2>3, <2>6, <2>7
<1>9. Absorbed(blocks, m) /\ Len(blocks) = q + d
  <2> DEFINE w == Whole(data, from)
  <2>1. w \in Seq(Words) /\ Len(w) = d
    BY <1>1
  <2>2. \A k \in 1 .. d : \A j \in 1 .. Block :
          w[k][j] = m[q * Block + ((k - 1) * Block + j)]
    BY <1>8
  <2>3. blocks = b \o w
    OBVIOUS
  <2> HIDE DEF w, blocks
  <2>4. \A k \in 1 .. Len(w) : \A j \in 1 .. Block :
          w[k][j] = m[Len(b) * Block + ((k - 1) * Block + j)]
    BY <1>0, <2>1, <2>2, Zenon
  <2>5. Absorbed(b \o w, m) /\ Len(b \o w) = Len(b) + Len(w)
    BY <1>a, <2>1, <2>4, BlocksJoined
  <2>6. Absorbed(blocks, m) /\ Len(blocks) = Len(b) + d
    BY <2>1, <2>3, <2>5, Zenon
  <2> QED  BY <1>0, <2>6, Zenon
<1>10. /\ rest \in Words
       /\ \A j \in 1 .. i : rest[j] = buffer[j]
       /\ \A t \in 1 .. r : i + t <= Block => rest[i + t] = data[done + t]
  <2>1. done \in 0 .. Len(data) /\ Len(data) - done = r
    BY <1>0, <1>7
  <2> QED  BY <1>a, <2>1, CopiedBytes
<1> HIDE DEF blocks, index, rest
<1>11. ASSUME NEW j \in 1 .. i + r
       PROVE  rest[j] = m[(q + d) * Block + j]
  <2>1. CASE j <= i
    <3>1. j \in 1 .. i /\ D = 0
      BY <1>4, <1>5, <2>1
    <3>2. Q + D + j = Q + j
      BY <1>3, <1>4, <3>1
    <3>3. buffer[j] = m[Q + j]
      BY <1>a, <1>0, <1>3, <3>1
    <3> QED  BY <1>3, <1>10, <3>1, <3>2, <3>3
  <2>2. CASE i < j
    <3>1. PICK t \in 1 .. r : j = i + t
      <4>1. j - i \in 1 .. r /\ j = i + (j - i)
        BY <1>4, <2>2
      <4> QED  BY <4>1
    <3>2. t \in Nat /\ i \in Nat /\ i + t <= Block
      BY <1>4, <1>7, <3>1
    <3>3. rest[j] = data[done + t]
      BY <1>10, <3>1, <3>2
    <3>4. D + t \in 1 .. l - from /\ done + t = from + (D + t)
      <4>1. t \in Nat /\ 1 <= t /\ t <= r
        BY <1>t, <3>1
      <4> QED  BY <1>6, <1>t, <4>1
    <3>5. data[from + (D + t)] = m[(Q + i) + (D + t)]
      BY <1>a, <1>0, <1>3, <3>4
    <3>6. (Q + i) + (D + t) = Q + D + j
      BY <1>3, <3>1, <3>2
    <3> QED  BY <1>3, <3>3, <3>4, <3>5, <3>6
  <2> QED  BY <1>4, <2>1, <2>2
<1>12. (Q + D) + index = (Q + i) + (l - from)
  <2>1. index = i + r
    BY <1>7
  <2>2. (Q + D) + (i + r) = (Q + i) + (l - from)
    BY <1>6, <1>t
  <2> QED  BY <2>1, <2>2
<1>13. /\ Absorbed(blocks, m) /\ index \in 0 .. Block - 1 /\ rest \in Words
       /\ Len(blocks) * Block + index = (Len(b) * Block + i) + (Len(data) - from)
       /\ \A j \in 1 .. index : rest[j] = m[Len(blocks) * Block + j]
  BY <1>0, <1>3, <1>7, <1>9, <1>10, <1>11, <1>12
<1> QED  BY <1>13 DEF blocks, index, rest, Begun

LEMMA FedNumbers ==
  ASSUME NEW x, NEW m, NEW n, Fed(x, m, n)
  PROVE  /\ \E q, i, Q \in Nat :
              /\ q = Len(x.blocks) /\ i = x.index /\ Q = q * Block /\ i < Block /\ n = Q + i
         /\ n \in Nat /\ Block \in Nat \ {0}
<1>1. Block \in Nat \ {0}
  BY BlockFacts
<1>2. x.index \in 0 .. Block - 1 /\ x.blocks \in Seq(Words) /\ n = Len(x.blocks) * Block + x.index
  BY DEF Fed, Begun, Absorbed
<1>3. PICK q \in Nat, i \in 0 .. Block - 1 : q = Len(x.blocks) /\ i = x.index
  BY <1>2
<1>4. i \in Nat /\ i < Block
  BY <1>1
<1>5. PICK Q \in Nat : Q = q * Block
  BY <1>1
<1>6. n = Q + i
  BY <1>2, <1>3, <1>5
<1>7. \E r, j, R \in Nat :
        r = Len(x.blocks) /\ j = x.index /\ R = r * Block /\ j < Block /\ n = R + j
  BY <1>3, <1>4, <1>5, <1>6, Zenon
<1>8. n \in Nat
  BY <1>4, <1>6
<1> QED  BY <1>1, <1>7, <1>8, Zenon

\* The bytes that complete a block that has been begun.
LEMMA BlockCompleted ==
  ASSUME NEW m, NEW x, NEW n, NEW data, NEW fill, NEW full
  PROVE  /\ Fed(x, m, n) /\ data \in Seq(Nat)
         /\ \A t \in 1 .. Len(data) : data[t] = m[n + t]
         /\ fill = Block - x.index /\ fill > 0 /\ fill <= Len(data)
         /\ full = Copied(x.buffer, x.index, data, 0)
         => /\ full \in Words /\ Absorbed(x.blocks \o <<full>>, m)
            /\ Len(x.blocks \o <<full>>) * Block = n + fill
<1>a. SUFFICES ASSUME Fed(x, m, n), data \in Seq(Nat),
                      \A t \in 1 .. Len(data) : data[t] = m[n + t],
                      fill = Block - x.index, fill > 0, fill <= Len(data),
                      full = Copied(x.buffer, x.index, data, 0)
               PROVE  /\ full \in Words /\ Absorbed(x.blocks \o <<full>>, m)
                      /\ Len(x.blocks \o <<full>>) * Block = n + fill
  OBVIOUS
<1> DEFINE b == x.blocks \o <<full>>
<1>1. PICK q \in Nat, i \in Nat, e \in Nat, Q \in Nat :
        /\ q = Len(x.blocks) /\ i = x.index /\ e = Len(data) /\ Q = q * Block
        /\ i < Block /\ Block \in Nat
  <2>1. PICK q, i, Q \in Nat :
          q = Len(x.blocks) /\ i = x.index /\ Q = q * Block /\ i < Block /\ Block \in Nat
    BY <1>a, FedNumbers
  <2>2. Len(data) \in Nat
    BY <1>a
  <2> QED  BY <2>1, <2>2
<1>2. /\ Absorbed(x.blocks, m) /\ x.buffer \in Words /\ n = Q + i
      /\ \A j \in 1 .. i : x.buffer[j] = m[Q + j]
  BY <1>a, <1>1 DEF Fed, Begun
<1>3. /\ full \in Words
      /\ \A j \in 1 .. i : full[j] = x.buffer[j]
      /\ \A t \in 1 .. e : i + t <= Block => full[i + t] = data[t]
  <2>1. 0 \in 0 .. Len(data) /\ i \in 0 .. Block - 1
    BY <1>1
  <2>2. /\ full \in Words
        /\ \A j \in 1 .. i : full[j] = x.buffer[j]
        /\ \A t \in 1 .. Len(data) - 0 : i + t <= Block => full[i + t] = data[0 + t]
    BY <1>a, <1>1, <1>2, <2>1, CopiedBytes
  <2>3. Len(data) - 0 = e /\ \A t \in 1 .. e : 0 + t = t
    BY <1>1
  <2> QED  BY <2>2, <2>3
<1>4. fill = Block - i /\ Block - i <= e
  BY <1>a, <1>1
<1>5. ASSUME NEW j \in 1 .. Block PROVE full[j] = m[Q + j]
  <2>1. CASE j <= i
    <3>1. j \in 1 .. i
      BY <1>1, <2>1
    <3> QED  BY <1>2, <1>3, <3>1
  <2>2. CASE i < j
    <3>1. PICK t \in 1 .. e : j = i + t
      <4>1. j - i \in 1 .. e /\ j = i + (j - i)
        BY <1>1, <1>4, <2>2
      <4> QED  BY <4>1
    <3>2. full[j] = data[t]
      <4>1. i + t <= Block
        BY <1>1, <3>1
      <4> QED  BY <1>3, <3>1, <4>1
    <3>3. data[t] = m[n + t]
      BY <1>a, <1>1
    <3>4. n + t = Q + j
      <4>1. n = Q + i /\ Q \in Nat /\ i \in Nat /\ t \in Int /\ j = i + t
        BY <1>2, <3>1
      <4> QED  BY <4>1
    <3> QED  BY <3>2, <3>3, <3>4
  <2> QED  BY <1>1, <2>1, <2>2
<1>6. Absorbed(b, m) /\ Len(b) = q + 1
  <2> DEFINE w == <<full>>
  <2>1. w \in Seq(Words) /\ Len(w) = 1 /\ w[1] = full
    BY <1>3
  <2> HIDE DEF w
  <2>2. \A k \in 1 .. Len(w) : \A j \in 1 .. Block :
          w[k][j] = m[Len(x.blocks) * Block + ((k - 1) * Block + j)]
    <3> TAKE k \in 1 .. Len(w)
    <3> TAKE j \in 1 .. Block
    <3>1. k = 1
      BY <2>1
    <3>2. (k - 1) * Block + j = j
      BY <1>1, <3>1
    <3> QED  BY <1>1, <1>5, <2>1, <3>1, <3>2
  <2>a. Absorbed(x.blocks, m) /\ w \in Seq(Words)
    BY <1>2, <2>1
  <2>3. Absorbed(x.blocks \o w, m) /\ Len(x.blocks \o w) = Len(x.blocks) + Len(w)
    BY <2>a, <2>2, BlocksJoined
  <2> QED  BY <1>1, <2>1, <2>3 DEF w
<1> HIDE DEF b
<1>7. Len(b) * Block = n + fill
  <2>1. (q + 1) * Block = Q + Block
    BY <1>1
  <2>2. Block \in Nat /\ n = Q + i
    BY <1>1, <1>2
  <2>3. Q + Block = n + fill
    BY <1>4, <2>2
  <2> QED  BY <1>6, <2>1, <2>3
<1> QED  BY <1>3, <1>6, <1>7 DEF b

LEMMA UpdateFed ==
  ASSUME NEW m \in Seq(Nat), NEW x, NEW n, Fed(x, m, n), NEW e \in 1 .. Len(m) - n
  PROVE  Fed(Update(x, SubSeq(m, n + 1, n + e)), m, n + e)
<1> DEFINE data  == SubSeq(m, n + 1, n + e)
           fill  == IF x.index > 0 /\ x.index + Len(data) >= Block THEN Block - x.index ELSE 0
           full  == Copied(x.buffer, x.index, data, 0)
           done  == fill + ((Len(data) - fill) \div Block) * Block
           index == IF fill > 0 THEN 0 ELSE x.index
           b     == x.blocks \o (IF fill > 0 THEN <<full>> ELSE <<>>)
           buffer == IF fill > 0 THEN full ELSE x.buffer
           y     == Update(x, data)
<1>0. /\ n \in Nat /\ e \in Nat /\ e >= 1 /\ n + e <= Len(m) /\ Len(m) \in Nat
      /\ Block \in Nat \ {0}
  BY BlockFacts DEF Fed
<1>1. /\ data \in Seq(Nat) /\ Len(data) = e
      /\ \A t \in 1 .. e : data[t] = m[n + t]
  <2>1. n + 1 \in 1 .. Len(m) /\ n + e \in 1 .. Len(m) /\ (n + e) - (n + 1) + 1 = e
    BY <1>0
  <2>2. data \in Seq(Nat) /\ Len(data) = e
    BY <1>0, <2>1
  <2>3. \A t \in 1 .. e : data[t] = m[(n + 1) + t - 1]
    BY <1>0, <2>1
  <2>4. \A t \in 1 .. e : (n + 1) + t - 1 = n + t
    BY <1>0
  <2> QED  BY <2>2, <2>3, <2>4
<1>2. y = [blocks |-> b \o Whole(data, fill), buffer |-> Copied(buffer, index, data, done),
           index |-> index + Len(data) - done, count |-> x.count + Len(data) * 8]
  BY DEF Update
<1> HIDE DEF data, y, full
<1>3. PICK i \in Nat, q \in Nat, Q \in Nat :
        /\ i = x.index /\ q = Len(x.blocks) /\ Q = q * Block /\ i < Block /\ n = Q + i
  BY FedNumbers
<1>t. i < Block /\ n = Q + i /\ Block \in Nat \ {0} /\ i = x.index /\ e >= 1 /\ e \in Nat
  BY <1>0, <1>3
<1>4. /\ x.blocks \in Seq(Words) /\ Absorbed(x.blocks, m) /\ x.buffer \in Words
      /\ x.count = n * 8 /\ \A j \in 1 .. i : x.buffer[j] = m[Q + j]
  BY <1>3 DEF Fed, Begun, Absorbed
<1>5. PICK f \in Nat : f = fill /\ f <= e
  BY <1>0, <1>1, <1>3
<1>6. f = IF i > 0 /\ i + e >= Block THEN Block - i ELSE 0
  BY <1>1, <1>3, <1>5
<1> HIDE DEF fill
<1>7. /\ Absorbed(b, m) /\ buffer \in Words /\ index \in 0 .. Block - 1
      /\ Len(b) * Block + index = n + f
      /\ \A j \in 1 .. index : buffer[j] = m[Len(b) * Block + j]
      /\ index = 0 \/ index + (e - f) < Block
  <2>1. CASE f = 0
    <3>1. i = 0 \/ i + (e - f) < Block
      <4>1. ~(i > 0 /\ i + e >= Block)
        BY <1>6, <1>t, <2>1
      <4>2. e - f = e
        BY <1>t, <2>1
      <4>3. e \in Nat /\ Block \in Nat
        BY <1>t
      <4>4. i = 0 \/ i + e < Block
        BY <4>1, <4>3
      <4> QED  BY <4>2, <4>4, Zenon
    <3>2. b = x.blocks
      <4>1. b = x.blocks \o <<>>
        BY <1>5, <2>1
      <4>2. x.blocks \in Seq(Words)
        BY <1>4
      <4>3. x.blocks \o <<>> = x.blocks
        BY <4>2, ConcatEmptySeq
      <4> QED  BY <4>1, <4>3
    <3>3. index = i /\ buffer = x.buffer
      BY <1>3, <1>5, <2>1
    <3>4. Q + i = n + f /\ i \in 0 .. Block - 1
      BY <1>t, <2>1
    <3>5. Len(b) * Block = Q
      BY <1>3, <3>2
    <3> HIDE DEF b, index, buffer
    <3> QED  BY <1>4, <3>1, <3>2, <3>3, <3>4, <3>5
  <2>2. CASE f > 0
    <3>0. f = Block - i
      BY <1>6, <2>2
    <3>1. fill > 0 /\ fill = Block - x.index /\ fill <= Len(data)
      BY <1>1, <1>3, <1>5, <3>0, <2>2
    <3>2. b = x.blocks \o <<full>> /\ index = 0 /\ buffer = full
      BY <3>1
    <3>3. full \in Words /\ Absorbed(x.blocks \o <<full>>, m)
          /\ Len(x.blocks \o <<full>>) * Block = n + f
      <4>1. \A t \in 1 .. Len(data) : data[t] = m[n + t]
        BY <1>1
      <4>2. /\ fill = Block - x.index /\ fill > 0 /\ fill <= Len(data) /\ f = fill
            /\ Fed(x, m, n) /\ data \in Seq(Nat)
        BY <1>1, <1>5, <3>1
      <4>3. full = Copied(x.buffer, x.index, data, 0)
        BY DEF full
      <4>4. /\ full \in Words /\ Absorbed(x.blocks \o <<full>>, m)
            /\ Len(x.blocks \o <<full>>) * Block = n + fill
        BY <4>1, <4>2, <4>3, BlockCompleted
      <4> QED  BY <4>2, <4>4
    <3> HIDE DEF b, index, buffer
    <3>4. Len(b) * Block + index = n + f
      BY <1>0, <1>5, <3>2, <3>3
    <3> QED  BY <1>0, <3>2, <3>3, <3>4
  <2>3. f = 0 \/ f > 0
    OBVIOUS
  <2> QED  BY <2>1, <2>2, <2>3, Zenon
<1>8. done = f + ((Len(data) - f) \div Block) * Block
  BY <1>5
<1>9. y = [blocks |-> b \o Whole(data, f), buffer |-> Copied(buffer, index, data, done),
           index |-> index + Len(data) - done, count |-> x.count + Len(data) * 8]
  BY <1>2, <1>5
<1> HIDE DEF done, index, b, buffer
<1>10. Follows(data, f, m, Len(b) * Block + index)
  <2> SUFFICES ASSUME NEW t \in 1 .. Len(data) - f
               PROVE  data[f + t] = m[(Len(b) * Block + index) + t]
    BY DEF Follows
  <2>0. t \in 1 .. e - f
    BY <1>1
  <2>1. f + t \in 1 .. e /\ n + (f + t) = (n + f) + t
    BY <1>0, <1>5, <2>0
  <2> QED  BY <1>1, <1>7, <2>1
<1>11. /\ Begun(b \o Whole(data, f), Copied(buffer, index, data, done),
                index + Len(data) - done, m)
       /\ Len(b \o Whole(data, f)) * Block + (index + Len(data) - done)
             = (Len(b) * Block + index) + (Len(data) - f)
  <2>1. f \in 0 .. Len(data) /\ (index = 0 \/ index + (Len(data) - f) < Block)
    BY <1>0, <1>1, <1>5, <1>7
  <2>2. data \in Seq(Nat)
    BY <1>1
  <2>3. Begun(b, buffer, index, m)
    BY <1>7 DEF Begun
  <2> QED  BY <1>8, <1>10, <2>1, <2>2, <2>3, RestFed
<1>12. (Len(b) * Block + index) + (Len(data) - f) = n + e
  <2>1. (n + f) + (e - f) = n + e
    BY <1>0, <1>5
  <2> QED  BY <1>1, <1>7, <2>1
<1>13. x.count + Len(data) * 8 = (n + e) * 8 /\ n + e \in 0 .. Len(m)
  BY <1>0, <1>1, <1>4
<1>14. Fed(y, m, n + e)
  BY <1>9, <1>11, <1>12, <1>13 DEF Fed
<1> QED  BY <1>14 DEF y, data

----------------------------------------------------------------------------
(* The padding. *)

\* Byte p of the padded form, of total bytes, of the first n bytes of m.
PaddedByte(m, n, total, p) ==
  IF p <= n THEN m[p]
  ELSE IF p = n + 1 THEN Pad
  ELSE IF p > total - LenBytes THEN LenByte(p - (total - LenBytes), n * 8)
  ELSE Zero

InBlocks(m, n, total, N) ==
  [k \in 1 .. N |-> [j \in 1 .. Block |-> PaddedByte(m, n, total, (k - 1) * Block + j)]]

\* The blocks of the padded form: one more than the whole ones, or two if the
\* length does not fit behind the last byte.
LEMMA PaddedBlocks ==
  ASSUME NEW m, NEW n \in Nat, NEW q \in Nat, NEW i \in 0 .. Block - 1, NEW N,
         NEW T
  PROVE  n = q * Block + i /\ N = (IF i + 1 > Block - LenBytes THEN q + 2 ELSE q + 1)
           /\ T = N * Block =>
         Whole(Padded(m, n), 0) = InBlocks(m, n, T, N)
<1>a. SUFFICES ASSUME n = q * Block + i,
                      N = (IF i + 1 > Block - LenBytes THEN q + 2 ELSE q + 1),
                      T = N * Block
               PROVE  Whole(Padded(m, n), 0) = InBlocks(m, n, T, N)
  OBVIOUS
<1>0. /\ Block \in Nat \ {0} /\ LenBytes \in Nat \ {0} /\ LenBytes < Block
      /\ i \in Nat /\ i < Block
  BY BlockFacts
<1>1. PICK r \in 0 .. Block - 1 : n + 1 + LenBytes + Block - 1 = Block * N + r
  <2>1. PICK Q \in Nat : Q = q * Block /\ Q = Block * q
    BY <1>0
  <2>2. n = Q + i
    BY <1>a, <2>1
  <2>3. CASE i + 1 > Block - LenBytes
    <3>1. Block * N = Q + 2 * Block
      BY <1>a, <1>0, <2>1, <2>3
    <3>2. i + LenBytes - Block \in 0 .. Block - 1
      BY <1>0, <2>3
    <3>3. n + 1 + LenBytes + Block - 1 = (Q + 2 * Block) + (i + LenBytes - Block)
      BY <1>0, <2>2
    <3> QED  BY <3>1, <3>2, <3>3
  <2>4. CASE ~(i + 1 > Block - LenBytes)
    <3>1. Block * N = Q + Block
      BY <1>a, <1>0, <2>1, <2>4
    <3>2. i + LenBytes \in 0 .. Block - 1
      BY <1>0, <2>4
    <3>3. n + 1 + LenBytes + Block - 1 = (Q + Block) + (i + LenBytes)
      BY <1>0, <2>2
    <3> QED  BY <3>1, <3>2, <3>3
  <2> QED  BY <2>3, <2>4
<1>2. N \in Nat
  BY <1>a
<1>3. (n + 1 + LenBytes + Block - 1) \div Block = N
  BY <1>0, <1>1, <1>2, DivUnique
<1>4. Padded(m, n) = [p \in 1 .. T |-> PaddedByte(m, n, T, p)]
  BY <1>a, <1>3 DEF Padded, PaddedByte
<1>5. T \in Nat /\ T = Block * N + 0 /\ T = Block * N
  BY <1>a, <1>0, <1>2
<1>6. Len(Padded(m, n)) = T
  BY <1>4, <1>5
<1>7. (Len(Padded(m, n)) - 0) \div Block = N
  <2>1. T - 0 = Block * N + 0
    BY <1>5
  <2>2. (Block * N + 0) \div Block = N
    <3>1. 0 \in 0 .. Block - 1
      BY <1>0
    <3> QED  BY <1>0, <1>2, <3>1, DivUnique
  <2> QED  BY <1>6, <2>1, <2>2
<1>8. ASSUME NEW k \in 1 .. N, NEW j \in 1 .. Block
      PROVE  Padded(m, n)[0 + (k - 1) * Block + j] = PaddedByte(m, n, T, (k - 1) * Block + j)
  <2>1. PICK a \in Nat : a = k - 1 /\ a < N
    <3>1. k - 1 \in Nat /\ k - 1 < N
      BY <1>2
    <3> QED  BY <3>1
  <2>2. Block * a + Block <= Block * N
    BY <1>0, <1>2, <2>1, ProductGap
  <2>3. PICK A \in Nat : A = (k - 1) * Block /\ A = Block * a
    <3>1. Block * a \in Nat /\ (k - 1) * Block = Block * a
      BY <1>0, <2>1
    <3> QED  BY <3>1
  <2>4. A + Block <= T
    BY <1>5, <2>2, <2>3, Zenon
  <2>5. A + j \in 1 .. T /\ 0 + A + j = A + j
    BY <1>0, <1>5, <2>4
  <2> QED  BY <1>4, <2>3, <2>5
<1>9. Whole(Padded(m, n), 0) =
        [k \in 1 .. N |-> [j \in 1 .. Block |-> Padded(m, n)[0 + (k - 1) * Block + j]]]
  BY <1>7 DEF Whole
<1> QED  BY <1>8, <1>9, Zenon DEF InBlocks

LEMMA FinalizeBlocks ==
  ASSUME NEW m, NEW x, NEW n, Fed(x, m, n)
  PROVE  Finalize(x).blocks = Whole(Padded(m, n), 0)
<1> DEFINE i      == x.index + 1
           padded == [x.buffer EXCEPT ![i] = Pad]
           extra  == i > Block - LenBytes
           spill  == [j \in 1 .. Block |-> IF j > i THEN Zero ELSE padded[j]]
           from   == IF extra THEN 0 ELSE i
           last   == [j \in 1 .. Block |->
                        IF j > Block - LenBytes THEN LenByte(j - (Block - LenBytes), x.count)
                        ELSE IF j > from THEN Zero ELSE padded[j]]
           F      == x.blocks \o (IF extra THEN <<spill>> ELSE <<>>) \o <<last>>
<1>1. PICK q \in Nat, d \in Nat, Q \in Nat :
        q = Len(x.blocks) /\ d = x.index /\ Q = q * Block /\ d < Block /\ n = Q + d
  BY FedNumbers
<1>2. /\ Block \in Nat \ {0} /\ LenBytes \in Nat \ {0} /\ LenBytes < Block /\ n \in Nat
  BY BlockFacts, FedNumbers
<1>3. /\ x.blocks \in Seq(Words) /\ x.buffer \in Words /\ x.count = n * 8
      /\ \A k \in 1 .. q : \A j \in 1 .. Block : x.blocks[k][j] = m[(k - 1) * Block + j]
      /\ \A j \in 1 .. d : x.buffer[j] = m[Q + j]
  BY <1>1 DEF Fed, Begun, Absorbed
<1>4. Finalize(x).blocks = F
  BY DEF Fed, Finalize
<1>5. \A j \in 1 .. Block : padded[j] = IF j = d + 1 THEN Pad ELSE x.buffer[j]
  BY <1>1, <1>2, <1>3 DEF Words
<1>6. /\ \A j \in 1 .. Block : padded[j] \in Int /\ x.buffer[j] \in Int
      /\ Pad \in Int /\ Zero \in Int
  <2>1. Pad \in Int /\ Zero \in Int
    BY DEF Pad, Zero
  <2> HIDE DEF padded
  <2> QED  BY <1>3, <1>5, <2>1 DEF Words
<1>7. \A j \in 1 .. Block : LenByte(j - (Block - LenBytes), x.count) \in Int
  <2> TAKE j \in 1 .. Block
  <2>1. PICK c \in Int : c = x.count * LenBytes
    BY <1>2, <1>3
  <2>2. j - (Block - LenBytes) \in Int
    BY <1>2
  <2> QED  BY <2>1, <2>2 DEF LenByte
<1>8. spill \in Words /\ last \in Words
  BY <1>6, <1>7 DEF Words
<1>9. /\ \A j \in 1 .. Block : spill[j] = IF j > d + 1 THEN Zero ELSE padded[j]
      /\ \A j \in 1 .. Block :
           last[j] = IF j > Block - LenBytes THEN LenByte(j - (Block - LenBytes), n * 8)
                     ELSE IF j > (IF extra THEN 0 ELSE d + 1) THEN Zero ELSE padded[j]
  BY <1>1, <1>3
<1>10. extra <=> d + 1 > Block - LenBytes
  BY <1>1
<1> HIDE DEF padded, spill, last, from, i, extra, F
<1> DEFINE N == IF d + 1 > Block - LenBytes THEN q + 2 ELSE q + 1
           T == N * Block
           P(k) == [j \in 1 .. Block |-> PaddedByte(m, n, T, (k - 1) * Block + j)]
<1>n. N = (IF d + 1 > Block - LenBytes THEN q + 2 ELSE q + 1) /\ T = N * Block
  OBVIOUS
<1> HIDE DEF N, T
<1>t. /\ d \in Nat /\ d < Block /\ n \in Nat /\ n = Q + d /\ Q \in Nat
      /\ Block \in Nat \ {0} /\ LenBytes \in Nat \ {0} /\ LenBytes < Block
  BY <1>1, <1>2
<1>11. Whole(Padded(m, n), 0) = InBlocks(m, n, T, N)
  <2>1. n = q * Block + d
    BY <1>1
  <2>2. d \in 0 .. Block - 1
    BY <1>t
  <2>3. q \in Nat
    BY <1>1
  <2>4. /\ n = q * Block + d /\ N = (IF d + 1 > Block - LenBytes THEN q + 2 ELSE q + 1)
        /\ T = N * Block
    BY <1>n, <2>1
  <2> QED  BY <1>t, <2>2, <2>3, <2>4, PaddedBlocks
<1>12. T = IF d + 1 > Block - LenBytes THEN Q + 2 * Block ELSE Q + Block
  <2>1. (q + 2) * Block = Q + 2 * Block /\ (q + 1) * Block = Q + Block
    <3>1. q \in Nat /\ Block \in Nat
      BY <1>1, <1>2
    <3>2. q * Block = Q /\ 1 * Block = Block
      BY <1>1, <1>2
    <3>3. (q + 2) * Block = q * Block + 2 * Block /\ (q + 1) * Block = q * Block + 1 * Block
      BY <3>1
    <3> QED  BY <3>2, <3>3, Zenon
  <2> QED  BY <1>n, <2>1, Zenon
<1>13. ASSUME NEW k \in 1 .. q PROVE x.blocks[k] = P(k)
  <2>1. ASSUME NEW j \in 1 .. Block
        PROVE  x.blocks[k][j] = PaddedByte(m, n, T, (k - 1) * Block + j)
    <3>1. PICK a \in Nat : a = k - 1 /\ a < q
      <4>1. k - 1 \in Nat /\ k - 1 < q
        BY <1>1
      <4> QED  BY <4>1
    <3>2. PICK A \in Nat : A = (k - 1) * Block /\ A + Block <= Q
      <4>1. Block * a + Block <= Block * q /\ Block * a \in Nat
        BY <1>2, <3>1, ProductGap
      <4>2. Block * a = (k - 1) * Block /\ Block * q = Q
        BY <1>1, <1>2, <3>1
      <4>3. Block * a + Block <= Q
        BY <4>1, <4>2, Zenon
      <4> QED  BY <4>1, <4>2, <4>3
    <3>3. A + j <= n
      BY <1>1, <1>2, <3>2
    <3> QED  BY <1>3, <3>2, <3>3 DEF PaddedByte
  <2>2. x.blocks[k] \in Words
    BY <1>1, <1>3
  <2> QED  BY <2>1, <2>2 DEF Words
<1>14. (q + 1 - 1) * Block = Q /\ (q + 2 - 1) * Block = Q + Block
  BY <1>1, <1>2
<1>15. CASE ~(d + 1 > Block - LenBytes)
  <2>1. last = P(q + 1)
    <3>1. ASSUME NEW j \in 1 .. Block PROVE last[j] = PaddedByte(m, n, T, Q + j)
      <4>1. T - LenBytes = Q + (Block - LenBytes) /\ j \in Nat
        BY <1>t, <1>12, <1>15
      <4>2. /\ j = d + 1 <=> Q + j = n + 1
            /\ j <= d <=> Q + j <= n
            /\ j > Block - LenBytes <=> Q + j > T - LenBytes
        BY <1>t, <4>1
      <4>3. (Q + j) - (T - LenBytes) = j - (Block - LenBytes)
        BY <1>t, <4>1
      <4>4. last[j] = IF j > Block - LenBytes THEN LenByte(j - (Block - LenBytes), n * 8)
                      ELSE IF j > d + 1 THEN Zero
                      ELSE IF j = d + 1 THEN Pad ELSE m[Q + j]
        <5>1. j < d + 1 => j \in 1 .. d
          BY <1>1
        <5>2. last[j] = IF j > Block - LenBytes THEN LenByte(j - (Block - LenBytes), n * 8)
                        ELSE IF j > d + 1 THEN Zero ELSE padded[j]
          BY <1>9, <1>10, <1>15, Zenon
        <5>3. ~(j > d + 1) => padded[j] = IF j = d + 1 THEN Pad ELSE m[Q + j]
          <6>1. padded[j] = IF j = d + 1 THEN Pad ELSE x.buffer[j]
            BY <1>5
          <6>2. j < d + 1 => x.buffer[j] = m[Q + j]
            BY <1>3, <5>1
          <6>3. ~(j > d + 1) /\ j # d + 1 => j < d + 1
            BY <1>1
          <6> QED  BY <6>1, <6>2, <6>3, Zenon
        <5> QED  BY <5>2, <5>3, Zenon
      <4>5. j > Block - LenBytes => j > d + 1
        BY <1>t, <1>15, <4>1
      <4>6. CASE j <= d
        BY <1>t, <4>1, <4>2, <4>4, <4>5, <4>6 DEF PaddedByte
      <4>7. CASE j = d + 1
        BY <1>t, <4>1, <4>2, <4>4, <4>5, <4>7 DEF PaddedByte
      <4>8. CASE j > d + 1
        BY <1>t, <4>1, <4>2, <4>3, <4>4, <4>8 DEF PaddedByte
      <4> QED  BY <1>t, <4>1, <4>6, <4>7, <4>8
    <3> QED  BY <1>8, <1>14, <3>1 DEF Words
  <2>2. F = x.blocks \o <<last>>
    <3>1. F = (x.blocks \o <<>>) \o <<last>>
      BY <1>10, <1>15 DEF F
    <3> QED  BY <1>3, <3>1, ConcatEmptySeq
  <2>3. /\ F \in Seq(Words) /\ Len(F) = q + 1
        /\ \A k \in 1 .. q : F[k] = x.blocks[k]
        /\ F[q + 1] = last
    <3>1. <<last>> \in Seq(Words) /\ Len(<<last>>) = 1 /\ <<last>>[1] = last /\ 1 \in 1 .. 1
      BY <1>8
    <3> QED  BY <1>1, <1>3, <2>2, <3>1, SequencesJoined
  <2>4. F = [k \in 1 .. q + 1 |-> P(k)]
    <3>1. \A k \in 1 .. q + 1 : F[k] = P(k)
      <4>1. \A k \in 1 .. q + 1 : k \in 1 .. q \/ k = q + 1
        BY <1>1
      <4> HIDE DEF P
      <4> QED  BY <1>13, <2>1, <2>3, <4>1
    <3> HIDE DEF P
    <3>2. F \in [1 .. q + 1 -> Words]
      BY <2>3
    <3> QED  BY <3>1, <3>2
  <2>5. N = q + 1
    BY <1>n, <1>15
  <2> QED  BY <1>4, <1>11, <2>4, <2>5 DEF InBlocks
<1>16. CASE d + 1 > Block - LenBytes
  <2>0. T = Q + 2 * Block
    BY <1>12, <1>16
  <2>1. spill = P(q + 1)
    <3>1. ASSUME NEW j \in 1 .. Block PROVE spill[j] = PaddedByte(m, n, T, Q + j)
      <4>1. /\ j = d + 1 <=> Q + j = n + 1
            /\ j <= d <=> Q + j <= n
            /\ ~(Q + j > T - LenBytes) /\ Q + j \in Nat /\ j \in Nat
        BY <1>t, <2>0
      <4>2. spill[j] = IF j > d + 1 THEN Zero ELSE IF j = d + 1 THEN Pad ELSE m[Q + j]
        <5>1. ~(j > d + 1) /\ j # d + 1 => j \in 1 .. d
          BY <1>t
        <5>2. spill[j] = IF j > d + 1 THEN Zero ELSE padded[j]
          BY <1>9
        <5>3. padded[j] = IF j = d + 1 THEN Pad ELSE x.buffer[j]
          BY <1>5
        <5> QED  BY <1>3, <5>1, <5>2, <5>3, Zenon
      <4>3. j <= d \/ j = d + 1 \/ j > d + 1
        BY <1>t, <4>1
      <4>4. j <= d => ~(j > d + 1) /\ j # d + 1
        BY <1>t, <4>1
      <4>5. j = d + 1 => ~(j > d + 1) /\ ~(j <= d)
        BY <1>t, <4>1
      <4>6. j > d + 1 => j # d + 1 /\ ~(j <= d)
        BY <1>t, <4>1
      <4> QED  BY <4>1, <4>2, <4>3, <4>4, <4>5, <4>6, Zenon DEF PaddedByte
    <3> QED  BY <1>8, <1>14, <3>1 DEF Words
  <2>2. last = P(q + 2)
    <3>1. ASSUME NEW j \in 1 .. Block PROVE last[j] = PaddedByte(m, n, T, Q + Block + j)
      <4>1. ~(Q + Block + j <= n) /\ Q + Block + j # n + 1 /\ j > 0
        BY <1>t
      <4>2. /\ j > Block - LenBytes <=> Q + Block + j > T - LenBytes
            /\ (Q + Block + j) - (T - LenBytes) = j - (Block - LenBytes)
        BY <1>t, <2>0
      <4> QED  BY <1>9, <1>10, <1>16, <4>1, <4>2 DEF PaddedByte
    <3> QED  BY <1>8, <1>14, <3>1 DEF Words
  <2>3. F = (x.blocks \o <<spill>>) \o <<last>>
    BY <1>10, <1>16 DEF F
  <2>4. /\ F \in Seq(Words) /\ Len(F) = q + 2
        /\ \A k \in 1 .. q : F[k] = x.blocks[k]
        /\ F[q + 1] = spill /\ F[q + 2] = last
    <3>1. /\ <<last>> \in Seq(Words) /\ Len(<<last>>) = 1 /\ <<last>>[1] = last
          /\ <<spill>> \in Seq(Words) /\ Len(<<spill>>) = 1 /\ <<spill>>[1] = spill
          /\ 1 \in 1 .. 1
      BY <1>8
    <3> DEFINE s == x.blocks \o <<spill>>
    <3>2. /\ s \in Seq(Words) /\ Len(s) = q + 1
          /\ \A k \in 1 .. q : s[k] = x.blocks[k]
          /\ s[q + 1] = spill
      BY <1>1, <1>3, <3>1, SequencesJoined
    <3> HIDE DEF s
    <3>3. /\ s \o <<last>> \in Seq(Words) /\ Len(s \o <<last>>) = q + 1 + 1
          /\ \A k \in 1 .. q + 1 : (s \o <<last>>)[k] = s[k]
          /\ (s \o <<last>>)[q + 1 + 1] = last
      BY <3>1, <3>2, SequencesJoined
    <3>4. F = s \o <<last>> /\ q + 1 + 1 = q + 2 /\ q + 1 \in 1 .. q + 1
          /\ \A k \in 1 .. q : k \in 1 .. q + 1
      BY <1>1, <2>3 DEF s
    <3> QED  BY <3>2, <3>3, <3>4
  <2>5. F = [k \in 1 .. q + 2 |-> P(k)]
    <3>1. \A k \in 1 .. q + 2 : F[k] = P(k)
      <4>1. \A k \in 1 .. q + 2 : k \in 1 .. q \/ k = q + 1 \/ k = q + 2
        BY <1>1
      <4> HIDE DEF P
      <4> QED  BY <1>13, <2>1, <2>2, <2>4, <4>1
    <3> HIDE DEF P
    <3>2. F \in [1 .. q + 2 -> Words]
      BY <2>4
    <3> QED  BY <3>1, <3>2
  <2>6. N = q + 2
    BY <1>n, <1>16
  <2> QED  BY <1>4, <1>11, <2>5, <2>6 DEF InBlocks
<1> QED  BY <1>15, <1>16

----------------------------------------------------------------------------
(* Every context holds what its own client has fed. *)

ContextsFed ==
  \A c \in Clients : handle[c] # None => Fed(pool[handle[c]], Message[c], sent[c])

DigestInv == PoolInv /\ ContextsFed

LEMMA NewFed == ASSUME NEW m \in Seq(Nat) PROVE Fed(NewContext, m, 0)
<1>1. /\ NewContext.blocks = <<>> /\ NewContext.index = 0 /\ NewContext.count = 0 * 8
      /\ NewContext.buffer = [j \in 1 .. Block |-> Zero]
      /\ NewContext = [blocks |-> NewContext.blocks, buffer |-> NewContext.buffer,
                       index |-> NewContext.index, count |-> NewContext.count]
  BY DEF NewContext
<1>2. NewContext.buffer \in Words
  BY <1>1 DEF Words, Zero
<1>3. NewContext.blocks \in Seq(Words) /\ Len(NewContext.blocks) = 0
  BY <1>1
<1>4. 0 \in 0 .. Len(m) /\ 0 \in 0 .. Block - 1 /\ 0 = 0 * Block + 0
  BY BlockFacts
<1> HIDE DEF NewContext
<1>5. Absorbed(NewContext.blocks, m)
  BY <1>3 DEF Absorbed
<1>6. Begun(NewContext.blocks, NewContext.buffer, NewContext.index, m)
  BY <1>1, <1>2, <1>4, <1>5 DEF Begun
<1> QED  BY <1>1, <1>3, <1>4, <1>6 DEF Fed

LEMMA StartFed == ASSUME DigestInv, NEW c \in Clients, Start(c) PROVE ContextsFed'
<1>1. PICK h \in Handles :
        /\ ~used[h]
        /\ pool' = [pool EXCEPT ![h] = NewContext]
        /\ handle' = [handle EXCEPT ![c] = h]
  BY DEF Start
<1>2. sent' = [sent EXCEPT ![c] = 0]
  BY DEF Start
<1>3. SUFFICES ASSUME NEW d \in Clients, handle'[d] # None
               PROVE  Fed(pool'[handle'[d]], Message[d], sent'[d])
  BY DEF ContextsFed
<1>4. CASE d = c
  <2>1. handle'[d] = h /\ pool'[h] = NewContext /\ sent'[d] = 0
    BY <1>1, <1>2, <1>4 DEF DigestInv, PoolInv, PoolType
  <2>2. Message[d] \in Seq(Nat)
    BY StreamAssumption
  <2> QED  BY <2>1, <2>2, NewFed
<1>5. CASE d # c
  <2>1. handle'[d] = handle[d] /\ sent'[d] = sent[d] /\ handle[d] \in Handles
    BY <1>1, <1>2, <1>3, <1>5 DEF DigestInv, PoolInv, PoolType
  <2>2. handle[d] # h
    BY <1>1 DEF DigestInv, PoolInv, PoolShared
  <2>3. pool'[handle[d]] = pool[handle[d]]
    BY <1>1, <2>1, <2>2 DEF DigestInv, PoolInv, PoolType
  <2> QED  BY <1>3, <2>1, <2>3 DEF DigestInv, ContextsFed
<1> QED  BY <1>4, <1>5

LEMMA DataFed == ASSUME DigestInv, NEW c \in Clients, Data(c) PROVE ContextsFed'
<1>1. PICK n \in 1 .. Len(Message[c]) - sent[c] :
        /\ pool' = [pool EXCEPT ![handle[c]] =
                      Update(@, SubSeq(Message[c], sent[c] + 1, sent[c] + n))]
        /\ sent' = [sent EXCEPT ![c] = @ + n]
  BY DEF Data
<1>2. handle[c] # None /\ handle' = handle
  BY DEF Data
<1>3. SUFFICES ASSUME NEW d \in Clients, handle'[d] # None
               PROVE  Fed(pool'[handle'[d]], Message[d], sent'[d])
  BY DEF ContextsFed
<1>4. handle[d] \in Handles /\ handle[c] \in Handles
  BY <1>2, <1>3 DEF DigestInv, PoolInv, PoolType
<1>5. CASE d = c
  <2>1. /\ sent'[c] = sent[c] + n
        /\ pool'[handle[c]] =
             Update(pool[handle[c]], SubSeq(Message[c], sent[c] + 1, sent[c] + n))
    BY <1>1, <1>4 DEF DigestInv, PoolInv, PoolType
  <2>2. Message[c] \in Seq(Nat)
    BY StreamAssumption
  <2>3. Fed(pool[handle[c]], Message[c], sent[c])
    BY <1>2 DEF DigestInv, ContextsFed
  <2> QED  BY <1>2, <1>5, <2>1, <2>2, <2>3, UpdateFed
<1>6. CASE d # c
  <2>1. handle[d] # handle[c]
    BY <1>4, <1>6 DEF DigestInv, PoolInv, PoolShared
  <2>2. pool'[handle[d]] = pool[handle[d]] /\ sent'[d] = sent[d]
    BY <1>1, <1>4, <1>6, <2>1 DEF DigestInv, PoolInv, PoolType
  <2> QED  BY <1>2, <1>3, <2>2 DEF DigestInv, ContextsFed
<1> QED  BY <1>5, <1>6

LEMMA FinishFed == ASSUME DigestInv, NEW c \in Clients, Finish(c) PROVE ContextsFed'
<1>1. /\ pool' = [pool EXCEPT ![handle[c]] = Finalize(@)]
      /\ handle' = [handle EXCEPT ![c] = None]
      /\ handle[c] # None /\ sent' = sent
  BY DEF Finish
<1>2. SUFFICES ASSUME NEW d \in Clients, handle'[d] # None
               PROVE  Fed(pool'[handle'[d]], Message[d], sent'[d])
  BY DEF ContextsFed
<1>3. d # c /\ handle'[d] = handle[d]
  BY <1>1, <1>2 DEF DigestInv, PoolInv, PoolType
<1>4. handle[d] \in Handles /\ handle[c] \in Handles
  BY <1>1, <1>2, <1>3 DEF DigestInv, PoolInv, PoolType
<1>5. handle[d] # handle[c]
  BY <1>3, <1>4 DEF DigestInv, PoolInv, PoolShared
<1>6. pool'[handle[d]] = pool[handle[d]]
  BY <1>1, <1>4, <1>5 DEF DigestInv, PoolInv, PoolType
<1> QED  BY <1>1, <1>2, <1>3, <1>6 DEF DigestInv, ContextsFed

LEMMA RefusedFed ==
  ASSUME DigestInv, NEW c \in Clients, StartRefused(c) \/ FinishRefused(c)
  PROVE ContextsFed'
<1>1. UNCHANGED <<used, pool, handle, sent>>
  BY DEF StartRefused, FinishRefused
<1> QED  BY <1>1 DEF DigestInv, ContextsFed

LEMMA NextDigest == DigestInv /\ [StreamNext]_shaVars => DigestInv'
<1> SUFFICES ASSUME DigestInv, [StreamNext]_shaVars PROVE DigestInv'
  OBVIOUS
<1>1. PoolInv'
  BY NextPool DEF DigestInv
<1>2. CASE StreamNext
  BY <1>1, <1>2, StartFed, DataFed, FinishFed, RefusedFed DEF StreamNext, DigestInv
<1>3. CASE UNCHANGED shaVars
  BY <1>1, <1>3 DEF shaVars, DigestInv, ContextsFed
<1> QED  BY <1>2, <1>3

(* A digest depends on what its own client has fed and on nothing else
   (sha256.rs 26-213): not on the pieces, the buffer's past or the other
   clients, for a block and a pool of any size and messages of any length. *)
THEOREM DigestsTrue == StreamSpec => []DigestTrue
<1>1. StreamInit => DigestInv
  <2> SUFFICES ASSUME StreamInit PROVE ContextsFed
    BY InitPool DEF DigestInv
  <2> QED  BY DEF StreamInit, ContextsFed
<1>2. DigestInv => DigestTrue
  BY FinalizeBlocks DEF DigestInv, ContextsFed, DigestTrue
<1> QED  BY <1>1, <1>2, NextDigest, PTL DEF StreamSpec
=============================================================================
