---------------------------- MODULE PushProofs ----------------------------
(***************************************************************************)
(* What the update protocol keeps, for every firmware file, chunk length,   *)
(* number of sessions and bound on the unread output.                       *)
(*                                                                          *)
(* Nothing in the protocol numbers a session, so the argument is about what *)
(* the two byte streams cannot hold: a command is on the wire only while    *)
(* its sender waits for READY, a prompt is unread only while the device is  *)
(* not busy with an older transfer, and an OK that a new session could take *)
(* for its own comes before the prompt this session waits for.              *)
(***************************************************************************)
EXTENDS OtaPush, SequenceTheorems, TLAPS

Asking == host \in {"prompt", "refresh"}
Fed    == host \in {"ack", "finish"}
Busy   == dev \in {"erase", "receive", "record", "report", "done"}
Written == slot = Firmware /\ recorded # "no" /\ dev \notin {"erase", "receive", "record"}

\* Every command in s is followed by its carriage return.
Ended(s) == \A k \in 1..Len(s) : s[k] = "ota" => k < Len(s) /\ s[k + 1] = "CR"

\* Every OK in s comes before every prompt.
OkFirst(s) ==
  \A i, j \in 1..Len(s) : s[i] = "prompt" /\ s[j] = "OK" => j < i

(* What the device keeps by itself. *)
DeviceInv ==
  /\ dev # "receive" => buf = <<>>
  /\ dev \in {"countdown", "confirm"} => line = <<>>
  /\ dev = "receive" => Len(buf) < ChunkLen /\ Len(slot) < Size
  /\ dev \in {"report", "done"} => recorded = "yes"

(* A command in the application's hands belongs to the session that waits
   for its READY, and is still to be ended. *)
CommandInv ==
  dev \in {"app", "confirm"} =>
    /\ Contains(toDev, "ota") => host = "ready" /\ Ended(toDev)
    /\ Contains(line, "ota") => host = "ready" /\ toDev # <<>> /\ Head(toDev) = "CR"

\* Nothing that is typed, or has been, looks like an answer.
EchoInv ==
  \A m \in {"READY", "OK"} : ~Contains(toDev, m) /\ ~Contains(line, m)

(* What the host has not read. *)
OutputInv ==
  /\ host \notin Waiting => toHost = <<>>
  /\ Asking => ~Contains(toHost, "READY") /\ OkFirst(toHost)
  /\ Asking /\ Busy => ~Contains(toHost, "prompt")
  /\ host = "ready" => ~Contains(toHost, "OK")
  /\ host = "ready" /\ Contains(toHost, "READY") =>
       ~Contains(toDev, "ota") /\ ~Contains(line, "ota")
  /\ Fed /\ Contains(toHost, "OK") => Written

(* A transfer, from the command on. *)
TransferInv ==
  /\ host \in {"prompt", "refresh", "ready"} => sent = 0
  /\ host = "ready" /\ Busy =>
       /\ dev \in {"erase", "receive"} /\ toDev = <<>> /\ buf = <<>>
       /\ dev = "receive" => slot = <<>>
  /\ Fed /\ dev \in {"record", "report", "done"} => slot = Firmware
  /\ host = "ok" => Written

PushInv ==
  PushTypeOK /\ DeviceInv /\ CommandInv /\ EchoInv /\ OutputInv /\ TransferInv /\ InStep

----------------------------------------------------------------------------
(* Sequences *)

LEMMA TailSteps ==
  ASSUME NEW S, NEW s \in Seq(S), s # <<>>
  PROVE  /\ Tail(s) \in Seq(S) /\ Len(Tail(s)) = Len(s) - 1
         /\ Head(s) \in S /\ Head(s) = s[1] /\ Len(s) \in Nat \ {0}
         /\ \A k \in 1..Len(Tail(s)) : Tail(s)[k] = s[k + 1]
         /\ s = <<Head(s)>> \o Tail(s)
  OBVIOUS

LEMMA TailContains ==
  ASSUME NEW S, NEW s \in Seq(S), s # <<>>, NEW x
  PROVE  Contains(Tail(s), x) => Contains(s, x)
<1>1. ASSUME NEW k \in 1..Len(Tail(s)), Tail(s)[k] = x  PROVE k + 1 \in 1..Len(s) /\ s[k + 1] = x
  BY <1>1, TailSteps
<1> QED BY <1>1 DEF Contains

LEMMA ConcatContains ==
  ASSUME NEW S, NEW s \in Seq(S), NEW t \in Seq(S), NEW x
  PROVE  Contains(s \o t, x) <=> Contains(s, x) \/ Contains(t, x)
<1>1. ASSUME NEW k \in 1..Len(s \o t), (s \o t)[k] = x  PROVE Contains(s, x) \/ Contains(t, x)
  <2>1. CASE k <= Len(s)
    BY <1>1, <2>1, ConcatProperties DEF Contains
  <2>2. CASE k > Len(s)
    <3>1. k - Len(s) \in 1..Len(t) /\ t[k - Len(s)] = x
      BY <1>1, <2>2, ConcatProperties
    <3> QED BY <3>1 DEF Contains
  <2> QED BY <2>1, <2>2
<1>2. ASSUME NEW k \in 1..Len(s), s[k] = x  PROVE k \in 1..Len(s \o t) /\ (s \o t)[k] = x
  BY <1>2, ConcatProperties
<1>3. ASSUME NEW k \in 1..Len(t), t[k] = x
      PROVE  k + Len(s) \in 1..Len(s \o t) /\ (s \o t)[k + Len(s)] = x
  BY <1>3, ConcatProperties
<1> QED BY <1>1, <1>2, <1>3 DEF Contains

\* What is left of s behind its n-th element.
LEMMA Behind ==
  ASSUME NEW S, NEW s \in Seq(S), NEW n \in 0..Len(s)
  PROVE  /\ SubSeq(s, n + 1, Len(s)) \in Seq(S)
         /\ Len(SubSeq(s, n + 1, Len(s))) = Len(s) - n
         /\ \A k \in 1..(Len(s) - n) : SubSeq(s, n + 1, Len(s))[k] = s[n + k]
<1>1. n + 1 \in 1..(Len(s) + 1) /\ Len(s) \in (n + 1 - 1)..Len(s) /\ Len(s) \in Nat
  OBVIOUS
<1>2. \A i \in (n + 1)..Len(s) : s[i] \in S
  OBVIOUS
<1> QED BY <1>1, <1>2, SubSeqProperties, Z3

LEMMA BehindContains ==
  ASSUME NEW S, NEW s \in Seq(S), NEW n \in 0..Len(s), NEW x
  PROVE  Contains(SubSeq(s, n + 1, Len(s)), x) => Contains(s, x)
<1>1. ASSUME NEW k \in 1..(Len(s) - n), SubSeq(s, n + 1, Len(s))[k] = x
      PROVE  n + k \in 1..Len(s) /\ s[n + k] = x
  BY <1>1, Behind
<1> QED BY <1>1, Behind DEF Contains

LEMMA TailEnded ==
  ASSUME NEW S, NEW s \in Seq(S), s # <<>>, Ended(s)
  PROVE  Ended(Tail(s))
<1>1. ASSUME NEW k \in 1..Len(Tail(s)), Tail(s)[k] = "ota"
      PROVE  k < Len(Tail(s)) /\ Tail(s)[k + 1] = "CR"
  <2>1. k + 1 \in 1..Len(s) /\ s[k + 1] = "ota"
    BY <1>1, TailSteps
  <2>2. k + 1 < Len(s) /\ s[k + 1 + 1] = "CR"
    BY <2>1 DEF Ended
  <2>3. k + 1 \in 1..Len(Tail(s))
    BY <2>1, <2>2, TailSteps
  <2> QED BY <2>2, <2>3, TailSteps
<1> QED BY <1>1 DEF Ended

\* The prompt is the last thing a session may read before its own OK.
LEMMA OkFirstAppends ==
  ASSUME NEW S, NEW s \in Seq(S), NEW t \in Seq(S), OkFirst(s),
         \/ ~Contains(t, "OK")
         \/ ~Contains(s, "prompt") /\ ~Contains(t, "prompt")
  PROVE  OkFirst(s \o t)
<1> SUFFICES ASSUME NEW i \in 1..Len(s \o t), NEW j \in 1..Len(s \o t),
                    (s \o t)[i] = "prompt", (s \o t)[j] = "OK"
             PROVE  j < i
  BY DEF OkFirst
<1>1. CASE i <= Len(s)
  <2>1. i \in 1..Len(s) /\ s[i] = "prompt"
    BY <1>1, ConcatProperties
  <2>2. ~Contains(t, "OK")
    BY <2>1 DEF Contains
  <2>3. j <= Len(s)
    <3>1. SUFFICES ASSUME j > Len(s) PROVE FALSE
      BY ConcatProperties
    <3>2. j - Len(s) \in 1..Len(t) /\ t[j - Len(s)] = "OK"
      BY <3>1, ConcatProperties
    <3> QED BY <2>2, <3>2 DEF Contains
  <2>4. j \in 1..Len(s) /\ s[j] = "OK"
    BY <2>3, ConcatProperties
  <2> QED BY <2>1, <2>4 DEF OkFirst
<1>2. CASE i > Len(s)
  <2>1. i - Len(s) \in 1..Len(t) /\ t[i - Len(s)] = "prompt"
    BY <1>2, ConcatProperties
  <2>2. ~Contains(t, "OK")
    BY <2>1 DEF Contains
  <2>3. j <= Len(s)
    <3>1. SUFFICES ASSUME j > Len(s) PROVE FALSE
      BY ConcatProperties
    <3>2. j - Len(s) \in 1..Len(t) /\ t[j - Len(s)] = "OK"
      BY <3>1, ConcatProperties
    <3> QED BY <2>2, <3>2 DEF Contains
  <2> QED BY <1>2, <2>3
<1> QED BY <1>1, <1>2

LEMMA OkFirstBehind ==
  ASSUME NEW S, NEW s \in Seq(S), NEW n \in 0..Len(s), OkFirst(s)
  PROVE  /\ OkFirst(SubSeq(s, n + 1, Len(s)))
         /\ Contains(SubSeq(s, 1, n), "prompt") =>
              ~Contains(SubSeq(s, n + 1, Len(s)), "OK")
<1> DEFINE r == SubSeq(s, n + 1, Len(s))
<1>1. r \in Seq(S) /\ Len(r) = Len(s) - n /\ \A k \in 1..(Len(s) - n) : r[k] = s[n + k]
  BY Behind
<1>2. \A i \in 1..n : SubSeq(s, 1, n)[i] = s[i]
  OBVIOUS
<1>3. Len(SubSeq(s, 1, n)) = n
  OBVIOUS
<1> HIDE DEF r
<1>4. OkFirst(r)
  <2> SUFFICES ASSUME NEW i \in 1..Len(r), NEW j \in 1..Len(r), r[i] = "prompt", r[j] = "OK"
               PROVE  j < i
    BY DEF OkFirst
  <2>1. n + i \in 1..Len(s) /\ n + j \in 1..Len(s) /\ s[n + i] = "prompt" /\ s[n + j] = "OK"
    BY <1>1
  <2>2. n + j < n + i
    BY <2>1 DEF OkFirst
  <2> QED BY <2>2
<1>5. ASSUME NEW i \in 1..n, s[i] = "prompt", NEW j \in 1..(Len(s) - n), s[n + j] = "OK"
      PROVE  FALSE
  <2>1. i \in 1..Len(s) /\ n + j \in 1..Len(s)
    OBVIOUS
  <2>2. n + j < i
    BY <1>5, <2>1 DEF OkFirst
  <2> QED BY <2>2
<1>6. Contains(SubSeq(s, 1, n), "prompt") => ~Contains(r, "OK")
  BY <1>1, <1>2, <1>3, <1>5 DEF Contains
<1> QED BY <1>4, <1>6 DEF r

----------------------------------------------------------------------------
(* Types *)

LEMMA Sizes ==
  /\ Firmware \in Seq(Content) /\ Firmware \in Seq(Bytes)
  /\ Size \in Nat \ {0} /\ CHUNK \in Nat \ {0}
<1>1. Firmware \in Seq(Content) /\ Firmware # <<>> /\ CHUNK \in Nat \ {0}
  BY PushAssumption
<1>2. Content \subseteq Bytes
  BY DEF Bytes
<1>3. Firmware \in Seq(Bytes)
  BY <1>1, <1>2, SeqMonotonic
<1> QED BY <1>1, <1>3 DEF Size

LEMMA ChunkLens ==
  ASSUME slot \in Seq(Bytes), Len(slot) <= Size
  PROVE  /\ ChunkLen \in Nat /\ ChunkLen <= CHUNK /\ ChunkLen <= Size - Len(slot)
         /\ Len(slot) < Size => ChunkLen > 0
  BY Sizes DEF ChunkLen, Least

LEMMA ShowsPrinted ==
  ASSUME toHost \in Seq(Printed), NEW out \in Seq(Printed), Show(out)
  PROVE  toHost' \in Seq(Printed)
  BY ConcatProperties DEF Show

\* What the device says by itself.
LEMMA Outputs ==
  /\ <<>> \in Seq(Printed)
  /\ \A a \in Printed : <<a>> \in Seq(Printed)
  /\ \A a, b \in Printed : <<a, b>> \in Seq(Printed)
  OBVIOUS

LEMMA Rests ==
  ASSUME NEW S, NEW s \in Seq(S), NEW r \in Suffixes(s)
  PROVE  /\ r \in Seq(S)
         /\ \A x : Contains(r, x) => Contains(s, x)
<1>1. CASE r = <<>>
  BY <1>1 DEF Contains
<1>2. ASSUME NEW l \in 1..Len(s), r = SubSeq(s, l, Len(s))
      PROVE  r \in Seq(S) /\ \A x : Contains(r, x) => Contains(s, x)
  <2>1. l - 1 \in 0..Len(s) /\ (l - 1) + 1 = l
    OBVIOUS
  <2>2. \A n \in 0..Len(s) : SubSeq(s, n + 1, Len(s)) \in Seq(S)
    BY Behind
  <2>3. \A n \in 0..Len(s) : \A x : Contains(SubSeq(s, n + 1, Len(s)), x) => Contains(s, x)
    BY BehindContains
  <2> QED BY <1>2, <2>1, <2>2, <2>3
<1> QED BY <1>1, <1>2 DEF Suffixes

LEMMA HostTypes ==
  ASSUME PushTypeOK, HostStep
  PROVE  PushTypeOK'
<1> USE DEF PushTypeOK
<1>1. \A n \in 0..Len(toHost) : Unread(n) \in Seq(Printed)
  BY Behind DEF Unread
<1>2. CASE Misses
  BY <1>1, <1>2 DEF Misses, hostVars, devVars, flash
<1>3. CASE SendCommand
  <2>1. <<"ota", "CR", "LF">> \in Seq(Bytes)
    BY DEF Bytes, Content
  <2>2. toDev' \in Seq(Bytes)
    BY <1>3, <2>1, ConcatProperties DEF SendCommand
  <2> QED BY <1>1, <1>3, <2>2 DEF SendCommand, Finds, devVars, flash, Waiting
<1>4. CASE SendChunk
  <2>1. ChunkEnd \in 0..Size /\ sent + 1 \in Int /\ ChunkEnd \in Int
    BY Sizes DEF ChunkEnd, Least
  <2>2. \A i \in (sent + 1)..ChunkEnd : Firmware[i] \in Bytes
    BY <2>1, Sizes DEF Size
  <2>3. SubSeq(Firmware, sent + 1, ChunkEnd) \in Seq(Bytes)
    BY <2>1, <2>2, SubSeqProperties
  <2>4. toDev' \in Seq(Bytes)
    BY <1>4, <2>3, ConcatProperties DEF SendChunk
  <2> QED BY <1>1, <1>4, <2>1, <2>4 DEF SendChunk, Finds, devVars, flash, Waiting
<1>5. CASE LastAck
  BY <1>1, <1>5 DEF LastAck, Finds, devVars, flash, Waiting
<1>6. CASE Success
  BY <1>6 DEF Success, devVars, flash
<1> QED BY <1>2, <1>3, <1>4, <1>5, <1>6 DEF HostStep

LEMMA AsideTypes ==
  ASSUME PushTypeOK, Connect \/ Refresh \/ GiveUp
  PROVE  PushTypeOK'
<1> USE DEF PushTypeOK
<1>1. CASE Connect
  <2>1. sent' \in 0..Size /\ sessions' \in 0..MaxSessions
    BY <1>1, Sizes, PushAssumption DEF Connect
  <2> QED BY <1>1, <2>1 DEF Connect, devVars, flash, Waiting
<1>2. CASE Refresh
  <2>1. <<"CR", "LF">> \in Seq(Bytes)
    BY DEF Bytes, Content
  <2>2. toDev' \in Seq(Bytes)
    BY <1>2, <2>1, ConcatProperties DEF Refresh
  <2> QED BY <1>2, <2>2 DEF Refresh, devVars, flash, Waiting
<1>3. CASE GiveUp
  BY <1>3 DEF GiveUp, devVars, flash
<1> QED BY <1>1, <1>2, <1>3

\* What a line editor does with a byte.
LEMMA Edits ==
  ASSUME PushTypeOK, NEW c \in Bytes, NEW room, Edit(c, room)
  PROVE  /\ line' \in Seq(Printed)
         /\ \A x : Contains(line', x) => Contains(line, x) \/ x = c
         /\ \/ c \in Printed /\ Show(<<c>>)
            \/ UNCHANGED toHost
<1>0. line \in Seq(Printed)
  BY DEF PushTypeOK
<1>1. CASE c \in Printed /\ line' = Append(line, c) /\ Show(<<c>>)
  <2>1. line' = line \o <<c>> /\ <<c>> \in Seq(Printed)
    BY <1>0, <1>1
  <2>2. \A x : Contains(<<c>>, x) => x = c
    BY DEF Contains
  <2>3. line \o <<c>> \in Seq(Printed)
    BY <1>0, <2>1, ConcatProperties
  <2>4. \A x : Contains(line \o <<c>>, x) <=> Contains(line, x) \/ Contains(<<c>>, x)
    BY <1>0, <2>1, ConcatContains
  <2> QED BY <1>1, <2>1, <2>2, <2>3, <2>4
<1>2. CASE line # <<>> /\ line' = Front(line) /\ UNCHANGED toHost
  <2>1. Len(line) \in Nat \ {0} /\ \A k \in 1..Len(line) : line[k] \in Printed
    BY <1>0, <1>2
  <2>2. line' = SubSeq(line, 1, Len(line) - 1)
    BY <1>2 DEF Front
  <2>3. /\ line' \in Seq(Printed) /\ Len(line') = Len(line) - 1
        /\ \A k \in 1..Len(line') : line'[k] = line[k]
    <3>1. PICK n \in Nat : n = Len(line) - 1
      BY <2>1
    <3>2. 1 \in 1..Len(line) + 1 /\ n \in 1 - 1..Len(line) /\ \A i \in 1..n : line[i] \in Printed
      BY <2>1, <3>1
    <3>3. SubSeq(line, 1, n) \in Seq(Printed) /\ Len(SubSeq(line, 1, n)) = n
          /\ \A k \in 1..n : SubSeq(line, 1, n)[k] = line[k]
      BY <1>0, <3>1, <3>2, SubSeqProperties, Z3
    <3> QED BY <2>2, <3>1, <3>3
  <2>4. \A x : Contains(line', x) => Contains(line, x)
    BY <2>1, <2>3 DEF Contains
  <2> QED BY <1>2, <2>3, <2>4
<1>3. CASE UNCHANGED <<line, toHost>>
  BY <1>0, <1>3
<1> QED BY <1>1, <1>2, <1>3 DEF Edit

LEMMA DeviceTypes ==
  ASSUME PushTypeOK, DeviceInv, DevStep
  PROVE  PushTypeOK'
<1> USE DEF PushTypeOK
<1>1. toHost \in Seq(Printed) /\ <<>> \in Seq(Printed) /\ <<".">> \in Seq(Printed)
      /\ <<"prompt">> \in Seq(Printed) /\ <<".", "prompt">> \in Seq(Printed)
      /\ <<"READY">> \in Seq(Printed) /\ <<"OK">> \in Seq(Printed)
  BY Outputs DEF Printed, Text, Tokens
<1>2. \A out \in Seq(Printed) : Show(out) => toHost' \in Seq(Printed)
  BY <1>1, ShowsPrinted
<1>3. toDev # <<>> => Head(toDev) \in Bytes /\ Tail(toDev) \in Seq(Bytes)
  BY TailSteps
<1>4. <<>> \in Seq(Printed) /\ <<>> \in Seq(Bytes) /\ Len(<<>>) < CHUNK
  BY Sizes
<1>5. CASE Wake
  BY <1>1, <1>2, <1>3, <1>5 DEF Wake, hostVars, flash, Polling
<1>6. CASE AutoBoot
  BY <1>1, <1>2, <1>6 DEF AutoBoot, hostVars, flash, Polling
<1>7. CASE ShellByte
  <2>1. PICK c \in Bytes :
          /\ Take(c)
          /\ \/ line' = <<>> /\ Show(IF line # <<>> THEN <<".">> ELSE <<>>)
             \/ Edit(c, ShellLine)
    BY <1>7 DEF ShellByte
  <2>2. line' \in Seq(Printed) /\ toHost' \in Seq(Printed)
    BY <1>1, <1>2, <1>4, <2>1, Edits, Outputs
  <2>3. toDev' \in Seq(Bytes)
    BY <1>3, <2>1 DEF Take
  <2> QED BY <1>7, <2>2, <2>3 DEF ShellByte, hostVars, flash
<1>17. CASE StartUpdate
  BY <1>1, <1>2, <1>17 DEF StartUpdate, hostVars, Polling
<1>18. CASE MarkValid
  BY <1>1, <1>2, <1>18 DEF MarkValid, hostVars, Polling
<1>8. CASE CmdOta
  <2>1. saw_cr' \in BOOLEAN
    BY <1>8 DEF CmdOta
  <2>2. toHost' \in Seq(Printed)
    BY <1>1, <1>2, <1>8 DEF CmdOta
  <2> QED BY <1>4, <1>8, <2>1, <2>2 DEF CmdOta, hostVars, flash
<1>9. CASE OtherLine
  <2>1. saw_cr' \in BOOLEAN
    BY <1>9 DEF OtherLine
  <2>2. toHost' \in Seq(Printed)
    <3>1. line \o <<"prompt">> \in Seq(Printed)
      BY <1>1, ConcatProperties
    <3> QED BY <1>2, <1>9, <3>1 DEF OtherLine
  <2>3. toDev' \in Seq(Bytes)
    BY <1>3, <1>9 DEF OtherLine, Take
  <2> QED BY <1>4, <1>9, <2>1, <2>2, <2>3 DEF OtherLine, hostVars, flash
<1>10. CASE Typed
  <2>1. PICK c \in Bytes : Take(c) /\ Edit(c, AppLine) /\ saw_cr' = (saw_cr /\ c = "other")
    BY <1>10 DEF Typed
  <2>2. line' \in Seq(Printed) /\ toHost' \in Seq(Printed)
    BY <1>2, <2>1, Edits, Outputs
  <2>3. toDev' \in Seq(Bytes)
    BY <1>3, <2>1 DEF Take
  <2> QED BY <1>10, <2>1, <2>2, <2>3 DEF Typed, hostVars, flash
<1>11. CASE EraseSlot
  BY <1>11, Sizes DEF EraseSlot, hostVars, Polling
<1>12. CASE ReceiveByte
  <2>1. PICK c \in Bytes : Take(c) /\ buf' = Append(buf, c)
    BY <1>12 DEF ReceiveByte
  <2>2. buf' \in Seq(Bytes) /\ Len(buf') = Len(buf) + 1
    BY <2>1, AppendProperties
  <2>3. Len(buf') < CHUNK
    BY <1>12, <2>2, ChunkLens, Sizes DEF ReceiveByte
  <2> QED BY <1>3, <1>12, <2>1, <2>2, <2>3 DEF ReceiveByte, Take, hostVars, flash
<1>13. CASE ReceiveChunk
  <2>1. PICK c \in Bytes : Take(c) /\ slot' = slot \o Append(buf, c)
    BY <1>13 DEF ReceiveChunk
  <2>2. Append(buf, c) \in Seq(Bytes) /\ Len(Append(buf, c)) = Len(buf) + 1
    BY AppendProperties
  <2>3. slot' \in Seq(Bytes) /\ Len(slot') = Len(slot) + (Len(buf) + 1)
    BY <2>1, <2>2, ConcatProperties
  <2>4. Len(buf) + 1 <= ChunkLen
    BY <1>13, ChunkLens DEF ReceiveChunk, DeviceInv
  <2>5. Len(slot') <= Size
    BY <2>3, <2>4, ChunkLens, Sizes
  <2>6. toHost' \in Seq(Printed) /\ buf' = <<>> /\ dev' \in {"record", "receive"}
    BY <1>1, <1>2, <1>13 DEF ReceiveChunk
  <2> QED BY <1>3, <1>13, <2>1, <2>3, <2>5, <2>6, Sizes
          DEF ReceiveChunk, Take, hostVars, flash, Polling
<1>14. CASE RecordUpdate
  BY <1>14 DEF RecordUpdate, hostVars
<1>15. CASE Report
  BY <1>1, <1>2, <1>15 DEF Report, hostVars, flash
<1>16. CASE ResetAfterUpdate
  <2>1. toHost' \in Seq(Printed) /\ toDev' \in Seq(Bytes)
    BY <1>1, <1>2, <1>16, Rests DEF ResetAfterUpdate, Restart
  <2> QED BY <1>4, <1>16, <2>1 DEF ResetAfterUpdate, Restart, hostVars, flash, Polling
<1> QED BY <1>5, <1>6, <1>7, <1>8, <1>9, <1>10, <1>11, <1>12, <1>13, <1>14, <1>15, <1>16,
        <1>17, <1>18 DEF DevStep

LEMMA CutTypes ==
  ASSUME PushTypeOK, PowerCut
  PROVE  PushTypeOK'
<1> USE DEF PushTypeOK
<1>1. toHost' \in Seq(Printed)
  BY Outputs, ShowsPrinted DEF PowerCut, Restart, Printed, Text, Tokens
<1>2. toDev' \in Seq(Bytes)
  BY Rests DEF PowerCut, Restart
<1>3. slot' \in Seq(Bytes) /\ Len(slot') <= Size /\ recorded' \in {"no", "yes", "taken"}
  <2>1. <<>> \in Seq(Bytes) /\ Len(<<>>) <= Size
    BY Sizes
  <2> QED BY <2>1 DEF PowerCut, flash
<1>4. <<>> \in Seq(Printed) /\ <<>> \in Seq(Bytes) /\ Len(<<>>) < CHUNK
  BY Sizes
<1> QED BY <1>1, <1>2, <1>3, <1>4 DEF PowerCut, Restart, hostVars, Polling

LEMMA PushTypes ==
  ASSUME PushTypeOK, DeviceInv, [Next]_vars
  PROVE  PushTypeOK'
<1>1. CASE UNCHANGED vars
  BY <1>1 DEF PushTypeOK, vars, hostVars, devVars, flash
<1> QED BY <1>1, HostTypes, AsideTypes, DeviceTypes, CutTypes DEF Next

----------------------------------------------------------------------------
(* The device by itself *)

LEMMA DeviceSteps ==
  ASSUME PushTypeOK, DeviceInv, [Next]_vars
  PROVE  DeviceInv'
<1>1. CASE UNCHANGED devVars
  BY <1>1 DEF DeviceInv, ChunkLen, devVars, flash
<1>2. CASE dev' \notin {"receive", "countdown", "confirm", "report", "done"} /\ buf' = <<>>
  BY <1>2 DEF DeviceInv
<1>3. CASE dev' \in {"countdown", "confirm"} /\ buf' = <<>> /\ line' = <<>>
  BY <1>3 DEF DeviceInv
<1>4. CASE EraseSlot
  <2>1. slot' = <<>> /\ buf' = <<>> /\ dev' = "receive"
    BY <1>4 DEF EraseSlot, DeviceInv
  <2>2. slot' \in Seq(Bytes) /\ Len(slot') = 0 /\ Len(buf') = 0
    BY <2>1
  <2>3. ChunkLen' > 0 /\ Len(slot') < Size
    BY <2>2, Sizes DEF ChunkLen, Least
  <2> QED BY <2>1, <2>2, <2>3 DEF DeviceInv
<1>5. CASE ReceiveByte
  <2>1. PICK c \in Bytes : buf' = Append(buf, c)
    BY <1>5 DEF ReceiveByte
  <2>2. Len(buf') = Len(buf) + 1
    BY <2>1, AppendProperties DEF PushTypeOK
  <2>3. dev' = "receive" /\ ChunkLen' = ChunkLen /\ Len(buf') < ChunkLen /\ slot' = slot
    BY <1>5, <2>2 DEF ReceiveByte, flash, ChunkLen
  <2> QED BY <1>5, <2>3 DEF DeviceInv, ReceiveByte
<1>6. CASE ReceiveChunk
  <2>1. buf' = <<>> /\ dev' = IF Len(slot') >= Size THEN "record" ELSE "receive"
    BY <1>6 DEF ReceiveChunk
  <2>2. CASE Len(slot') >= Size
    BY <2>1, <2>2 DEF DeviceInv
  <2>3. CASE ~(Len(slot') >= Size)
    <3>1. slot' \in Seq(Bytes) /\ Len(slot') < Size /\ Len(buf') = 0
      BY <1>6, <2>1, <2>3, DeviceTypes, Sizes DEF PushTypeOK, DevStep
    <3>2. ChunkLen' > 0
      BY <3>1, Sizes DEF ChunkLen, Least
    <3> QED BY <2>1, <2>3, <3>1, <3>2 DEF DeviceInv
  <2> QED BY <2>2, <2>3
<1>7. CASE RecordUpdate
  BY <1>7 DEF RecordUpdate, DeviceInv
<1>8. CASE Report
  BY <1>8 DEF Report, DeviceInv, flash
<1>9. ASSUME DevStep
      PROVE  \/ EraseSlot \/ ReceiveByte \/ ReceiveChunk \/ RecordUpdate \/ Report
             \/ dev' \in {"countdown", "confirm"} /\ buf' = <<>> /\ line' = <<>>
             \/ dev' \in {"shell", "app", "erase"} /\ buf' = <<>>
  BY <1>9 DEF DevStep, Wake, AutoBoot, StartUpdate, MarkValid, ShellByte, CmdOta, OtherLine,
              Typed, ResetAfterUpdate, Restart, DeviceInv
<1>10. CASE DevStep
  BY <1>2, <1>3, <1>4, <1>5, <1>6, <1>7, <1>8, <1>9, <1>10
<1>11. ASSUME HostStep \/ Connect \/ Refresh \/ GiveUp \/ UNCHANGED vars
       PROVE  UNCHANGED devVars
  BY <1>11 DEF HostStep, Misses, SendCommand, SendChunk, LastAck, Success, Finds,
               Connect, Refresh, GiveUp, vars
<1>12. CASE PowerCut
  BY <1>3, <1>12 DEF PowerCut, Restart
<1> QED BY <1>1, <1>10, <1>11, <1>12 DEF Next

----------------------------------------------------------------------------
(* Commands *)

NoCommand == ~Contains(toDev, "ota") /\ ~Contains(line, "ota")

LEMMA NotReady ==
  ASSUME CommandInv, dev \in {"app", "confirm"}, host # "ready"
  PROVE  NoCommand
  BY DEF CommandInv, NoCommand

LEMMA NoneLeft ==
  ASSUME NoCommand'
  PROVE  CommandInv'
  BY DEF CommandInv, NoCommand

LEMMA EmptyHasNone == \A x : ~Contains(<<>>, x)
  BY DEF Contains

\* What the script reads up to its n-th marker was unread before.
LEMMA ReadWasUnread ==
  ASSUME PushTypeOK, NEW n \in 1..Len(toHost), NEW x, Contains(Received(n), x)
  PROVE  Contains(toHost, x)
<1>1. toHost \in Seq(Printed)
  BY DEF PushTypeOK
<1>2. Len(SubSeq(toHost, 1, n)) = n /\ \A k \in 1..n : SubSeq(toHost, 1, n)[k] = toHost[k]
  BY <1>1
<1>3. PICK k \in 1..n : toHost[k] = x
  BY <1>2 DEF Contains, Received
<1> QED BY <1>1, <1>3 DEF Contains

\* A chunk of the file holds no command.
LEMMA ChunkHasNone ==
  ASSUME PushTypeOK
  PROVE  /\ SubSeq(Firmware, sent + 1, ChunkEnd) \in Seq(Bytes)
         /\ ~Contains(SubSeq(Firmware, sent + 1, ChunkEnd), "ota")
<1>1. ChunkEnd \in 0..Size /\ sent + 1 \in 1..(Size + 1) /\ ChunkEnd \in Int
  BY Sizes DEF ChunkEnd, Least, PushTypeOK
<1>2. \A i \in (sent + 1)..ChunkEnd : Firmware[i] \in Content
  BY <1>1, Sizes DEF Size
<1>3. SubSeq(Firmware, sent + 1, ChunkEnd) \in Seq(Content)
  BY <1>1, <1>2, SubSeqProperties
<1>4. Content \subseteq Bytes /\ "ota" \notin Content
  BY DEF Bytes, Content, Text, Tokens
<1>5. SubSeq(Firmware, sent + 1, ChunkEnd) \in Seq(Bytes)
  BY <1>3, <1>4, SeqMonotonic
<1>6. \A s \in Seq(Content) : ~Contains(s, "ota")
  BY <1>4, ElementOfSeq DEF Contains
<1> QED BY <1>3, <1>5, <1>6

LEMMA CommandEnds ==
  ASSUME NEW S, NEW s \in Seq(S), ~Contains(s, "ota"),
         NEW t \in Seq(S), t = <<"ota", "CR", "LF">>
  PROVE  Ended(s \o t)
<1>1. Len(t) = 3 /\ t[2] = "CR" /\ t[3] = "LF"
  OBVIOUS
<1>2. /\ s \o t \in Seq(S) /\ Len(s \o t) = Len(s) + 3
      /\ \A i \in 1..Len(s) + 3 :
           (s \o t)[i] = IF i <= Len(s) THEN s[i] ELSE t[i - Len(s)]
  <2>1. /\ s \o t \in Seq(S) /\ Len(s \o t) = Len(s) + Len(t)
        /\ \A i \in 1..Len(s) + Len(t) :
             (s \o t)[i] = IF i <= Len(s) THEN s[i] ELSE t[i - Len(s)]
    BY ConcatProperties, Zenon
  <2> QED BY <1>1, <2>1
<1>3. ASSUME NEW k \in 1..Len(s) + 3, (s \o t)[k] = "ota"
      PROVE  k < Len(s) + 3 /\ (s \o t)[k + 1] = "CR"
  <2>1. k > Len(s)
    BY <1>2, <1>3 DEF Contains
  <2>2. k - Len(s) \in 1..3 /\ t[k - Len(s)] = "ota"
    BY <1>2, <1>3, <2>1
  <2>3. k = Len(s) + 1
    BY <1>1, <2>1, <2>2
  <2>4. k + 1 \in 1..Len(s) + 3 /\ ~(k + 1 <= Len(s)) /\ k + 1 - Len(s) = 2
    BY <2>3
  <2> QED BY <1>1, <1>2, <2>4
<1> QED BY <1>2, <1>3 DEF Ended

LEMMA HostCommands ==
  ASSUME PushTypeOK, CommandInv, OutputInv,
         HostStep \/ Connect \/ Refresh \/ GiveUp
  PROVE  CommandInv'
<1> SUFFICES ASSUME dev \in {"app", "confirm"}  PROVE CommandInv'
  BY DEF HostStep, Misses, SendCommand, SendChunk, LastAck, Success, Finds,
         Connect, Refresh, GiveUp, devVars, CommandInv
<1>1. CASE Misses
  BY <1>1 DEF Misses, hostVars, devVars, CommandInv, Ended
<1>2. CASE SendCommand
  <2>1. host # "ready" /\ host' = "ready" /\ UNCHANGED <<dev, line>>
        /\ toDev' = toDev \o <<"ota", "CR", "LF">>
    BY <1>2 DEF SendCommand, Finds, devVars
  <2>2. NoCommand
    BY <2>1, NotReady
  <2>3. toDev \in Seq(Bytes) /\ <<"ota", "CR", "LF">> \in Seq(Bytes)
    BY DEF Bytes, Content, PushTypeOK
  <2>4. Ended(toDev')
    BY <2>1, <2>2, <2>3, CommandEnds DEF NoCommand
  <2> QED BY <2>1, <2>2, <2>4 DEF CommandInv, NoCommand
<1>3. CASE SendChunk
  <2>1. NoCommand
    <3>1. CASE host = "ready"
      <4>1. PICK n \in 1..Len(toHost) : Contains(Received(n), "READY")
        BY <1>3, <3>1 DEF SendChunk, Finds, Wanted
      <4>2. Contains(toHost, "READY")
        BY <4>1, ReadWasUnread
      <4> QED BY <3>1, <4>2 DEF OutputInv, NoCommand
    <3>2. CASE host # "ready"
      BY <3>2, NotReady
    <3> QED BY <3>1, <3>2
  <2>2. toDev \in Seq(Bytes)
    BY DEF PushTypeOK
  <2>3. ~Contains(toDev', "ota")
    <3> DEFINE chunk == SubSeq(Firmware, sent + 1, ChunkEnd)
    <3>1. chunk \in Seq(Bytes) /\ ~Contains(chunk, "ota") /\ toDev' = toDev \o chunk
      BY <1>3, ChunkHasNone DEF SendChunk
    <3> HIDE DEF chunk
    <3>2. Contains(toDev \o chunk, "ota") <=> Contains(toDev, "ota") \/ Contains(chunk, "ota")
      BY <2>2, <3>1, ConcatContains
    <3> QED BY <2>1, <3>1, <3>2 DEF NoCommand
  <2>4. ~Contains(line', "ota")
    BY <1>3, <2>1 DEF SendChunk, Finds, devVars, NoCommand
  <2> QED BY <2>3, <2>4, NoneLeft DEF NoCommand
<1>4. CASE LastAck \/ Success \/ Connect
  <2>1. host # "ready" /\ UNCHANGED <<line, toDev>>
    BY <1>4 DEF LastAck, Success, Connect, Finds, devVars
  <2> QED BY <2>1, NotReady, NoneLeft DEF NoCommand
<1>5. CASE Refresh
  <2>1. NoCommand
    BY <1>5, NotReady DEF Refresh
  <2> DEFINE t == <<"CR", "LF">>
  <2>2. toDev \in Seq(Bytes) /\ t \in Seq(Bytes) /\ ~Contains(t, "ota") /\ toDev' = toDev \o t
    BY <1>5 DEF Refresh, Bytes, Content, PushTypeOK, Contains
  <2> HIDE DEF t
  <2>3. ~Contains(toDev', "ota")
    <3>1. Contains(toDev \o t, "ota") <=> Contains(toDev, "ota") \/ Contains(t, "ota")
      BY <2>2, ConcatContains
    <3> QED BY <2>1, <2>2, <3>1 DEF NoCommand
  <2> QED BY <1>5, <2>1, <2>3, NoneLeft DEF Refresh, devVars, NoCommand
<1>6. CASE GiveUp
  <2>1. toDev = <<>> /\ UNCHANGED <<toDev, line>>
    BY <1>6 DEF GiveUp, MayTimeOut, Polling, devVars
  <2>2. NoCommand
    BY <2>1, EmptyHasNone DEF CommandInv, NoCommand
  <2> QED BY <2>1, <2>2, NoneLeft DEF NoCommand
<1> QED BY <1>1, <1>2, <1>3, <1>4, <1>5, <1>6 DEF HostStep

LEMMA DeviceCommands ==
  ASSUME PushTypeOK, DeviceInv, CommandInv, DevStep
  PROVE  CommandInv'
<1> SUFFICES ASSUME dev' \in {"app", "confirm"}  PROVE CommandInv'
  BY DEF CommandInv
<1>0. toDev \in Seq(Bytes) /\ line \in Seq(Printed)
  BY DEF PushTypeOK
<1>1. AutoBoot \/ StartUpdate \/ MarkValid \/ OtherLine \/ Typed
  BY DEF DevStep, Wake, ShellByte, CmdOta, EraseSlot, ReceiveByte, ReceiveChunk,
         RecordUpdate, Report, ResetAfterUpdate, Restart, DeviceInv
<1>2. CASE AutoBoot \/ StartUpdate
  BY <1>2, EmptyHasNone, NoneLeft DEF AutoBoot, StartUpdate, DeviceInv, NoCommand
<1>6. CASE MarkValid
  BY <1>6 DEF MarkValid, CommandInv, Ended, hostVars
<1>3. ASSUME dev = "app", NEW c \in Bytes, Take(c), UNCHANGED host
      PROVE  Contains(toDev', "ota") => host' = "ready" /\ Ended(toDev')
  <2>1. toDev # <<>> /\ toDev' = Tail(toDev)
    BY <1>3 DEF Take
  <2> QED BY <1>0, <1>3, <2>1, TailContains, TailEnded DEF CommandInv
<1>4. CASE OtherLine
  BY <1>3, <1>4, EmptyHasNone DEF OtherLine, hostVars, CommandInv
<1>5. CASE Typed
  <2>1. PICK c \in Bytes : Take(c) /\ ~EndsLine(c) /\ Edit(c, AppLine)
    BY <1>5 DEF Typed
  <2>2. UNCHANGED host /\ c # "CR" /\ dev = "app" /\ dev' = "app"
    BY <1>5, <2>1 DEF Typed, EndsLine, hostVars
  <2>3. toDev # <<>> /\ c = Head(toDev) /\ toDev' = Tail(toDev)
    BY <2>1 DEF Take
  <2>4. ~Contains(line, "ota")
    BY <2>2, <2>3 DEF CommandInv
  <2>5. CASE c = "ota"
    <3>1. 1 \in 1..Len(toDev) /\ toDev[1] = "ota"
      BY <1>0, <2>3, <2>5, TailSteps
    <3>2. Contains(toDev, "ota")
      BY <3>1 DEF Contains
    <3>3. host = "ready" /\ Ended(toDev)
      BY <2>2, <3>2 DEF CommandInv
    <3>4. 1 < Len(toDev) /\ toDev[1 + 1] = "CR"
      BY <3>1, <3>3 DEF Ended
    <3>5. toDev' # <<>> /\ Head(toDev') = "CR"
      BY <1>0, <2>3, <3>4, TailSteps
    <3> QED BY <1>3, <2>1, <2>2, <3>3, <3>5 DEF CommandInv
  <2>6. CASE c # "ota"
    <3>2. ~Contains(line', "ota")
      BY <2>1, <2>4, <2>6, Edits
    <3> QED BY <1>3, <2>1, <2>2, <3>2 DEF CommandInv
  <2> QED BY <2>5, <2>6
<1> QED BY <1>1, <1>2, <1>4, <1>5, <1>6

LEMMA CommandSteps ==
  ASSUME PushTypeOK, DeviceInv, CommandInv, OutputInv, [Next]_vars
  PROVE  CommandInv'
<1>1. CASE UNCHANGED vars
  BY <1>1 DEF vars, hostVars, devVars, CommandInv, Ended
<1>2. CASE PowerCut
  BY <1>2 DEF PowerCut, Restart, CommandInv
<1> QED BY <1>1, <1>2, HostCommands, DeviceCommands DEF Next

----------------------------------------------------------------------------
(* Echoes *)

\* What the port did not hold is not taken from it.
LEMMA TakenOff ==
  ASSUME PushTypeOK, NEW c \in Bytes, Take(c)
  PROVE  \A x : ~Contains(toDev, x) => ~Contains(toDev', x) /\ c # x
<1>1. toDev \in Seq(Bytes) /\ toDev # <<>> /\ toDev' = Tail(toDev) /\ c = Head(toDev)
  BY DEF PushTypeOK, Take
<1>2. 1 \in 1..Len(toDev) /\ c = toDev[1]
  BY <1>1, TailSteps
<1> QED BY <1>1, <1>2, TailContains DEF Contains

\* What the host sends of a plain file.
LEMMA SentPlain ==
  ASSUME Plain, PushTypeOK, NEW m \in {"READY", "OK"}
  PROVE  ~Contains(SubSeq(Firmware, sent + 1, ChunkEnd), m)
<1>1. ChunkEnd \in 0..Size /\ sent + 1 \in 1..(Size + 1) /\ ChunkEnd \in Int
      /\ Firmware \in Seq(Content) /\ Len(Firmware) = Size
  BY Sizes DEF ChunkEnd, Least, PushTypeOK, Size
<1>2. \A i \in (sent + 1)..ChunkEnd : i \in 1..Len(Firmware)
  BY <1>1
<1>3. /\ Len(SubSeq(Firmware, sent + 1, ChunkEnd))
            = IF sent + 1 <= ChunkEnd THEN ChunkEnd - (sent + 1) + 1 ELSE 0
      /\ \A i \in 1..Len(SubSeq(Firmware, sent + 1, ChunkEnd)) :
           SubSeq(Firmware, sent + 1, ChunkEnd)[i] = Firmware[sent + 1 + i - 1]
  BY <1>1
<1>4. ASSUME NEW i \in 1..Len(SubSeq(Firmware, sent + 1, ChunkEnd)),
             SubSeq(Firmware, sent + 1, ChunkEnd)[i] = m
      PROVE  FALSE
  <2>1. sent + 1 + i - 1 \in 1..Len(Firmware) /\ Firmware[sent + 1 + i - 1] = m
    BY <1>1, <1>2, <1>3, <1>4
  <2> QED BY <2>1 DEF Plain, Contains
<1> QED BY <1>4 DEF Contains

LEMMA EchoSteps ==
  ASSUME Plain, PushTypeOK, DeviceInv, EchoInv, [Next]_vars
  PROVE  EchoInv'
<1> SUFFICES ASSUME NEW m \in {"READY", "OK"}
             PROVE  ~Contains(toDev', m) /\ ~Contains(line', m)
  BY DEF EchoInv
<1>0. /\ ~Contains(toDev, m) /\ ~Contains(line, m) /\ ~Contains(<<>>, m)
      /\ toDev \in Seq(Bytes)
  BY EmptyHasNone DEF EchoInv, PushTypeOK
<1>1. CASE UNCHANGED <<toDev, line>>
  BY <1>0, <1>1
<1>2. ASSUME NEW t \in Seq(Bytes), ~Contains(t, m), toDev' = toDev \o t, UNCHANGED line
      PROVE  ~Contains(toDev', m) /\ ~Contains(line', m)
  <2>1. Contains(toDev \o t, m) <=> Contains(toDev, m) \/ Contains(t, m)
    BY <1>0, <1>2, ConcatContains
  <2> QED BY <1>0, <1>2, <2>1
<1>3. CASE SendCommand
  <2>1. <<"ota", "CR", "LF">> \in Seq(Bytes) /\ ~Contains(<<"ota", "CR", "LF">>, m)
    BY DEF Bytes, Content, Contains
  <2>2. toDev' = toDev \o <<"ota", "CR", "LF">> /\ line' = line
    BY <1>3 DEF SendCommand, Finds, devVars
  <2> QED BY <1>2, <2>1, <2>2
<1>4. CASE SendChunk
  <2>1. toDev' = toDev \o SubSeq(Firmware, sent + 1, ChunkEnd) /\ line' = line
    BY <1>4 DEF SendChunk, Finds, devVars
  <2> QED BY <1>2, <2>1, ChunkHasNone, SentPlain
<1>5. CASE Refresh
  <2>1. <<"CR", "LF">> \in Seq(Bytes) /\ ~Contains(<<"CR", "LF">>, m)
    BY DEF Bytes, Content, Contains
  <2>2. toDev' = toDev \o <<"CR", "LF">> /\ line' = line
    BY <1>5 DEF Refresh, devVars
  <2> QED BY <1>2, <2>1, <2>2
<1>6. CASE Misses \/ LastAck \/ Success \/ Connect \/ GiveUp \/ UNCHANGED vars
  BY <1>1, <1>6 DEF Misses, LastAck, Success, Connect, GiveUp, Finds, vars, devVars
<1>7. ASSUME NEW c \in Bytes, Take(c), line' \in {line, <<>>} \/ \E room : Edit(c, room)
      PROVE  ~Contains(toDev', m) /\ ~Contains(line', m)
  BY <1>0, <1>7, TakenOff, Edits
<1>8. CASE Wake
  BY <1>0, <1>8, TailContains DEF Wake
<1>9. CASE ShellByte
  BY <1>7, <1>9 DEF ShellByte
<1>10. CASE OtherLine
  BY <1>7, <1>10 DEF OtherLine
<1>11. CASE Typed
  BY <1>7, <1>11 DEF Typed
<1>12. CASE ReceiveByte \/ ReceiveChunk
  BY <1>7, <1>12 DEF ReceiveByte, ReceiveChunk
<1>13. CASE ResetAfterUpdate \/ PowerCut
  BY <1>0, <1>13, Rests DEF ResetAfterUpdate, PowerCut, Restart
<1>14. CASE CmdOta
  BY <1>0, <1>14 DEF CmdOta
<1>15. CASE AutoBoot \/ StartUpdate \/ MarkValid \/ EraseSlot \/ RecordUpdate \/ Report
  BY <1>1, <1>15 DEF AutoBoot, StartUpdate, MarkValid, EraseSlot, RecordUpdate, Report
<1> QED BY <1>3, <1>4, <1>5, <1>6, <1>8, <1>9, <1>10, <1>11, <1>12, <1>13, <1>14, <1>15
        DEF Next, DevStep, HostStep

----------------------------------------------------------------------------
(* Unread output *)

\* Every host step that reads leaves the end of what was unread.
LEMMA Unreads ==
  ASSUME PushTypeOK, NEW n \in 1..Len(toHost)
  PROVE  /\ Unread(n) \in Seq(Printed)
         /\ \A x : Contains(Unread(n), x) => Contains(toHost, x)
         /\ OkFirst(toHost) => OkFirst(Unread(n))
         /\ OkFirst(toHost) /\ Contains(Received(n), "prompt") => ~Contains(Unread(n), "OK")
<1>1. toHost \in Seq(Printed) /\ n \in 0..Len(toHost)
  BY DEF PushTypeOK
<1>2. Unread(n) \in Seq(Printed)
  BY <1>1, Behind DEF Unread
<1>3. \A x : Contains(Unread(n), x) => Contains(toHost, x)
  BY <1>1, BehindContains DEF Unread
<1> QED BY <1>1, <1>2, <1>3, OkFirstBehind DEF Unread, Received

LEMMA HostOutput ==
  ASSUME PushTypeOK, OutputInv, HostStep \/ Connect \/ Refresh \/ GiveUp
  PROVE  OutputInv'
<1>1. CASE Misses
  <2>1. PICK n \in 1..Len(toHost) : toHost' = Unread(n)
    BY <1>1 DEF Misses
  <2>2. \A x : Contains(toHost', x) => Contains(toHost, x)
    BY <2>1, Unreads
  <2>3. OkFirst(toHost) => OkFirst(toHost')
    BY <2>1, Unreads
  <2>4. host \in Waiting /\ UNCHANGED <<host, dev, toDev, line, slot, recorded>>
    BY <1>1 DEF Misses, hostVars, devVars, flash
  <2> QED BY <2>2, <2>3, <2>4 DEF OutputInv, Asking, Fed, Busy, Written
<1>2. CASE SendCommand
  <2>1. PICK n \in 1..Len(toHost) : toHost' = Unread(n) /\ Contains(Received(n), "prompt")
    BY <1>2 DEF SendCommand, Finds, Wanted
  <2>2. host' = "ready" /\ Asking
    BY <1>2 DEF SendCommand, Finds, Asking
  <2>3. ~Contains(toHost', "OK") /\ ~Contains(toHost', "READY")
    BY <2>1, <2>2, Unreads DEF OutputInv
  <2> QED BY <2>2, <2>3 DEF OutputInv, Asking, Fed, Waiting
<1>3. CASE SendChunk \/ LastAck
  <2>1. PICK n \in 1..Len(toHost) : toHost' = Unread(n)
    BY <1>3 DEF SendChunk, LastAck, Finds
  <2>2. host' \in {"ack", "finish"} /\ (host = "ready" \/ Fed) /\ UNCHANGED Written
    BY <1>3 DEF SendChunk, LastAck, Finds, Fed, Written, devVars, flash
  <2>3. Contains(toHost', "OK") => Contains(toHost, "OK")
    BY <2>1, Unreads
  <2> QED BY <2>2, <2>3 DEF OutputInv, Asking, Fed, Waiting
<1>4. CASE Success \/ GiveUp
  BY <1>4, EmptyHasNone DEF Success, GiveUp, OutputInv, Asking, Fed, Waiting
<1>5. CASE Connect
  <2>1. toHost = <<>> /\ toHost' = <<>> /\ host' = "prompt"
    BY <1>5 DEF Connect, OutputInv, Waiting
  <2>2. OkFirst(toHost')
    BY <2>1 DEF OkFirst
  <2> QED BY <2>1, <2>2, EmptyHasNone DEF OutputInv, Asking, Fed, Waiting
<1>6. CASE Refresh
  BY <1>6 DEF Refresh, OutputInv, Asking, Fed, Busy, Waiting, OkFirst, devVars
<1> QED BY <1>1, <1>2, <1>3, <1>4, <1>5, <1>6 DEF HostStep

LEMMA Shown ==
  ASSUME PushTypeOK, OutputInv, NEW out \in Seq(Printed), Show(out), UNCHANGED host
  PROVE  /\ host \notin Waiting => toHost' = <<>>
         /\ \A x : Contains(toHost', x) => Contains(toHost, x) \/ Contains(out, x)
         /\ Asking /\ ~Contains(out, "OK") => OkFirst(toHost')
         /\ Asking /\ ~Contains(toHost, "prompt") /\ ~Contains(out, "prompt") => OkFirst(toHost')
<1>1. toHost \in Seq(Printed)
  BY DEF PushTypeOK
<1>2. host \in Waiting => toHost' = toHost \o out
  BY DEF Show
<1>3. host \notin Waiting => toHost' = <<>>
  BY DEF Show, OutputInv
<1>4. ASSUME NEW x, Contains(toHost', x)  PROVE Contains(toHost, x) \/ Contains(out, x)
  <2>1. Contains(toHost \o out, x) => Contains(toHost, x) \/ Contains(out, x)
    BY <1>1, ConcatContains
  <2> QED BY <1>2, <1>3, <1>4, <2>1, EmptyHasNone
<1>5. Asking => OkFirst(toHost) /\ toHost' = toHost \o out
  BY <1>2 DEF OutputInv, Asking, Waiting
<1> QED BY <1>1, <1>3, <1>4, <1>5, OkFirstAppends

LEMMA SaysNothing ==
  ASSUME PushTypeOK, UNCHANGED toHost
  PROVE  Show(<<>>)
  BY ConcatEmptySeq DEF Show, PushTypeOK

\* Output that is no answer to the script.
LEMMA OutputKept ==
  ASSUME PushTypeOK, OutputInv, UNCHANGED host,
         NEW out \in Seq(Printed), Show(out),
         ~Contains(out, "READY"), ~Contains(out, "OK"),
         Busy' => Busy /\ ~Contains(out, "prompt"),
         NoCommand => NoCommand', Written => Written'
  PROVE  OutputInv'
<1>1. /\ host \notin Waiting => toHost' = <<>>
      /\ \A x : Contains(toHost', x) => Contains(toHost, x) \/ Contains(out, x)
      /\ Asking => OkFirst(toHost')
  BY Shown
<1>2. (host' \notin Waiting => toHost' = <<>>) /\ (Asking <=> Asking') /\ (Fed <=> Fed')
  BY <1>1 DEF Asking, Fed
<1>3. Asking' => ~Contains(toHost', "READY") /\ OkFirst(toHost')
  BY <1>1, <1>2 DEF OutputInv
<1>4. Asking' /\ Busy' => ~Contains(toHost', "prompt")
  BY <1>1, <1>2 DEF OutputInv
<1>5. host' = "ready" => ~Contains(toHost', "OK")
  BY <1>1 DEF OutputInv
<1>6. host' = "ready" /\ Contains(toHost', "READY") => NoCommand'
  BY <1>1 DEF OutputInv, NoCommand
<1>7. Fed' /\ Contains(toHost', "OK") => Written'
  BY <1>1, <1>2 DEF OutputInv
<1> QED BY <1>2, <1>3, <1>4, <1>5, <1>6, <1>7 DEF OutputInv, NoCommand

LEMMA DeviceOutput ==
  ASSUME PushTypeOK, DeviceInv, CommandInv, EchoInv, OutputInv, TransferInv, DevStep
  PROVE  OutputInv'
<1> DEFINE Quiet == <<>>
           Dot   == <<".">>
<1>1. /\ Quiet \in Seq(Printed) /\ Dot \in Seq(Printed)
      /\ \A x : ~Contains(Quiet, x)
      /\ \A x \in {"READY", "OK", "prompt"} : ~Contains(Dot, x)
  BY Outputs DEF Printed, Text, Tokens, Contains
<1>2. ASSUME NEW out \in Seq(Printed), Show(out), ~Contains(out, "READY"),
             ~Contains(out, "OK"), UNCHANGED host,
             Busy' => Busy /\ ~Contains(out, "prompt"),
             NoCommand => NoCommand', Written => Written'
      PROVE  OutputInv'
  BY <1>2, OutputKept
<1> HIDE DEF Quiet, Dot
<1>3. CASE Wake
  <2>1. Show(Dot) /\ UNCHANGED host /\ ~Busy' /\ (Written => Written')
    BY <1>3 DEF Wake, Busy, Written, hostVars, flash, Dot
  <2>2. NoCommand => NoCommand'
    BY <1>3, TailContains DEF Wake, NoCommand, PushTypeOK
  <2> QED BY <1>1, <1>2, <2>1, <2>2
<1>4. CASE AutoBoot \/ MarkValid
  <2> DEFINE out == <<".", "prompt">>
  <2>1. out \in Seq(Printed) /\ ~Contains(out, "READY") /\ ~Contains(out, "OK")
    BY Outputs DEF Printed, Text, Tokens, Contains
  <2>2. Show(out) /\ UNCHANGED host /\ ~Busy' /\ (NoCommand => NoCommand')
        /\ (Written => Written')
    BY <1>4 DEF AutoBoot, MarkValid, Busy, NoCommand, Written, hostVars, flash
  <2> HIDE DEF out
  <2> QED BY <1>2, <2>1, <2>2
<1>13. CASE StartUpdate
  <2>1. Show(Dot) /\ UNCHANGED host /\ ~Busy' /\ (NoCommand => NoCommand')
        /\ (Written => Written')
    BY <1>13 DEF StartUpdate, Busy, NoCommand, Written, hostVars, Dot
  <2> QED BY <1>1, <1>2, <2>1
\* An echo is of what was typed.
<1>a. ASSUME NEW c \in Bytes, Take(c), NEW room, Edit(c, room), UNCHANGED host,
             ~Busy', Written => Written'
      PROVE  OutputInv'
  <2>1. NoCommand => NoCommand'
    BY <1>a, TakenOff, Edits DEF NoCommand
  <2>2. c # "READY" /\ c # "OK"
    BY <1>a, TakenOff DEF EchoInv
  <2>3. CASE UNCHANGED toHost
    <3>1. Show(Quiet)
      BY <2>3, SaysNothing DEF Quiet
    <3> QED BY <1>1, <1>2, <1>a, <2>1, <3>1
  <2>4. CASE c \in Printed /\ Show(<<c>>)
    <3>1. <<c>> \in Seq(Printed) /\ ~Contains(<<c>>, "READY") /\ ~Contains(<<c>>, "OK")
      BY <2>2, <2>4, Outputs DEF Contains
    <3> QED BY <1>2, <1>a, <2>1, <2>4, <3>1
  <2> QED BY <1>a, <2>3, <2>4, Edits
<1>5. CASE ShellByte
  <2>1. PICK c \in Bytes :
          /\ Take(c)
          /\ \/ line' = <<>> /\ (Show(Quiet) \/ Show(Dot))
             \/ Edit(c, ShellLine)
    BY <1>5 DEF ShellByte, Quiet, Dot
  <2>2. UNCHANGED host /\ ~Busy' /\ (Written => Written')
    BY <1>5 DEF ShellByte, Busy, Written, hostVars, flash
  <2>3. CASE line' = <<>> /\ (Show(Quiet) \/ Show(Dot))
    <3>1. NoCommand => NoCommand'
      BY <2>1, <2>3, TakenOff, EmptyHasNone DEF NoCommand
    <3> QED BY <1>1, <1>2, <2>2, <2>3, <3>1
  <2> QED BY <1>a, <2>1, <2>2, <2>3
<1>6. CASE CmdOta
  <2>1. Contains(line, "ota") /\ dev = "app"
    BY <1>6 DEF CmdOta, IsOta, Contains, PushTypeOK
  <2>2. host = "ready" /\ UNCHANGED host
    BY <1>6, <2>1 DEF CommandInv, CmdOta, hostVars
  <2> DEFINE out == <<"READY">>
  <2>3. out \in Seq(Printed) /\ ~Contains(out, "OK")
    BY Outputs DEF Printed, Text, Tokens, Contains
  <2>4. Show(out) /\ toDev' = <<>> /\ line' = <<>>
    BY <1>6 DEF CmdOta
  <2> HIDE DEF out
  <2>5. ~Contains(toHost', "OK")
    BY <2>2, <2>3, <2>4, Shown DEF OutputInv
  <2> QED BY <2>2, <2>4, <2>5, EmptyHasNone DEF OutputInv, Asking, Fed, Waiting
<1>7. CASE OtherLine
  <2>0. line \in Seq(Printed) /\ <<"prompt">> \in Seq(Printed)
    BY Outputs DEF PushTypeOK, Printed, Text, Tokens
  <2>1. PICK out \in Seq(Printed) : out = line \o <<"prompt">>
    BY <2>0, ConcatProperties
  <2>2. ~Contains(out, "READY") /\ ~Contains(out, "OK")
    <3>1. ~Contains(<<"prompt">>, "READY") /\ ~Contains(<<"prompt">>, "OK")
      BY DEF Contains
    <3>2. \A x : Contains(out, x) <=> Contains(line, x) \/ Contains(<<"prompt">>, x)
      BY <2>0, <2>1, ConcatContains
    <3> QED BY <3>1, <3>2 DEF EchoInv
  <2>3. UNCHANGED host /\ ~Busy' /\ (Written => Written') /\ line' = <<>> /\ Show(out)
    BY <1>7, <2>1 DEF OtherLine, Busy, Written, hostVars, flash
  <2>4. NoCommand => NoCommand'
    BY <1>7, <2>3, TakenOff, EmptyHasNone DEF OtherLine, NoCommand
  <2> QED BY <1>2, <2>2, <2>3, <2>4
<1>8. CASE Typed
  <2>1. PICK c \in Bytes : Take(c) /\ Edit(c, AppLine)
    BY <1>8 DEF Typed
  <2>2. UNCHANGED host /\ ~Busy' /\ (Written => Written')
    BY <1>8 DEF Typed, Busy, Written, hostVars, flash
  <2> QED BY <1>a, <2>1, <2>2
<1>9. CASE EraseSlot \/ ReceiveByte \/ RecordUpdate
  <2>1. Show(Quiet) /\ UNCHANGED <<host, line>> /\ Busy
    BY <1>9, SaysNothing DEF EraseSlot, ReceiveByte, RecordUpdate, hostVars, Busy, Quiet
  <2>2. Written => Written'
    BY <1>9 DEF EraseSlot, ReceiveByte, RecordUpdate, Written
  <2>3. NoCommand => NoCommand'
    BY <1>9, <2>1, TakenOff DEF EraseSlot, ReceiveByte, RecordUpdate, NoCommand
  <2> QED BY <1>1, <1>2, <2>1, <2>2, <2>3
<1>10. CASE ReceiveChunk
  <2>1. Show(Dot) /\ UNCHANGED <<host, line>> /\ Busy /\ ~Written
    BY <1>10 DEF ReceiveChunk, hostVars, Busy, Written, Dot
  <2>2. NoCommand => NoCommand'
    BY <1>10, <2>1, TakenOff DEF ReceiveChunk, NoCommand
  <2> QED BY <1>1, <1>2, <2>1, <2>2
<1>11. CASE Report
  <2> DEFINE out == <<"OK">>
  <2>1. out \in Seq(Printed) /\ ~Contains(out, "READY") /\ ~Contains(out, "prompt")
    BY Outputs DEF Printed, Text, Tokens, Contains
  <2>2. Show(out) /\ UNCHANGED <<host, slot, recorded>> /\ Busy /\ dev = "report" /\ dev' = "done"
    BY <1>11 DEF Report, hostVars, flash, Busy, out
  <2> HIDE DEF out
  <2>3. host # "ready"
    BY <2>2 DEF TransferInv
  <2>4. Asking => ~Contains(toHost', "READY") /\ ~Contains(toHost', "prompt") /\ OkFirst(toHost')
    BY <2>1, <2>2, Shown DEF OutputInv
  <2>5. Fed => Written'
    BY <2>2 DEF TransferInv, DeviceInv, Written
  <2>6. host \notin Waiting => toHost' = <<>>
    BY <2>1, <2>2, Shown
  <2> QED BY <2>2, <2>3, <2>4, <2>5, <2>6 DEF OutputInv, Asking, Fed
<1>12. CASE ResetAfterUpdate
  <2>1. Show(Dot) /\ UNCHANGED host /\ ~Busy' /\ (Written => Written') /\ line' = <<>>
        /\ toDev' \in Suffixes(toDev)
    BY <1>12 DEF ResetAfterUpdate, Restart, Busy, Written, hostVars, flash, Dot
  <2>2. NoCommand => NoCommand'
    BY <2>1, Rests, EmptyHasNone DEF NoCommand, PushTypeOK
  <2> QED BY <1>1, <1>2, <2>1, <2>2
<1> QED BY <1>3, <1>4, <1>5, <1>6, <1>7, <1>8, <1>9, <1>10, <1>11, <1>12, <1>13
        DEF DevStep

LEMMA OutputSteps ==
  ASSUME PushTypeOK, DeviceInv, CommandInv, EchoInv, OutputInv, TransferInv, [Next]_vars
  PROVE  OutputInv'
<1>1. CASE UNCHANGED vars
  BY <1>1 DEF vars, hostVars, devVars, flash, OutputInv, Asking, Fed, Busy, Written, OkFirst
<1>2. CASE PowerCut
  <2> DEFINE out == <<".">>
  <2>1. /\ out \in Seq(Printed)
        /\ ~Contains(out, "READY") /\ ~Contains(out, "OK")
    BY Outputs DEF Printed, Text, Tokens, Contains
  <2>2. Show(out) /\ UNCHANGED host /\ ~Busy' /\ (Written => Written') /\ line' = <<>>
        /\ toDev' \in Suffixes(toDev)
    BY <1>2 DEF PowerCut, Restart, Busy, Written, hostVars, flash
  <2>3. NoCommand => NoCommand'
    BY <2>2, Rests, EmptyHasNone DEF NoCommand, PushTypeOK
  <2> HIDE DEF out
  <2> QED BY <2>1, <2>2, <2>3, OutputKept
<1> QED BY <1>1, <1>2, HostOutput, DeviceOutput DEF Next

----------------------------------------------------------------------------
(* Transfers *)

\* What the device has taken of the running transfer.
Taken == IF dev = "erase" THEN <<>> ELSE slot \o buf

LEMMA Takes ==
  ASSUME PushTypeOK
  PROVE  Taken \in Seq(Bytes)
<1>1. <<>> \in Seq(Bytes) /\ slot \in Seq(Bytes) /\ buf \in Seq(Bytes)
  BY DEF PushTypeOK
<1> QED BY <1>1, ConcatProperties DEF Taken

LEMMA StepsTaken ==
  InStep <=> (Fed /\ dev \in {"erase", "receive"} => Taken \o toDev = SubSeq(Firmware, 1, sent))
  BY DEF InStep, Fed, Taken

\* The next chunk goes behind what has been sent.
LEMMA ChunkIsNext ==
  ASSUME PushTypeOK
  PROVE  SubSeq(Firmware, 1, sent) \o SubSeq(Firmware, sent + 1, ChunkEnd)
           = SubSeq(Firmware, 1, ChunkEnd)
<1>1. /\ Firmware \in Seq(Bytes) /\ sent \in 0..Len(Firmware)
      /\ ChunkEnd \in sent..Len(Firmware)
  BY Sizes DEF ChunkEnd, Least, PushTypeOK, Size
<1>2. 1 \in 1..Len(Firmware) + 1 /\ sent \in 1 - 1..Len(Firmware)
  BY <1>1
<1> QED BY <1>1, <1>2, ConcatAdjacentSubSeq

LEMMA SentInStep ==
  ASSUME PushTypeOK, TransferInv, InStep, SendChunk, dev \in {"erase", "receive"}
  PROVE  Taken \o toDev' = SubSeq(Firmware, 1, sent')
<1> DEFINE chunk == SubSeq(Firmware, sent + 1, ChunkEnd)
<1>1. toDev' = toDev \o chunk /\ sent' = ChunkEnd
  BY DEF SendChunk
<1>2. Taken \o toDev = SubSeq(Firmware, 1, sent)
  <2>1. CASE host = "ready"
    <3>1. Taken = <<>> /\ toDev = <<>> /\ sent = 0
      BY <2>1, ConcatEmptySeq DEF TransferInv, Busy, Taken
    <3>2. <<>> \o <<>> = <<>>
      OBVIOUS
    <3>3. SubSeq(Firmware, 1, 0) = <<>>
      BY SubSeqEmpty
    <3> QED BY <3>1, <3>2, <3>3
  <2>2. CASE Fed
    BY <2>2, StepsTaken
  <2> QED BY <2>1, <2>2 DEF SendChunk, Finds, Fed
<1>3. toDev \in Seq(Bytes) /\ Taken \in Seq(Bytes) /\ chunk \in Seq(Bytes)
  BY Takes, ChunkHasNone DEF PushTypeOK
<1>4. SubSeq(Firmware, 1, sent) \o chunk = SubSeq(Firmware, 1, ChunkEnd)
  BY ChunkIsNext
<1> HIDE DEF chunk
<1>5. Taken \o (toDev \o chunk) = (Taken \o toDev) \o chunk
  <2> QED BY ONLY <1>3
<1> QED BY <1>1, <1>2, <1>4, <1>5

\* A byte that is received moves from the port into the chunk.
LEMMA ByteMoves ==
  ASSUME NEW s \in Seq(Bytes), NEW b \in Seq(Bytes), NEW q \in Seq(Bytes), q # <<>>
  PROVE  (s \o Append(b, Head(q))) \o Tail(q) = (s \o b) \o q
<1>1. <<Head(q)>> \in Seq(Bytes) /\ Tail(q) \in Seq(Bytes) /\ q = <<Head(q)>> \o Tail(q)
  BY TailSteps
<1>2. Append(b, Head(q)) = b \o <<Head(q)>>
  OBVIOUS
<1>3. (s \o (b \o <<Head(q)>>)) \o Tail(q) = (s \o b) \o (<<Head(q)>> \o Tail(q))
  BY <1>1
<1> QED BY <1>1, <1>2, <1>3, Zenon

\* A prefix of the file as long as the file is the file.
LEMMA WholeFile ==
  ASSUME PushTypeOK, NEW s \in Seq(Bytes), NEW q \in Seq(Bytes),
         s \o q = SubSeq(Firmware, 1, sent), Len(s) >= Size
  PROVE  s = Firmware
<1>1. Firmware \in Seq(Bytes) /\ Len(Firmware) = Size /\ sent \in 0..Size /\ Size \in Nat
  BY Sizes DEF PushTypeOK, Size
<1>2. Len(SubSeq(Firmware, 1, sent)) = sent
  BY <1>1
<1>3. Len(s \o q) = Len(s) + Len(q) /\ Len(s) \in Nat /\ Len(q) \in Nat
  BY ONLY ConcatProperties, s \in Seq(Bytes), q \in Seq(Bytes)
<1>4. Len(q) = 0 /\ sent = Size
  BY <1>1, <1>2, <1>3
<1>5. s \o q = s
  <2>1. q = <<>>
    BY <1>4, EmptySeq
  <2> QED BY <2>1, ConcatEmptySeq
<1>6. SubSeq(Firmware, 1, sent) = Firmware
  BY <1>1, <1>4, SubSeqFull
<1> QED BY <1>5, <1>6

LEMMA ReceivedInStep ==
  ASSUME PushTypeOK, TransferInv, InStep, ReceiveByte \/ ReceiveChunk, Fed
  PROVE  (slot' \o buf') \o toDev' = SubSeq(Firmware, 1, sent)
<1>1. PICK c \in Bytes :
        /\ Take(c)
        /\ \/ buf' = Append(buf, c) /\ slot' = slot
           \/ buf' = <<>> /\ slot' = slot \o Append(buf, c)
  BY DEF ReceiveByte, ReceiveChunk, flash
<1>2. slot \in Seq(Bytes) /\ buf \in Seq(Bytes) /\ toDev \in Seq(Bytes)
  BY DEF PushTypeOK
<1>3. toDev # <<>> /\ c = Head(toDev) /\ toDev' = Tail(toDev)
  BY <1>1 DEF Take
<1>4. (slot \o Append(buf, c)) \o toDev' = (slot \o buf) \o toDev
  <2>1. (slot \o Append(buf, Head(toDev))) \o Tail(toDev) = (slot \o buf) \o toDev
    BY <1>2, <1>3, ByteMoves
  <2> QED BY <1>3, <2>1, Zenon
<1>5. (slot \o buf) \o toDev = SubSeq(Firmware, 1, sent)
  BY DEF InStep, Fed, ReceiveByte, ReceiveChunk
<1>6. Append(buf, c) \in Seq(Bytes)
  BY <1>2, AppendProperties
<1>7. slot \o Append(buf, c) \in Seq(Bytes)
  BY <1>2, <1>6, ConcatProperties
<1>8. (slot \o Append(buf, c)) \o <<>> = slot \o Append(buf, c)
  BY <1>7, ConcatEmptySeq
<1> QED BY <1>1, <1>4, <1>5, <1>8

LEMMA StepSteps ==
  ASSUME PushTypeOK, DeviceInv, CommandInv, TransferInv, InStep, [Next]_vars
  PROVE  InStep'
<1> SUFFICES ASSUME Fed', dev' \in {"erase", "receive"}
             PROVE  (IF dev' = "erase" THEN <<>> ELSE slot' \o buf') \o toDev'
                      = SubSeq(Firmware, 1, sent')
  BY DEF InStep, Fed
<1>1. ASSUME UNCHANGED <<dev, slot, buf, toDev, sent>>, Fed
      PROVE  InStep'
  BY <1>1 DEF InStep, Fed
<1>2. CASE UNCHANGED vars \/ Misses \/ LastAck
  BY <1>1, <1>2 DEF vars, hostVars, devVars, flash, Misses, LastAck, Finds, Fed, InStep
<1>3. CASE SendChunk
  <2>1. UNCHANGED <<dev, slot, buf>>
    BY <1>3 DEF SendChunk, Finds, devVars, flash
  <2> QED BY <1>3, <2>1, SentInStep DEF Taken
<1>4. CASE EraseSlot
  <2>1. <<>> \o <<>> = <<>> /\ dev = "erase" /\ dev' = "receive" /\ slot' = <<>> /\ buf' = <<>>
        /\ toDev' = toDev /\ sent' = sent /\ Fed
    BY <1>4 DEF EraseSlot, DeviceInv, hostVars, Fed
  <2> QED BY <2>1 DEF InStep, Fed
<1>5. CASE ReceiveByte \/ ReceiveChunk
  <2>1. dev' # "erase" /\ sent' = sent /\ Fed
    BY <1>5 DEF ReceiveByte, ReceiveChunk, hostVars, Fed
  <2> QED BY <1>5, <2>1, ReceivedInStep
<1>6. CASE CmdOta
  <2>1. Contains(line, "ota") /\ dev = "app" /\ UNCHANGED host
    BY <1>6 DEF CmdOta, IsOta, Contains, PushTypeOK, hostVars
  <2> QED BY <2>1 DEF CommandInv, Fed
<1>7. ~(SendCommand \/ Success \/ Connect \/ Refresh \/ GiveUp)
  BY DEF SendCommand, Success, Connect, Refresh, GiveUp, Fed
<1>8. ~(Wake \/ AutoBoot \/ StartUpdate \/ MarkValid \/ ShellByte \/ OtherLine \/ Typed \/ RecordUpdate \/ Report
        \/ ResetAfterUpdate \/ PowerCut)
  BY DEF Wake, AutoBoot, ShellByte, OtherLine, Typed, RecordUpdate, Report,
         ResetAfterUpdate, PowerCut, Restart, StartUpdate, MarkValid
<1> QED BY <1>2, <1>3, <1>4, <1>5, <1>6, <1>7, <1>8 DEF Next, DevStep, HostStep

LEMMA HostTransfers ==
  ASSUME PushTypeOK, OutputInv, TransferInv, HostStep \/ Connect \/ Refresh \/ GiveUp
  PROVE  TransferInv'
<1>1. UNCHANGED devVars
  BY DEF HostStep, Misses, SendCommand, SendChunk, LastAck, Success, Finds, Connect,
         Refresh, GiveUp
<1>2. UNCHANGED <<Written, dev, slot, buf>> /\ (Busy' <=> Busy)
  BY <1>1 DEF devVars, flash, Written, Busy
<1>3. CASE Misses
  BY <1>2, <1>3 DEF Misses, hostVars, TransferInv, Fed
<1>4. CASE SendCommand
  <2>1. PICK n \in 1..Len(toHost) : Contains(Received(n), "prompt")
    BY <1>4 DEF SendCommand, Finds, Wanted
  <2>2. Contains(toHost, "prompt")
    BY <2>1, ReadWasUnread
  <2>3. ~Busy /\ sent' = 0 /\ host' = "ready"
    BY <1>4, <2>2 DEF SendCommand, Finds, Asking, OutputInv, TransferInv
  <2> QED BY <1>2, <2>3 DEF TransferInv, Fed
<1>5. CASE SendChunk \/ LastAck
  <2>1. host' \in {"ack", "finish"} /\ (host = "ready" \/ Fed)
    BY <1>5 DEF SendChunk, LastAck, Finds, Fed
  <2> QED BY <1>2, <2>1 DEF TransferInv, Busy, Fed
<1>6. CASE Success
  BY <1>2, <1>6 DEF Success, Wanted, OutputInv, TransferInv, Fed
<1>7. CASE Connect \/ Refresh \/ GiveUp
  BY <1>2, <1>7 DEF Connect, Refresh, GiveUp, TransferInv, Fed
<1> QED BY <1>3, <1>4, <1>5, <1>6, <1>7 DEF HostStep

\* No flash write of a step that is not a transfer's takes back an update.
LEMMA WrittenStays ==
  ASSUME PushTypeOK, Written, DevStep \/ PowerCut, ~CmdOta
  PROVE  Written'
<1>1. CASE PowerCut
  BY <1>1 DEF PowerCut, Restart, Written, flash
<1>2. CASE DevStep
  BY <1>2 DEF DevStep, Wake, AutoBoot, StartUpdate, MarkValid, ShellByte, OtherLine, Typed, EraseSlot, ReceiveByte,
              ReceiveChunk, RecordUpdate, Report, ResetAfterUpdate, Restart, Written, flash
<1> QED BY <1>1, <1>2

LEMMA DeviceTransfers ==
  ASSUME PushTypeOK, DeviceInv, CommandInv, TransferInv, InStep, DevStep \/ PowerCut
  PROVE  TransferInv'
<1>1. UNCHANGED hostVars
  BY DEF DevStep, Wake, AutoBoot, StartUpdate, MarkValid, ShellByte, CmdOta, OtherLine, Typed, EraseSlot,
         ReceiveByte, ReceiveChunk, RecordUpdate, Report, ResetAfterUpdate, PowerCut, Restart
<1>2. CmdOta => host = "ready"
  BY DEF CmdOta, IsOta, Contains, PushTypeOK, CommandInv
<1>3. host' = "ok" => Written'
  BY <1>1, <1>2, WrittenStays DEF TransferInv, hostVars
<1>4. ASSUME host = "ready", Busy'
      PROVE  /\ dev' \in {"erase", "receive"} /\ toDev' = <<>> /\ buf' = <<>>
             /\ dev' = "receive" => slot' = <<>>
  <2>1. CASE CmdOta
    BY <2>1 DEF CmdOta, DeviceInv
  <2>2. CASE ~CmdOta
    <3>1. EraseSlot \/ ReceiveByte \/ ReceiveChunk \/ RecordUpdate \/ Report
      BY <1>4, <2>2 DEF DevStep, Wake, AutoBoot, StartUpdate, MarkValid, ShellByte, OtherLine, Typed,
         ResetAfterUpdate, PowerCut, Restart, Busy
    <3>2. dev \in {"erase", "receive"} /\ toDev = <<>> /\ buf = <<>>
      BY <1>4, <3>1 DEF EraseSlot, ReceiveByte, ReceiveChunk, RecordUpdate, Report, Busy,
         TransferInv
    <3>3. EraseSlot
      BY <3>1, <3>2 DEF ReceiveByte, ReceiveChunk, RecordUpdate, Report, Take
    <3> QED BY <3>2, <3>3 DEF EraseSlot
  <2> QED BY <2>1, <2>2
<1>5. ASSUME Fed, dev' \in {"record", "report", "done"}
      PROVE  slot' = Firmware
  <2>1. CASE ReceiveChunk
    <3>1. (slot' \o buf') \o toDev' = SubSeq(Firmware, 1, sent)
      BY <1>5, <2>1, ReceivedInStep
    <3>2. slot' \in Seq(Bytes) /\ toDev' \in Seq(Bytes) /\ buf' = <<>>
      BY <2>1, PushTypes DEF Next, DevStep, PushTypeOK, ReceiveChunk
    <3>3. slot' \o <<>> = slot'
      BY <3>2, ConcatEmptySeq
    <3>4. slot' \o toDev' = SubSeq(Firmware, 1, sent)
      BY <3>1, <3>2, <3>3
    <3>5. Len(slot') >= Size
      BY <1>5, <2>1 DEF ReceiveChunk
    <3> QED BY <3>2, <3>4, <3>5, WholeFile
  <2>2. CASE ~ReceiveChunk
    <3>1. dev \in {"record", "report", "done"} /\ slot' = slot
      BY <1>2, <1>5, <2>2 DEF DevStep, Wake, AutoBoot, StartUpdate, MarkValid, ShellByte, OtherLine, Typed,
         EraseSlot, ReceiveByte, RecordUpdate, Report, ResetAfterUpdate, PowerCut,
         Restart, Fed, flash
    <3> QED BY <1>5, <3>1 DEF TransferInv
  <2> QED BY <2>1, <2>2
<1> QED BY <1>1, <1>3, <1>4, <1>5 DEF TransferInv, Busy, Fed, Written, hostVars

LEMMA TransferSteps ==
  ASSUME PushTypeOK, DeviceInv, CommandInv, OutputInv, TransferInv, InStep, [Next]_vars
  PROVE  TransferInv'
<1>1. CASE UNCHANGED vars
  BY <1>1 DEF vars, hostVars, devVars, flash, TransferInv, Busy, Fed, Written
<1> QED BY <1>1, HostTransfers, DeviceTransfers DEF Next

----------------------------------------------------------------------------
(* The protocol *)

LEMMA InitialTypes == Init => PushTypeOK /\ DeviceInv
<1> SUFFICES ASSUME Init PROVE PushTypeOK /\ DeviceInv
  OBVIOUS
<1>1. <<>> \in Seq(Bytes) /\ <<>> \in Seq(Printed) /\ Len(<<>>) = 0
  OBVIOUS
<1>2. 0 \in 0..Size /\ 0 \in 0..MaxSessions /\ 0 < CHUNK /\ 0 <= Size
  BY Sizes, PushAssumption
<1> QED BY <1>1, <1>2 DEF Init, PushTypeOK, Polling, DeviceInv

LEMMA PushInvHolds ==
  ASSUME Plain PROVE Spec => []PushInv
<1>1. Init => PushInv
  BY InitialTypes, EmptyHasNone
     DEF Init, PushInv, CommandInv, EchoInv, OutputInv, TransferInv, InStep, Asking, Fed,
         Busy, Waiting
<1>2. PushInv /\ [Next]_vars => PushInv'
  BY PushTypes, DeviceSteps, CommandSteps, EchoSteps, OutputSteps, TransferSteps, StepSteps DEF PushInv
<1> QED BY <1>1, <1>2, PTL DEF Spec

(* For every file, chunk length and number of sessions the state of host and
   device is well typed: the chunk buffer never overflows and the slot never
   takes more than the file (test_app.c 188-211). *)
THEOREM PushTypeCorrect == Spec => []PushTypeOK
<1>1. Init => PushTypeOK /\ DeviceInv
  BY InitialTypes
<1>2. PushTypeOK /\ DeviceInv /\ [Next]_vars => (PushTypeOK /\ DeviceInv)'
  BY PushTypes, DeviceSteps
<1> QED BY <1>1, <1>2, PTL DEF Spec

(* Whatever earlier sessions, timeouts and power cuts left in the port, what
   the device has taken and what is on the wire are what the script has sent,
   for a file that holds neither "READY" nor "OK": with both a prompt and a READY
   in it an echo could be taken for the device's own answer. *)
THEOREM TransferInStep == Plain => (Spec => []InStep)
<1> SUFFICES ASSUME Plain PROVE Spec => []InStep
  OBVIOUS
<1>1. PushInv => InStep
  BY DEF PushInv
<1>2. Spec => []PushInv
  BY PushInvHolds
<1> QED BY <1>1, <1>2, PTL

(* The script reports success only for a complete and recorded update, if the
   file holds neither "READY" nor "OK". *)
THEOREM SuccessIsDelivery == Plain => (Spec => []ReportedIsDelivered)
<1> SUFFICES ASSUME Plain PROVE Spec => []ReportedIsDelivered
  OBVIOUS
<1>1. PushInv => ReportedIsDelivered
  BY DEF PushInv, TransferInv, Written, ReportedIsDelivered
<1>2. Spec => []PushInv
  BY PushInvHolds
<1> QED BY <1>1, <1>2, PTL
=============================================================================
