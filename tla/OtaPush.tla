------------------------------- MODULE OtaPush -------------------------------
(***************************************************************************)
(* The update protocol: ota_push.py on the host and the device's serial     *)
(* port.  The host's only evidence is what it reads; what it reads past a   *)
(* marker it throws away.  The device's bytes come from one FIFO, which the *)
(* bootloader's shell, the application's command loop and the firmware      *)
(* receiver drain in turn, whatever each byte was meant for.                *)
(*                                                                          *)
(* A byte is known by how a reader treats it; the texts somebody looks for,  *)
(* "ota <size>", "READY", "OK" and the prompt, are one byte each.  Of what   *)
(* the device says by itself only the markers the host looks for are kept,   *)
(* and a text with a full stop in it is a "."; what it is sent it prints     *)
(* back, byte for byte.                                                      *)
(***************************************************************************)
EXTENDS Naturals, SequencesExt

CONSTANTS
  Firmware,     \* the image file, a sequence of bytes
  CHUNK,        \* bytes per acknowledgement (256)
  ShellLine,    \* room in the line of the shell (63)
  AppLine,      \* and of the command loop (95)
  MaxSessions,  \* bound: how often somebody runs ota_push.py
  MaxOut        \* bound: unread output at which no power cut is considered

Tokens   == {"prompt", "READY", "OK"}
Text     == {"text", "."} \cup Tokens
Printed  == Text \cup {"ota"}              \* printable, and so echoed
Content  == Text \cup {"CR", "LF", "BS", "other"}
Bytes    == Content \cup {"ota"}
Size     == Len(Firmware)

\* No line of the file is a command of the shell or of the application.
ASSUME PushAssumption ==
  /\ Firmware \in Seq(Content) /\ Firmware # <<>>
  /\ {CHUNK, ShellLine, AppLine} \subseteq Nat \ {0} /\ {MaxSessions, MaxOut} \subseteq Nat

VARIABLES
  host,      \* what the script waits for, or how it ended
  sent,      \* bytes of the firmware handed to the socket
  sessions,  \* runs of the script so far
  toDev,     \* bytes the device has not read
  toHost,    \* output the host has not read; lost when nobody is connected
  dev,       \* what the device is at
  line,      \* the line the shell or the command loop has collected
  saw_cr,    \* the command loop's last byte was a carriage return
  buf,       \* the chunk being received
  slot,      \* what is programmed in ota_0
  recorded   \* whether otadata sector 0 names ota_0

hostVars == <<host, sent, sessions>>
flash    == <<slot, recorded>>
devVars  == <<dev, line, saw_cr, buf, flash>>
vars     == <<hostVars, devVars, toDev, toHost>>

Waiting == {"prompt", "refresh", "ready", "ack", "finish"}
Polling == {"countdown", "shell", "app", "receive", "confirm"}

PushTypeOK ==
  /\ host \in Waiting \cup {"idle", "ok", "failed"}
  /\ sent \in 0..Size /\ sessions \in 0..MaxSessions
  /\ toDev \in Seq(Bytes) /\ toHost \in Seq(Printed)
  /\ dev \in Polling \cup {"erase", "record", "report", "done"}
  /\ line \in Seq(Printed) /\ saw_cr \in BOOLEAN
  /\ buf \in Seq(Bytes) /\ Len(buf) < CHUNK
  /\ slot \in Seq(Bytes) /\ Len(slot) <= Size
  /\ recorded \in {"no", "yes", "taken"}

Init ==
  /\ host = "idle" /\ sent = 0 /\ sessions = 0
  /\ toDev = <<>> /\ toHost = <<>>
  /\ dev = "countdown" /\ line = <<>> /\ saw_cr = FALSE /\ buf = <<>>
  /\ slot = <<>> /\ recorded = "no"

----------------------------------------------------------------------------
(* The device *)

Show(out) == toHost' = IF host \in Waiting THEN toHost \o out ELSE toHost

Take(c) == toDev # <<>> /\ c = Head(toDev) /\ toDev' = Tail(toDev)

\* The bootloader finds the delivered image in ota_0 and runs it; it is a
\* build without the ota command.
UpdateBoots == recorded = "yes" /\ slot = Firmware

\* run_shell: the countdown polls for a key and drops it.
Wake ==
  /\ dev = "countdown" /\ toDev # <<>>
  /\ dev' = "shell" /\ toDev' = Tail(toDev) /\ Show(<<".">>)
  /\ UNCHANGED <<hostVars, line, saw_cr, buf, flash>>

\* The boot messages, then the application's banner and prompt.
AutoBoot ==
  /\ dev = "countdown" /\ toDev = <<>> /\ ~UpdateBoots
  /\ dev' = "app" /\ Show(<<".", "prompt">>)
  /\ UNCHANGED <<hostVars, line, saw_cr, buf, flash, toDev>>

\* The update erases the record that selected it before it says anything ...
StartUpdate ==
  /\ dev = "countdown" /\ toDev = <<>> /\ UpdateBoots
  /\ dev' = "confirm" /\ recorded' = "taken" /\ Show(<<".">>)
  /\ UNCHANGED <<hostVars, line, saw_cr, buf, slot, toDev>>

\* ... and writes it again.
MarkValid ==
  /\ dev = "confirm"
  /\ dev' = "app" /\ recorded' = "yes" /\ Show(<<".", "prompt">>)
  /\ UNCHANGED <<hostVars, line, saw_cr, buf, slot, toDev>>

\* What a line editor with room for so many bytes makes of one: it echoes what
\* it keeps.
Edit(c, room) ==
  \/ c \in Printed /\ Len(line) < room /\ line' = Append(line, c) /\ Show(<<c>>)
  \/ c = "BS" /\ line # <<>> /\ line' = Front(line) /\ UNCHANGED toHost
  \/ /\ (c \in Printed => Len(line) >= room) /\ (c = "BS" => line = <<>>)
     /\ UNCHANGED <<line, toHost>>

\* Nothing here types "boot" or "reboot": the shell keeps what wakes it.
ShellByte ==
  /\ dev = "shell"
  /\ \E c \in Bytes :
       /\ Take(c)
       /\ IF c \in {"CR", "LF"}
            THEN line' = <<>> /\ Show(IF line # <<>> THEN <<".">> ELSE <<>>)
            ELSE Edit(c, ShellLine)
  /\ UNCHANGED <<hostVars, dev, saw_cr, buf, flash>>

IsOta == line # <<>> /\ line[1] = "ota" /\ ~UpdateBoots

EndsLine(c) == c = "CR" \/ (c = "LF" /\ ~saw_cr)

\* Mutant: what follows the carriage return stays in the FIFO.
CmdOta_NoDrain ==
  /\ dev = "app" /\ IsOta
  /\ \E c \in Bytes : Take(c) /\ EndsLine(c) /\ saw_cr' = (c = "CR")
  /\ line' = <<>> /\ Show(<<"READY">>) /\ dev' = "erase"
  /\ UNCHANGED <<hostVars, buf, flash>>

\* cmd_ota up to READY: everything that has arrived is drained.
CmdOta ==
  /\ dev = "app" /\ IsOta /\ toDev # <<>> /\ EndsLine(Head(toDev))
  /\ saw_cr' = (Head(toDev) = "CR")
  /\ line' = <<>> /\ toDev' = <<>> /\ Show(<<"READY">>) /\ dev' = "erase"
  /\ UNCHANGED <<hostVars, buf, flash>>

\* The other commands only print; an unknown one is printed back.
OtherLine ==
  /\ dev = "app" /\ ~IsOta
  /\ \E c \in Bytes : Take(c) /\ EndsLine(c) /\ saw_cr' = (c = "CR")
  /\ Show(line \o <<"prompt">>) /\ line' = <<>>
  /\ UNCHANGED <<hostVars, dev, buf, flash>>

Typed ==
  /\ dev = "app"
  /\ \E c \in Bytes :
       /\ Take(c) /\ ~EndsLine(c)
       /\ Edit(c, AppLine)
       /\ saw_cr' = (saw_cr /\ c = "other")
  /\ UNCHANGED <<hostVars, dev, buf, flash>>

\* Mutant: the port is drained after READY was sent.
EraseSlot_LateDrain ==
  /\ dev = "erase"
  /\ slot' = <<>> /\ dev' = "receive" /\ toDev' = <<>>
  /\ UNCHANGED <<hostVars, line, saw_cr, buf, recorded, toHost>>

EraseSlot ==
  /\ dev = "erase"
  /\ slot' = <<>> /\ dev' = "receive"
  /\ UNCHANGED <<hostVars, line, saw_cr, buf, recorded, toDev, toHost>>

Least(a, b) == IF a <= b THEN a ELSE b

\* Mutant: the last chunk is awaited in full.
ChunkLen_Full == CHUNK

ChunkLen == Least(Size - Len(slot), CHUNK)

ReceiveByte ==
  /\ dev = "receive" /\ Len(buf) + 1 < ChunkLen
  /\ \E c \in Bytes : Take(c) /\ buf' = Append(buf, c)
  /\ UNCHANGED <<hostVars, dev, line, saw_cr, flash, toHost>>

\* The byte that completes a chunk: the chunk is programmed and acknowledged.
ReceiveChunk ==
  /\ dev = "receive" /\ Len(buf) + 1 >= ChunkLen
  /\ \E c \in Bytes : Take(c) /\ slot' = slot \o Append(buf, c)
  /\ buf' = <<>> /\ Show(<<".">>)
  /\ dev' = IF Len(slot') >= Size THEN "record" ELSE "receive"
  /\ UNCHANGED <<hostVars, line, saw_cr, recorded>>

RecordUpdate ==
  /\ dev = "record"
  /\ recorded' = "yes" /\ dev' = "report"
  /\ UNCHANGED <<hostVars, line, saw_cr, buf, slot, toDev, toHost>>

Report ==
  /\ dev = "report"
  /\ Show(<<"OK">>) /\ dev' = "done"
  /\ UNCHANGED <<hostVars, line, saw_cr, buf, flash, toDev>>

\* A reset may lose what the port has received; the bootloader's banner ends
\* in full stops.
Restart ==
  /\ dev' = "countdown" /\ line' = <<>> /\ saw_cr' = FALSE /\ buf' = <<>>
  /\ toDev' \in Suffixes(toDev) /\ Show(<<".">>)
  /\ UNCHANGED hostVars

ResetAfterUpdate == dev = "done" /\ Restart /\ UNCHANGED flash

\* Also in the middle of the erase of the slot, or between the erase and the write
\* of the record.
PowerCut ==
  /\ Len(toHost) < MaxOut /\ Restart
  /\ \/ UNCHANGED flash
     \/ dev = "erase" /\ slot' = <<>> /\ UNCHANGED recorded
     \/ dev = "record" /\ recorded' = "no" /\ UNCHANGED slot

----------------------------------------------------------------------------
(* The host *)

Connect ==
  /\ host \in {"idle", "ok", "failed"} /\ sessions < MaxSessions
  /\ host' = "prompt" /\ sent' = 0 /\ sessions' = sessions + 1
  /\ UNCHANGED <<devVars, toDev, toHost>>

\* recv_until reads what has arrived, any amount of it, and throws it all away
\* once the marker is in it.
Received(n) == SubSeq(toHost, 1, n)
Unread(n)   == SubSeq(toHost, n + 1, Len(toHost))

Wanted ==
  CASE host \in {"prompt", "refresh"} -> "prompt"
    [] host = "ready"  -> "READY"
    [] host = "ack"    -> "."
    [] host = "finish" -> "OK"

Misses ==
  /\ host \in Waiting
  /\ \E n \in 1..Len(toHost) :
       ~Contains(Received(n), Wanted) /\ toHost' = Unread(n)
  /\ UNCHANGED <<hostVars, devVars, toDev>>

Finds(waiting) ==
  /\ host \in waiting
  /\ \E n \in 1..Len(toHost) :
       Contains(Received(n), Wanted) /\ toHost' = Unread(n)
  /\ UNCHANGED <<devVars, sessions>>

SendCommand ==
  /\ Finds({"prompt", "refresh"})
  /\ host' = "ready" /\ toDev' = toDev \o <<"ota", "CR", "LF">>
  /\ UNCHANGED sent

ChunkEnd == Least(sent + CHUNK, Size)

\* READY and every "." but the last are answered with the next chunk.
SendChunk ==
  /\ Finds({"ready", "ack"}) /\ sent < Size
  /\ toDev' = toDev \o SubSeq(Firmware, sent + 1, ChunkEnd)
  /\ host' = "ack" /\ sent' = ChunkEnd

LastAck ==
  /\ Finds({"ack"}) /\ sent = Size
  /\ host' = "finish" /\ UNCHANGED <<sent, toDev>>

\* The script closes its socket: what it has not read is gone.
Success ==
  /\ host = "finish" /\ Contains(toHost, Wanted)
  /\ host' = "ok" /\ toHost' = <<>>
  /\ UNCHANGED <<sent, sessions, devVars, toDev>>

\* A device that polls its port reads in microseconds what the host waits
\* seconds for; it is away from the port while it erases and programs.
MayTimeOut == dev \in Polling => toDev = <<>>

Refresh ==
  /\ host = "prompt" /\ MayTimeOut
  /\ host' = "refresh" /\ toDev' = toDev \o <<"CR", "LF">>
  /\ UNCHANGED <<sent, sessions, devVars, toHost>>

GiveUp ==
  /\ host \in Waiting \ {"prompt"} /\ MayTimeOut
  /\ host' = "failed" /\ toHost' = <<>>
  /\ UNCHANGED <<sent, sessions, devVars, toDev>>

----------------------------------------------------------------------------
DevStep ==
  \/ Wake \/ AutoBoot \/ StartUpdate \/ MarkValid \/ ShellByte \/ CmdOta \/ OtherLine \/ Typed
  \/ EraseSlot \/ ReceiveByte \/ ReceiveChunk \/ RecordUpdate \/ Report
  \/ ResetAfterUpdate

HostStep == Misses \/ SendCommand \/ SendChunk \/ LastAck \/ Success

Next == DevStep \/ HostStep \/ Connect \/ Refresh \/ GiveUp \/ PowerCut

Spec == Init /\ [][Next]_vars

\* Both ends run their one thread; nobody has to start a session, and neither
\* a timeout nor a power cut has to happen.
LiveSpec == Spec /\ WF_vars(DevStep) /\ WF_vars(HostStep)

----------------------------------------------------------------------------
\* A file that holds neither of the two words the device answers with.
Plain == ~Contains(Firmware, "READY") /\ ~Contains(Firmware, "OK")

(* ota_push.py 78-108, test_app.c 167-222: when the script reports success,
   ota_0 holds the file and otadata names it, or did until the update itself
   erased the record to confirm it.  So it is for a plain file, whatever earlier
   sessions, timeouts and power cuts left in the serial port.  One with an "OK"
   in it need not be delivered: after a restart the shell or the application
   sends that back. *)
ReportedIsDelivered == host = "ok" => slot = Firmware /\ recorded # "no"

(* While a plain file is transferred, what is programmed, what waits in the chunk
   buffer and what is still on the wire make up what the host has sent: no byte
   is drained, left over or taken from another session (test_app.c 175-209). *)
InStep ==
  host \in {"ack", "finish"} /\ dev \in {"erase", "receive"} =>
    (IF dev = "erase" THEN <<>> ELSE slot \o buf) \o toDev = SubSeq(Firmware, 1, sent)

(* Host and device never wait for each other: a transfer that runs ends with
   the update recorded unless the host gives up or the device restarts. *)
TransferEnds ==
  host = "ack" /\ dev \in {"erase", "receive"} ~>
    UpdateBoots \/ host = "failed" \/ dev = "countdown"
=============================================================================
