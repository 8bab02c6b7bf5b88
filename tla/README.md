# Verification of the ESP32-C3 bootloader

TLA+ models of the second-stage bootloader in `src/`, of the test application
(`test_app.c`) that is updated through it and of the host script
(`ota_push.py`) that sends the updates; TLC configurations that check them on
small instances; theorems about them, for all values of the constants, checked
by TLAPS. Paths below are relative to the repository; `utility.rs` and the other
Rust files are those of its `src/` directory.

To check a run: `tlc -config MCBootloader.cfg MCBootloader.tla` (likewise for
the other `.cfg` files). To check the proofs: `tlapm BootloaderProofs.tla`,
etc.

## 1. The system

The ROM loads the bootloader into RAM and jumps to it. One thread, no
interrupts: initialise the chip, offer a shell for five seconds, read the
partition table, decide which partition to boot, try partitions until an image
loads, record the boot in flash, jump. The application runs until something
resets the chip. What survives a reset is flash, the status registers of the
flash chip and a few words of RTC memory.

| component | state it keeps | operations | properties that make it correct |
|---|---|---|---|
| otadata (`utility.rs` 40-160) | two sectors, each with an entry: sequence number, state, CRC | validity, active entry, CRC | an entry names slot `seq - 1`; a half-written entry is never taken for one |
| boot selection (`utility.rs` 386-545) | the copy of both entries, the index of the sweep | read otadata, abort pass (each `PENDING_VERIFY` becomes `ABORTED`), choose, GPIO overrides, factory reset | the pass may be cut anywhere and repeated; what is selected does not depend on when the power was cut; a boot that cannot read otadata does no harm to the next |
| sweep and boot record (`utility.rs` 335-379, 555-640) | sweep index | try, go down to factory, go up, record the boot in the other otadata sector, give up | no partition is left out; recording never destroys the entry this boot was chosen from; a boot attempt ends |
| partition table (`partition.rs`) | `BootloaderState`: factory, test, slots, `app_count`, otadata | verify each entry, load each entry | accepted partitions are disjoint and in flash; `app_count` is one past the highest slot |
| image loader (`image.rs`) | `EspImageMetadata`, shared by all tries | header, segments, checksum, hash, signature, anti-rollback | only sound images start; a failed try leaves nothing behind; no copy lands on the bootloader, under either address of the SRAM |
| flash driver (`flash.rs`) | one mapping and its 4 KB buffer, the MMU window, the chip's status registers | initialise, unlock, enable quad mode, mmap, munmap, read, erase, program | a command is never sent to a busy chip; what reports success has happened; quad reads only with the quad enable bit; a mapping holds what flash holds |
| SHA-256 (`sha256.rs`) | two contexts and their use flags, a partly filled block each | start, data, finish, abort | a digest is that of what its own client fed, in whatever pieces; no context is lost or shared |
| factory reset and retained memory (`utility.rs` 392-422) | progress of the erasing, flag and checksum in RTC memory | erase by label, set the flag, seal it | nothing else is erased; the flag is not sealed before everything is erased |
| application start (`utility.rs`) | the MMU table | map the data and the code segment, jump | each byte of a segment is seen at its load address, nothing else is mapped |
| shell (`init.rs` 626-700) | input line | countdown, `boot`, `reboot` | without a key press the chip boots |
| test application (`test_app.c`) | command line, progress of an update | v1: `ota` command; v2: mark itself valid | a reported update runs; an interrupted one can be repeated |
| host updater (`ota_push.py`) | what it waits for, offset | wait for prompt, command, chunks, OK | success is reported only for a complete update |

Components meet in three ways. Calls inside the bootloader (table, selection,
loader, record) are sequential. The bootloader and the applications share the
flash and never run together: what one leaves behind, a power cut included, is
what the other starts from. Host and device share a serial line, on which the
bootloader's shell, the application's command loop and the firmware receiver
read the same FIFO in turn.

What is hard here: a power cut between an erase and the write that belongs to
it, or inside either; flash errors that the code ignores, and failed reads that
it takes for "nothing there"; otadata read twice in one boot; one partition found
by its label and by its subtype; SRAM with two addresses; state left over by
earlier boots, earlier tries, an earlier session of the host or, in the flash chip's own registers, by the application; a window
and a cache that may show a page that was mapped before; a buffer that carries
part of a block from one call to the next; arithmetic that wraps; a sweep with
several exits; timeouts and late answers on the serial line. `PROJECT.json`
lists each hazard at the line where it bites, with the properties that cover it.

## 2. Modules

| module | models | of |
|---|---|---|
| `OtaData` | entries, validity, choice of entry and sector, torn writes and erases | `utility.rs` |
| `Bootloader` | the boot flow from the shell to the jump, one step for each flash command | `main.rs`, `utility.rs` |
| `BootPolicy` | abstract: which partition may run, given what is bootable and what is recorded | - |
| `TestApp` | `Bootloader` with the repository's own application in place of an arbitrary one | `test_app.c` |
| `PartitionTable` | verification and loading of the table, entry by entry | `partition.rs` |
| `FactoryReset` | the factory reset over the loaded table, sector by sector; extends `PartitionTable` | `utility.rs`, `flash.rs` |
| `ImageLoad` | `bootloader_load_image` for a sequence of tries, with mapping, pool, metadata, RAM | `image.rs`, `flash.rs`, `sha256.rs` |
| `SpiFlash` | the flash chip and the commands the driver sends it | `flash.rs` |
| `FlashRead` | reading through the buffer and the MMU window, starting an application; extends `SpiFlash` | `flash.rs`, `utility.rs`, `soc.rs` |
| `Sha256Stream` | the pool of contexts, the buffering between pieces and blocks, the padding | `sha256.rs` |
| `OtaPush` | the update protocol, byte by byte, host and device | `ota_push.py`, `test_app.c`, `init.rs` |
| `MC*` | instances for TLC | - |
| `BootloaderProofs`, `TestAppProofs` | proofs about `Bootloader`, and about `TestApp` from them | - |
| `PartitionTableProofs`, `ImageProofs`, `FlashProofs`, `Sha256Proofs`, `PushProofs` | proofs about `PartitionTable` and `FactoryReset`, `ImageLoad`, `FlashRead`, `Sha256Stream`, `OtaPush` | - |
| `Division` | lemmas about `\div` and `%` by a number that is not a numeral | - |

`map` in `PROJECT.json` gives the lines each definition stands for. An operator
whose comment begins with "Mutant" is a plausible bug in the definition after
it and no part of the model.

### Bootloader, OtaData

`pc` is the place in the code: `shell`, `table`, `read`, `abort` and
`abortwrite` (the pass over both entries), `gpio`, `wipe` (factory reset),
`test`, `back` and `fwd` (the two sweeps), `mark` and `markwrite`
(`set_actual_ota_seq`), `app`. `two` is the stack copy `two_otadata`, `start`
and `i` are the indexes of `bootloader_utility_load_boot_image`, `again` the
second selection after a factory reset. Indexes are those of the code: -1
factory, -2 test, slots from 0.

An entry keeps its sequence number (which wraps below 0 as `wrapping_sub`
does), its state and whether the stored CRC matches; the CRC covers the sequence
number only, which is why an entry with a damaged state can still be valid.
`TornWrites` and `TornErases` give what a power cut inside a program or an erase
leaves. A program goes through the words in order. An erase that is cut leaves
any words; if it has not touched `ota_seq` and the CRC the entry is still valid, in
another state. The constant `StateTears` lets that happen, so that what holds
without it can be told from what holds with it. `EraseMayFail` and
`WriteMayFail` let the flash driver report errors, which `utility.rs` ignores.
`PowerLoss` may fall before every step and into every flash command. Which button
is held at `gpio` is an open choice.

Any `bootloader_mmap` of the boot may return null. `MapFails` is that of the
table (the chip is reset), of the table again in a factory reset (nothing is
erased), of otadata (factory is selected and the abort pass left out) and of
otadata in `set_actual_ota_seq` (no record is written). `ImageMapFails` is any mapping of the
image that is tried: it refuses an image, but for that of the descriptor, which
`check_anti_rollback` takes for an allowed version; `Loads` and `Fails` are the
outcomes a try may have. `unread` and `missed` remember which step or
partition could not be read, each once in an attempt; a read that fails is
independent of one that works later, so a table that fails to be mapped and a bad
table are not the same thing.

The selection finds otadata by its subtype (`otaInfo`), the factory reset by its
label (`labelled`). `Wipes` says when a factory reset reaches the otadata the
selection reads; if it does not, `WipeDone` goes on to the second selection all
the same, as the code does.

While `pc = "app"` an arbitrary application writes any of `AppEntries` to either
sector and any of `Images` to any partition; a reset in the middle of such a write
(`AppPowerLoss`) leaves any of them as well. Loading an image is one step here:
`Loadable` and `Loads` are what `ImageLoad` refines. The table is read in one
step: `LayoutAssumption` is what `PartitionTable` proves of it.

### TestApp

The v1 build erases slot 0, receives into it, erases and writes otadata sector 0,
resets. The v2 build erases and writes sector 0 whenever it starts. Each of
these is a step; the power may be cut between and inside them. The transfer is
one step. The application writes to fixed places and only to sector 0, so it
relies on how the device was provisioned: `TestAppAssumption` says that `ota_0`
and otadata are there and that sector 1 starts with nothing that outranks slot 0.
`AppEntries` is every entry there is, torn ones included, so that `TestApp` is a
refinement of `Bootloader` (`ImplementsBootloader`): its application is one of
the applications the bootloader is proved for.

### PartitionTable

One step for each entry in each pass; word arithmetic wraps at `SeqMax`; a
label, a magic and an MD5 entry matter only by passing or failing their check.

### FactoryReset

`bootloader_erase_partitions_by_label` as the walk over the entries that it is:
`entry` and `sector` are its two loop indexes, `erased` the sectors it has erased
so far, `rtc` the retained memory, known by its checksum being right and by its
flag. An erase may fail, which ends the partition and is ignored; mapping the
table again may fail, which erases nothing and is ignored too; the chip may be
reset between any two steps, and the flag is set and sealed in two. Three facts
about the code show here. The reset finds partitions by label and the selection
finds otadata by subtype: a table may have one and not the other (section 3). Erased is whole
sectors, and nothing checks that a partition starts and ends at one
(`MIN_PART_OFFSET`, 0x8C00, does not), so `ResetConfined` and `FlagMeansErased`
are about partitions that do. And results are ignored, so `FlagMeansErased` is
about erases that worked.

### SpiFlash, FlashRead

A step of `SpiFlash` is one command on the SPI bus. A status register is the set of
its bits that are 1; the write enable latch and the busy bit are variables; a
busy chip ignores commands, a write without the latch does nothing, a locked chip
keeps its registers. `mem` is what a sector holds, `said` what the results of
`bootloader_flash_erase_sector` and `bootloader_flash_write` say of it. `Restart`
leaves the status registers as an application or a torn initialisation may.
`ReadFlashId` keeps the order of bytes of `read_flash_id`, by which the mask
`id & 0xff` gives the capacity and not the manufacturer. Every chip therefore
takes the default row of the table; that is right for all chips but those of
MXIC, which `QuadEnabled` excepts (`QePlaced`). `enable_qio` and the
unlocking never read back what they wrote, so on a locked chip they fail
without notice; `QuadEnabled` and `ResultsTrue` are about the others.

`FlashRead` adds the reads. Flash addresses are numbers, a cell of flash is an
address with the content of its sector, and `buf` is the sequence of cells that
were read: a stale cache line or a window on the wrong page is seen as the wrong
cells. Without encryption `RomRead` is the emulator's ROM function, which starts
one byte late, and `flash_read_raw` the correction (`read_flash_config_from_header`,
flash.rs 132, reads without it). With encryption each word is read through the
window of one page. `lines` is what the cache holds of it; the window's entry of
`mmu` is changed and the cache invalidated together. A range need not start
at a word: the checksum of an image is its one byte whose address is 15 modulo 16, and
segment headers follow data of any length. The processor's misaligned load is
taken to be done byte by byte (to Rust it is undefined). `MappingTrue` covers
such ranges as well. The one exception is a word that begins in the page of the
window and ends behind it, where there is no page. `StartApp` is `set_cache_and_start_app`: the number of pages of a segment
depends on where in a page it starts, and addresses in flash and memory have to
agree modulo a page, which `Linked` says and nothing in the code checks.

### Sha256Stream

A context is the sequence of blocks compressed so far, the buffer, its fill and
the bit count. A byte of padding and a byte of the length are values of their own,
so two different messages never give the same blocks. `Update` and `Finalize` are
`sha256_update` and `sha256_finalize`, the former with its three phases. The
compression itself is left out. `ImageLoad` names a hash by what was fed into it,
which is what `DigestTrue` justifies. A client that is refused (`StartRefused`)
goes on with `None`, which every later call ignores.

### ImageLoad

A step goes from one `bootloader_mmap` to the next. Places in flash are named by
what is stored there (`At("data", k)` is the payload of segment k), so the model
sees which bytes are hashed, copied or compared, not their values; a hash is the
sequence of places fed to it. `buf` is what the mapping buffer holds, and it
outlives the mapping, as the code relies on. `ram` records for each word of SRAM
where its content was copied from; `Cell` takes an address to its word, and on this
chip two addresses have the same one: `soc.rs` 136-139 names part of the SRAM as
instructions at 0x403A0000 and as data at 0x3FCA0000, 0x700000 below. Addresses wrap. Every flash read may
fail; `unread` remembers for the properties that one did. The next try starts
from whatever the previous one left in `mapped`, `buf`, `used`, `meta`, `ram`. A
segment that is copied over the loader itself (`Overwritten`) is seen in `ram`; what
a loader does after that nobody can say. The model goes on as if its code were
whole, so the properties about later steps claim nothing of such runs, while the
ones about the copies themselves do.

### OtaPush

A byte is known by how readers treat it: text, full stop, CR, LF, backspace,
other; the texts the two sides look for (`ota <size>`, `READY`, `OK`, the prompt) are
one of them each, and the file may hold any of the last three. What the device says
of itself is kept if it contains one of the host's markers; the bootloader's banner
and messages contain full stops, so the host sees them as acknowledgements, as the
script does. What is typed into the shell or the command loop comes back byte for
byte, as far as the line has room for it (`Edit`), and an unknown command comes
back a second time. The v2 build confirms itself when it starts, with a cut between
erase and write like that of the update itself. `recv`
returns any part of what has arrived, and what comes after a marker in the same
`recv` is dropped, as is everything unread when the script ends, by `Success` or
`GiveUp`, and its socket closes. The shell's countdown, the shell, the command loop and the
receiver read the same `toDev`. A reset empties the FIFO but not the socket: it
keeps some suffix of `toDev`. Timeouts happen whenever they can, with one limit
(`MayTimeOut`): the device reads what was sent while it polls its port, since
microseconds stand against the script's 5, 10 and 20 seconds; while it erases or
programs, the host may give up. The command line is delivered whole, as one
`sendall` of a few bytes is; were its LF late, the drain in `cmd_ota` would miss
it. The file is not empty and fits the slot, so `ERR: bad size` does not occur, and
no line of it is a command of the shell or of the application.

## 3. Runs

| run | instance | distinct states | asks |
|---|---|---|---|
| `boot_safety` | 2 slots, 4 tables, 6 kinds of otadata entry, writes and reads may fail, cut erases may change a state word alone | 1,392,131 | is `BootPolicy` implemented; is the selection kept by every boot step and power cut, is the boot record the only pending one; does a boot attempt end in so many steps; does a factory reset that reaches otadata lead to factory |
| `boot_liveness` | 2 slots, 3 tables, erases, writes and reads may fail, fairness | 641,657 | does a boot on failing flash follow the record it has read, is no partition left out, does every attempt end, does a bootable device get to run |
| `test_app` | factory and one slot, the application of the repository | 74,996 | does a reported update run, can an interrupted one be repeated, is the application one that `Bootloader` allows |
| `partition_table` | tables of up to 3 entries over 4-bit addresses, sectors of 2 bytes | 1,083,219 | is every accepted table disjoint and well-formed, does a factory reset erase all it should and nothing else |
| `image_load` | 2 partitions, 26 images, 4-bit addresses, three words of SRAM with two addresses | 508,336 | is what starts sound, does every sound image start that can be mapped, is nothing leaked or overwritten |
| `ota_push` | file of 5 bytes with a prompt in it, chunks of 2, 3 sessions | 40,745 | is success reported only for a complete update, does a transfer stay in step and end |
| `flash_driver` | 5 chips, 3 sectors, pages of 4 bytes, 6 MMU entries, ranges that start anywhere in a word | 427,400 | is every command heard, is success true, is quad mode safe, do mappings and applications see the right flash, does every call return |
| `sha_stream` | blocks of 4 bytes, messages of 9 and 2, 3 clients for 2 contexts | 129,549 | is every digest that of its own client's bytes, is no context lost or shared |

Four more runs end in a counterexample, each a place where the code does not do
what its own documentation or comments say:

| run | property | what happens |
|---|---|---|
| `rollback` | `UnconfirmedRolledBack` | The bootloader aborts its own boot record, in one sector; the application's `NEW` entry in the other sector stays valid. An update that never confirms itself is selected at each boot. |
| `memory_spared` | `MemorySpared` | `verify_load_addresses` guards the ROM's stack at 0x3FCE2000; the bootloader's own stack is at 0x3FC88000, where a segment is accepted and copied. Nor does it know the second address of SRAM: a segment at 0x3FCCE000 is copied over the text at 0x403CE000. |
| `secure_boot` | `SecureBootVerifies` | With secure boot the signature is looked at inside the check of the appended hash: an image whose header says that it has none starts unsigned (README.md 59, BOOTLOADER.md 725). An image that has a hash and a good signature is refused, since the block has 4096 bytes and a mapping at most 4093 (README.md 11, BOOTLOADER.md 20). So only unsigned images start, which is the last clause of `LaunchedSound`. |
| `push_echo` | `ReportedIsDelivered` | The device restarts in the middle of a transfer; its banner acknowledges the chunk, the rest of the file is typed into the shell, which echoes it, and an `OK` in the file is taken for the device's. v1's own image holds the prompt and both words; v2's, which is what is pushed, only the prompt. |

Six more places disagree with what is written about them. They have no run that
fails; the property of a passing run names each as its exception:

- BOOTLOADER.md 394 and README.md 57 have the factory reset boot from factory.
  `FactoryResetForgets` needs `Wipes`: the reset erases the partition labelled
  `otadata`, the selection reads the one of that subtype, and with another label
  the recorded slot boots.
- utility.rs 352 has `set_actual_ota_seq` write to the sector "we are NOT currently
  reading". If the erase of the abort pass fails, its second read finds the entry
  still pending and valid, takes it for the active one and erases the sector the
  boot was chosen from, so `SelectionStable` needs `~EraseMayFail`.
- BOOTLOADER.md 784 has an image whose secure version is too low rejected.
  `LaunchedSound` excepts one whose descriptor could not be read.
- BOOTLOADER.md 812 promises plaintext to every caller of `bootloader_mmap`.
  `MappingTrue` excepts, with flash encryption, bytes of a word that the end of
  the window cuts, which the header of a segment may have.
- BOOTLOADER.md 242 lists a quad enable procedure for each vendor. The manufacturer is
  taken from the wrong byte of the id, so on an MXIC chip bit 1 of status register
  2 is set instead of bit 6 of register 1 and the controller is configured for quad
  reads all the same: `QuadEnabled` needs `QePlaced`.
- BOOTLOADER.md 717 has the pool of SHA contexts wrap when both are allocated. The
  next client is handed `None`; `PoolShared` is what the code keeps instead, that
  nobody's context is given away.

Two more things the models show, of which no comment promises otherwise. v2 erases the only valid otadata entry whenever it starts and
then writes it again, so a power cut in between leads back to factory;
`ResetRecovers` shows that the device is never lost. If one `recv` returns the
last `.` together with `OK`, the script drops `OK` and times out although the
update is recorded; `ReportedIsDelivered` is about what it does report.

What the properties of the passing runs except, in one place:

- `SelectionStable` and `PendingNamesRunning` are about boots that could read
  otadata and flash whose erases work. A boot that could not read it runs
  factory, leaves a pending record where it is, and, if the second read works,
  writes its own over it; `LaunchesFirst` and `BootPolicy` say so. `SelectionStable`
  also excepts a cut erase that changes the state of an entry and nothing else,
  and a factory reset that erases otadata.
- `FactoryResetForgets` is about a reset that reached otadata (`Wipes`).
- `NeverStranded` excepts an attempt in which the table, or every one of the bootable
  partitions, could not be read; `EventuallyRuns` shows that it is the attempt that is
  lost and not the device.
- `UpdateSelected` is claimed of flash without `StateTears`: one torn erase may
  leave a higher number in an entry that does not count, a second its state.
- `LaunchedSound`, `SoundBoots` and `LaunchedIntact` claim nothing of a loader
  that has been overwritten. `SoundBoots` excepts images too long for one
  mapping, among them all that need a signature checked. `SectionsSpared` is about
  the bootloader's own addresses.
- `MappingTrue` excepts the bytes of a word that the end of the window cuts.
- `ReportedIsDelivered` and `InStep` are checked and proved for files that do
  not contain `READY` or `OK`.

### Bounds

- `MaxSlots` 2: with factory this gives a sweep with a slot below and a slot
  above the start, gaps, and an entry beyond the last slot. `SeqMax` 3 leaves
  one number beyond both slots, and 0 wraps to the erased value.
- `AppEntries` holds one entry of each kind the code tells apart (erased, new,
  confirmed, a pending record nobody wrote, out of range, broken CRC).
  Applications take any number of turns, so sectors reach every combination of
  these, of boot records and of torn entries. No counter is bounded.
- The run with failing erases and fairness has fewer entries, because it has more
  ways for each step to end and a dearer check; its tables keep a gap and an
  invalid one. What an unlisted partition holds is fixed (`MCInit`).
- Each mapping of the boot flow fails at most once in an attempt (`unread`,
  `missed`), since the code never repeats one, but for otadata, which a factory
  reset reads anew.
- Four-bit words hold a partition that touches, overlaps, contains or wraps
  around another one, and three entries are needed for an overlap of entries that
  are not neighbours. With sectors of two bytes partitions start and end inside
  one and at its ends; `MinOffset` 3 is off the sector grid as 0x8C00 is.
- `flash_driver`: three chips that the tables of the driver tell apart and one
  that is locked, with each subset of a protection bit and a quad bit left in the
  registers, and one that has its quad bit in register 1. Flash of six bytes has
  a page of two sectors and part of the next page, so that a read crosses a sector
  and a page; the applications have segments that start inside a page, cross one,
  or are empty.
- `sha_stream`: nine bytes are two blocks and one more, so that pieces of every
  length meet a buffer of every fill and the padding needs one block or two; a
  third client finds no context.
- `ImageLoad`: the memory map of `linker.ld` shrunk to 16 addresses with every
  region present and in order, segments of 0, 1 and 2 bytes and one too large to
  map, images that fail at each check, images with one segment too many,
  segments that meet the text or each other by their second addresses. `SigSize`
  is one more than `MmapMax`, as 4096 is more than 4093. Two
  partitions show what one try leaves to the next; the number of tries is not
  bounded.
- `OtaPush`: `MaxSessions` 3 is a session that breaks off, one that finds what
  it left, and one that finds the device after that; the file has two full
  chunks and a short one, and the lines of the shell and of the command loop have
  room for a few bytes (`ShellLine`, `AppLine`). `MaxOut` 4 stops power cuts while the host has four
  markers unread, only so that the banner of one reset after the other does not
  fill the channel for ever.

`CHECK_DEADLOCK FALSE` where the process modelled ends (a table is loaded, an
image starts, the last session is over).

### Fairness

`LiveSpec` of `Bootloader` is weak fairness of `BootStep`: one thread, no
interrupts, and `run_shell` boots when its countdown ends. `SysLiveSpec` adds
weak fairness of the application's own steps; nobody is obliged to start an
update (`OtaErase`). That the host then sends all it announced is an assumption
of `TestApp` alone: the receiver waits for ever otherwise. Power cuts are never
fair; `EventuallyRuns`, `UpdateRuns` and `ResetRecovers` are stated for
behaviours in which they, and reads that fail, stop at some time (`PowerStays`,
`SysPowerStays`), since a power cut in every boot defeats any bootloader. In `OtaPush` host and
device are fair, timeouts, power cuts and new sessions are not. `FlashSpec` has
weak fairness of the steps inside a call of the driver (one thread) and of
`ChipReady` (a chip ends its writes in at most milliseconds); nothing makes the
bootloader call it.

## 4. What is proved

For all values of the constants that satisfy the named assumptions
(`SlotAssumption`, `LayoutAssumption`, `ImageAssumption`, `EntryAssumption`,
`BuildAssumption`; `TestAppAssumption`; `TableAssumption`, `SectorAssumption`;
`MemoryAssumption`, `SignatureAssumption`; `ChipAssumption`, `ReadAssumption`; `StreamAssumption`;
`PushAssumption`), so for the 16 slots, 32-bit words, 4093 bytes, 64 KB pages,
64-byte blocks and 256-byte chunks of the program as well:

| theorem | says | argument |
|---|---|---|
| `TypeCorrect` | `TypeOK` | `TypeInv` adds the range of the sweep index at each `pc`: it is what makes `image[i]` and `start + 1` defined |
| `BootKeepsSelection` | `SelectionStable` | `RecordInv`: during the abort pass each sector either equals the copy, or is about to be written with it, and a torn entry is invalid or differs in its state alone; `set_actual_ota_seq` writes to the sector that is not selected, because nothing is pending by then, if otadata was read in this boot |
| `ResetForgets` | `FactoryResetForgets` | the part of `RecordInv` about `wipe`, for an otadata that was reached |
| `PendingIsOwn` | `PendingNamesRunning` | from `NoPending` after the abort pass and the sector that is overwritten; a second read that fails leaves nothing pending |
| `BootImplementsPolicy` | `Spec => ImplementsPolicy` | a refinement: each step maps to a step of `BootPolicy` or to a stutter. `FoundIsFirst` turns `SweepInv` into "first in the order of the record", or of factory after a read that failed; `SelectedKept` makes every other boot step a stutter |
| `AttemptEnds` | `BootBounded` | `StepsLeft` counts what a boot attempt still has before it on its longest way (factory reset, second selection, both sweeps): at most 4 `MaxSlots` + 30 steps, reads that fail included, and `StepLowers` shows that each boot step lowers it. `again` matters: it is what keeps a second selection from starting a third |
| `BootFollowsCopy` | `LaunchesFirst` | what is left of the policy when erases fail, where `SelectionStable` is lost: the partition that runs is the first one in the order of the copy of otadata the boot has read, or of factory if it has read none, those not counted that could not be read. `CopyInv`: nothing the flash answers changes `two` or `start` between the abort pass and the launch |
| `BootStrandsNobody` | `NeverStranded` | `SweepInv`: going down, nothing from `i + 1` to `start` loads or it was missed; going up, nothing from factory to `i - 1` does, so giving up means that nothing loads or all of it was missed (`NothingLeftOut`). It needs `app_count` to be one past the highest slot |
| `ResetTypeCorrect` | `ResetTypeOK` | `count` and `i` move together while verifying; the entry a reset erases is before the end of the table |
| `VerifiedTable` | `AcceptedDisjoint` | `VerifyInv`: the entries before `i` are in range and pairwise disjoint as long as `valid` holds; `RangeMeans` and `OverlapMeans` relate wrapped ends to real extents |
| `LayoutAsAssumed` | `LayoutDelivered` | `SourceInv`: every role comes from an entry. The conclusion is the assumption `LayoutAssumption` of `Bootloader` |
| `RolesAreDisjoint` | `RolesDisjoint` | roles come from different entries, by type and subtype |
| `ResetStaysConfined` | `ResetConfined` | `ResetInv`: every erased sector is one of a partition to erase (`Named`). `SectorInside` has the arithmetic: the rounded-up count of sectors of an aligned partition ends where the partition does |
| `FlagIsTrue` | `FlagMeansErased` | `ResetInv`: before the entry it looks at all is erased, and flag and checksum are both right only at the end; `SectorsCover` |
| `ImageTypeCorrect` | `ImageTypeOK` | `WalkInv`: segment index and count agree with the header being walked |
| `ResourcesReleased` | `Released` | `ResourceInv`: no mapping survives a step, and `used` is 1 exactly while `handle` is held |
| `LoaderSpared` | `SectionsSpared` | `CopyInv`: a segment about to be copied passed `verify_load_addresses`; `CopySafe`: one short enough to be mapped cannot wrap, since every RAM region ends at least `MmapMax` below the end of the address space. What reaches a word of the sections does so through another address of it; without such addresses nothing does (corollary `UnaliasedSpared`) |
| `LaunchIsSound` | `LaunchedSound` | `SoundInv` carries along the walk what it has established of the segments behind it: lengths, addresses, the parity of the checksum. `HashInv`: what was hashed so far is an initial part of `DigestOf`; the walk itself is the induction over its definition. `AddressPassed` turns the wrapping comparisons of `verify_load_addresses` into real extents |
| `LaunchIsIntact` | `LaunchedIntact` | `UpTo`: each word of SRAM a copied segment covers, by either address, holds it or a later one; the metadata of a mapped region names the first segment that fits |
| `SoundImageBoots` | `SoundBoots` | the converse along the same walk: `AddressRejected`, and a step rejects a sound image that can be mapped only after a read failed, or at the signature, which `SignatureAssumption` says is too long |
| `NoCommandLost` | `CommandsHeard` | `LatchInv`: the latch and the busy bit are known at each command |
| `SuccessIsTrue` | `ResultsTrue` | `ProtectionInv`: from the unlocking on nothing is protected and no register write on its way would bring protection back. Assumes `UnlockClears`: the masks clear the chip's protection bits |
| `QuadModeEnabled` | `QuadEnabled` | `QuadInv`: whatever is written to the registers afterwards contains the bit. `QePlaced`: the row of the table that the capacity byte selects is right for the chip |
| `AppsAreMapped` | `AppSeesItself` | `PagesCounted`, `SegmentMapped`: the pages from the first one on are those that hold a byte of the segment |
| `MappingsAreTrue` | `MappingTrue` | `CacheInv`: every line in the cache shows the page in the window as flash holds it, since the window is given up after each read; each byte of a word, aligned or not, that lies in the page of the window comes from a line of it |
| `ReadTypeCorrect` | `FlashTypeOK` | `FlashTypeInv`: no word has been counted outside a read; `SegmentAligned`, `PageAligned`: every entry of the MMU starts at a page; `WordPlaced`: a byte before the end of the window comes from a line that shows it |
| `ContextsShared` | `PoolShared` | `PoolInv` |
| `DigestsTrue` | `DigestTrue` | `ContextsFed`: blocks and buffer of a context are the bytes fed, in order. `UpdateFed` keeps it, by `BlockCompleted` and `RestFed`; `FinalizeBlocks` compares its padding with the definition |
| `SysTypeCorrect` | `SysTypeOK` | a step of the application writes only what `TypeOK` allows; a boot step is one of `Bootloader` |
| `TestAppIsAnApp` | `SysSpec => ImplementsBootloader` | a refinement: `SysStepIsNext` takes each step of the application, and each cut inside one, to a step of an arbitrary application. `BootWithTestApp` is the corollary: what is proved of the boot holds of the device with this application |
| `UpdateIsSelected` | `~StateTears => (SysSpec => []UpdateSelected)` | `SpareInv`: the application writes only sector 0, and what the bootloader writes to sector 1 is pending, aborted or torn, none of which counts; so whatever counts in sector 1 is at most number 1. `AppInv`: an update that is done has left number 1, new, in sector 0 |
| `PushTypeCorrect`, `TransferInStep`, `SuccessIsDelivery` | `PushTypeOK`; `Plain => (Spec => []InStep)`, `Plain => (Spec => []ReportedIsDelivered)` | `PushInv`. Nothing numbers a session, so it says what the two streams cannot hold: a command in the application's hands is that of the session that waits for `READY`, and still to be ended (`CommandInv`); no prompt is unread while the device is busy with an older transfer, and an old `OK` comes before the prompt, so it is read away with it (`OutputInv`); what is echoed is part of what was sent (`EchoInv`), so of a plain file it is no `READY` and no `OK`; a session that waits for `READY` meets a receiver that has taken nothing (`TransferInv`) |

`BootKeepsSelection`, `ResetForgets` and `PendingIsOwn` carry
`~EraseMayFail` and the reads they rely on in the property itself and
`BootImplementsPolicy` assumes it (section 3 says why). Writes may fail and tear in all of
them. A device that boots the test application is allowed by `BootPolicy` only
with the `app_test` build, a changed record without an application only with
`factory_reset`.

The abstract level `BootPolicy` says what the whole of `Bootloader` promises:
the chip runs the bootable partition that comes first in the order "recorded
selection, down to factory, then the slots above", and the record changes only by
an application or a factory reset. It also says what flash that cannot be read
takes from that for one boot (`Misread`, `Overwrite`), and what a torn state word
may (`GiveUp`).

### Only model-checked

Every invariant and every action property of the passing runs is proved. What
is left to TLC is liveness: `BootEnds`, `EventuallyRuns`, `UpdateRuns`,
`ResetRecovers`, `TransferEnds`, `DriverReturns`. Liveness
under fairness and `ENABLED` are out of the prover's reach. Of `BootEnds` and
`EventuallyRuns` the part that is about states and steps is proved:
`AttemptEnds` bounds the steps of an attempt and `BootStrandsNobody` says that it
does not end in a reset while something can be booted. What TLC adds is that a
boot in progress can always take its next step, and that under weak fairness it
does.

## 5. Not modelled

- Register writes of `init.rs` (clocks, watchdogs, pins, console) and the bindings
  of `rom.rs` and `soc.rs`: straight-line code that runs once, without decisions.
  The same holds for the pin, clock and timing registers of `flash.rs`.
- What nothing calls: `xmc_startup`, `read_sfdp`, `reset_chip`, the clock and
  timing configuration and `bootloader_flash_read` in `flash.rs`; the deep-sleep
  boot with its remembered partition and reboot counter, and `update_id`, in
  `utility.rs`; `esp_image_verify` and its neighbours in `image.rs`, which run
  the modelled loop with other flags.
- The arithmetic of SHA-256, CRC32 and ECDSA; the signing tool (`tools/`), which
  keeps no state.
- The build scripts, which run once; the flash image of `build_qemu_flash.py` is
  the initial state of `MCTestApp`.
- Flash encryption of boot records: `flash.rs` programs them as they are and
  reads them through the decrypting cache, so with encryption enabled they would
  not be read back as written. `Bootloader` is a device without it.
- What a bootloader does that has been overwritten by a segment: see `ImageLoad`.
- Lengths against partition sizes: nothing in `image.rs` compares them, and
  `ImageLoad` names places in flash by content, so that a walk into the next
  partition is not seen.
- Loss of single bytes on the serial line: the QEMU socket has flow control; a
  real UART with a 128-byte FIFO would overrun while the slot is erased.

## 6. Plan

Done, in this order: `OtaData` and `Bootloader` with their invariants and
proofs, `BootPolicy` and the refinement, `TestApp`, `PartitionTable` and the
proof of the layout, `ImageLoad` and its first proofs, `OtaPush`; then
`FactoryReset`, `SpiFlash` and `FlashRead`, `Sha256Stream` and the proofs about
them; then the proofs about what starts (`ImageProofs`), about the update
(`TestAppProofs`) and about the protocol (`PushProofs`); then the bounded boot, the
boot on failing flash and the refinement of `Bootloader` by `TestApp`; then reads that
fail, torn state words, labels, the second addresses of the SRAM, ranges inside a
word, and echoes.

Left, most important first:

1. A composition in which `Loadable` of `Bootloader` is the outcome of
   `ImageLoad`, so that the refinement is stated and not only described.
2. The receiver of `TestApp` replaced by that of `OtaPush` in one system, with
   an update that is cut off byte by byte.
3. An image walk over numeric addresses, so that an image that is longer than
   its partition is seen to run into the next one.
