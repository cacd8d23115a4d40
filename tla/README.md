# A TLA+ model of the ESP32-CZone relay firmware

The firmware in `src/` makes a board with eight relays a CZone module on an
NMEA 2000 bus: displays switch its relays, a configuration tool writes a file
(ZCF) to it and reads it back, a USB terminal does the same locally. These
modules model the parts of it that are hard to test, TLC checks them on small
instances, and TLAPS proves the most important results for all values of the
constants.

File and line references are to the repository; `P` stands for
`src/src/czone_protocol.c`.

## 1. The system

Tasks and what they run:

| task | runs | priority |
| --- | --- | --- |
| `app_main` | initialises everything, loads the stored ZCF last, ends | |
| `czone_rx_task` | takes frames from the driver, puts them into a queue of 512 | 6 |
| `czone_protocol_rx_task` | `czone_protocol_handle_frame`: all handlers of messages | 5 |
| `protocol_task` | address claim, status every second, heartbeat, arbitration, download | 5 |
| `terminal_task` | commands typed at the USB port | 10 |
| `digital_inputs_task` | polls the inputs and logs them | 5 |

Only the relay controller has a lock. Everything else the tasks share, they
share unprotected (some of it `volatile`): the download flags, the address, the
sequence number, the circuit map, the dipswitch.

| component | state | operations | interacts with |
| --- | --- | --- | --- |
| ZCF upload (`P:1412`, `zcf_store.c`) | the two files, `s_active`, `s_bytes_received`, `s_next_block` | begin, append, validate, complete, abort | the tool; circuit map (load after commit); download (cancelled) |
| Fast packet (`P:419`, `P:737`, `P:550`) | eight sessions; `s_fp_tx_seq` | feed a frame; send a message | every long message |
| Relay control (`relay_controller.c`) | `s_relay_mask`, mutex, the expander | set, toggle, set mask, get mask | bus and terminal commands, publication |
| Status (`P:860`-`988`, `P:1748`) | none | PGN 65284, 65290, 127501, 130817 | displays |
| Download (`P:1069`-`1257`) | five `volatile` variables and a semaphore | announce, send block, wait, retry; acknowledge | the tool, other modules, the store |
| Arbitration (`P:1259`, `P:683`) | pending, deadline, requested, active, claim window | claim, request, win, withdraw | other modules |
| Circuit map (`zcf_config.c`) | `s_map`, `s_map_count`, `s_loaded` | load, look up | store, dipswitch, presses |
| Address claim (`P:625`) | `s_source_address` | claim, answer, move on | other nodes |
| Settings (`device_config.c`) | `s_dipswitch`, NVS | get, set | nearly everything |
| CAN driver (`czone_can.c`) | queues, statistics | receive, send, recover | the bus |
| Terminal, inputs, board, I2C | buffers | text, polling, initialisation | |

What is hard about it: two tasks on the same unprotected state; blocks and
acknowledgements that are lost, repeated, late or meant for somebody else; power
loss between two file operations; files that fail half way; several modules
that must agree on one sender by timing alone; state built in place while it is
read. `PROJECT.json` lists the hazards, each at its line, with the properties
that watch over it.

## 2. The modules

    ConfigStore  what an upload promises     LossyFifo  what reception promises
      ^ implemented by                          ^ implemented by
    ZcfUpload  ---.                           CanRx
                  |-- ZcfBlocks             FastPacket <-- FastPacketBus
    ZcfDownload --'                         ZcfArbitration
    ChannelMap <-- RelayControl             AddressClaim
          ^------- CircuitMap --> ZcfParser

`MC<module>` instantiates a module for TLC (`MCZcfArbitrationTangled` is one course of
`ZcfArbitration`, request by request), `<module>_proofs` holds its
theorems (those about `FastPacketBus` are in `FastPacket_proofs`, those about
`ChannelMap` in `RelayControl_proofs`, those about `ZcfParser` in
`CircuitMap_proofs`). Operators named as mutants in their comments are bugs put in on
purpose: the properties are checked to notice them.

**ZcfBlocks** - a configuration as blocks. Data are cells `<<c, i>>`, "unit i of
configuration c", so a file shows where each part of it came from.

**ZcfUpload** - `handle_zcf_datablock` and `zcf_store.c` (variables have the
names of the code). Each early return of the handler is an action:
`LeftoverTerminator`, `MissedBlockZero`, `BeginFails`, `AlreadyStored`, `Gap`,
`AppendFails`; `AppendBlock` stores and acknowledges. What follows the
acknowledgement of the last block takes steps of its own, since power can fail
between them: `ValidateOk`/`ValidateFails`, `RemoveOld`, `RenameTmp`/
`RenameFails`, `LoadMap`. `Crash` is power loss and boot. Blocks wait in `queue`
for the handler. The tool is external: it repeats a block until it is
acknowledged, ends after the terminator, and may give up. The CRC is a set of
strings that pass it. Block numbers do not turn over (16 bits, 13 MB).

**ConfigStore** - the promise, without blocks, files or acknowledgements: what
a client is told is done is saved or will be saved without its help. In the
refinement the saved value changes when the old file is removed, and the
module answers for a file from its last block on. `Safety` is the promise without
its fairness, as in `LossyFifo`.

**FastPacket** - `feed_fast_packet` and the session table for arbitrary frames:
first frame (own session, free one, oldest), continuation, repetition, misfit,
completion, expiry. A session keeps its age and whether the tick counter turned
over since, which is what the comparisons `now - updated_at < ttl` and
`updated_at < updated_at` tell apart. `FpSpec` is what the proofs are about; TLC
reaches the same actions through FastPacketBus, whose stranger sends any frame.

**FastPacketBus** - FastPacket fed by the tasks of a node that run
`send_fast_pgn` at the same time. They share `s_fp_tx_seq`, whose increment is a
load (`LoadSequence`) and a store (`StoreSequence`): two tasks between the two
take one number, which `raced` records. The bus loses and truncates frames, and
the transmit queue refuses one, which ends the message (`SendFails`). `Patient`
says that a number comes back only when no session with it is open. A stranger
sends arbitrary frames.

**ChannelMap** - the numbering of the relays and the contents of the messages.

**RelayControl** - the receive task, the terminal and the periodic task on one
relay controller. `TakeLock`, `WriteOutputs`/`WriteFails`, `StoreMask` are
`relay_controller_*`; `Look` and `PublishNext`/`SendPeriodic` are the
publication, one message at a time, each of which may be refused.

**ZcfDownload** - `czone_protocol_send_zcf` (task 1) against
`handle_zcf_datablock_ack` (task 2). `Arm` and `Drain` are the two halves of
`arm_zcf_send_ack`; `AcceptAck` and `GiveAck` those of the handler, between
which the sender may run. `source` and `misled` are history variables.

**ZcfArbitration** - several modules with `handle_config_claim` and the
arbitration in `protocol_task`. Time is in units of 10 ms and passes only when
nothing is due: on a bus at rest a message takes less than that. A data block
takes a while, its 32 frames do.

**ZcfParser** - what `zcf_config.c` finds in the bytes of a file, as operators
and recursive functions: every offset is tried for the marker of a section
(`Marked`, `SectionsOf`), the records are followed from length to length
(`RecordsFrom`), scenes are told from channels by the length of their outputs
(`HasChannels`), and the largest section that can be the loads names the
outputs (`BestLoads`, `LoadName`). Offsets and 32-bit lengths count modulo
`Word`.

**CircuitMap** - `device_config.c`, `zcf_config_load` in three tasks, statement
by statement where it writes the shared map, and the look-up of a press. The
dipswitch goes to NVS, is used, and the map is built anew (`Persist`,
`UseDipswitch`, `Reload`), with failures and power loss between any two of
these; `device_config_init` is run by `app_main` or by the first terminal
command, whichever is first (`ReadNvs`, `AssignStored`). The files are bytes,
read by `ZcfParser`; `Meant` says what they were made of, which is what the
properties compare the map with. `Overlap` says whether a load may begin while
another runs.

**AddressClaim** - nodes that run `handle_address_claim` and answer ISO requests
for the claim, switched on and off in any order, each with its own queue. A
claim or a request may be refused, lost or find a full queue; `suspect` are the
addresses that nobody has been asked for since.

**CanRx** - `czone_rx_task`, alert by alert and frame by frame, and
`czone_protocol_rx_task`, against a driver of which the model has what the code
relies on: alerts that stay until they are read, a bus-off that ends reception
until `twai_initiate_recovery`, the recovery and `twai_start`, and a
`twai_start` that empties the driver's queue.

**LossyFifo** - the promise of reception: frames in order, none twice, some
missing, and what is not lost is delivered in the end.

## 3. The runs

| run | shows | distinct states |
| --- | --- | --- |
| `ZcfUpload_upload` | one tool, lost blocks and acknowledgements: `ReAckedIsStored`, `UploadCompletes`, refinement of `ConfigStore` | 3 900 |
| `ZcfUpload_hostile` | two tools, losses, giving up, power loss: `SavedIsValid`, `StoredInOrder`, `MapMatchesSaved` | 688 000 |
| `ZcfUpload_faults` | failing files: `SavedStartsValid` | 2.1 million |
| `FastPacketBus_reassembly` | two tasks that send, a stranger, loss, eviction, expiry: `OneSessionPerKey`, `CompletePayload`, `Unmixed`, `ReceivedIsDelivered` | 334 000 |
| `RelayControl_tasks` | three tasks, failing writes and messages: `OutputsMatch`, `OperationsAreAtomic`, `BankKeepsOthers`, `CircuitInStep`, `StatusConverges`, `CommandsFinish` | 238 000 |
| `ZcfDownload_faults` | everything may go wrong: `ReceivedIsPrefix`, `SentIsReceived`, `DownloadEnds` | 571 000 |
| `ZcfArbitration_spaced` | two requests, heard by any of the modules: `LowestSends`, `AnsweredOnce`, `RequestAnswered` | 614 000 |
| `CircuitMap_loads` | three tasks load, the dipswitch changes, NVS and power fail, presses come: `MapIsOfFile`, `DipswitchKept`, `PressFollowsFile` | 1.96 million |
| `AddressClaim_claims` | boots, losses, requests: `SettledDistinct`, `LowestKeepsAddress`, `AddressesSettle` | 273 000 |
| `CanRx_bus_off` | queues that overflow, bus-off and recovery: `BusOffLosesTheQueue`, `EveryFrameCounted`, `BusComesBack`, refinement of `LossyFifo` | 113 000 |

Two runs are meant to fail, where the code does not do what the repository says
of it (`findings` in `PROJECT.json`):

| run | what happens |
| --- | --- |
| `ZcfUpload_power_loss` | power fails between `remove` and `rename`: no configuration is left ("Config survives power loss") |
| `ZcfArbitration_neighbours` | modules 24 and 32 both send ("holders elect a single sender"): their back-offs differ by 10 ms, the claim comes 750 ms later |

Several properties hold with an exception that is part of their statement or of
a constant. Each exception is something the code does; dropping it makes the
property fail:

| property | exception | what happens |
| --- | --- | --- |
| `UploadCompletes` | `UnansweredCommit` | the acknowledgement of a short last block is lost after the commit: the tool repeats the block in vain, only an empty terminator is answered |
| `ReAckedIsStored` | `Impatient = {}` | after an abandoned upload `s_active` stays set, and the first blocks of the next one are acknowledged as already stored |
| `SentIsReceived` | `misled` | an acknowledgement passes the test of the block number, the sender times out, takes a second one and arms the next block, and the first counts for that; or another module answers |
| `Unmixed`, `ReceivedIsDelivered` | `raced` | two tasks take one sequence number, and their frames meet in one session |
| `AnsweredOnce` | `slipped` | a request arrives between the clearing of `s_zcf_send_requested` and the setting of `s_zcf_send_active`: the module answers again after its transfer |
| `AnsweredOnce` | two requests | with more of them, a module cancelled in its delay takes up a later one, finds its back-off elapsed only when the delay is over, and so wins later than its address says, until two win at one moment: five modules 30 ms apart give six answers to five requests (`ZcfArbitration_tangled`) |
| `SettledDistinct`, `AddressesSettle` | `suspect` | a claim is lost and not repeated: two nodes share an address until somebody asks for it |
| `MapIsOfFile` | `Overlap = FALSE` | a load by the terminal task and one by the receive task mix their entries |
| `MapIsOfFile`, `PressFollowsFile` | `late` | `device_config_init` fails at boot, the map is built for the default dipswitch, and a later `czone dipswitch` reads the stored one but fails to save its own: nothing reloads the map |
| `DipswitchKept` | `drifted` | a terminal command is done between `app_main`'s reading of NVS and its assignment, which puts the old value back; or NVS cannot be read at boot |
| `PressFollowsFile` | `HasRecords` | after a file with nothing but a false marker a press uses what the rejected section has left, since the look-up does not ask `s_loaded` |
| `PressFollowsFile` | `steady` | a press before `app_main` has loaded the map uses the table of the bring-up although a file is stored |
| `BankKeepsOthers`, `CircuitInStep` | `seen` | `handle_switch_bank_control` reads the mask and writes it back with the mutex released in between, while the terminal is used; a failed write leaves a circuit half toggled |
| `AddressesSettle` | two nodes at the last address | each claim provokes the other |

### Bounds, and why they are enough

* Uploads and downloads: chunks of two units and files of 1, 3, 4 and 5 units
  give a short first block, a short last block, a file that ends with a full one,
  and data in a third block, which a gap can leave out.
  `MaxInFlight` 2 or 3 is a block and its repetition with an acknowledgement in
  between; `MaxFile` bounds what failing writes leave behind. Two attempts stand
  for eight.
* Fast packets: two sessions for three keys (two sequence numbers of the senders,
  one stranger) force eviction. The lengths 8, 14 and 224 have two frames, three
  frames, and too many bytes; the frame numbers 0 and 2, next to the senders' 0
  and 1, include one beyond the end, the data lengths 2 and 8 a frame that is
  too short. The two senders are symmetric.
* Relays: two commands in flight or to come, one circuit with a relay of each
  channel range; the real module type 28.
* Arbitration: the times of the code (75 units of delay); addresses 16, 24, 48
  and 80, the first without a file. The claim window is cut from 600 units to
  3, which only says for how long claims nobody needs are sent.
* Circuit map: the map has two entries, so that a file overflows it; a file with a
  false marker and a scene in front of its records, one with outputs for two
  addresses, two sections that could be its loads and a marker inside a record,
  one with nothing valid, one too short. Names have room for two characters and
  are cut. Circuits 13 and 269 are one in their low byte.
* Addresses: three nodes, two of which prefer one address, and two addresses, so
  that pairs settle and all three meet at the last; three boots, of nodes that
  may be switched off again, one loss, one request, and queues of two.
* Arbitration has two requests, the second at any moment of the first's answer.
  Three do no harm either (8.6 million states, not among the runs). With five there
  are too many courses to follow: `ZcfArbitration_tangled.cfg`, which is not among
  the runs either, is about one of them, request by request, and TLC finds
  `AnsweredOnce` violated after 497 steps (`tlc -config ZcfArbitration_tangled.cfg
  MCZcfArbitrationTangled`).
* Reception: both queues have two places and overflow with the five frames; two
  bus-offs, the second of which can come while the first is still being served.

### Fairness

* Handlers and tasks: weak fairness, the scheduler runs all of them (they block
  on queues, delays and semaphores). `ZcfUpload` has strong fairness of the
  handler and of hearing an acknowledgement: a bus that loses frames does not
  lose every repetition, and a tool repeats. `RelayControl` has it for a
  message of the periodic task: a full transmit queue is not full each second.
* `ZcfDownload` assumes no fairness of any answer: a download ends without.
* `ZcfArbitration`: time passes. `AddressClaim`: both tasks of a node run.
  `CanRx`: both tasks run, and a bus whose recovery was asked for becomes idle.

`CHECK_DEADLOCK FALSE` is set for `AddressClaim` only: the boots are bounded and
a bus on which all claims are heard is at rest.

### What the properties assume

* `SavedIsValid` and `StoredInOrder` exclude writes that fail half way: the code
  counts what was acknowledged, not what is in the file. With them only
  `SavedStartsValid` holds.
* `Unmixed` needs senders that reuse a number only after the TTL, and both it and
  `ReceivedIsDelivered` end with a race for `s_fp_tx_seq` until the sessions of
  the flow have expired.
* `SentIsReceived` says nothing of a download in which another module has
  acknowledged a block, an acknowledgement was given after the next block was
  armed (both in the history variable `misled`), or the file was replaced
  (`source`).
* `BankKeepsOthers` and `CircuitInStep` hold until the terminal is used,
  `CircuitInStep` also until a write fails.
* `LowestSends` needs a first data block that arrives before the others' delay
  is over and cancels them: here the back-offs differ by 30 ms or more, and a
  data block takes 20 ms. `AnsweredOnce` needs the same, and is about two requests.
* `PressFollowsFile` is about presses during which no other task changes or loads
  the map (`steady`), `MapIsOfFile` about loads that do not overlap.
* `MapIsOfFile` and `PressFollowsFile` rest on files that the parser understands
  (`Understood`): what a file was made of is what its first exact section
  says. `Legible` says of which bytes that is so: one section, whose records reach
  from one to the next by their own lengths, and nothing in front of it that
  parses (`LaidOut`), which TLC finds to be so of the run's files, for all their decoys
  (`FilesAreLaidOut`). The format does not give the second part, since four
  bytes of a name or a scene may be a marker and what follows them add up.
* `BusOffLosesTheQueue` and `InOrder` rest on the driver as described above.

## 4. What is proved

Every safety property of the passing runs is a theorem, for any
number of tools, files, modules, nodes, frames, keys, sessions, commands and
circuits, from the named assumptions of the modules. The hypotheses of a theorem
are those of its run: what the code does where one is dropped is in the table of
exceptions above. Each bullet says which inductive invariant carries the result;
all were checked with TLC on the run first.

* `ZcfUpload_proofs`. `TypeCorrect`, which includes that an active transfer has
  a temporary file, without which the appends have no meaning. `MapCorrect`
  needs the strengthening that outside the steps remove, rename and load the
  map is the saved file. `SavedCorrect` (no write fails half way) strengthens
  `SavedIsValid` with what holds between the CRC test and the rename: the temporary
  file passed it, and `s_bytes_received` is the length of the file while a transfer
  is active. `SavedStartCorrect` does without that hypothesis: a failed write
  leaves more in the file than `s_bytes_received` counts, never less.
  `OrderCorrect` (no write, remove or rename fails) adds that the file is as long
  as full chunks up to `s_next_block`. `ReAckedCorrect`, for one tool that finishes
  its uploads and under the same faults, from the invariant `Transfer`: which
  blocks can be in the queue and which answers on their way, given what the tool
  waits for, and that the temporary file is the beginning of the tool's file.
  `StoreCorrect`: then each step is a step of `ConfigStore` or a stutter, if
  the power and the reading of the file hold once it is complete. The crash is
  excluded because it breaks the promise, which is the finding of
  `ZcfUpload_power_loss`.
* `FastPacket_proofs`. `FramesCoverPayload`: the frames cut a payload of any
  length 1 to 223 without hole or overlap. `TableCorrect`: the inductive
  invariant says of every active session that a frame in its mask is in its
  data, that frame 0 is, and that one is missing; and that keys are distinct.
  The types and `ActiveIsIncomplete` (a session that waits for nothing would hold
  its slot) are proved only; no run repeats them. `BusImplementsTable`: the
  senders and the bus take only steps of `FpSpec`, so that `OneSessionCorrect` and
  `CompleteCorrect` follow from it. `UnmixedCorrect` and `DeliveredCorrect` need
  `Patient`; their invariant `MixInv` says that, until two tasks race for the
  counter, no two messages under way have one key, that each session of a flow holds
  frames of one message, and that a message whose frames have all arrived has
  a session with them.
* `RelayControl_proofs`. The two directions of the numbering are inverse
  (`RelayChannelRelay`, `ChannelRelayChannel`), the messages show the relays and
  nothing else (`BitsShowRelays`, `BankShowsRelays`). `TypeCorrect`, `RelaysMatch`
  and `OperationsAtomic` come from an invariant that says who holds the mutex, that
  `next` of the holder is the effect of its operation on the mask as it is,
  and what the expander holds at each step. `BankCorrect` adds `Alone`: until
  the terminal is used, what a bank command has computed is still right when it is
  stored. `CircuitCorrect` adds `PressInHand`: how many relays of the circuit at
  work are toggled, and that all other circuits are in step; it holds for circuits
  that are `KeptApart` by the configuration, since two circuits with a relay in
  common cannot both stay in step. `HolderCorrect` and `CommandNearsCorrect` are what
  `CommandsFinish` has of safety properties (`HolderAtWork` and `CommandNears`, in
  this module; no run repeats them): the holder of the mutex waits for nothing, and
  `Pending`, three steps for each operation on a relay, the reading of the mask and
  the messages, falls with every step of the task at work and no other task
  changes it, whatever the expander answers.
* `ZcfDownload_proofs`. `TypeCorrect`; `PrefixCorrect` from `Pieces`: what the
  sender has read, what is on the bus and what the tool has are pieces of the file
  the download began with, at their block numbers. `SentCorrect` adds `Honest`:
  unless an answer has counted that was not the tool's to the block, an
  acknowledgement is of something the tool has. `DownloadNearsCorrect` is what
  `DownloadEnds` has of a safety property: `StepsLeft`, which begins as the number of
  blocks times five steps for each attempt and one for the reading, falls with every
  step of `protocol_task`, and no step of anybody else changes it (`DownloadNears`, in
  this module; no run repeats it).
* `ZcfArbitration_proofs`. `TypeCorrect`, and `LowestCorrect` from `RaceInv`: the
  request is arriving, or those that took it up are as far apart as their
  back-offs, or the lowest has begun and the others hear its data block before
  their time. It needs `Spaced`, back-offs of the holders that differ by more
  than a data block takes, and a delay longer than any two back-offs differ. The
  code has a delay of 75 units and back-offs of 20 to 51; `Spaced` is up to the
  installation, and `ZcfArbitration_neighbours` shows what happens without it.
  `AnsweredCorrect` is about the first two requests, whoever hears which and however
  they overlap. Its invariant `OnceInv` knows the age of each: a module that
  answers is on time for one of them, its back-off and the delay after it, and those
  on time for one that has its answer hear a data block before their delay ends. Two
  requests are not a bound of convenience: `ZcfArbitration_tangled` refutes it for
  five. `PromptlyOnce` says what it takes for any number: that no module takes a
  request up with more of a cancelled delay left than its back-off (`Prompt`), so
  that none wins late. `AnswerCorrect`, for any number of requests and
  any back-offs, is what `RequestAnswered` has of a safety property (`AnswerNears`,
  in this module; no run repeats it): who
  has taken a request up stays with it until the first transfer, and gets nearer to it
  with every tick; its invariant `NotYet` is that before the first transfer there
  are no claims and no data blocks on the bus, so that nothing can make it withdraw.
* `CircuitMap_proofs`, the parser: for every file of up to `ZCF_MAX_FILE_BYTES` bytes
  and any content, offsets do not wrap in 32 bits, a section that is tried ends in
  the file (`SectionInBounds`), a record that fits lies in its section with all its
  outputs and the next one lies behind it (`RecordInBounds`, `LoadInBounds`).
  This is what the comment at `zcf_config.c:17` claims, and why the recursive
  functions of the module are defined: they go on only to greater offsets. It
  needs that a word is larger than four files and half a megabyte, which 32 bits are.
  What the chains of records and `FlattenSeq` are is shown from these, by the least
  number at which it would fail: the theorems of the library for induction are not to
  be had here, a least natural number is.
* `CircuitMap_proofs`, the map: `DipswitchCorrect`, whatever fails and whoever
  overlaps, from `SettingsInv`. `TypeCorrect`, for any bytes in the files, from
  `MapTyped`: one task loads at a time, it is within a section of a file that can
  be parsed, every counted entry has a relay, and so has the one being stored.
  `MapCorrect` adds `MapFollows`: either a load is still due, or the task that loads
  has the stored file, has passed over sections that are not exact, and has stored
  the entries of the outputs so far for the dipswitch in use; or none loads and the
  map is that of the file. `PressCorrect` adds `FoundSoFar`: what a press has found is
  what the entries it has passed give, and nobody is about to change them. All
  three ask for `Overlap = FALSE`, since two loads at once mix their entries, the
  last two for `Understood` (section 3).
* `CircuitMap_proofs`, the files: `SectionParsed`, for a section of any number of
  records of any content that reach from one to the next: the parser finds these
  records, no other, and takes the outputs of each; the chain it follows is the
  given one, place by place, and ends where the section does. `LegibleUnderstood`:
  files with one such section, and nothing in front of it that parses, are
  `Understood`, so that the hypothesis of `MapCorrect` and `PressCorrect` can be
  told from the bytes alone.
* `CanRx_proofs`. `BusOffCorrect`, from an invariant that says for each state of
  the driver which alerts can be raised or have been read: from the serving of a
  bus-off to `twai_start` none of them makes the task drain the queue.
  `TypeCorrect`, `CountedCorrect` and `OrderCorrect`, which is the safety part of
  `LossyFifo`, from `RxInv`: the frames in both queues and in hand are in order
  and later than those handled, those thrown away are none of them, and the
  counters account for the rest. `RecoveryCorrect` is what `BusComesBack` has of a
  safety property (`RecoveryNears`, in this module; no run repeats it): from a bus-off
  on `StepsToRun` falls with every step of the task and with the recovery; it needs
  that the alert stays raised or read until it is served, and that no frame arrives
  meanwhile.
* `AddressClaim_proofs`. `TypeCorrect` and `LowestCorrect`, which needs that every
  claim in an inbox carries the NAME of a node. `DistinctCorrect` from
  `ConflictsStir`: of two nodes that share an address which is not under
  suspicion, one has still to claim it or has something in its inbox that makes
  it do so.

Only model-checked:

* Liveness, which is out of the provers' reach (of `DownloadEnds`, `RequestAnswered`,
  `CommandsFinish` and `BusComesBack` the bounds are proved, what remains is that the
  tasks run, and that a task which waits for the mutex gets it): `UploadCompletes`,
  `StatusConverges`, `CommandsFinish`, `DownloadEnds`, `RequestAnswered`,
  `AddressesSettle`, `BusComesBack`, and the fairness of `ConfigStore` and
  `LossyFifo` in `ImplementsConfigStore` and `InOrder`.
* That the files of `CircuitMap_loads` are `LaidOut`, and that what they were made of
  is what their records say.
* What `AnsweredOnce` says of three requests.

## 5. Not modelled

* Product, configuration and PGN-list messages, the heartbeat: constant contents
  that nothing depends on. Their effect on others, a fast packet sent by another
  task, is in `FastPacketBus`.
* The monitor, all logging, the editing and parsing of terminal lines: text.
* Digital inputs: one task polls them and calls a callback that logs; no other
  code reads its state, so there is no property that could fail.
* The set-up of board, I2C and TWAI, and the inside of the TWAI driver and of
  NVS, which `CanRx` and `CircuitMap` have from how the code uses them. A failing
  I2C write is in `RelayControl`.
* Loads of the map that overlap, which nothing in the code prevents: they leave a
  mixture of two files, of which nothing can be promised (`Overlap = TRUE` shows it).
* Build and release.

## 6. Plan

Modelled so far, in this order: upload and its abstract store, reassembly,
relays, download and arbitration, circuit map, address claim; then reception,
the parser on bytes, two sending tasks, two requests, lost claims, and the
dipswitch with NVS. Left:

1. Downloads that meet uploads: `ZcfDownload` and `ZcfUpload` of two modules on
   one bus.
