------------------------------ MODULE ZcfUpload ------------------------------
(***************************************************************************)
(* Receiving a ZCF configuration over the bus.  A configuration tool       *)
(* writes the file block by block (PGN 130816) and waits for each block's  *)
(* acknowledgement (PGN 65291); czone_protocol_rx_task hands every        *)
(* reassembled block to handle_zcf_datablock, which appends it to          *)
(* config.zcf.tmp, acknowledges it, and on the first block shorter than a  *)
(* full chunk validates the CRC, replaces config.zcf and rebuilds the      *)
(* circuit-to-relay map.                                                   *)
(*                                                                         *)
(* The steps after the acknowledgement are steps of their own: power can   *)
(* fail between them.                                                      *)
(***************************************************************************)
EXTENDS ZcfBlocks

CONSTANTS
  CrcValid,     \* the byte strings validate_pending_zcf_crc accepts
  NoFile,       \* stat() finds no such file
  None,         \* no upload
  Tools,        \* the configuration tools on the bus
  Impatient,    \* the tools that may give up in the middle of an upload
  Lossy,        \* TRUE: blocks and acknowledgements can be lost
  CanCrash,     \* TRUE: the module can lose power at any step
  Faults,       \* the file operations that may fail
  MaxInFlight,  \* bound of the model: blocks and acknowledgements in flight
  MaxFile       \* bound of the model: what failing writes leave in the file

ASSUME UploadAssumption ==
  /\ Chunk \in Nat \ {0}
  /\ Size \in [Configs -> Nat \ {0}]
  /\ None \notin Configs
  /\ NoFile \notin Seq(Cells)
  /\ CrcValid \subseteq Seq(Cells)
  /\ \A c \in Configs : File(c) \in CrcValid
  /\ Impatient \subseteq Tools
  /\ Lossy \in BOOLEAN
  /\ CanCrash \in BOOLEAN
  /\ Faults \subseteq {"begin", "append", "read", "remove", "rename"}
  /\ MaxInFlight \in Nat
  /\ MaxFile \in Nat

VARIABLES
  zcf,                   \* the file ZCF_PATH
  tmp,                   \* the file ZCF_TMP_PATH
  s_active,              \* zcf_store.c: a transfer is being received
  s_bytes_received,
  s_next_block,
  s_map,                 \* the file zcf_config_load last built s_map from
  s_zcf_send_requested,  \* czone_protocol.c: a download is queued
  pc,                    \* where handle_zcf_datablock is
  queue,                 \* blocks on the way to the handler, oldest first
  acks,                  \* acks[t]: acknowledgements on the way to tool t
  t_cfg,                 \* t_cfg[t]: what tool t is uploading, or None
  t_next                 \* t_next[t]: the block it waits to see acknowledged

store   == <<tmp, s_active, s_bytes_received, s_next_block>>
tools   == <<t_cfg, t_next>>
vars    == <<zcf, store, s_map, s_zcf_send_requested, pc, queue, acks, tools>>

Init ==
  /\ zcf \in {NoFile} \cup {File(c) : c \in Configs}
  /\ s_map = zcf
  /\ tmp = NoFile
  /\ s_active = FALSE
  /\ s_bytes_received = 0
  /\ s_next_block = 0
  /\ s_zcf_send_requested = FALSE
  /\ pc = "idle"
  /\ queue = <<>>
  /\ acks = [t \in Tools |-> <<>>]
  /\ t_cfg = [t \in Tools |-> None]
  /\ t_next = [t \in Tools |-> 0]
-----------------------------------------------------------------------------
(* handle_zcf_datablock *)

b == Head(queue)

\* The handler takes the next block; whatever it does with it, a queued
\* download is cancelled.
TakeBlock ==
  /\ pc = "idle"
  /\ queue # <<>>
  /\ queue' = Tail(queue)
  /\ s_zcf_send_requested' = FALSE
  /\ UNCHANGED tools

Acknowledge(k) == acks' = [t \in Tools |-> Append(acks[t], k)]

\* Mutant of LeftoverTerminator: the early return acknowledges nothing.
SilentTerminator ==
  /\ TakeBlock
  /\ ~s_active /\ b.subcode # 0 /\ b.chunk = <<>>
  /\ UNCHANGED <<zcf, store, s_map, pc, acks>>

\* No transfer is active and this is not block 0: only the empty terminator
\* of a finished transfer is acknowledged.
LeftoverTerminator ==
  /\ TakeBlock
  /\ ~s_active /\ b.subcode # 0 /\ b.chunk = <<>>
  /\ Acknowledge(b.subcode)
  /\ UNCHANGED <<zcf, store, s_map, pc>>

MissedBlockZero ==
  /\ TakeBlock
  /\ ~s_active /\ b.subcode # 0 /\ b.chunk # <<>>
  /\ UNCHANGED <<zcf, store, s_map, pc, acks>>

\* zcf_store_begin_at cannot create the temporary file it has just removed.
BeginFails ==
  /\ TakeBlock
  /\ "begin" \in Faults
  /\ ~s_active /\ b.subcode = 0
  /\ tmp' = NoFile
  /\ UNCHANGED <<zcf, s_active, s_bytes_received, s_next_block, s_map, pc, acks>>

\* Mutant of AlreadyStored: off by one.
NotYetStored ==
  /\ TakeBlock
  /\ s_active /\ b.subcode <= s_next_block
  /\ Acknowledge(b.subcode)
  /\ UNCHANGED <<zcf, store, s_map, pc>>

AlreadyStored ==
  /\ TakeBlock
  /\ s_active /\ b.subcode < s_next_block
  /\ Acknowledge(b.subcode)
  /\ UNCHANGED <<zcf, store, s_map, pc>>

Gap ==
  /\ TakeBlock
  /\ s_active /\ b.subcode > s_next_block
  /\ UNCHANGED <<zcf, store, s_map, pc, acks>>

\* Mutant of InSequence: the gap test is lost.
AnyOrder == IF s_active THEN b.subcode >= s_next_block ELSE b.subcode = 0

\* What zcf_store_begin_at(0) leaves for the append that follows it.
InSequence == IF s_active THEN b.subcode = s_next_block ELSE b.subcode = 0
Pending    == IF s_active THEN tmp ELSE <<>>
Received   == IF s_active THEN s_bytes_received ELSE 0

\* Mutant of AppendBlock: a full block is taken for the last one.
AppendAndStop ==
  /\ TakeBlock
  /\ InSequence
  /\ s_active' = TRUE
  /\ tmp' = Pending \o b.chunk
  /\ s_bytes_received' = Received + Len(b.chunk)
  /\ s_next_block' = b.subcode + 1
  /\ Acknowledge(b.subcode)
  /\ pc' = IF Len(b.chunk) <= Chunk THEN "validate" ELSE "idle"
  /\ UNCHANGED <<zcf, s_map>>

AppendBlock ==
  /\ TakeBlock
  /\ InSequence
  /\ s_active' = TRUE
  /\ tmp' = Pending \o b.chunk
  /\ s_bytes_received' = Received + Len(b.chunk)
  /\ s_next_block' = b.subcode + 1
  /\ Acknowledge(b.subcode)
  /\ pc' = IF Len(b.chunk) < Chunk THEN "validate" ELSE "idle"
  /\ UNCHANGED <<zcf, s_map>>

\* fopen, fwrite or fclose fails after some of the block reached the file;
\* the counters stay, nothing is acknowledged.
AppendFails ==
  /\ TakeBlock
  /\ "append" \in Faults
  /\ InSequence
  /\ s_active' = TRUE
  /\ \E n \in 0 .. Len(b.chunk) : /\ Len(Pending) + n <= MaxFile
                                  /\ tmp' = Pending \o SubSeq(b.chunk, 1, n)
  /\ s_bytes_received' = Received
  /\ s_next_block' = b.subcode
  /\ UNCHANGED <<zcf, s_map, pc, acks>>

\* Mutant of ValidateOk: the file is committed whatever its CRC is.
CommitUnchecked ==
  /\ pc = "validate"
  /\ pc' = "remove"
  /\ UNCHANGED <<zcf, store, s_map, s_zcf_send_requested, queue, acks, tools>>

\* validate_pending_zcf_crc looks at the first s_bytes_received bytes.
ValidateOk ==
  /\ pc = "validate"
  /\ SubSeq(tmp, 1, s_bytes_received) \in CrcValid
  /\ pc' = "remove"
  /\ UNCHANGED <<zcf, store, s_map, s_zcf_send_requested, queue, acks, tools>>

\* Invalid, or it could not be read: zcf_store_abort.
ValidateFails ==
  /\ pc = "validate"
  /\ \/ SubSeq(tmp, 1, s_bytes_received) \notin CrcValid
     \/ "read" \in Faults
  /\ s_active' = FALSE
  /\ s_bytes_received' = 0
  /\ s_next_block' = 0
  /\ tmp' = NoFile
  /\ pc' = "idle"
  /\ UNCHANGED <<zcf, s_map, s_zcf_send_requested, queue, acks, tools>>

\* zcf_store_complete: remove, whose result nobody looks at, ...
RemoveOld ==
  /\ pc = "remove"
  /\ \/ zcf' = NoFile
     \/ "remove" \in Faults /\ zcf' = zcf
  /\ pc' = "rename"
  /\ UNCHANGED <<store, s_map, s_zcf_send_requested, queue, acks, tools>>

\* Mutants of RenameTmp: the transfer is not ended, the map is not rebuilt.
RenameStaysActive ==
  /\ pc = "rename"
  /\ zcf = NoFile
  /\ zcf' = tmp
  /\ tmp' = NoFile
  /\ pc' = "load"
  /\ UNCHANGED <<s_active, s_bytes_received, s_next_block, s_map, s_zcf_send_requested,
                 queue, acks, tools>>

RenameWithoutLoad ==
  /\ pc = "rename"
  /\ zcf = NoFile
  /\ zcf' = tmp
  /\ tmp' = NoFile
  /\ s_active' = FALSE
  /\ pc' = "idle"
  /\ UNCHANGED <<s_bytes_received, s_next_block, s_map, s_zcf_send_requested, queue, acks, tools>>

\* ... then rename, which refuses to replace an existing file.
RenameTmp ==
  /\ pc = "rename"
  /\ zcf = NoFile
  /\ zcf' = tmp
  /\ tmp' = NoFile
  /\ s_active' = FALSE
  /\ pc' = "load"
  /\ UNCHANGED <<s_bytes_received, s_next_block, s_map, s_zcf_send_requested, queue, acks, tools>>

\* A failed commit is logged; s_active stays set and the handler goes on.
RenameFails ==
  /\ pc = "rename"
  /\ zcf # NoFile \/ "rename" \in Faults
  /\ pc' = "load"
  /\ UNCHANGED <<zcf, store, s_map, s_zcf_send_requested, queue, acks, tools>>

\* zcf_config_load rebuilds the map from whatever is saved now.
LoadMap ==
  /\ pc = "load"
  /\ s_map' = zcf
  /\ pc' = "idle"
  /\ UNCHANGED <<zcf, store, s_zcf_send_requested, queue, acks, tools>>

Handler == \/ LeftoverTerminator \/ MissedBlockZero \/ BeginFails
           \/ AlreadyStored \/ Gap \/ AppendBlock \/ AppendFails
           \/ ValidateOk \/ ValidateFails
           \/ RemoveOld \/ RenameTmp \/ RenameFails \/ LoadMap
-----------------------------------------------------------------------------
(* The rest of the module *)

\* handle_config_claim queues a download; the protocol task starts or drops it.
RequestDownload ==
  /\ s_zcf_send_requested' = ~s_zcf_send_requested
  /\ UNCHANGED <<zcf, store, s_map, pc, queue, acks, tools>>

\* Power loss and boot: the RAM is lost, app_main reloads the map.
Crash ==
  /\ CanCrash
  /\ s_active' = FALSE
  /\ s_bytes_received' = 0
  /\ s_next_block' = 0
  /\ s_map' = zcf
  /\ s_zcf_send_requested' = FALSE
  /\ pc' = "idle"
  /\ queue' = <<>>
  /\ UNCHANGED <<zcf, tmp, acks, tools>>
-----------------------------------------------------------------------------
(* The configuration tool and the bus (external) *)

StartUpload(t, c) ==
  /\ t_cfg[t] = None
  /\ t_cfg' = [t_cfg EXCEPT ![t] = c]
  /\ t_next' = [t_next EXCEPT ![t] = 0]
  /\ UNCHANGED <<zcf, store, s_map, s_zcf_send_requested, pc, queue, acks>>

\* The block the tool waits for, for the first time or after a timeout.
SendBlock(t) ==
  /\ t_cfg[t] # None
  /\ \A u \in Tools : Len(queue) + Len(acks[u]) < MaxInFlight
  /\ queue' = Append(queue, Block(t_cfg[t], t_next[t]))
  /\ UNCHANGED <<zcf, store, s_map, s_zcf_send_requested, pc, acks, tools>>

\* The acknowledgement of the terminator completes the upload; one the tool
\* does not wait for is ignored.
ReceiveAck(t) ==
  /\ acks[t] # <<>>
  /\ acks' = [acks EXCEPT ![t] = Tail(@)]
  /\ LET awaited  == t_cfg[t] # None /\ Head(acks[t]) = t_next[t]
         finished == awaited /\ t_next[t] = Chunks(t_cfg[t])
     IN /\ t_cfg'  = IF finished THEN [t_cfg EXCEPT ![t] = None] ELSE t_cfg
        /\ t_next' = IF ~awaited THEN t_next
                     ELSE [t_next EXCEPT ![t] = IF finished THEN 0 ELSE @ + 1]
  /\ UNCHANGED <<zcf, store, s_map, s_zcf_send_requested, pc, queue>>

GiveUp(t) ==
  /\ t \in Impatient
  /\ t_cfg[t] # None
  /\ t_cfg' = [t_cfg EXCEPT ![t] = None]
  /\ t_next' = [t_next EXCEPT ![t] = 0]
  /\ UNCHANGED <<zcf, store, s_map, s_zcf_send_requested, pc, queue, acks>>

\* A frame of the block is lost on the bus, or a queue on the way is full.
LoseBlock ==
  /\ Lossy
  /\ queue # <<>>
  /\ queue' = Tail(queue)
  /\ UNCHANGED <<zcf, store, s_map, s_zcf_send_requested, pc, acks, tools>>

LoseAck(t) ==
  /\ Lossy
  /\ acks[t] # <<>>
  /\ acks' = [acks EXCEPT ![t] = Tail(@)]
  /\ UNCHANGED <<zcf, store, s_map, s_zcf_send_requested, pc, queue, tools>>
-----------------------------------------------------------------------------
Next ==
  \/ Handler
  \/ RequestDownload
  \/ Crash
  \/ LoseBlock
  \/ \E t \in Tools : \/ \E c \in Configs : StartUpload(t, c)
                      \/ SendBlock(t) \/ ReceiveAck(t) \/ GiveUp(t) \/ LoseAck(t)

Spec == Init /\ [][Next]_vars

\* czone_protocol_rx_task keeps running.  The tool keeps retransmitting, and a
\* bus that loses frames does not lose all of them: what is sent again and
\* again is handled, and answered, again and again.
Fairness == /\ SF_vars(Handler)
            /\ \A t \in Tools : WF_vars(SendBlock(t)) /\ SF_vars(ReceiveAck(t))

FairSpec == Spec /\ Fairness
-----------------------------------------------------------------------------
TypeOK ==
  /\ zcf \in Seq(Cells) \cup {NoFile}
  /\ s_map \in Seq(Cells) \cup {NoFile}
  /\ tmp \in Seq(Cells) \cup {NoFile}
  /\ s_active \in BOOLEAN
  /\ s_active => tmp # NoFile
  /\ s_bytes_received \in Nat
  /\ s_next_block \in Nat
  /\ s_zcf_send_requested \in BOOLEAN
  /\ pc \in {"idle", "validate", "remove", "rename", "load"}
  /\ queue \in Seq([subcode : Nat, chunk : Seq(Cells)])
  /\ acks \in [Tools -> Seq(Nat)]
  /\ t_cfg \in [Tools -> Configs \cup {None}]
  /\ t_next \in [Tools -> Nat]

\* Whatever is saved passed the CRC check as a whole, even when two uploads
\* were mixed in the temporary file, and also across power loss
\* (handle_zcf_datablock: "Refuse to store a config that fails its internal
\* CRC").  Writes that fail half way are excluded: see SavedStartsValid.
SavedIsValid == zcf # NoFile => zcf \in CrcValid

\* After failed writes the temporary file may hold more than s_bytes_received
\* says, so that only a prefix of what is saved was validated.
SavedStartsValid ==
  zcf # NoFile => \E n \in 0 .. Len(zcf) : SubSeq(zcf, 1, n) \in CrcValid

\* Every unit of the temporary file lies at its own offset: no block is lost,
\* repeated or stored out of order ("Ignore without an ACK so the tool
\* retransmits the missing block instead of us storing out of order").
StoredInOrder == s_active => \A i \in 1 .. Len(tmp) : tmp[i][2] = i

\* Between two blocks, the relays are switched by the file that is saved.
MapMatchesSaved == pc = "idle" => s_map = zcf

\* A block acknowledged as "Already stored" holds what is stored at its place.
ReAckedIsStored ==
  [][AlreadyStored =>
       \A i \in 1 .. Len(b.chunk) : /\ b.subcode * Chunk + i <= Len(tmp)
                                    /\ tmp[b.subcode * Chunk + i] = b.chunk[i]]_vars

\* "Config survives power loss and is re-applied at boot" (README.md).
ConfigSurvivesPowerLoss == [][Crash /\ s_map # NoFile => s_map' # NoFile]_vars

\* The one case in which nothing answers tool t any more: its file ends with a
\* short block, the file has been committed, and the acknowledgement of that
\* block is lost.  Its repetition is no terminator and belongs to no transfer.
UnansweredCommit(t) ==
  /\ Size[t_cfg[t]] % Chunk # 0
  /\ t_next[t] = Chunks(t_cfg[t]) - 1
  /\ ~s_active
  /\ zcf = File(t_cfg[t])

\* Every upload a tool starts is acknowledged to its end, over a bus that loses
\* blocks and acknowledgements, or the file is saved and only the tool does not
\* know ("so the tool's handshake can complete", handle_zcf_datablock).
UploadCompletes ==
  \A t \in Tools : t_cfg[t] # None ~> (t_cfg[t] = None \/ UnansweredCommit(t))

\* The transfer implements the store it promises: saved is the file config.zcf,
\* taken to be replaced at the moment the old one is removed, and the module
\* answers for a temporary file from its last block on.
Store == INSTANCE ConfigStore WITH
  Clients  <- Tools,
  Values   <- {File(c) : c \in Configs},
  Nothing  <- NoFile,
  wanted   <- [t \in Tools |-> IF t_cfg[t] = None THEN NoFile ELSE File(t_cfg[t])],
  accepted <- IF pc \in {"validate", "remove"} THEN tmp ELSE NoFile,
  saved    <- IF pc = "rename" THEN tmp ELSE zcf,
  applied  <- s_map

ImplementsConfigStore == Store!Spec
=============================================================================
