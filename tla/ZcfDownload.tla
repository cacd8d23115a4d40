----------------------------- MODULE ZcfDownload -----------------------------
(***************************************************************************)
(* Sending the stored ZCF to a configuration tool.  protocol_task runs     *)
(* czone_protocol_send_zcf: it announces the size, then sends block after  *)
(* block and an empty terminator, each at most ZCF_SEND_MAX_RETRIES times, *)
(* and waits on a binary semaphore for the acknowledgement, which          *)
(* czone_protocol_rx_task gives in handle_zcf_datablock_ack.  The two      *)
(* tasks share five volatile variables and no lock.                        *)
(*                                                                         *)
(* Whatever hears the blocks may acknowledge them: the tool, and the other *)
(* modules on the bus that take the download for an upload.                *)
(***************************************************************************)
EXTENDS ZcfBlocks

CONSTANTS
  NoFile,                \* there is no stored file
  Modules,               \* the other modules that acknowledge our blocks
  ZCF_SEND_MAX_RETRIES,
  Lossy,        \* TRUE: blocks and acknowledgements can be lost
  Rejects,      \* TRUE: the tool may refuse a block
  Replaced,     \* TRUE: an upload may replace the file during the download
  MaxInFlight   \* bound of the model: acknowledgements in flight

ASSUME DownloadAssumption ==
  /\ Chunk \in Nat \ {0}
  /\ Size \in [Configs -> Nat \ {0}]
  /\ NoFile \notin Seq(Cells)
  /\ ZCF_SEND_MAX_RETRIES \in Nat \ {0}
  /\ Lossy \in BOOLEAN
  /\ Rejects \in BOOLEAN
  /\ Replaced \in BOOLEAN
  /\ MaxInFlight \in Nat

NoStatus == 255
Ack == [block : Nat, status : {0, 1, 2}]

VARIABLES
  zcf,             \* the file ZCF_PATH
  pc,              \* where protocol_task is
  file_size,       \* locals of czone_protocol_send_zcf
  block_index,
  chunk,
  attempt,
  result,          \* what it returned last: "ok", "failed", or "none" yet
  s_zcf_send_waiting_ack,
  s_zcf_send_ack_block,
  s_zcf_send_ack_status,
  s_zcf_send_ack_sem,    \* TRUE: the semaphore has been given
  giving,          \* acknowledgements handle_zcf_datablock_ack has found good
  bus,             \* blocks on their way to the tool
  acks,            \* acknowledgements on their way to us
  t_next,          \* the block the tool waits for
  t_data,          \* what it has received
  t_done,          \* it has received the terminator
  source,          \* history: the file all of t_data is of, or NoFile
  misled           \* history: an acknowledgement that is not the tool's, or is for
                   \* another block, has been given in this download

sender == <<file_size, block_index, chunk, attempt>>
shared == <<s_zcf_send_waiting_ack, s_zcf_send_ack_block, s_zcf_send_ack_status, s_zcf_send_ack_sem>>
tool   == <<t_next, t_data, t_done>>
history == <<source, misled>>
vars   == <<zcf, pc, sender, result, shared, giving, bus, acks, tool, history>>

Init ==
  /\ zcf \in {File(c) : c \in Configs}
  /\ pc = "idle"
  /\ file_size = 0 /\ block_index = 0 /\ chunk = <<>> /\ attempt = 0
  /\ result = "none"
  /\ s_zcf_send_waiting_ack = FALSE
  /\ s_zcf_send_ack_block = 0
  /\ s_zcf_send_ack_status = NoStatus
  /\ s_zcf_send_ack_sem = FALSE
  /\ giving = <<>>
  /\ bus = <<>>
  /\ acks = <<>>
  /\ t_next = 0 /\ t_data = <<>> /\ t_done = FALSE
  /\ source = zcf
  /\ misled = FALSE
-----------------------------------------------------------------------------
(* czone_protocol_send_zcf *)

TotalBlocks == (file_size + Chunk - 1) \div Chunk + 1
ChunkLen(k) == LET remaining == IF k * Chunk < file_size THEN file_size - k * Chunk ELSE 0
               IN IF remaining < Chunk THEN remaining ELSE Chunk

Return(r) == /\ result' = r
             /\ pc' = "idle"
             /\ s_zcf_send_waiting_ack' = FALSE

\* The size claim makes the tool ready for block 0, unless it is lost.  By now
\* the frames of an earlier download are gone: a download begins a second after
\* the request for it (ZCF_SEND_TRIGGER_DELAY_MS and the arbitration).
Announce ==
  /\ pc = "idle"
  /\ zcf # NoFile
  /\ bus = <<>> /\ acks = <<>> /\ giving = <<>>
  /\ file_size' = Len(zcf)
  /\ misled' = FALSE
  /\ block_index' = 0
  /\ pc' = "read"
  /\ \/ t_next' = 0 /\ t_data' = <<>> /\ t_done' = FALSE /\ source' = zcf
     \/ /\ Lossy
        /\ UNCHANGED tool
        /\ source' = IF source = zcf THEN zcf ELSE NoFile
  /\ UNCHANGED <<zcf, chunk, attempt, result, shared, giving, bus, acks>>

Readable(len) == zcf # NoFile /\ block_index * Chunk + len <= Len(zcf)

\* Mutant of ReadBlock: a short block is read at a multiple of its own length.
ReadShortBlock ==
  /\ pc = "read"
  /\ LET len == ChunkLen(block_index)
     IN /\ len > 0 => Readable(len)
        /\ chunk' = IF len > 0 THEN SubSeq(zcf, block_index * len + 1, block_index * len + len)
                    ELSE <<>>
  /\ attempt' = 1
  /\ pc' = "arm"
  /\ UNCHANGED <<zcf, file_size, block_index, result, shared, giving, bus, acks, tool, history>>

\* The terminator is not read: it has no data.
ReadBlock ==
  /\ pc = "read"
  /\ LET len == ChunkLen(block_index)
     IN /\ len > 0 => Readable(len)
        /\ chunk' = IF len > 0 THEN SubSeq(zcf, block_index * Chunk + 1, block_index * Chunk + len)
                    ELSE <<>>
  /\ attempt' = 1
  /\ pc' = "arm"
  /\ UNCHANGED <<zcf, file_size, block_index, result, shared, giving, bus, acks, tool, history>>

\* The file has been removed, or is too short for the announced size.
ReadFails ==
  /\ pc = "read"
  /\ LET len == ChunkLen(block_index)
     IN len > 0 /\ ~Readable(len)
  /\ Return("failed")
  /\ UNCHANGED <<zcf, sender, s_zcf_send_ack_block, s_zcf_send_ack_status, s_zcf_send_ack_sem,
                 giving, bus, acks, tool, history>>

\* arm_zcf_send_ack: the variables first, then the semaphore is emptied.
Arm ==
  /\ pc = "arm"
  /\ s_zcf_send_ack_status' = NoStatus
  /\ s_zcf_send_ack_block' = block_index
  /\ s_zcf_send_waiting_ack' = TRUE
  /\ pc' = "drain"
  /\ UNCHANGED <<zcf, sender, result, s_zcf_send_ack_sem, giving, bus, acks, tool, history>>

Drain ==
  /\ pc = "drain"
  /\ s_zcf_send_ack_sem' = FALSE
  /\ pc' = "send"
  /\ UNCHANGED <<zcf, sender, result, s_zcf_send_waiting_ack, s_zcf_send_ack_block,
                 s_zcf_send_ack_status, giving, bus, acks, tool, history>>

\* One copy of the block is on its way to the tool; each of the other modules
\* acknowledges its own copy.  The frames of earlier ones are gone by now.
SendBlock ==
  /\ pc = "send"
  /\ bus = <<>>
  /\ bus' = <<[subcode |-> block_index, chunk |-> chunk]>>
  /\ pc' = "wait"
  /\ UNCHANGED <<zcf, sender, result, shared, giving, acks, tool, history>>

\* The transmit queue refuses a frame of the block.
SendFails ==
  /\ pc = "send"
  /\ Lossy
  /\ Return("failed")
  /\ UNCHANGED <<zcf, sender, s_zcf_send_ack_block, s_zcf_send_ack_status, s_zcf_send_ack_sem,
                 giving, bus, acks, tool, history>>

\* wait_zcf_send_ack was given the semaphore.
AckTaken ==
  /\ pc = "wait"
  /\ s_zcf_send_ack_sem
  /\ s_zcf_send_ack_sem' = FALSE
  /\ pc' = "check"
  /\ UNCHANGED <<zcf, sender, result, s_zcf_send_waiting_ack, s_zcf_send_ack_block,
                 s_zcf_send_ack_status, giving, bus, acks, tool, history>>

\* Mutant of Accepted: any answer will do.
Answered == s_zcf_send_ack_status # NoStatus

\* Until here the handler goes on to accept acknowledgements of this block.
Accepted == \/ s_zcf_send_ack_status = 0
            \/ chunk = <<>> /\ s_zcf_send_ack_status = 1

NextBlock ==
  /\ pc = "check"
  /\ Accepted
  /\ block_index + 1 < TotalBlocks
  /\ block_index' = block_index + 1
  /\ s_zcf_send_waiting_ack' = FALSE
  /\ pc' = "read"
  /\ UNCHANGED <<zcf, file_size, chunk, attempt, result, s_zcf_send_ack_block, s_zcf_send_ack_status,
                 s_zcf_send_ack_sem, giving, bus, acks, tool, history>>

LastBlockAccepted ==
  /\ pc = "check"
  /\ Accepted
  /\ block_index + 1 = TotalBlocks
  /\ Return("ok")
  /\ UNCHANGED <<zcf, sender, s_zcf_send_ack_block, s_zcf_send_ack_status, s_zcf_send_ack_sem,
                 giving, bus, acks, tool, history>>

\* Nothing came in time (an acknowledgement may take longer than the timeout), or
\* what came was a refusal.
Unanswered == \/ pc = "check" /\ ~Accepted
              \/ pc = "wait" /\ ~s_zcf_send_ack_sem

\* Mutants of Retry: one attempt too many; attempts are not counted.
RetryOnceMore ==
  /\ Unanswered
  /\ attempt <= ZCF_SEND_MAX_RETRIES
  /\ attempt' = attempt + 1
  /\ s_zcf_send_waiting_ack' = FALSE
  /\ pc' = "arm"
  /\ UNCHANGED <<zcf, file_size, block_index, chunk, result, s_zcf_send_ack_block, s_zcf_send_ack_status,
                 s_zcf_send_ack_sem, giving, bus, acks, tool, history>>

RetryForever ==
  /\ Unanswered
  /\ attempt < ZCF_SEND_MAX_RETRIES
  /\ s_zcf_send_waiting_ack' = FALSE
  /\ pc' = "arm"
  /\ UNCHANGED <<zcf, sender, result, s_zcf_send_ack_block, s_zcf_send_ack_status,
                 s_zcf_send_ack_sem, giving, bus, acks, tool, history>>

Retry ==
  /\ Unanswered
  /\ attempt < ZCF_SEND_MAX_RETRIES
  /\ attempt' = attempt + 1
  /\ s_zcf_send_waiting_ack' = FALSE
  /\ pc' = "arm"
  /\ UNCHANGED <<zcf, file_size, block_index, chunk, result, s_zcf_send_ack_block, s_zcf_send_ack_status,
                 s_zcf_send_ack_sem, giving, bus, acks, tool, history>>

GiveUp ==
  /\ Unanswered
  /\ attempt = ZCF_SEND_MAX_RETRIES
  /\ Return("failed")
  /\ UNCHANGED <<zcf, sender, s_zcf_send_ack_block, s_zcf_send_ack_status, s_zcf_send_ack_sem,
                 giving, bus, acks, tool, history>>

Sender == \/ ReadBlock \/ ReadFails \/ Arm \/ Drain \/ SendBlock \/ SendFails \/ AckTaken
          \/ NextBlock \/ LastBlockAccepted \/ Retry \/ GiveUp
-----------------------------------------------------------------------------
(* handle_zcf_datablock_ack *)

Awaited(a) == s_zcf_send_waiting_ack /\ a.block = s_zcf_send_ack_block

IgnoreAck ==
  /\ giving = <<>> /\ acks # <<>>
  /\ ~Awaited(Head(acks))
  /\ acks' = Tail(acks)
  /\ UNCHANGED <<zcf, pc, sender, result, shared, giving, bus, tool, history>>

\* The test of the acknowledgement; the sender may run before it is given.
AcceptAck ==
  /\ giving = <<>> /\ acks # <<>>
  /\ Awaited(Head(acks))
  /\ acks' = Tail(acks)
  /\ giving' = <<Head(acks)>>
  /\ UNCHANGED <<zcf, pc, sender, result, shared, bus, tool, history>>

GiveAck ==
  /\ giving # <<>>
  /\ s_zcf_send_ack_status' = Head(giving).status
  /\ s_zcf_send_ack_sem' = TRUE
  /\ misled' = (misled \/ Head(giving).block # s_zcf_send_ack_block)
  /\ giving' = <<>>
  /\ UNCHANGED <<zcf, pc, sender, result, s_zcf_send_waiting_ack, s_zcf_send_ack_block,
                 bus, acks, tool, source>>

Handler == IgnoreAck \/ AcceptAck \/ GiveAck
-----------------------------------------------------------------------------
(* The tool, the other modules and the bus (external) *)

\* A full receive queue drops what comes.
Answer(k, status) ==
  acks' = IF Len(acks) < MaxInFlight THEN Append(acks, [block |-> k, status |-> status]) ELSE acks

\* The tool stores the block it waits for, and confirms it again when it comes
\* again; a terminator is confirmed with status 1.
ToolReceives ==
  /\ bus # <<>>
  /\ bus' = <<>>
  /\ LET b == Head(bus)
     IN \/ /\ b.subcode = t_next
           /\ t_next' = t_next + 1
           /\ t_data' = t_data \o b.chunk
           /\ t_done' = (b.chunk = <<>>)
           /\ Answer(b.subcode, IF b.chunk = <<>> THEN 1 ELSE 0)
        \/ /\ b.subcode < t_next
           /\ Answer(b.subcode, IF b.chunk = <<>> THEN 1 ELSE 0)
           /\ UNCHANGED tool
        \/ /\ b.subcode > t_next
           /\ UNCHANGED <<tool, acks>>
        \/ /\ Rejects /\ b.subcode = t_next
           /\ Answer(b.subcode, 2)
           /\ UNCHANGED tool
  /\ UNCHANGED <<zcf, pc, sender, result, shared, giving, history>>

\* Another module of this make stores our block as an upload and confirms it
\* with the target we gave it, our own address.
ModuleAnswers ==
  /\ bus # <<>>
  /\ Modules # {}
  /\ Answer(Head(bus).subcode, 0)
  /\ misled' = TRUE
  /\ UNCHANGED <<zcf, pc, sender, result, shared, giving, bus, tool, source>>

Lose ==
  /\ Lossy
  /\ \/ bus # <<>> /\ bus' = <<>> /\ UNCHANGED acks
     \/ acks # <<>> /\ acks' = Tail(acks) /\ UNCHANGED bus
  /\ UNCHANGED <<zcf, pc, sender, result, shared, giving, tool, history>>

\* handle_zcf_datablock commits an upload: it cancels a queued download, not
\* one that is running.
ReplaceFile ==
  /\ Replaced
  /\ zcf' \in ({NoFile} \cup {File(c) : c \in Configs}) \ {zcf}
  /\ source' = NoFile
  /\ UNCHANGED <<pc, sender, result, shared, giving, bus, acks, tool, misled>>
-----------------------------------------------------------------------------
Next == \/ Announce \/ Sender \/ Handler
        \/ ToolReceives \/ ModuleAnswers \/ Lose \/ ReplaceFile

Spec == Init /\ [][Next]_vars

\* Both tasks run, and what is on the bus arrives or is lost.
Fairness == /\ WF_vars(Sender)
            /\ WF_vars(Handler)
            /\ WF_vars(ToolReceives)

FairSpec == Spec /\ Fairness
-----------------------------------------------------------------------------
TypeOK ==
  /\ zcf \in Seq(Cells) \cup {NoFile}
  /\ source \in Seq(Cells) \cup {NoFile}
  /\ misled \in BOOLEAN
  /\ pc \in {"idle", "read", "arm", "drain", "send", "wait", "check"}
  /\ file_size \in Nat /\ block_index \in Nat
  /\ chunk \in Seq(Cells)
  /\ attempt \in 0 .. ZCF_SEND_MAX_RETRIES
  /\ result \in {"none", "ok", "failed"}
  /\ s_zcf_send_waiting_ack \in BOOLEAN
  /\ s_zcf_send_ack_block \in Nat
  /\ s_zcf_send_ack_status \in {0, 1, 2, NoStatus}
  /\ s_zcf_send_ack_sem \in BOOLEAN
  /\ giving \in Seq(Ack) /\ Len(giving) <= 1
  /\ bus \in Seq([subcode : Nat, chunk : Seq(Cells)]) /\ Len(bus) <= 1
  /\ acks \in Seq(Ack)
  /\ t_next \in Nat /\ t_data \in Seq(Cells) /\ t_done \in BOOLEAN

\* When the module reports "stored ZCF sent" the tool has the whole file, unless
\* the file was replaced meanwhile or an acknowledgement counted that was not
\* the tool's answer to the block: another module's, or one that had passed the
\* test in handle_zcf_datablock_ack before the sender armed the next block.
\* Losses, refusals, late and repeated answers alone never mislead the sender.
SentIsReceived ==
  [][pc # "idle" /\ pc' = "idle" /\ result' = "ok" =>
       misled \/ source = NoFile \/ (t_done /\ t_data = source)]_vars

\* What the tool has received is a beginning of the file the download began
\* with, whatever is lost, repeated or late, unless the file was replaced.
ReceivedIsPrefix == source # NoFile => t_data = SubSeq(source, 1, Len(t_data))

\* A download ends, whether or not anybody answers, and the module goes back to
\* reporting its state.
DownloadEnds == pc # "idle" ~> pc = "idle"
=============================================================================
