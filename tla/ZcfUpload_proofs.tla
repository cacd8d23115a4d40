--------------------------- MODULE ZcfUpload_proofs ---------------------------
(***************************************************************************)
(* Proofs about the upload of a configuration, for any files, any number   *)
(* of tools, any loss and any number of power failures.                    *)
(***************************************************************************)
EXTENDS ZcfUpload, TLAPS

BlockType == [subcode : Nat, chunk : Seq(Cells)]

\* What a tool sends has the type of a block.
LEMMA BlockTyped ==
  ASSUME NEW c \in Configs, NEW k \in Nat
  PROVE  Block(c, k) \in BlockType
<1>1. Chunk \in Nat /\ Size[c] \in Nat
  BY UploadAssumption
<1>2. k * Chunk \in Nat
  BY <1>1
<1>3. Left(c, k) \in Nat
  BY <1>1, <1>2 DEF Left
<1> DEFINE n == IF Left(c, k) < Chunk THEN Left(c, k) ELSE Chunk
<1>4. n \in Nat
  BY <1>1, <1>3
<1>5. \A i \in 1 .. n : <<c, k * Chunk + i>> \in Cells
  BY <1>2, <1>4 DEF Cells
<1>6. [i \in 1 .. n |-> <<c, k * Chunk + i>>] \in Seq(Cells)
  BY <1>4, <1>5
<1> QED
  BY <1>6 DEF Block, BlockType

\* A file has the type of a file.
LEMMA FileTyped == \A c \in Configs : File(c) \in Seq(Cells)
<1> SUFFICES ASSUME NEW c \in Configs PROVE File(c) \in Seq(Cells)
  OBVIOUS
<1>1. Size[c] \in Nat
  BY UploadAssumption
<1>2. \A i \in 1 .. Size[c] : <<c, i>> \in Cells
  BY <1>1 DEF Cells
<1> QED
  BY <1>1, <1>2 DEF File

\* The first n units of a sequence of units.
LEMMA PrefixTyped ==
  ASSUME NEW s \in Seq(Cells), NEW n \in 0 .. Len(s)
  PROVE  SubSeq(s, 1, n) \in Seq(Cells) /\ Len(SubSeq(s, 1, n)) = n
  OBVIOUS

\* Taking the oldest element of a queue.
LEMMA QueueTyped ==
  ASSUME NEW S, NEW s \in Seq(S), s # <<>>
  PROVE  Head(s) \in S /\ Tail(s) \in Seq(S)
  OBVIOUS

\* Every variable of the upload keeps its type, and a transfer that is being
\* received has its temporary file.
THEOREM TypeCorrect == Spec => []TypeOK
<1>1. Init => TypeOK
  <2> SUFFICES ASSUME Init PROVE TypeOK
    OBVIOUS
  <2>1. zcf \in Seq(Cells) \cup {NoFile}
    BY FileTyped DEF Init
  <2>2. queue \in Seq(BlockType) /\ acks \in [Tools -> Seq(Nat)]
    BY DEF Init
  <2> QED
    BY <2>1, <2>2 DEF Init, TypeOK, BlockType
<1>2. TypeOK /\ [Next]_vars => TypeOK'
  <2> SUFFICES ASSUME TypeOK, [Next]_vars PROVE TypeOK'
    OBVIOUS
  <2> USE DEF TypeOK, store, tools
  <2>1. CASE UNCHANGED vars
    BY <2>1 DEF vars
  <2>2. ASSUME TakeBlock
        PROVE  /\ b \in BlockType
               /\ queue' \in Seq(BlockType)
               /\ s_zcf_send_requested' \in BOOLEAN
               /\ t_cfg' = t_cfg /\ t_next' = t_next
    <3>1. queue \in Seq(BlockType) /\ queue # <<>>
      BY <2>2 DEF TakeBlock, BlockType
    <3> QED
      BY <2>2, <3>1, QueueTyped DEF TakeBlock, b
  <2>3. ASSUME NEW k \in Nat, Acknowledge(k)
        PROVE  acks' \in [Tools -> Seq(Nat)]
    BY <2>3 DEF Acknowledge
  <2>4. CASE LeftoverTerminator
    BY <2>2, <2>3, <2>4 DEF LeftoverTerminator, BlockType
  <2>5. CASE MissedBlockZero
    BY <2>2, <2>5 DEF MissedBlockZero, BlockType
  <2>6. CASE BeginFails
    BY <2>2, <2>6 DEF BeginFails, BlockType
  <2>7. CASE AlreadyStored
    BY <2>2, <2>3, <2>7 DEF AlreadyStored, BlockType
  <2>8. CASE Gap
    BY <2>2, <2>8 DEF Gap, BlockType
  <2>9. Pending \in Seq(Cells) /\ Received \in Nat
    BY DEF Pending, Received
  <2>10. CASE AppendBlock
    <3>1. TakeBlock
      BY <2>10 DEF AppendBlock
    <3>2. b.chunk \in Seq(Cells) /\ Len(b.chunk) \in Nat /\ b.subcode \in Nat
      BY <2>2, <3>1 DEF BlockType
    <3>3. tmp' \in Seq(Cells) /\ s_bytes_received' \in Nat /\ s_next_block' \in Nat
      BY <2>9, <2>10, <3>2 DEF AppendBlock
    <3>4. acks' \in [Tools -> Seq(Nat)]
      BY <2>3, <2>10, <3>2 DEF AppendBlock
    <3>5. tmp' # NoFile
      BY <3>3, UploadAssumption
    <3>6. pc' \in {"idle", "validate"}
      BY <2>10 DEF AppendBlock
    <3> QED
      BY <2>2, <2>10, <3>1, <3>3, <3>4, <3>5, <3>6 DEF AppendBlock, BlockType
  <2>11. CASE AppendFails
    <3>1. TakeBlock
      BY <2>11 DEF AppendFails
    <3>2. b.chunk \in Seq(Cells) /\ Len(b.chunk) \in Nat /\ b.subcode \in Nat
      BY <2>2, <3>1 DEF BlockType
    <3>3. PICK n \in 0 .. Len(b.chunk) : tmp' = Pending \o SubSeq(b.chunk, 1, n)
      BY <2>11 DEF AppendFails
    <3>4. tmp' \in Seq(Cells)
      BY <2>9, <3>2, <3>3, PrefixTyped
    <3>5. tmp' # NoFile
      BY <3>4, UploadAssumption
    <3> QED
      BY <2>2, <2>9, <2>11, <3>1, <3>2, <3>4, <3>5 DEF AppendFails, BlockType
  <2>12. CASE ValidateOk
    BY <2>12 DEF ValidateOk
  <2>13. CASE ValidateFails
    BY <2>13 DEF ValidateFails
  <2>14. CASE RemoveOld
    BY <2>14 DEF RemoveOld
  <2>15. CASE RenameTmp
    BY <2>15 DEF RenameTmp
  <2>16. CASE RenameFails
    BY <2>16 DEF RenameFails
  <2>17. CASE LoadMap
    BY <2>17 DEF LoadMap
  <2>18. CASE RequestDownload
    BY <2>18 DEF RequestDownload
  <2>19. CASE Crash
    <3>1. queue' \in Seq(BlockType)
      BY <2>19 DEF Crash
    <3> QED
      BY <2>19, <3>1 DEF Crash, BlockType
  <2>20. CASE LoseBlock
    <3>1. queue \in Seq(BlockType) /\ queue # <<>>
      BY <2>20 DEF LoseBlock, BlockType
    <3>2. queue' \in Seq(BlockType)
      BY <2>20, <3>1, QueueTyped DEF LoseBlock
    <3> QED
      BY <2>20, <3>2 DEF LoseBlock, BlockType
  <2>21. ASSUME NEW t \in Tools, NEW c \in Configs, StartUpload(t, c)
         PROVE  TypeOK'
    BY <2>21 DEF StartUpload
  <2>22. ASSUME NEW t \in Tools, SendBlock(t)
         PROVE  TypeOK'
    <3>1. Block(t_cfg[t], t_next[t]) \in BlockType
      BY <2>22, BlockTyped DEF SendBlock
    <3>2. queue' \in Seq(BlockType)
      BY <2>22, <3>1 DEF SendBlock, BlockType
    <3> QED
      BY <2>22, <3>2 DEF SendBlock, BlockType
  <2>23. ASSUME NEW t \in Tools, ReceiveAck(t)
         PROVE  TypeOK'
    <3>1. acks' \in [Tools -> Seq(Nat)]
      BY <2>23 DEF ReceiveAck
    <3>2. t_cfg' \in [Tools -> Configs \cup {None}] /\ t_next' \in [Tools -> Nat]
      BY <2>23 DEF ReceiveAck
    <3> QED
      BY <2>23, <3>1, <3>2 DEF ReceiveAck
  <2>24. ASSUME NEW t \in Tools, GiveUp(t)
         PROVE  TypeOK'
    BY <2>24 DEF GiveUp
  <2>25. ASSUME NEW t \in Tools, LoseAck(t)
         PROVE  TypeOK'
    BY <2>25 DEF LoseAck
  <2> QED
    BY <2>1, <2>4, <2>5, <2>6, <2>7, <2>8, <2>10, <2>11, <2>12, <2>13, <2>14, <2>15,
       <2>16, <2>17, <2>18, <2>19, <2>20, <2>21, <2>22, <2>23, <2>24, <2>25
       DEF Next, Handler
<1> QED
  BY <1>1, <1>2, PTL DEF Spec

-----------------------------------------------------------------------------
\* The map is rebuilt in the step that ends every replacement of the file, and
\* by the boot; until then the old map belongs to the file that is replaced.
MapInv == pc \in {"idle", "validate", "remove"} => s_map = zcf

\* Between two blocks the relays are switched by the saved file, whatever
\* fails and whenever the power goes.
THEOREM MapCorrect == Spec => []MapMatchesSaved
<1>1. Init => MapInv
  BY DEF Init, MapInv
<1>2. MapInv /\ [Next]_vars => MapInv'
  <2> SUFFICES ASSUME MapInv, [Next]_vars PROVE MapInv'
    OBVIOUS
  <2> USE DEF MapInv
  <2>1. CASE UNCHANGED vars
    BY <2>1 DEF vars
  <2>2. CASE LeftoverTerminator \/ MissedBlockZero \/ BeginFails \/ AlreadyStored \/ Gap
    BY <2>2 DEF LeftoverTerminator, MissedBlockZero, BeginFails, AlreadyStored, Gap, TakeBlock
  <2>3. CASE AppendBlock \/ AppendFails
    BY <2>3 DEF AppendBlock, AppendFails, TakeBlock
  <2>4. CASE ValidateOk \/ ValidateFails
    BY <2>4 DEF ValidateOk, ValidateFails
  <2>5. CASE RemoveOld \/ RenameTmp \/ RenameFails \/ LoadMap
    BY <2>5 DEF RemoveOld, RenameTmp, RenameFails, LoadMap
  <2>6. CASE RequestDownload \/ Crash \/ LoseBlock
    BY <2>6 DEF RequestDownload, Crash, LoseBlock
  <2>7. ASSUME NEW t \in Tools,
               \/ \E c \in Configs : StartUpload(t, c)
               \/ SendBlock(t) \/ ReceiveAck(t) \/ GiveUp(t) \/ LoseAck(t)
        PROVE  MapInv'
    BY <2>7 DEF StartUpload, SendBlock, ReceiveAck, GiveUp, LoseAck
  <2> QED
    BY <2>1, <2>2, <2>3, <2>4, <2>5, <2>6, <2>7 DEF Next, Handler
<1>3. MapInv => MapMatchesSaved
  BY DEF MapInv, MapMatchesSaved
<1> QED
  BY <1>1, <1>2, <1>3, PTL DEF Spec
-----------------------------------------------------------------------------
\* What makes SavedIsValid inductive: the counter the CRC check trusts counts
\* the temporary file, and a file that is about to be renamed was checked.
ValidInv ==
  /\ SavedIsValid
  /\ s_active => tmp \in Seq(Cells) /\ s_bytes_received = Len(tmp)
  /\ pc \in {"validate", "remove", "rename"} => s_active
  /\ pc \in {"remove", "rename"} => tmp \in CrcValid

\* If no write fails half way, whatever is ever saved has passed the CRC check
\* as a whole: uploads may be lost, repeated, abandoned, mixed with those of
\* other tools and cut short by power loss.
THEOREM SavedCorrect ==
  ASSUME "append" \notin Faults
  PROVE  Spec => []SavedIsValid
<1>1. Init => ValidInv
  BY UploadAssumption DEF Init, ValidInv, SavedIsValid
<1>2. TypeOK /\ ValidInv /\ [Next]_vars => ValidInv'
  <2> SUFFICES ASSUME TypeOK, ValidInv, [Next]_vars PROVE ValidInv'
    OBVIOUS
  <2> USE DEF ValidInv, SavedIsValid, store, tools
  <2>1. CASE UNCHANGED vars
    BY <2>1 DEF vars
  <2>2. CASE LeftoverTerminator \/ MissedBlockZero \/ AlreadyStored \/ Gap
    BY <2>2 DEF LeftoverTerminator, MissedBlockZero, AlreadyStored, Gap, TakeBlock
  <2>3. CASE BeginFails
    BY <2>3 DEF BeginFails, TakeBlock
  <2>4. CASE AppendBlock
    <3>1. b \in BlockType /\ pc = "idle"
      <4>1. queue \in Seq(BlockType) /\ queue # <<>> /\ pc = "idle"
        BY <2>4 DEF AppendBlock, TakeBlock, TypeOK, BlockType
      <4> QED
        BY <4>1, QueueTyped DEF b
    <3>2. b.chunk \in Seq(Cells)
      BY <3>1 DEF BlockType
    <3>3. Pending \in Seq(Cells) /\ Received = Len(Pending)
      BY DEF Pending, Received
    <3>4. tmp' \in Seq(Cells) /\ s_bytes_received' = Len(tmp')
      BY <2>4, <3>2, <3>3 DEF AppendBlock
    <3>5. s_active' /\ pc' \in {"idle", "validate"} /\ zcf' = zcf
      BY <2>4 DEF AppendBlock
    <3> QED
      BY <3>4, <3>5
  <2>5. CASE AppendFails
    BY <2>5 DEF AppendFails
  <2>6. CASE ValidateOk
    <3>1. tmp \in Seq(Cells) /\ s_bytes_received = Len(tmp)
      BY <2>6 DEF ValidateOk
    <3>2. SubSeq(tmp, 1, s_bytes_received) = tmp
      BY <3>1
    <3> QED
      BY <2>6, <3>2 DEF ValidateOk
  <2>7. CASE ValidateFails
    BY <2>7 DEF ValidateFails
  <2>8. CASE RemoveOld
    BY <2>8 DEF RemoveOld
  <2>9. CASE RenameTmp
    BY <2>9 DEF RenameTmp
  <2>10. CASE RenameFails
    BY <2>10 DEF RenameFails
  <2>11. CASE LoadMap \/ RequestDownload
    BY <2>11 DEF LoadMap, RequestDownload
  <2>12. CASE Crash
    BY <2>12 DEF Crash
  <2>13. CASE LoseBlock
    BY <2>13 DEF LoseBlock
  <2>14. ASSUME NEW t \in Tools,
                \/ \E c \in Configs : StartUpload(t, c)
                \/ SendBlock(t) \/ ReceiveAck(t) \/ GiveUp(t) \/ LoseAck(t)
         PROVE  ValidInv'
    BY <2>14 DEF StartUpload, SendBlock, ReceiveAck, GiveUp, LoseAck
  <2> QED
    BY <2>1, <2>2, <2>3, <2>4, <2>5, <2>6, <2>7, <2>8, <2>9, <2>10, <2>11, <2>12, <2>13,
       <2>14 DEF Next, Handler
<1>3. ValidInv => SavedIsValid
  BY DEF ValidInv
<1> QED
  BY <1>1, <1>2, <1>3, TypeCorrect, PTL DEF Spec
-----------------------------------------------------------------------------
\* A block carries the units of its own place in some file.
OrderedBlock == {B \in BlockType : /\ Len(B.chunk) <= Chunk
                                   /\ \A i \in 1 .. Len(B.chunk) :
                                        B.chunk[i][2] = B.subcode * Chunk + i}

\* What makes StoredInOrder inductive: between two blocks the temporary file
\* holds exactly s_next_block full chunks, so that the block that is in
\* sequence continues it.
OrderInv ==
  /\ StoredInOrder
  /\ queue \in Seq(OrderedBlock)
  /\ s_active /\ pc = "idle" => Len(tmp) = s_next_block * Chunk
  /\ pc \in {"validate", "remove", "rename"} => s_active
  /\ pc = "rename" => zcf = NoFile
  /\ pc = "load" => ~s_active

LEMMA BlockOrdered ==
  ASSUME NEW c \in Configs, NEW k \in Nat
  PROVE  Block(c, k) \in OrderedBlock
<1>1. Chunk \in Nat /\ Size[c] \in Nat
  BY UploadAssumption
<1>2. k * Chunk \in Nat
  BY <1>1
<1>3. Left(c, k) \in Nat
  BY <1>1, <1>2 DEF Left
<1> DEFINE n == IF Left(c, k) < Chunk THEN Left(c, k) ELSE Chunk
<1>4. n \in Nat /\ n <= Chunk
  BY <1>1, <1>3
<1> DEFINE s == [i \in 1 .. n |-> <<c, k * Chunk + i>>]
<1>5. Len(s) = n
  BY <1>4
<1>6. \A i \in 1 .. n : s[i][2] = k * Chunk + i
  OBVIOUS
<1>7. Block(c, k).chunk = s /\ Block(c, k).subcode = k
  BY DEF Block
<1> QED
  BY <1>4, <1>5, <1>6, <1>7, BlockTyped DEF OrderedBlock

\* Concatenation.
LEMMA Concatenated ==
  ASSUME NEW s \in Seq(Cells), NEW u \in Seq(Cells)
  PROVE  /\ Len(s \o u) = Len(s) + Len(u)
         /\ \A i \in 1 .. Len(s \o u) :
              (s \o u)[i] = IF i <= Len(s) THEN s[i] ELSE u[i - Len(s)]
  OBVIOUS

\* Appending a block in sequence to a file that is in order.
LEMMA AppendInOrder ==
  ASSUME NEW s \in Seq(Cells), NEW B \in OrderedBlock,
         Len(s) = B.subcode * Chunk,
         \A i \in 1 .. Len(s) : s[i][2] = i
  PROVE  /\ \A i \in 1 .. Len(s \o B.chunk) : (s \o B.chunk)[i][2] = i
         /\ Len(s \o B.chunk) = Len(s) + Len(B.chunk)
<1>1. B.chunk \in Seq(Cells)
  BY DEF OrderedBlock, BlockType
<1>2. \A i \in 1 .. Len(B.chunk) : B.chunk[i][2] = Len(s) + i
  BY DEF OrderedBlock
<1> DEFINE n == Len(s)
           m == Len(B.chunk)
<1>3. n \in Nat /\ m \in Nat
  BY <1>1
<1>4. Len(s \o B.chunk) = n + m
  BY <1>1, Concatenated
<1>5. ASSUME NEW i \in 1 .. Len(s \o B.chunk)
      PROVE  (s \o B.chunk)[i][2] = i
  <2>1. i \in 1 .. n + m
    BY <1>4
  <2>2. (s \o B.chunk)[i] = IF i <= n THEN s[i] ELSE B.chunk[i - n]
    BY <1>1, Concatenated
  <2> HIDE DEF n, m
  <2>3. CASE i <= n
    BY <1>3, <2>1, <2>2, <2>3 DEF n
  <2>4. CASE ~(i <= n)
    <3>1. i - n \in 1 .. m /\ n + (i - n) = i
      BY <1>3, <2>1, <2>4
    <3>2. B.chunk[i - n][2] = n + (i - n)
      BY <1>2, <3>1 DEF n, m
    <3> QED
      BY <2>2, <2>4, <3>1, <3>2
  <2> QED
    BY <2>3, <2>4
<1> QED
  BY <1>4, <1>5

\* If no write fails half way and no commit fails, nothing is ever stored out
\* of order, however many blocks and acknowledgements are lost or repeated and
\* however many tools write at once.
THEOREM OrderCorrect ==
  ASSUME Faults \cap {"append", "remove", "rename"} = {}
  PROVE  Spec => []StoredInOrder
<1>1. Init => OrderInv
  BY DEF Init, OrderInv, StoredInOrder
<1>2. TypeOK /\ OrderInv /\ [Next]_vars => OrderInv'
  <2> SUFFICES ASSUME TypeOK, OrderInv, [Next]_vars PROVE OrderInv'
    OBVIOUS
  <2> USE DEF OrderInv, StoredInOrder, store, tools
  <2>1. CASE UNCHANGED vars
    BY <2>1 DEF vars
  <2>2. ASSUME TakeBlock
        PROVE  b \in OrderedBlock /\ queue' \in Seq(OrderedBlock) /\ pc = "idle"
    BY <2>2, QueueTyped DEF TakeBlock, b
  <2>3. CASE LeftoverTerminator \/ MissedBlockZero \/ AlreadyStored \/ Gap
    BY <2>2, <2>3 DEF LeftoverTerminator, MissedBlockZero, AlreadyStored, Gap
  <2>4. CASE BeginFails
    BY <2>2, <2>4 DEF BeginFails
  <2>5. CASE AppendBlock
    <3>1. TakeBlock /\ InSequence
      BY <2>5 DEF AppendBlock
    <3>2. /\ b \in OrderedBlock /\ b.subcode \in Nat /\ b.chunk \in Seq(Cells)
          /\ Len(b.chunk) <= Chunk /\ Len(b.chunk) \in Nat
      BY <2>2, <3>1 DEF OrderedBlock, BlockType
    <3>3. Chunk \in Nat /\ 0 * Chunk = 0
      BY UploadAssumption
    <3>4. /\ Pending \in Seq(Cells)
          /\ Len(Pending) = b.subcode * Chunk
          /\ \A i \in 1 .. Len(Pending) : Pending[i][2] = i
      <4>1. CASE s_active
        BY <2>2, <3>1, <4>1 DEF Pending, InSequence, TypeOK
      <4>2. CASE ~s_active
        BY <3>1, <3>3, <4>2 DEF Pending, InSequence
      <4> QED
        BY <4>1, <4>2
    <3>5. tmp' = Pending \o b.chunk
      BY <2>5 DEF AppendBlock
    <3>6. (\A i \in 1 .. Len(tmp') : tmp'[i][2] = i) /\ Len(tmp') = Len(Pending) + Len(b.chunk)
      BY <3>2, <3>4, <3>5, AppendInOrder
    <3>7. pc' = "idle" => Len(tmp') = s_next_block' * Chunk
      <4>1. s_next_block' = b.subcode + 1
        BY <2>5 DEF AppendBlock
      <4>2. (b.subcode + 1) * Chunk = b.subcode * Chunk + Chunk
        BY <3>2, <3>3
      <4>3. pc' = "idle" => Len(b.chunk) = Chunk
        BY <2>5, <3>2, <3>3 DEF AppendBlock
      <4> QED
        BY <3>4, <3>6, <4>1, <4>2, <4>3
    <3>8. s_active' /\ pc' \in {"idle", "validate"}
      BY <2>5 DEF AppendBlock
    <3> QED
      BY <2>2, <3>1, <3>6, <3>7, <3>8
  <2>6. CASE AppendFails
    BY <2>6 DEF AppendFails
  <2>7. CASE ValidateOk \/ ValidateFails
    BY <2>7 DEF ValidateOk, ValidateFails
  <2>8. CASE RemoveOld
    BY <2>8 DEF RemoveOld
  <2>9. CASE RenameTmp \/ RenameFails
    BY <2>9 DEF RenameTmp, RenameFails
  <2>10. CASE LoadMap \/ RequestDownload
    BY <2>10 DEF LoadMap, RequestDownload
  <2>14. CASE Crash
    <3>1. queue' \in Seq(OrderedBlock)
      BY <2>14 DEF Crash
    <3> QED
      BY <2>14, <3>1 DEF Crash
  <2>11. CASE LoseBlock
    BY <2>11, QueueTyped DEF LoseBlock
  <2>12. ASSUME NEW t \in Tools, SendBlock(t)
         PROVE  OrderInv'
    <3>1. Block(t_cfg[t], t_next[t]) \in OrderedBlock
      BY <2>12, BlockOrdered DEF SendBlock, TypeOK
    <3>2. queue' \in Seq(OrderedBlock)
      BY <2>12, <3>1 DEF SendBlock
    <3> QED
      BY <2>12, <3>2 DEF SendBlock
  <2>13. ASSUME NEW t \in Tools,
                \/ \E c \in Configs : StartUpload(t, c)
                \/ ReceiveAck(t) \/ GiveUp(t) \/ LoseAck(t)
         PROVE  OrderInv'
    BY <2>13 DEF StartUpload, ReceiveAck, GiveUp, LoseAck
  <2> QED
    BY <2>1, <2>3, <2>4, <2>5, <2>6, <2>7, <2>8, <2>9, <2>10, <2>11, <2>12, <2>13,
       <2>14 DEF Next, Handler
<1>3. OrderInv => StoredInOrder
  BY DEF OrderInv
<1> QED
  BY <1>1, <1>2, <1>3, TypeCorrect, PTL DEF Spec

-----------------------------------------------------------------------------
\* The CRC check covers what the counter counts, and the file holds at least that.
StartInv ==
  /\ SavedStartsValid
  /\ s_active => tmp \in Seq(Cells) /\ s_bytes_received \in 0 .. Len(tmp)
  /\ pc \in {"validate", "remove", "rename"} => s_active
  /\ pc \in {"remove", "rename"} => SubSeq(tmp, 1, s_bytes_received) \in CrcValid

\* Whatever fails, half way or altogether: what is saved begins with a file that has
\* passed the CRC check.
THEOREM SavedStartCorrect == Spec => []SavedStartsValid
<1>1. Init => StartInv
  <2> SUFFICES ASSUME Init PROVE StartInv
    OBVIOUS
  <2>1. ASSUME NEW c \in Configs, zcf = File(c) PROVE SavedStartsValid
    <3>1. zcf \in Seq(Cells) /\ Len(zcf) \in 0 .. Len(zcf) /\ SubSeq(zcf, 1, Len(zcf)) = zcf
      BY <2>1, FileTyped
    <3>2. zcf \in CrcValid
      BY <2>1, UploadAssumption
    <3> QED
      BY <3>1, <3>2 DEF SavedStartsValid
  <2>2. SavedStartsValid
    BY <2>1 DEF Init, SavedStartsValid
  <2> QED
    BY <2>2 DEF Init, StartInv
<1>2. TypeOK /\ StartInv /\ [Next]_vars => StartInv'
  <2> SUFFICES ASSUME TypeOK, StartInv, [Next]_vars PROVE StartInv'
    OBVIOUS
  <2>1. ASSUME UNCHANGED zcf PROVE SavedStartsValid'
    BY <2>1 DEF StartInv, SavedStartsValid
  <2>2. ASSUME UNCHANGED <<zcf, tmp, s_active, s_bytes_received, pc>> PROVE StartInv'
    BY <2>2 DEF StartInv, SavedStartsValid
  <2>3. CASE \/ UNCHANGED vars \/ LeftoverTerminator \/ MissedBlockZero \/ AlreadyStored
             \/ Gap \/ RequestDownload \/ LoseBlock
    BY <2>2, <2>3 DEF vars, store, LeftoverTerminator, MissedBlockZero, AlreadyStored, Gap,
       RequestDownload, LoseBlock
  <2>4. ASSUME NEW t \in Tools,
               \/ \E c \in Configs : StartUpload(t, c)
               \/ SendBlock(t) \/ ReceiveAck(t) \/ GiveUp(t) \/ LoseAck(t)
        PROVE  StartInv'
    BY <2>2, <2>4 DEF store, StartUpload, SendBlock, ReceiveAck, GiveUp, LoseAck
  <2>5. CASE BeginFails \/ ValidateFails \/ Crash
    <3>1. UNCHANGED zcf /\ ~s_active' /\ pc' = "idle"
      BY <2>5 DEF BeginFails, ValidateFails, Crash, TakeBlock
    <3> QED
      BY <2>1, <3>1 DEF StartInv
  <2>6. ASSUME TakeBlock PROVE b \in BlockType /\ b.chunk \in Seq(Cells) /\ Len(b.chunk) \in Nat
    <3>1. queue \in Seq(BlockType) /\ queue # <<>>
      BY <2>6 DEF TakeBlock, TypeOK, BlockType
    <3>2. b \in BlockType
      BY <3>1, QueueTyped DEF b
    <3> QED
      BY <3>2 DEF BlockType
  <2>7. Pending \in Seq(Cells) /\ Received \in 0 .. Len(Pending) /\ Len(Pending) \in Nat
    BY DEF StartInv, Pending, Received
  <2>8. CASE AppendBlock
    <3>1. /\ tmp' = Pending \o b.chunk /\ s_bytes_received' = Received + Len(b.chunk)
          /\ s_active' /\ pc' \in {"validate", "idle"} /\ zcf' = zcf /\ TakeBlock
      BY <2>8 DEF AppendBlock
    <3>2. tmp' \in Seq(Cells) /\ Len(tmp') = Len(Pending) + Len(b.chunk)
      BY <2>6, <2>7, <3>1
    <3>3. s_bytes_received' \in 0 .. Len(tmp')
      BY <2>6, <2>7, <3>1, <3>2
    <3> QED
      BY <2>1, <3>1, <3>2, <3>3 DEF StartInv
  <2>9. CASE AppendFails
    <3>1. PICK n \in 0 .. Len(b.chunk) : tmp' = Pending \o SubSeq(b.chunk, 1, n)
      BY <2>9 DEF AppendFails
    <3>2. /\ s_bytes_received' = Received /\ s_active' /\ pc' = pc /\ zcf' = zcf /\ TakeBlock
          /\ pc = "idle"
      BY <2>9 DEF AppendFails, TakeBlock
    <3>3. SubSeq(b.chunk, 1, n) \in Seq(Cells) /\ Len(SubSeq(b.chunk, 1, n)) = n
      BY <2>6, <3>2, PrefixTyped
    <3>4. tmp' \in Seq(Cells) /\ Len(tmp') = Len(Pending) + n
      BY <2>7, <3>1, <3>3
    <3>5. s_bytes_received' \in 0 .. Len(tmp')
      BY <2>7, <3>2, <3>4
    <3> QED
      BY <2>1, <3>2, <3>4, <3>5 DEF StartInv
  <2>10. CASE ValidateOk
    BY <2>1, <2>10 DEF ValidateOk, StartInv, store
  <2>11. CASE RemoveOld
    <3>1. SavedStartsValid'
      BY <2>11 DEF RemoveOld, StartInv, SavedStartsValid
    <3> QED
      BY <2>11, <3>1 DEF RemoveOld, StartInv, store
  <2>12. CASE RenameTmp
    <3>1. zcf' = tmp /\ s_bytes_received \in 0 .. Len(tmp) /\ SubSeq(tmp, 1, s_bytes_received) \in CrcValid
      BY <2>12 DEF RenameTmp, StartInv
    <3>2. SavedStartsValid'
      BY <3>1 DEF SavedStartsValid
    <3> QED
      BY <2>12, <3>2 DEF RenameTmp, StartInv
  <2>13. CASE RenameFails \/ LoadMap
    BY <2>1, <2>13 DEF RenameFails, LoadMap, StartInv, store
  <2> QED
    BY <2>3, <2>4, <2>5, <2>8, <2>9, <2>10, <2>11, <2>12, <2>13 DEF Next, Handler
<1>3. StartInv => SavedStartsValid
  BY DEF StartInv
<1> QED
  BY <1>1, <1>2, <1>3, TypeCorrect, PTL DEF Spec

-----------------------------------------------------------------------------
(* One tool that does not give up: what is in flight, and how far the module is. *)

LEMMA BlockParts ==
  ASSUME NEW c \in Configs, NEW k \in Nat
  PROVE  /\ Block(c, k).subcode = k
         /\ Block(c, k).chunk \in Seq(Cells)
         /\ Len(Block(c, k).chunk) \in 0 .. Chunk
         /\ \A i \in 1 .. Len(Block(c, k).chunk) : Block(c, k).chunk[i] = <<c, k * Chunk + i>>
         /\ Len(Block(c, k).chunk) = Chunk => k * Chunk + Chunk <= Size[c]
         /\ Len(Block(c, k).chunk) < Chunk /\ k * Chunk <= Size[c]
              => k * Chunk + Len(Block(c, k).chunk) = Size[c]
         /\ Size[c] <= k * Chunk => Block(c, k).chunk = <<>>
<1>1. Chunk \in Nat \ {0} /\ Size[c] \in Nat /\ k * Chunk \in Nat
  BY UploadAssumption
<1>2. Left(c, k) = IF k * Chunk < Size[c] THEN Size[c] - k * Chunk ELSE 0
  BY DEF Left
<1> DEFINE n == IF Left(c, k) < Chunk THEN Left(c, k) ELSE Chunk
           s == [i \in 1 .. n |-> <<c, k * Chunk + i>>]
<1>3. n \in 0 .. Chunk /\ Left(c, k) \in Nat
  BY <1>1, <1>2
<1>4. Block(c, k).subcode = k /\ Block(c, k).chunk = s
  BY DEF Block
<1>5. s \in Seq(Cells)
  BY <1>4, BlockTyped DEF BlockType
<1>6. Len(s) = n /\ \A i \in 1 .. n : s[i] = <<c, k * Chunk + i>>
  BY <1>3
<1>7. n = 0 => s = <<>>
  BY <1>5, <1>6
<1> HIDE DEF s
<1>8. n = Chunk => k * Chunk + Chunk <= Size[c]
  BY <1>1, <1>2
<1>9. n < Chunk /\ k * Chunk <= Size[c] => k * Chunk + n = Size[c]
  BY <1>1, <1>2
<1>10. Size[c] <= k * Chunk => n = 0
  BY <1>1, <1>2
<1> HIDE DEF n
<1> QED
  BY <1>3, <1>4, <1>5, <1>6, <1>7, <1>8, <1>9, <1>10

LEMMA Divided ==
  ASSUME NEW x \in Nat, NEW d \in Nat \ {0}
  PROVE  x \div d \in Nat /\ x < (x \div d) * d + d
OBVIOUS

\* The terminator is empty, and never the first block.
LEMMA ChunksParts ==
  ASSUME NEW c \in Configs
  PROVE  Chunks(c) \in Nat \ {0} /\ Size[c] <= Chunks(c) * Chunk
<1> DEFINE x == Size[c] + Chunk - 1
           q == x \div Chunk
<1>1. Chunk \in Nat \ {0} /\ Size[c] \in Nat \ {0} /\ x \in Nat
  BY UploadAssumption
<1>2. q \in Nat /\ x < q * Chunk + Chunk
  BY <1>1, Divided
<1>3. q * Chunk \in Nat /\ 0 * Chunk = 0
  BY <1>1, <1>2
<1> HIDE DEF q
<1>4. Size[c] <= q * Chunk
  BY <1>1, <1>2, <1>3
<1>5. q # 0
  BY <1>1, <1>3, <1>4
<1> QED
  BY <1>2, <1>4, <1>5 DEF q, Chunks

LEMMA TailParts ==
  ASSUME NEW S, NEW s \in Seq(S), s # <<>>
  PROVE  /\ Len(s) \in Nat \ {0} /\ Len(Tail(s)) = Len(s) - 1
         /\ Head(s) = s[1] /\ 1 \in 1 .. Len(s) /\ Tail(s) \in Seq(S) /\ Head(s) \in S
         /\ \A i \in 1 .. Len(Tail(s)) : i + 1 \in 1 .. Len(s) /\ Tail(s)[i] = s[i + 1]
OBVIOUS

LEMMA AppendParts ==
  ASSUME NEW S, NEW s \in Seq(S), NEW e \in S
  PROVE  /\ Len(s) \in Nat /\ Len(Append(s, e)) = Len(s) + 1
         /\ \A i \in 1 .. Len(Append(s, e)) :
              Append(s, e)[i] = (IF i \in 1 .. Len(s) THEN s[i] ELSE e)
OBVIOUS

\* A tool that uploads c and waits for block k has sent that block, and before it
\* the one before; before the first block, the terminator of an earlier upload.
AckOk(c, k, a) ==
  \/ c # None /\ a = k
  \/ IF k = 0 THEN a # 0 ELSE a = k - 1
BlockOk(c, k, B) ==
  \/ c # None /\ B = Block(c, k)
  \/ IF k = 0 THEN B.subcode # 0 /\ B.chunk = <<>> ELSE c # None /\ B = Block(c, k - 1)

\* Behind block k and its acknowledgement there is nothing older.
InFlight(c, k, A, Q) ==
  /\ \A i \in 1 .. Len(A) : AckOk(c, k, A[i])
  /\ \A i \in 1 .. Len(Q) : BlockOk(c, k, Q[i])
  /\ \A i, j \in 1 .. Len(A) : i < j /\ A[i] = k => A[j] = k
  /\ \A i \in 1 .. Len(A), j \in 1 .. Len(Q) : A[i] = k => Q[j].subcode = k
  /\ \A i, j \in 1 .. Len(Q) : i < j /\ Q[i].subcode = k => Q[j].subcode = k

LEMMA BlockOkParts ==
  ASSUME NEW c \in Configs \cup {None}, NEW k \in Nat, NEW B \in BlockType, BlockOk(c, k, B)
  PROVE  AckOk(c, k, B.subcode)
<1>1. CASE c # None /\ B = Block(c, k)
  BY <1>1, BlockParts DEF AckOk
<1>2. CASE k = 0 /\ B.subcode # 0 /\ B.chunk = <<>>
  BY <1>2 DEF AckOk
<1>3. CASE k # 0 /\ c # None /\ B = Block(c, k - 1)
  <2>1. k - 1 \in Nat /\ c \in Configs
    BY <1>3
  <2> QED
    BY <1>3, <2>1, BlockParts DEF AckOk
<1> QED
  BY <1>1, <1>2, <1>3 DEF BlockOk

LEMMA AckTaken ==
  ASSUME NEW c, NEW k \in Nat, NEW A \in Seq(Nat), NEW Q \in Seq(BlockType), A # <<>>,
         InFlight(c, k, A, Q)
  PROVE  InFlight(c, k, Tail(A), Q)
<1> DEFINE Z == Tail(A)
<1>1. \A i \in 1 .. Len(Z) : i + 1 \in 1 .. Len(A) /\ Z[i] = A[i + 1]
  BY TailParts
<1> HIDE DEF Z
<1>2. \A i, j \in 1 .. Len(Z) : i < j => i + 1 < j + 1
  OBVIOUS
<1>3. /\ \A i \in 1 .. Len(A) : AckOk(c, k, A[i])
      /\ \A i, j \in 1 .. Len(A) : i < j /\ A[i] = k => A[j] = k
      /\ \A i \in 1 .. Len(A), j \in 1 .. Len(Q) : A[i] = k => Q[j].subcode = k
  BY DEF InFlight
<1>4. \A i \in 1 .. Len(Z) : AckOk(c, k, Z[i])
  BY <1>1, <1>3
<1>5. \A i, j \in 1 .. Len(Z) : i < j /\ Z[i] = k => Z[j] = k
  BY <1>1, <1>2, <1>3
<1>6. \A i \in 1 .. Len(Z), j \in 1 .. Len(Q) : Z[i] = k => Q[j].subcode = k
  BY <1>1, <1>3
<1>7. InFlight(c, k, Z, Q)
  BY <1>4, <1>5, <1>6 DEF InFlight
<1> QED
  BY <1>7 DEF Z

LEMMA BlockTaken ==
  ASSUME NEW c, NEW k \in Nat, NEW A \in Seq(Nat), NEW Q \in Seq(BlockType), Q # <<>>,
         InFlight(c, k, A, Q)
  PROVE  InFlight(c, k, A, Tail(Q)) /\ BlockOk(c, k, Head(Q))
<1> DEFINE Z == Tail(Q)
<1>1. /\ \A i \in 1 .. Len(Z) : i + 1 \in 1 .. Len(Q) /\ Z[i] = Q[i + 1]
      /\ Head(Q) = Q[1] /\ 1 \in 1 .. Len(Q)
  BY TailParts
<1> HIDE DEF Z
<1>2. \A i, j \in 1 .. Len(Z) : i < j => i + 1 < j + 1
  OBVIOUS
<1>3. /\ \A i \in 1 .. Len(Q) : BlockOk(c, k, Q[i])
      /\ \A i, j \in 1 .. Len(Q) : i < j /\ Q[i].subcode = k => Q[j].subcode = k
      /\ \A i \in 1 .. Len(A), j \in 1 .. Len(Q) : A[i] = k => Q[j].subcode = k
  BY DEF InFlight
<1>4. \A i \in 1 .. Len(Z) : BlockOk(c, k, Z[i])
  BY <1>1, <1>3
<1>5. \A i, j \in 1 .. Len(Z) : i < j /\ Z[i].subcode = k => Z[j].subcode = k
  <2> SUFFICES ASSUME NEW i \in 1 .. Len(Z), NEW j \in 1 .. Len(Z), i < j, Z[i].subcode = k
               PROVE  Z[j].subcode = k
    OBVIOUS
  <2>1. i + 1 \in 1 .. Len(Q) /\ j + 1 \in 1 .. Len(Q) /\ i + 1 < j + 1
    BY <1>1, <1>2
  <2>2. Q[i + 1].subcode = k
    BY <1>1
  <2>3. Q[j + 1].subcode = k
    BY <1>3, <2>1, <2>2
  <2> QED
    BY <1>1, <2>3
<1>6. \A i \in 1 .. Len(A), j \in 1 .. Len(Z) : A[i] = k => Z[j].subcode = k
  BY <1>1, <1>3
<1>7. InFlight(c, k, A, Z)
  BY <1>4, <1>5, <1>6 DEF InFlight
<1> QED
  BY <1>1, <1>3, <1>7 DEF Z

LEMMA BlockAcknowledged ==
  ASSUME NEW c \in Configs \cup {None}, NEW k \in Nat, NEW A \in Seq(Nat),
         NEW Q \in Seq(BlockType), Q # <<>>, InFlight(c, k, A, Q)
  PROVE  InFlight(c, k, Append(A, Head(Q).subcode), Tail(Q))
<1> DEFINE Y == Append(A, Head(Q).subcode)
           Z == Tail(Q)
           h == Head(Q)
<1>1. /\ \A i \in 1 .. Len(Z) : i + 1 \in 1 .. Len(Q) /\ Z[i] = Q[i + 1]
      /\ h = Q[1] /\ 1 \in 1 .. Len(Q) /\ h \in BlockType
  BY TailParts
<1>2. h.subcode \in Nat
  BY <1>1 DEF BlockType
<1>3. /\ Len(A) \in Nat /\ Len(Y) = Len(A) + 1
      /\ \A i \in 1 .. Len(Y) : Y[i] = (IF i \in 1 .. Len(A) THEN A[i] ELSE h.subcode)
  BY <1>2, AppendParts
<1>4. InFlight(c, k, A, Z) /\ BlockOk(c, k, h)
  BY BlockTaken
<1>5. AckOk(c, k, h.subcode)
  BY <1>1, <1>4, BlockOkParts
<1> HIDE DEF Y, Z, h
<1>6. \A i \in 1 .. Len(Y) : AckOk(c, k, Y[i])
  BY <1>3, <1>4, <1>5 DEF InFlight
<1>7. /\ \A i \in 1 .. Len(A) : A[i] = k => h.subcode = k
      /\ h.subcode = k => \A j \in 1 .. Len(Z) : Z[j].subcode = k
  <2>1. \A i \in 1 .. Len(A) : A[i] = k => Q[1].subcode = k
    BY <1>1 DEF InFlight
  <2>2. \A j \in 2 .. Len(Q) : Q[1].subcode = k => Q[j].subcode = k
    BY <1>1 DEF InFlight
  <2>3. \A j \in 1 .. Len(Z) : j + 1 \in 2 .. Len(Q)
    BY <1>1
  <2> QED
    BY <1>1, <2>1, <2>2, <2>3
<1>8. \A i, j \in 1 .. Len(Y) : i < j /\ Y[i] = k => Y[j] = k
  <2> SUFFICES ASSUME NEW i \in 1 .. Len(Y), NEW j \in 1 .. Len(Y), i < j, Y[i] = k
               PROVE  Y[j] = k
    OBVIOUS
  <2>1. i \in 1 .. Len(A) /\ A[i] = k
    BY <1>3
  <2>2. \A l \in 1 .. Len(A) : i < l => A[l] = k
    BY <2>1 DEF InFlight
  <2> QED
    BY <1>3, <1>7, <2>1, <2>2
<1>9. \A i \in 1 .. Len(Y), j \in 1 .. Len(Z) : Y[i] = k => Z[j].subcode = k
  <2> SUFFICES ASSUME NEW i \in 1 .. Len(Y), NEW j \in 1 .. Len(Z), Y[i] = k
               PROVE  Z[j].subcode = k
    OBVIOUS
  <2>1. h.subcode = k
    BY <1>3, <1>7
  <2> QED
    BY <1>7, <2>1
<1>10. InFlight(c, k, Y, Z)
  BY <1>4, <1>6, <1>8, <1>9 DEF InFlight
<1> QED
  BY <1>10 DEF Y, Z, h

LEMMA BlockSent ==
  ASSUME NEW c \in Configs, NEW k \in Nat, NEW A \in Seq(Nat), NEW Q \in Seq(BlockType),
         c # None, InFlight(c, k, A, Q)
  PROVE  InFlight(c, k, A, Append(Q, Block(c, k)))
<1> DEFINE Z == Append(Q, Block(c, k))
<1>1. Block(c, k) \in BlockType /\ Block(c, k).subcode = k
  BY BlockTyped, BlockParts
<1>2. /\ Len(Q) \in Nat /\ Len(Z) = Len(Q) + 1
      /\ \A i \in 1 .. Len(Z) : Z[i] = (IF i \in 1 .. Len(Q) THEN Q[i] ELSE Block(c, k))
  BY <1>1, AppendParts
<1> HIDE DEF Z
<1>3. \A i \in 1 .. Len(Z) : BlockOk(c, k, Z[i])
  BY <1>2 DEF InFlight, BlockOk
<1>4. \A i, j \in 1 .. Len(Z) : i < j /\ Z[i].subcode = k => Z[j].subcode = k
  <2> SUFFICES ASSUME NEW i \in 1 .. Len(Z), NEW j \in 1 .. Len(Z), i < j, Z[i].subcode = k
               PROVE  Z[j].subcode = k
    OBVIOUS
  <2>1. i \in 1 .. Len(Q) /\ Z[i] = Q[i]
    BY <1>2
  <2>2. \A l \in 1 .. Len(Q) : i < l => Q[l].subcode = k
    BY <2>1 DEF InFlight
  <2> QED
    BY <1>1, <1>2, <2>2
<1>5. \A i \in 1 .. Len(A), j \in 1 .. Len(Z) : A[i] = k => Z[j].subcode = k
  BY <1>1, <1>2 DEF InFlight
<1>6. InFlight(c, k, A, Z)
  BY <1>3, <1>4, <1>5 DEF InFlight
<1> QED
  BY <1>6 DEF Z

\* The acknowledgement of block k makes it the older one.
LEMMA ToolAdvances ==
  ASSUME NEW c \in Configs, NEW k \in Nat, NEW A \in Seq(Nat), NEW Q \in Seq(BlockType),
         c # None, A # <<>>, Head(A) = k, InFlight(c, k, A, Q)
  PROVE  /\ \A i \in 1 .. Len(Tail(A)) : Tail(A)[i] = k
         /\ \A j \in 1 .. Len(Q) : Q[j].subcode = k
         /\ InFlight(c, k + 1, Tail(A), Q)
<1> DEFINE Z == Tail(A)
<1>1. /\ \A i \in 1 .. Len(Z) : i + 1 \in 1 .. Len(A) /\ Z[i] = A[i + 1]
      /\ k = A[1] /\ 1 \in 1 .. Len(A) /\ Len(A) \in Nat
  BY TailParts
<1> HIDE DEF Z
<1>2. \A j \in 2 .. Len(A) : A[j] = k
  BY <1>1 DEF InFlight
<1>3. \A i \in 1 .. Len(Z) : i + 1 \in 2 .. Len(A)
  BY <1>1
<1>4. \A i \in 1 .. Len(Z) : Z[i] = k
  BY <1>1, <1>2, <1>3
<1>5. \A j \in 1 .. Len(Q) : Q[j].subcode = k
  BY <1>1 DEF InFlight
<1>6. \A j \in 1 .. Len(Q) : Q[j] = Block(c, k)
  <2> SUFFICES ASSUME NEW j \in 1 .. Len(Q) PROVE Q[j] = Block(c, k)
    OBVIOUS
  <2>1. BlockOk(c, k, Q[j]) /\ Q[j].subcode = k
    BY <1>5 DEF InFlight
  <2>2. k # 0 => Block(c, k - 1).subcode = k - 1
    BY BlockParts
  <2> QED
    BY <2>1, <2>2 DEF BlockOk
<1>7. k + 1 # 0 /\ (k + 1) - 1 = k /\ k # k + 1
  OBVIOUS
<1>8. InFlight(c, k + 1, Z, Q)
  BY <1>4, <1>5, <1>6, <1>7 DEF InFlight, AckOk, BlockOk
<1> QED
  BY <1>4, <1>5, <1>8 DEF Z

LEMMA ToolFinishes ==
  ASSUME NEW c \in Configs, NEW A \in Seq(Nat), NEW Q \in Seq(BlockType),
         c # None, A # <<>>, Head(A) = Chunks(c), InFlight(c, Chunks(c), A, Q)
  PROVE  InFlight(None, 0, Tail(A), Q)
<1> DEFINE k == Chunks(c)
           Z == Tail(A)
<1>1. k \in Nat \ {0} /\ Size[c] <= k * Chunk
  BY ChunksParts
<1>2. Block(c, k).subcode = k /\ Block(c, k).chunk = <<>>
  BY <1>1, BlockParts
<1>3. /\ \A i \in 1 .. Len(Z) : Z[i] = k
      /\ \A j \in 1 .. Len(Q) : Q[j].subcode = k
      /\ \A j \in 1 .. Len(Q) : BlockOk(c, k, Q[j])
  BY <1>1, ToolAdvances DEF InFlight
<1> HIDE DEF k, Z
<1>4. \A j \in 1 .. Len(Q) : Q[j] = Block(c, k)
  <2>1. Block(c, k - 1).subcode = k - 1 /\ k - 1 # k
    BY <1>1, BlockParts
  <2> QED
    BY <1>1, <1>3, <2>1 DEF BlockOk
<1>5. InFlight(None, 0, Z, Q)
  BY <1>1, <1>2, <1>3, <1>4 DEF InFlight, AckOk, BlockOk
<1> QED
  BY <1>5 DEF Z

LEMMA ToolStarts ==
  ASSUME NEW c \in Configs, NEW A \in Seq(Nat), NEW Q \in Seq(BlockType), InFlight(None, 0, A, Q)
  PROVE  InFlight(c, 0, A, Q) /\ \A i \in 1 .. Len(A) : A[i] # 0
<1>1. \A i \in 1 .. Len(A) : A[i] # 0
  BY DEF InFlight, AckOk
<1>2. \A j \in 1 .. Len(Q) : Q[j].subcode # 0 /\ Q[j].chunk = <<>>
  BY DEF InFlight, BlockOk
<1> QED
  BY <1>1, <1>2 DEF InFlight, AckOk, BlockOk

\* While c is being received, the first n blocks are stored in f, and r counts them;
\* the tool waits for the last of these blocks, or for the next one.
Going(c, k, A, Q, n, f, r) ==
  /\ c # None
  /\ n \in {k, k + 1} /\ n # 0
  /\ Len(f) = n * Chunk /\ Len(f) <= Size[c] /\ r = Len(f)
  /\ \A i \in 1 .. Len(f) : f[i] = <<c, i>>
  /\ (\E i \in 1 .. Len(A) : A[i] = k) => n = k + 1
  /\ k = 0 => \A j \in 1 .. Len(Q) : Q[j].subcode = 0

LEMMA GoingAckTaken ==
  ASSUME NEW c, NEW k, NEW A \in Seq(Nat), NEW Q, NEW n, NEW f, NEW r,
         A # <<>>, Going(c, k, A, Q, n, f, r)
  PROVE  Going(c, k, Tail(A), Q, n, f, r)
<1>1. \A i \in 1 .. Len(Tail(A)) : i + 1 \in 1 .. Len(A) /\ Tail(A)[i] = A[i + 1]
  BY TailParts
<1>2. (\E i \in 1 .. Len(Tail(A)) : Tail(A)[i] = k) => (\E i \in 1 .. Len(A) : A[i] = k)
  BY <1>1
<1> QED
  BY <1>2 DEF Going

LEMMA GoingBlockTaken ==
  ASSUME NEW c, NEW k, NEW A, NEW Q \in Seq(BlockType), NEW n, NEW f, NEW r,
         Q # <<>>, Going(c, k, A, Q, n, f, r)
  PROVE  Going(c, k, A, Tail(Q), n, f, r)
<1>1. \A i \in 1 .. Len(Tail(Q)) : i + 1 \in 1 .. Len(Q) /\ Tail(Q)[i] = Q[i + 1]
  BY TailParts
<1>2. k = 0 => \A j \in 1 .. Len(Tail(Q)) : Tail(Q)[j].subcode = 0
  BY <1>1 DEF Going
<1> QED
  BY <1>2 DEF Going

LEMMA GoingAgain ==
  ASSUME NEW c \in Configs, NEW k \in Nat, NEW A \in Seq(Nat), NEW Q \in Seq(BlockType),
         NEW n, NEW f, NEW r, Q # <<>>,
         Going(c, k, A, Q, n, f, r), Head(Q).subcode < n
  PROVE  Going(c, k, Append(A, Head(Q).subcode), Tail(Q), n, f, r)
<1> DEFINE Y == Append(A, Head(Q).subcode)
<1>1. Going(c, k, A, Tail(Q), n, f, r)
  BY GoingBlockTaken
<1>2. Head(Q).subcode \in Nat
  <2>1. Head(Q) \in BlockType
    BY TailParts
  <2> QED
    BY <2>1 DEF BlockType
<1>3. \A i \in 1 .. Len(Y) : Y[i] = (IF i \in 1 .. Len(A) THEN A[i] ELSE Head(Q).subcode)
  BY <1>2, AppendParts
<1> HIDE DEF Y
<1>4. (\E i \in 1 .. Len(Y) : Y[i] = k) => n = k + 1
  <2> SUFFICES ASSUME NEW i \in 1 .. Len(Y), Y[i] = k PROVE n = k + 1
    OBVIOUS
  <2>1. CASE i \in 1 .. Len(A)
    BY <1>1, <1>3, <2>1 DEF Going
  <2>2. CASE i \notin 1 .. Len(A)
    <3>1. k < n /\ n \in {k, k + 1}
      BY <1>1, <1>3, <2>2 DEF Going
    <3> QED
      BY <3>1
  <2> QED
    BY <2>1, <2>2
<1>5. Going(c, k, Y, Tail(Q), n, f, r)
  BY <1>1, <1>4 DEF Going
<1> QED
  BY <1>5 DEF Y

LEMMA GoingSent ==
  ASSUME NEW c \in Configs, NEW k \in Nat, NEW A, NEW Q \in Seq(BlockType), NEW n, NEW f, NEW r,
         Going(c, k, A, Q, n, f, r)
  PROVE  Going(c, k, A, Append(Q, Block(c, k)), n, f, r)
<1> DEFINE Z == Append(Q, Block(c, k))
<1>1. Block(c, k) \in BlockType /\ Block(c, k).subcode = k
  BY BlockTyped, BlockParts
<1>2. \A i \in 1 .. Len(Z) : Z[i] = (IF i \in 1 .. Len(Q) THEN Q[i] ELSE Block(c, k))
  BY <1>1, AppendParts
<1> HIDE DEF Z
<1>3. k = 0 => \A j \in 1 .. Len(Z) : Z[j].subcode = 0
  BY <1>1, <1>2 DEF Going
<1>4. Going(c, k, A, Z, n, f, r)
  BY <1>3 DEF Going
<1> QED
  BY <1>4 DEF Z

\* While the file is being received, the tool is not at its end.
LEMMA GoingAdvances ==
  ASSUME NEW c \in Configs, NEW k \in Nat, NEW A \in Seq(Nat), NEW Q \in Seq(BlockType),
         NEW n, NEW f, NEW r, A # <<>>, Head(A) = k,
         InFlight(c, k, A, Q), Going(c, k, A, Q, n, f, r)
  PROVE  k # Chunks(c) /\ Going(c, k + 1, Tail(A), Q, n, f, r)
<1>1. Head(A) = A[1] /\ 1 \in 1 .. Len(A)
  BY TailParts
<1>2. n = k + 1
  BY <1>1 DEF Going
<1>3. k # Chunks(c)
  <2>1. (k + 1) * Chunk <= Size[c]
    BY <1>2 DEF Going
  <2>2. Chunk \in Nat \ {0} /\ k * Chunk \in Nat /\ (k + 1) * Chunk = k * Chunk + Chunk
    BY UploadAssumption
  <2>3. Size[c] \in Nat /\ Size[c] <= Chunks(c) * Chunk
    BY UploadAssumption, ChunksParts
  <2> QED
    BY <2>1, <2>2, <2>3
<1>4. \A i \in 1 .. Len(Tail(A)) : Tail(A)[i] # k + 1
  BY ToolAdvances DEF Going
<1>5. n \in {k + 1, (k + 1) + 1} /\ k + 1 # 0
  BY <1>2
<1> QED
  BY <1>3, <1>4, <1>5 DEF Going

\* A file of as many units as the configuration has, each at its place.
LEMMA FileComplete ==
  ASSUME NEW c \in Configs, NEW f \in Seq(Cells), Len(f) = Size[c],
         \A i \in 1 .. Len(f) : f[i] = <<c, i>>
  PROVE  f = File(c)
<1>1. f = [i \in 1 .. Len(f) |-> f[i]]
  OBVIOUS
<1>2. [i \in 1 .. Len(f) |-> f[i]] = [i \in 1 .. Size[c] |-> <<c, i>>]
  OBVIOUS
<1> QED
  BY <1>1, <1>2 DEF File

\* The first n blocks and block n.
LEMMA BlockJoins ==
  ASSUME NEW c \in Configs, NEW n \in Nat, NEW f \in Seq(Cells),
         Len(f) = n * Chunk, Len(f) <= Size[c], \A i \in 1 .. Len(f) : f[i] = <<c, i>>
  PROVE  LET B == Block(c, n)
             g == f \o B.chunk
         IN /\ Len(g) = Len(f) + Len(B.chunk)
            /\ g \in Seq(Cells)
            /\ \A i \in 1 .. Len(g) : g[i] = <<c, i>>
            /\ Len(B.chunk) < Chunk => g = File(c) /\ Len(g) = Size[c]
            /\ ~(Len(B.chunk) < Chunk) => Len(g) = (n + 1) * Chunk /\ Len(g) <= Size[c]
<1> DEFINE s == Block(c, n).chunk
           g == f \o s
           a == Len(f)
           m == Len(s)
<1>1. /\ s \in Seq(Cells) /\ m \in 0 .. Chunk
      /\ \A i \in 1 .. m : s[i] = <<c, n * Chunk + i>>
      /\ m = Chunk => n * Chunk + Chunk <= Size[c]
      /\ m < Chunk /\ n * Chunk <= Size[c] => n * Chunk + m = Size[c]
  BY BlockParts
<1>2. Chunk \in Nat \ {0} /\ Size[c] \in Nat /\ a \in Nat /\ a = n * Chunk
      /\ (n + 1) * Chunk = n * Chunk + Chunk
  BY UploadAssumption
<1> HIDE DEF s
<1>3. /\ g \in Seq(Cells)
      /\ Len(g) = a + m
      /\ \A i \in 1 .. Len(g) : g[i] = (IF i <= a THEN f[i] ELSE s[i - a])
  <2>1. s \in Seq(Cells) /\ f \in Seq(Cells)
    BY <1>1
  <2>2. f \o s \in Seq(Cells)
    BY <2>1
  <2>3. Len(f \o s) = Len(f) + Len(s)
    BY <2>1, Concatenated
  <2>4. \A i \in 1 .. Len(f \o s) : (f \o s)[i] = (IF i <= Len(f) THEN f[i] ELSE s[i - Len(f)])
    BY <2>1, Concatenated
  <2> QED
    BY <2>2, <2>3, <2>4
<1>4. \A i \in 1 .. a : f[i] = <<c, i>>
  OBVIOUS
<1> HIDE DEF g, a, m
<1>5. \A i \in 1 .. Len(g) : g[i] = <<c, i>>
  <2> SUFFICES ASSUME NEW i \in 1 .. Len(g) PROVE g[i] = <<c, i>>
    OBVIOUS
  <2>1. CASE i <= a
    BY <1>2, <1>3, <1>4, <2>1
  <2>2. CASE ~(i <= a)
    <3>1. i - a \in 1 .. m /\ a + (i - a) = i
      BY <1>1, <1>2, <1>3, <2>2
    <3>2. s[i - a] = <<c, a + (i - a)>>
      BY <1>1, <1>2, <3>1
    <3> QED
      BY <1>3, <2>2, <3>1, <3>2
  <2> QED
    BY <2>1, <2>2
<1>6. m < Chunk => Len(g) = Size[c]
  BY <1>1, <1>2, <1>3 DEF a
<1>7. m < Chunk => g = File(c)
  BY <1>3, <1>5, <1>6, FileComplete
<1>8. ~(m < Chunk) => Len(g) = (n + 1) * Chunk /\ Len(g) <= Size[c]
  BY <1>1, <1>2, <1>3
<1> QED
  BY <1>3, <1>5, <1>6, <1>7, <1>8 DEF s, g, a, m

\* The block in sequence is the next block of the tool's file.
LEMMA NextBlock ==
  ASSUME NEW c \in Configs \cup {None}, NEW k \in Nat, NEW A \in Seq(Nat),
         NEW Q \in Seq(BlockType), NEW n \in Nat, NEW f, NEW r,
         Q # <<>>, InFlight(c, k, A, Q), Head(Q).subcode = n,
         n = 0 \/ Going(c, k, A, Q, n, f, r)
  PROVE  /\ c # None /\ Head(Q) = Block(c, n)
         /\ n = k \/ (n = 0 /\ k = 1)
<1> DEFINE h == Head(Q)
<1>1. h = Q[1] /\ 1 \in 1 .. Len(Q) /\ h \in BlockType
  BY TailParts
<1>2. BlockOk(c, k, h) /\ h.subcode = n
  BY BlockTaken
<1> HIDE DEF h
<1>3. ASSUME c # None, h = Block(c, k)
      PROVE  n = k
  BY <1>2, <1>3, BlockParts
<1>4. ASSUME k = 0, h.subcode # 0, h.chunk = <<>>
      PROVE  FALSE
  <2>1. Going(c, k, A, Q, n, f, r)
    BY <1>2, <1>4
  <2>2. Q[1].subcode = 0
    BY <1>1, <1>4, <2>1 DEF Going
  <2> QED
    BY <1>1, <1>4, <2>2
<1>5. ASSUME k # 0, c # None, h = Block(c, k - 1)
      PROVE  n = k - 1 /\ n = 0
  <2>1. k - 1 \in Nat /\ c \in Configs
    BY <1>5
  <2>2. n = k - 1
    BY <1>2, <1>5, <2>1, BlockParts
  <2>3. n \notin {k, k + 1}
    BY <2>2
  <2> QED
    BY <2>2, <2>3 DEF Going
<1>6. CASE c # None /\ h = Block(c, k)
  BY <1>3, <1>6 DEF h
<1>7. CASE k = 0 /\ h.subcode # 0 /\ h.chunk = <<>>
  BY <1>4, <1>7
<1>8. CASE k # 0 /\ c # None /\ h = Block(c, k - 1)
  BY <1>5, <1>8 DEF h
<1> QED
  BY <1>2, <1>6, <1>7, <1>8 DEF BlockOk

LEMMA GoingAppended ==
  ASSUME NEW c \in Configs, NEW k \in Nat, NEW A \in Seq(Nat), NEW Q \in Seq(BlockType),
         NEW n \in Nat, NEW g, NEW r,
         c # None, Q # <<>>, InFlight(c, k, A, Q), Head(Q).subcode = n,
         n = k \/ (n = 0 /\ k = 1),
         Len(g) = (n + 1) * Chunk, Len(g) <= Size[c], r = Len(g),
         \A i \in 1 .. Len(g) : g[i] = <<c, i>>
  PROVE  Going(c, k, Append(A, n), Tail(Q), n + 1, g, r)
<1>1. /\ \A i \in 1 .. Len(Tail(Q)) : i + 1 \in 1 .. Len(Q) /\ Tail(Q)[i] = Q[i + 1]
      /\ Head(Q) = Q[1] /\ 1 \in 1 .. Len(Q)
  BY TailParts
<1>2. /\ Len(Append(A, n)) = Len(A) + 1
      /\ \A i \in 1 .. Len(Append(A, n)) : Append(A, n)[i] = (IF i \in 1 .. Len(A) THEN A[i] ELSE n)
  BY AppendParts
<1>3. n + 1 \in {k, k + 1} /\ n + 1 # 0
  OBVIOUS
<1>4. ASSUME NEW i \in 1 .. Len(Append(A, n)), Append(A, n)[i] = k
      PROVE  n + 1 = k + 1
  <2> SUFFICES ASSUME n # k PROVE FALSE
    OBVIOUS
  <2>1. i \in 1 .. Len(A) /\ A[i] = k
    BY <1>2, <1>4
  <2>2. Q[1].subcode = k
    BY <1>1, <2>1 DEF InFlight
  <2> QED
    BY <1>1, <2>2
<1>5. ASSUME k = 0, NEW j \in 1 .. Len(Tail(Q))
      PROVE  Tail(Q)[j].subcode = 0
  <2>1. j + 1 \in 1 .. Len(Q) /\ Tail(Q)[j] = Q[j + 1] /\ 1 < j + 1
    BY <1>1
  <2>2. Q[1].subcode = k
    BY <1>1, <1>5
  <2>3. Q[j + 1].subcode = k
    BY <1>1, <2>1, <2>2 DEF InFlight
  <2> QED
    BY <1>5, <2>1, <2>3
<1> QED
  BY <1>3, <1>4, <1>5 DEF Going

-----------------------------------------------------------------------------
Whole(f, r) == \E c \in Configs : f = File(c) /\ r = Size[c]

\* What tool t alone brings about: the blocks of one file at a time, a temporary file
\* that holds the first of them, and a commit only of a whole file.
Transfer(t) ==
  /\ t_cfg[t] = None => t_next[t] = 0
  /\ InFlight(t_cfg[t], t_next[t], acks[t], queue)
  /\ pc \in {"validate", "remove", "rename"} => s_active /\ Whole(tmp, s_bytes_received)
  /\ pc = "rename" => zcf = NoFile
  /\ pc = "load" => ~s_active
  /\ pc = "idle" /\ s_active =>
       Going(t_cfg[t], t_next[t], acks[t], queue, s_next_block, tmp, s_bytes_received)

\* Faults that leave a transfer whole, and a tool that finishes what it starts.
Undisturbed == Impatient = {} /\ Faults \cap {"append", "remove", "rename"} = {}

LEMMA TransferTyped ==
  ASSUME TypeOK, NEW t \in Tools
  PROVE  /\ t_cfg[t] \in Configs \cup {None} /\ t_next[t] \in Nat /\ acks[t] \in Seq(Nat)
         /\ queue \in Seq(BlockType) /\ s_next_block \in Nat
         /\ s_active => tmp \in Seq(Cells)
BY DEF TypeOK, BlockType

LEMMA TakeParts ==
  ASSUME TypeOK, TakeBlock
  PROVE  /\ pc = "idle" /\ queue # <<>> /\ queue' = Tail(queue)
         /\ t_cfg' = t_cfg /\ t_next' = t_next
         /\ b = Head(queue) /\ b \in BlockType /\ b.subcode \in Nat /\ b.chunk \in Seq(Cells)
         /\ \A t \in Tools : Acknowledge(b.subcode) => acks'[t] = Append(acks[t], b.subcode)
<1>1. pc = "idle" /\ queue # <<>> /\ queue' = Tail(queue) /\ t_cfg' = t_cfg /\ t_next' = t_next
  BY DEF TakeBlock, tools
<1>2. b = Head(queue) /\ b \in BlockType
  BY <1>1, TailParts DEF TypeOK, BlockType, b
<1>3. b.subcode \in Nat /\ b.chunk \in Seq(Cells)
  BY <1>2 DEF BlockType
<1>4. \A t \in Tools : Acknowledge(b.subcode) => acks'[t] = Append(acks[t], b.subcode)
  BY DEF Acknowledge
<1> QED
  BY <1>1, <1>2, <1>3, <1>4

\* The block that is appended is the next one of the tool's file.
LEMMA AppendedParts ==
  ASSUME NEW t \in Tools, TypeOK, Transfer(t), AppendBlock
  PROVE  LET c == t_cfg[t]
             n == b.subcode
         IN /\ c \in Configs /\ c # None /\ (n = t_next[t] \/ (n = 0 /\ t_next[t] = 1))
            /\ \/ /\ pc' = "validate" /\ tmp' = File(c) /\ s_bytes_received' = Size[c]
               \/ /\ pc' = "idle"
                  /\ Going(c, t_next[t], acks'[t], queue', s_next_block', tmp', s_bytes_received')
            /\ InFlight(c, t_next[t], acks'[t], queue')
<1> DEFINE c == t_cfg[t]
           k == t_next[t]
           n == b.subcode
           B == Block(c, n)
           g == Pending \o b.chunk
<1>1. TakeBlock /\ InSequence
  BY DEF AppendBlock
<1>2. /\ pc = "idle" /\ queue # <<>> /\ queue' = Tail(queue) /\ b = Head(queue) /\ n \in Nat
      /\ acks'[t] = Append(acks[t], n) /\ b.chunk \in Seq(Cells)
  BY <1>1, TakeParts DEF AppendBlock
<1>3. /\ c \in Configs \cup {None} /\ k \in Nat /\ acks[t] \in Seq(Nat) /\ queue \in Seq(BlockType)
      /\ InFlight(c, k, acks[t], queue)
  BY TransferTyped DEF Transfer
<1>4. n = 0 \/ Going(c, k, acks[t], queue, n, tmp, s_bytes_received)
  BY <1>1, <1>2 DEF Transfer, InSequence
<1>5. n = b.subcode /\ Head(queue).subcode = n
  BY <1>2
<1> HIDE DEF c, k, n
<1>6. c # None /\ Head(queue) = Block(c, n) /\ (n = k \/ (n = 0 /\ k = 1))
  BY <1>2, <1>3, <1>4, <1>5, NextBlock
<1>7. c \in Configs
  BY <1>3, <1>6
<1>8. /\ Pending \in Seq(Cells) /\ Len(Pending) = n * Chunk /\ Len(Pending) <= Size[c]
      /\ Received = Len(Pending) /\ \A i \in 1 .. Len(Pending) : Pending[i] = <<c, i>>
  <2>1. CASE s_active
    <3>1. Pending = tmp /\ Received = s_bytes_received /\ tmp \in Seq(Cells) /\ n = s_next_block
      BY <1>1, <1>5, <2>1, TransferTyped DEF Pending, Received, InSequence
    <3>2. Going(c, k, acks[t], queue, n, tmp, s_bytes_received)
      BY <1>2, <2>1, <3>1 DEF Transfer, c, k
    <3> QED
      BY <3>1, <3>2 DEF Going
  <2>2. CASE ~s_active
    <3>1. Pending = <<>> /\ Received = 0 /\ n = 0
      BY <1>1, <1>5, <2>2 DEF Pending, Received, InSequence
    <3>2. 0 * Chunk = 0 /\ 0 <= Size[c]
      BY <1>7, UploadAssumption
    <3> QED
      BY <3>1, <3>2
  <2> QED
    BY <2>1, <2>2
<1>9. b.chunk = B.chunk
  BY <1>2, <1>6
<1>10. /\ Len(g) = Len(Pending) + Len(b.chunk)
       /\ \A i \in 1 .. Len(g) : g[i] = <<c, i>>
       /\ Len(b.chunk) < Chunk => g = File(c) /\ Len(g) = Size[c]
       /\ ~(Len(b.chunk) < Chunk) => Len(g) = (n + 1) * Chunk /\ Len(g) <= Size[c]
  <2>1. n \in Nat /\ Pending \in Seq(Cells) /\ Len(Pending) = n * Chunk
    BY <1>2, <1>5, <1>8
  <2>2. Len(Pending) <= Size[c] /\ \A i \in 1 .. Len(Pending) : Pending[i] = <<c, i>>
    BY <1>8
  <2>3. LET C == Block(c, n)
            h == Pending \o C.chunk
        IN /\ Len(h) = Len(Pending) + Len(C.chunk)
           /\ h \in Seq(Cells)
           /\ \A i \in 1 .. Len(h) : h[i] = <<c, i>>
           /\ Len(C.chunk) < Chunk => h = File(c) /\ Len(h) = Size[c]
           /\ ~(Len(C.chunk) < Chunk) => Len(h) = (n + 1) * Chunk /\ Len(h) <= Size[c]
    BY <1>7, <2>1, <2>2, BlockJoins, ZenonT(60)
  <2> QED
    BY <1>9, <2>3
<1>11. /\ tmp' = g /\ s_bytes_received' = Len(g) /\ s_next_block' = n + 1
       /\ pc' = IF Len(b.chunk) < Chunk THEN "validate" ELSE "idle"
  BY <1>8, <1>10 DEF AppendBlock, n
<1>12. InFlight(c, k, acks'[t], queue')
  BY <1>2, <1>3, <1>5, BlockAcknowledged
<1> HIDE DEF g, B
<1>13. ASSUME ~(Len(b.chunk) < Chunk)
       PROVE  Going(c, k, acks'[t], queue', s_next_block', tmp', s_bytes_received')
  <2>1. Going(c, k, Append(acks[t], n), Tail(queue), n + 1, g, Len(g))
    BY <1>2, <1>3, <1>5, <1>6, <1>7, <1>10, <1>13, GoingAppended
  <2> QED
    BY <1>2, <1>11, <2>1
<1>14. \/ pc' = "validate" /\ tmp' = File(c) /\ s_bytes_received' = Size[c]
       \/ pc' = "idle" /\ Going(c, k, acks'[t], queue', s_next_block', tmp', s_bytes_received')
  BY <1>10, <1>11, <1>13
<1> QED
  BY <1>6, <1>7, <1>12, <1>14 DEF c, k, n

\* Taking a block that is not stored, with or without an answer.
LEMMA TransferTake ==
  ASSUME NEW t \in Tools, TypeOK, Transfer(t), TakeBlock,
         UNCHANGED <<zcf, pc, s_active>>,
         s_active => UNCHANGED <<tmp, s_bytes_received, s_next_block>>,
         \/ UNCHANGED acks
         \/ Acknowledge(b.subcode) /\ (s_active => b.subcode < s_next_block)
  PROVE  Transfer(t)'
<1> DEFINE c == t_cfg[t]
           k == t_next[t]
           A == acks[t]
<1>1. /\ pc = "idle" /\ queue # <<>> /\ queue' = Tail(queue) /\ b = Head(queue)
      /\ t_cfg'[t] = c /\ t_next'[t] = k
      /\ acks'[t] = A \/ (/\ acks'[t] = Append(A, Head(queue).subcode)
                          /\ s_active => Head(queue).subcode < s_next_block)
  BY TakeParts
<1>2. /\ c \in Configs \cup {None} /\ k \in Nat /\ A \in Seq(Nat) /\ queue \in Seq(BlockType)
      /\ InFlight(c, k, A, queue) /\ (c = None => k = 0)
  BY TransferTyped DEF Transfer
<1> HIDE DEF c, k, A
<1>3. InFlight(c, k, acks'[t], queue')
  <2>1. InFlight(c, k, A, Tail(queue))
    BY <1>1, <1>2, BlockTaken
  <2>2. InFlight(c, k, Append(A, Head(queue).subcode), Tail(queue))
    BY <1>1, <1>2, BlockAcknowledged
  <2> QED
    BY <1>1, <2>1, <2>2
<1>4. ASSUME s_active
      PROVE  Going(c, k, acks'[t], queue', s_next_block, tmp, s_bytes_received)
  <2>1. Going(c, k, A, queue, s_next_block, tmp, s_bytes_received)
    BY <1>1, <1>4 DEF Transfer, c, k, A
  <2>2. Going(c, k, A, Tail(queue), s_next_block, tmp, s_bytes_received)
    BY <1>1, <1>2, <2>1, GoingBlockTaken
  <2>3. c \in Configs
    BY <1>2, <2>1 DEF Going
  <2>4. Head(queue).subcode < s_next_block
        => Going(c, k, Append(A, Head(queue).subcode), Tail(queue), s_next_block, tmp, s_bytes_received)
    BY <1>1, <1>2, <2>1, <2>3, GoingAgain
  <2> QED
    BY <1>1, <1>4, <2>2, <2>4
<1>5. t_cfg'[t] = c /\ t_next'[t] = k /\ pc' = "idle" /\ (s_active' <=> s_active)
  BY <1>1
<1> QED
  BY <1>2, <1>3, <1>4, <1>5 DEF Transfer

\* The tool hears of block k, or of another one.
LEMMA TransferAck ==
  ASSUME NEW t \in Tools, Tools = {t}, TypeOK, Transfer(t), ReceiveAck(t)
  PROVE  Transfer(t)'
<1> DEFINE c == t_cfg[t]
           k == t_next[t]
           A == acks[t]
<1>1. /\ A # <<>> /\ acks'[t] = Tail(A) /\ queue' = queue
      /\ UNCHANGED <<zcf, tmp, s_active, s_bytes_received, s_next_block, pc>>
  BY DEF ReceiveAck, TypeOK, store
<1>2. \/ (c = None \/ Head(A) # k) /\ t_cfg'[t] = c /\ t_next'[t] = k
      \/ /\ c # None /\ Head(A) = k /\ k = Chunks(c) /\ t_cfg'[t] = None /\ t_next'[t] = 0
      \/ /\ c # None /\ Head(A) = k /\ k # Chunks(c) /\ t_cfg'[t] = c /\ t_next'[t] = k + 1
  BY DEF ReceiveAck, TypeOK
<1>3. /\ c \in Configs \cup {None} /\ k \in Nat /\ A \in Seq(Nat) /\ queue \in Seq(BlockType)
      /\ InFlight(c, k, A, queue) /\ (c = None => k = 0)
  BY TransferTyped DEF Transfer
<1>4. pc = "idle" /\ s_active => Going(c, k, A, queue, s_next_block, tmp, s_bytes_received)
  BY DEF Transfer
<1>5. /\ pc \in {"validate", "remove", "rename"} => s_active /\ Whole(tmp, s_bytes_received)
      /\ pc = "rename" => zcf = NoFile
      /\ pc = "load" => ~s_active
  BY DEF Transfer
<1> HIDE DEF c, k, A
<1>6. /\ pc' \in {"validate", "remove", "rename"} => s_active' /\ Whole(tmp, s_bytes_received)'
      /\ pc' = "rename" => zcf' = NoFile
      /\ pc' = "load" => ~s_active'
  BY <1>1, <1>5 DEF Whole
<1>7. CASE t_cfg'[t] = c /\ t_next'[t] = k
  <2>1. InFlight(c, k, Tail(A), queue)
    BY <1>1, <1>3, AckTaken
  <2>2. pc = "idle" /\ s_active => Going(c, k, Tail(A), queue, s_next_block, tmp, s_bytes_received)
    BY <1>1, <1>3, <1>4, GoingAckTaken
  <2> QED
    BY <1>1, <1>3, <1>6, <1>7, <2>1, <2>2 DEF Transfer
<1>8. CASE c # None /\ Head(A) = k /\ k = Chunks(c) /\ t_cfg'[t] = None /\ t_next'[t] = 0
  <2>1. InFlight(None, 0, Tail(A), queue)
    BY <1>1, <1>3, <1>8, ToolFinishes
  <2>2. ~(pc = "idle" /\ s_active)
    BY <1>1, <1>3, <1>4, <1>8, GoingAdvances
  <2> QED
    BY <1>1, <1>6, <1>8, <2>1, <2>2 DEF Transfer
<1>9. CASE c # None /\ Head(A) = k /\ k # Chunks(c) /\ t_cfg'[t] = c /\ t_next'[t] = k + 1
  <2>1. InFlight(c, k + 1, Tail(A), queue)
    BY <1>1, <1>3, <1>9, ToolAdvances
  <2>2. pc = "idle" /\ s_active => Going(c, k + 1, Tail(A), queue, s_next_block, tmp, s_bytes_received)
    BY <1>1, <1>3, <1>4, <1>9, GoingAdvances
  <2> QED
    BY <1>1, <1>6, <1>9, <2>1, <2>2 DEF Transfer
<1> QED
  BY <1>2, <1>7, <1>8, <1>9

LEMMA TransferStep ==
  ASSUME NEW t \in Tools, Tools = {t}, Undisturbed, TypeOK, Transfer(t), [Next]_vars
  PROVE  Transfer(t)'
<1> DEFINE c == t_cfg[t]
           k == t_next[t]
           A == acks[t]
<1>1. /\ c \in Configs \cup {None} /\ k \in Nat /\ A \in Seq(Nat) /\ queue \in Seq(BlockType)
      /\ InFlight(c, k, A, queue) /\ (c = None => k = 0)
  BY TransferTyped DEF Transfer
<1>2. CASE UNCHANGED vars \/ RequestDownload
  BY <1>2 DEF vars, store, tools, RequestDownload, Transfer, Whole
<1>3. CASE LeftoverTerminator \/ MissedBlockZero \/ BeginFails \/ Gap
  BY <1>3, TransferTake DEF LeftoverTerminator, MissedBlockZero, BeginFails, Gap, store
<1>4. CASE AlreadyStored
  BY <1>4, TransferTake DEF AlreadyStored, store
<1>5. CASE AppendBlock
  <2>1. t_cfg' = t_cfg /\ t_next' = t_next /\ s_active'
    BY <1>5, TakeParts DEF AppendBlock
  <2>2. /\ c \in Configs /\ c # None
        /\ \/ pc' = "validate" /\ tmp' = File(c) /\ s_bytes_received' = Size[c]
           \/ /\ pc' = "idle"
              /\ Going(c, k, acks'[t], queue', s_next_block', tmp', s_bytes_received')
        /\ InFlight(c, k, acks'[t], queue')
    BY <1>5, AppendedParts
  <2>3. t_cfg'[t] = c /\ t_next'[t] = k
    BY <2>1
  <2> HIDE DEF c, k, A
  <2>4. pc' \in {"validate", "idle"} /\ (pc' = "validate" => Whole(tmp', s_bytes_received'))
    BY <2>2 DEF Whole
  <2>5. pc' = "idle" => Going(c, k, acks'[t], queue', s_next_block', tmp', s_bytes_received')
    BY <2>2
  <2> QED
    BY <2>1, <2>2, <2>3, <2>4, <2>5 DEF Transfer, Whole
<1>6. CASE AppendFails
  BY <1>6 DEF AppendFails, Undisturbed
<1>7. CASE ValidateOk
  BY <1>7 DEF ValidateOk, Transfer, Whole, store, tools
<1>8. CASE ValidateFails
  BY <1>8 DEF ValidateFails, Transfer, tools
<1>9. CASE RemoveOld
  BY <1>9 DEF RemoveOld, Transfer, Whole, Undisturbed, store, tools
<1>10. CASE RenameTmp
  BY <1>10 DEF RenameTmp, Transfer, tools
<1>11. CASE RenameFails
  BY <1>11 DEF RenameFails, Transfer, Undisturbed
<1>12. CASE LoadMap
  BY <1>12 DEF LoadMap, Transfer, store, tools
<1>13. CASE Crash
  <2>1. queue' = <<>> /\ ~s_active' /\ pc' = "idle" /\ t_cfg' = t_cfg /\ t_next' = t_next /\ acks' = acks
    BY <1>13 DEF Crash, tools
  <2>2. InFlight(c, k, A, <<>>)
    <3>1. 1 .. Len(<<>>) = {}
      OBVIOUS
    <3> HIDE DEF c, k, A
    <3> QED
      BY <1>1, <3>1 DEF InFlight
  <2> QED
    BY <1>1, <2>1, <2>2 DEF Transfer
<1>14. CASE LoseBlock
  <2>1. /\ queue # <<>> /\ queue' = Tail(queue) /\ t_cfg' = t_cfg /\ t_next' = t_next
        /\ UNCHANGED <<zcf, tmp, s_active, s_bytes_received, s_next_block, pc, acks>>
    BY <1>14 DEF LoseBlock, store, tools
  <2>2. InFlight(c, k, A, Tail(queue))
    BY <1>1, <2>1, BlockTaken
  <2>3. ASSUME pc = "idle", s_active
        PROVE  Going(c, k, A, Tail(queue), s_next_block, tmp, s_bytes_received)
    BY <1>1, <2>1, <2>3, GoingBlockTaken DEF Transfer
  <2> QED
    BY <2>1, <2>2, <2>3 DEF Transfer, Whole
<1>15. ASSUME NEW d \in Configs, StartUpload(t, d) PROVE Transfer(t)'
  <2>1. /\ c = None /\ t_cfg'[t] = d /\ t_next'[t] = 0 /\ d # None
        /\ UNCHANGED <<zcf, tmp, s_active, s_bytes_received, s_next_block, pc, acks, queue>>
    BY <1>15, UploadAssumption DEF StartUpload, TypeOK, store
  <2>2. InFlight(None, 0, A, queue)
    BY <1>1, <2>1
  <2>3. InFlight(d, 0, A, queue)
    BY <1>1, <2>2, ToolStarts
  <2>4. ~(pc = "idle" /\ s_active)
    BY <2>1 DEF Transfer, Going
  <2> QED
    BY <2>1, <2>3, <2>4 DEF Transfer, Whole
<1>16. CASE SendBlock(t)
  <2>1. /\ c # None /\ queue' = Append(queue, Block(c, k)) /\ t_cfg' = t_cfg /\ t_next' = t_next
        /\ UNCHANGED <<zcf, tmp, s_active, s_bytes_received, s_next_block, pc, acks>>
    BY <1>16 DEF SendBlock, store, tools
  <2>2. c \in Configs
    BY <1>1, <2>1
  <2>3. InFlight(c, k, A, queue')
    BY <1>1, <2>1, <2>2, BlockSent
  <2>4. ASSUME pc = "idle", s_active
        PROVE  Going(c, k, A, queue', s_next_block, tmp, s_bytes_received)
    BY <1>1, <2>1, <2>2, <2>4, GoingSent DEF Transfer
  <2> QED
    BY <2>1, <2>3, <2>4 DEF Transfer, Whole
<1>17. CASE ReceiveAck(t)
  BY <1>17, TransferAck
<1>18. CASE GiveUp(t)
  BY <1>18 DEF GiveUp, Undisturbed
<1>19. CASE LoseAck(t)
  <2>1. /\ A # <<>> /\ acks'[t] = Tail(A) /\ t_cfg' = t_cfg /\ t_next' = t_next
        /\ UNCHANGED <<zcf, tmp, s_active, s_bytes_received, s_next_block, pc, queue>>
    BY <1>19 DEF LoseAck, TypeOK, store, tools
  <2>2. InFlight(c, k, Tail(A), queue)
    BY <1>1, <2>1, AckTaken
  <2>3. ASSUME pc = "idle", s_active
        PROVE  Going(c, k, Tail(A), queue, s_next_block, tmp, s_bytes_received)
    BY <1>1, <2>1, <2>3, GoingAckTaken DEF Transfer
  <2> QED
    BY <2>1, <2>2, <2>3 DEF Transfer, Whole
<1> QED
  BY <1>2, <1>3, <1>4, <1>5, <1>6, <1>7, <1>8, <1>9, <1>10, <1>11, <1>12, <1>13, <1>14,
     <1>15, <1>16, <1>17, <1>18, <1>19 DEF Next, Handler

LEMMA TransferInit ==
  ASSUME NEW t \in Tools, Init
  PROVE  Transfer(t)
BY DEF Init, Transfer, InFlight

LEMMA TransferAlways ==
  ASSUME NEW t \in Tools, Tools = {t}, Undisturbed
  PROVE  Spec => [](TypeOK /\ Transfer(t))
<1>1. TypeOK /\ Transfer(t) /\ [Next]_vars => Transfer(t)'
  BY TransferStep
<1>2. Init => Transfer(t)
  BY TransferInit
<1> QED
  BY <1>1, <1>2, TypeCorrect, PTL DEF Spec

\* What is acknowledged as already stored is stored, at its place, while one tool
\* uploads: however many blocks and acknowledgements are lost, and wherever the
\* power fails.
THEOREM ReAckedCorrect ==
  ASSUME NEW t \in Tools, Tools = {t}, Undisturbed
  PROVE  Spec => ReAckedIsStored
<1> DEFINE Stored == AlreadyStored =>
             \A i \in 1 .. Len(b.chunk) : /\ b.subcode * Chunk + i <= Len(tmp)
                                          /\ tmp[b.subcode * Chunk + i] = b.chunk[i]
<1>1. TypeOK /\ Transfer(t) => Stored
  <2> SUFFICES ASSUME TypeOK, Transfer(t), AlreadyStored, NEW i \in 1 .. Len(b.chunk)
               PROVE  /\ b.subcode * Chunk + i <= Len(tmp)
                      /\ tmp[b.subcode * Chunk + i] = b.chunk[i]
    OBVIOUS
  <2> DEFINE c == t_cfg[t]
             k == t_next[t]
             m == b.subcode
             n == s_next_block
  <2>1. TakeBlock /\ s_active /\ m < n
    BY DEF AlreadyStored
  <2>2. pc = "idle" /\ queue # <<>> /\ b = Head(queue) /\ m \in Nat /\ b.chunk \in Seq(Cells)
    BY <2>1, TakeParts
  <2>3. Going(c, k, acks[t], queue, n, tmp, s_bytes_received)
    BY <2>1, <2>2 DEF Transfer
  <2>4. /\ c \in Configs \cup {None} /\ k \in Nat /\ acks[t] \in Seq(Nat)
        /\ queue \in Seq(BlockType) /\ InFlight(c, k, acks[t], queue) /\ n \in Nat
    BY TransferTyped DEF Transfer
  <2>5. BlockOk(c, k, b)
    BY <2>2, <2>4, BlockTaken
  <2> HIDE DEF c, k, n
  <2>6. c \in Configs /\ n \in {k, k + 1} /\ Len(tmp) = n * Chunk
        /\ \A j \in 1 .. Len(tmp) : tmp[j] = <<c, j>>
    BY <2>3, <2>4 DEF Going
  <2>7. b = Block(c, k) \/ (k # 0 /\ b = Block(c, k - 1))
    <3>1. b.chunk # <<>>
      OBVIOUS
    <3> QED
      BY <2>5, <3>1 DEF BlockOk
  <2>8. /\ b = Block(c, m) /\ m \in {k, k - 1}
        /\ Len(b.chunk) \in 0 .. Chunk
        /\ \A j \in 1 .. Len(b.chunk) : b.chunk[j] = <<c, m * Chunk + j>>
    <3>1. b = Block(c, k) => m = k
      BY <2>4, <2>6, BlockParts
    <3>2. k # 0 /\ b = Block(c, k - 1) => m = k - 1
      <4>1. k # 0 => k - 1 \in Nat
        BY <2>4
      <4> QED
        BY <2>6, <4>1, BlockParts
    <3>3. b = Block(c, m) /\ m \in {k, k - 1}
      BY <2>7, <3>1, <3>2
    <3>4. /\ Len(Block(c, m).chunk) \in 0 .. Chunk
          /\ \A j \in 1 .. Len(Block(c, m).chunk) : Block(c, m).chunk[j] = <<c, m * Chunk + j>>
      BY <2>2, <2>6, BlockParts
    <3> QED
      BY <3>3, <3>4
  <2>9. m * Chunk + Chunk <= n * Chunk /\ m * Chunk \in Nat /\ n * Chunk \in Nat
    <3>1. Chunk \in Nat /\ m \in Nat /\ k \in Nat
      BY <2>2, <2>4, UploadAssumption
    <3>2. n = m + 1 \/ n = (m + 1) + 1
      <4>1. m < n /\ n \in {k, k + 1} /\ m \in {k, k - 1}
        BY <2>1, <2>6, <2>8 DEF n
      <4> HIDE DEF m
      <4> QED
        BY <3>1, <4>1
    <3>3. (m + 1) * Chunk = m * Chunk + Chunk /\ ((m + 1) + 1) * Chunk = (m + 1) * Chunk + Chunk
          /\ m * Chunk \in Nat
      BY <3>1
    <3> HIDE DEF m
    <3> QED
      BY <3>1, <3>2, <3>3
  <2>10. m * Chunk + i \in 1 .. Len(tmp)
    <3> HIDE DEF m
    <3> QED
      BY <2>6, <2>8, <2>9, UploadAssumption
  <2> QED
    BY <2>6, <2>8, <2>10
<1>2. TypeOK /\ Transfer(t) /\ [Next]_vars => [Stored]_vars
  BY <1>1
<1> QED
  BY <1>2, TransferAlways, PTL DEF Spec, ReAckedIsStored

-----------------------------------------------------------------------------
(* The store the transfer promises *)

\* From the acknowledgement of its first block on, what tool t uploads is what is
\* being received or what is saved.  Power must not fail: a crash empties
\* handle_zcf_datablock's s_active and leaves the tool where it was.
Begun(c, k, A) == c # None /\ (k # 0 \/ \E i \in 1 .. Len(A) : A[i] = 0)

Committed(t) ==
  Begun(t_cfg[t], t_next[t], acks[t]) =>
    /\ pc \in {"validate", "remove", "rename"} => tmp = File(t_cfg[t])
    /\ pc = "load" \/ (pc = "idle" /\ ~s_active) => zcf = File(t_cfg[t])

\* Nothing fails after the last block.
Steady == ~CanCrash /\ "read" \notin Faults

LEMMA WholeValid ==
  ASSUME NEW f, NEW r, Whole(f, r)
  PROVE  f # NoFile /\ SubSeq(f, 1, r) \in CrcValid
<1>1. PICK c \in Configs : f = File(c) /\ r = Size[c]
  BY DEF Whole
<1>2. f \in Seq(Cells) /\ Len(f) = Size[c] /\ Size[c] \in Nat
  BY <1>1, FileTyped, UploadAssumption DEF File
<1>3. f # NoFile /\ SubSeq(f, 1, r) = f
  BY <1>1, <1>2, UploadAssumption
<1>4. f \in CrcValid
  BY <1>1, UploadAssumption
<1> QED
  BY <1>3, <1>4

LEMMA CommittedStep ==
  ASSUME NEW t \in Tools, Tools = {t}, Undisturbed, Steady, TypeOK, Transfer(t), Committed(t),
         [Next]_vars
  PROVE  Committed(t)'
<1> DEFINE c == t_cfg[t]
           k == t_next[t]
           A == acks[t]
<1>1. /\ c \in Configs \cup {None} /\ k \in Nat /\ A \in Seq(Nat) /\ queue \in Seq(BlockType)
      /\ InFlight(c, k, A, queue) /\ (c = None => k = 0)
  BY TransferTyped DEF Transfer
<1>2. ASSUME A # <<>>, Begun(c, k, Tail(A)) PROVE Begun(c, k, A)
  <2>1. \A i \in 1 .. Len(Tail(A)) : i + 1 \in 1 .. Len(A) /\ Tail(A)[i] = A[i + 1]
    BY <1>1, <1>2, TailParts
  <2> HIDE DEF c, k, A
  <2> QED
    BY <1>2, <2>1 DEF Begun
<1>3. CASE UNCHANGED vars \/ RequestDownload
  BY <1>3 DEF vars, store, tools, RequestDownload, Committed
<1>4. CASE LeftoverTerminator
  <2>1. /\ pc = "idle" /\ ~s_active /\ b.subcode # 0 /\ b.subcode \in Nat
        /\ acks'[t] = Append(A, b.subcode)
        /\ t_cfg' = t_cfg /\ t_next' = t_next /\ UNCHANGED <<zcf, pc, s_active>>
    BY <1>4, TakeParts DEF LeftoverTerminator, store
  <2> DEFINE Y == Append(A, b.subcode)
  <2>2. \A i \in 1 .. Len(Y) : Y[i] = (IF i \in 1 .. Len(A) THEN A[i] ELSE b.subcode)
    BY <1>1, <2>1, AppendParts
  <2> HIDE DEF c, k, A, Y
  <2>3. Begun(c, k, Y) => Begun(c, k, A)
    BY <2>1, <2>2 DEF Begun
  <2> QED
    BY <2>1, <2>3 DEF Committed, c, k, A, Y
<1>5. CASE MissedBlockZero \/ BeginFails
  BY <1>5, TakeParts DEF MissedBlockZero, BeginFails, Committed, store
<1>6. CASE AlreadyStored \/ Gap
  BY <1>6, TakeParts DEF AlreadyStored, Gap, Committed, store
<1>7. CASE AppendBlock
  <2>1. t_cfg' = t_cfg /\ t_next' = t_next /\ s_active'
    BY <1>7, TakeParts DEF AppendBlock
  <2>2. (pc' = "validate" /\ tmp' = File(c)) \/ pc' = "idle"
    BY <1>7, AppendedParts
  <2> QED
    BY <2>1, <2>2 DEF Committed
<1>8. CASE AppendFails
  BY <1>8 DEF AppendFails, Undisturbed
<1>9. CASE ValidateOk
  BY <1>9 DEF ValidateOk, Committed, store, tools
<1>10. CASE ValidateFails
  <2>1. Whole(tmp, s_bytes_received)
    BY <1>10 DEF ValidateFails, Transfer
  <2>2. SubSeq(tmp, 1, s_bytes_received) \in CrcValid
    BY <2>1, WholeValid
  <2> QED
    BY <1>10, <2>2 DEF ValidateFails, Steady
<1>11. CASE RemoveOld
  BY <1>11 DEF RemoveOld, Committed, store, tools
<1>12. CASE RenameTmp
  BY <1>12 DEF RenameTmp, Committed, tools
<1>13. CASE RenameFails
  BY <1>13 DEF RenameFails, Transfer, Undisturbed
<1>14. CASE LoadMap
  BY <1>14 DEF LoadMap, Committed, store, tools
<1>15. CASE Crash
  BY <1>15 DEF Crash, Steady
<1>16. CASE LoseBlock
  BY <1>16 DEF LoseBlock, Committed, store, tools
<1>17. ASSUME NEW d \in Configs, StartUpload(t, d) PROVE Committed(t)'
  <2>1. c = None /\ t_cfg'[t] = d /\ t_next'[t] = 0 /\ acks' = acks
    BY <1>17 DEF StartUpload, TypeOK
  <2>2. InFlight(None, 0, A, queue)
    BY <1>1, <2>1
  <2>3. \A i \in 1 .. Len(A) : A[i] # 0
    BY <1>1, <2>2, ToolStarts
  <2> QED
    BY <2>1, <2>3 DEF Committed, Begun
<1>18. CASE SendBlock(t)
  BY <1>18 DEF SendBlock, Committed, store, tools
<1>19. CASE ReceiveAck(t)
  <2>1. /\ A # <<>> /\ acks'[t] = Tail(A)
        /\ UNCHANGED <<zcf, tmp, s_active, pc>>
    BY <1>19 DEF ReceiveAck, TypeOK, store
  <2>2. \/ t_cfg'[t] = c /\ t_next'[t] = k
        \/ t_cfg'[t] = None
        \/ c # None /\ Head(A) = k /\ t_cfg'[t] = c /\ t_next'[t] = k + 1
    BY <1>19 DEF ReceiveAck, TypeOK
  <2>3. Head(A) = A[1] /\ 1 \in 1 .. Len(A)
    BY <1>1, <2>1, TailParts
  <2> HIDE DEF c, k, A
  <2>4. c # None /\ Head(A) = k => Begun(c, k, A)
    BY <2>3 DEF Begun
  <2>5. Begun(t_cfg'[t], t_next'[t], acks'[t]) => Begun(c, k, A) /\ t_cfg'[t] = c
    <3>1. CASE t_cfg'[t] = c /\ t_next'[t] = k
      BY <1>2, <2>1, <3>1
    <3>2. CASE t_cfg'[t] = None
      BY <3>2 DEF Begun
    <3>3. CASE c # None /\ Head(A) = k /\ t_cfg'[t] = c /\ t_next'[t] = k + 1
      BY <2>4, <3>3
    <3> QED
      BY <2>2, <3>1, <3>2, <3>3
  <2> QED
    BY <2>1, <2>5 DEF Committed, c, k, A
<1>20. CASE GiveUp(t)
  BY <1>20 DEF GiveUp, Undisturbed
<1>21. CASE LoseAck(t)
  <2>1. /\ A # <<>> /\ acks'[t] = Tail(A) /\ t_cfg' = t_cfg /\ t_next' = t_next
        /\ UNCHANGED <<zcf, tmp, s_active, pc>>
    BY <1>21 DEF LoseAck, TypeOK, store, tools
  <2> QED
    BY <1>2, <2>1 DEF Committed
<1> QED
  BY <1>3, <1>4, <1>5, <1>6, <1>7, <1>8, <1>9, <1>10, <1>11, <1>12, <1>13, <1>14, <1>15,
     <1>16, <1>17, <1>18, <1>19, <1>20, <1>21 DEF Next, Handler

\* The state of the store, as ZcfUpload!Store maps it.
Wanted   == [u \in Tools |-> IF t_cfg[u] = None THEN NoFile ELSE File(t_cfg[u])]
Accepted == IF pc \in {"validate", "remove"} THEN tmp ELSE NoFile
Saved    == IF pc = "rename" THEN tmp ELSE zcf

LEMMA StoreStutters ==
  ASSUME UNCHANGED <<t_cfg, Accepted, Saved, s_map>>
  PROVE  UNCHANGED Store!csvars
BY DEF Store!csvars, Accepted, Saved

\* Each step of the transfer is a step of the store, or none.
LEMMA StoreStep ==
  ASSUME NEW t \in Tools, Tools = {t}, Undisturbed, Steady, TypeOK, Transfer(t), Committed(t),
         [Next]_vars
  PROVE  [Store!Next]_(Store!csvars)
<1> DEFINE c == t_cfg[t]
           k == t_next[t]
           A == acks[t]
<1>1. /\ c \in Configs \cup {None} /\ k \in Nat /\ A \in Seq(Nat) /\ queue \in Seq(BlockType)
      /\ InFlight(c, k, A, queue) /\ (c = None => k = 0)
  BY TransferTyped DEF Transfer
<1>2. CASE UNCHANGED vars \/ RequestDownload
  BY <1>2, StoreStutters DEF vars, store, tools, RequestDownload, Accepted, Saved
<1>3. CASE LeftoverTerminator \/ MissedBlockZero \/ BeginFails \/ AlreadyStored \/ Gap
  <2>1. pc = "idle" /\ t_cfg' = t_cfg
    BY <1>3, TakeParts DEF LeftoverTerminator, MissedBlockZero, BeginFails, AlreadyStored, Gap
  <2>2. UNCHANGED <<pc, zcf, s_map>>
    BY <1>3 DEF LeftoverTerminator, MissedBlockZero, BeginFails, AlreadyStored, Gap
  <2> QED
    BY <2>1, <2>2, StoreStutters DEF Accepted, Saved
<1>4. CASE AppendBlock
  <2>1. pc = "idle" /\ t_cfg' = t_cfg /\ UNCHANGED <<zcf, s_map>>
    BY <1>4, TakeParts DEF AppendBlock
  <2>2. c \in Configs /\ c # None /\ ((pc' = "validate" /\ tmp' = File(c)) \/ pc' = "idle")
    BY <1>4, AppendedParts
  <2>3. CASE pc' = "idle"
    BY <2>1, <2>3, StoreStutters DEF Accepted, Saved
  <2>4. CASE pc' = "validate" /\ tmp' = File(c)
    <3>1. Wanted[t] = File(c) /\ File(c) # NoFile
      BY <2>2, FileTyped, UploadAssumption DEF Wanted
    <3>2. /\ Accepted = NoFile /\ Accepted' = File(c) /\ Saved' = Saved /\ Wanted' = Wanted
          /\ s_map' = s_map
      BY <2>1, <2>4 DEF Accepted, Saved, Wanted
    <3>3. Store!Accept(t)
      BY <3>1, <3>2 DEF Store!Accept, Wanted, Accepted, Saved
    <3> QED
      BY <3>3 DEF Store!Next
  <2> QED
    BY <2>2, <2>3, <2>4
<1>5. CASE AppendFails
  BY <1>5 DEF AppendFails, Undisturbed
<1>6. CASE ValidateOk
  BY <1>6, StoreStutters DEF ValidateOk, store, tools, Accepted, Saved
<1>7. CASE ValidateFails
  <2>1. Whole(tmp, s_bytes_received)
    BY <1>7 DEF ValidateFails, Transfer
  <2>2. SubSeq(tmp, 1, s_bytes_received) \in CrcValid
    BY <2>1, WholeValid
  <2> QED
    BY <1>7, <2>2 DEF ValidateFails, Steady
<1>8. CASE RemoveOld
  <2>1. Whole(tmp, s_bytes_received) /\ tmp # NoFile
    BY <1>8, WholeValid DEF RemoveOld, Transfer
  <2>2. /\ Accepted = tmp /\ Accepted' = NoFile /\ Saved' = tmp /\ Wanted' = Wanted /\ s_map' = s_map
    BY <1>8 DEF RemoveOld, Accepted, Saved, Wanted, store, tools
  <2>3. Store!Commit
    BY <2>1, <2>2 DEF Store!Commit, Accepted, Saved, Wanted
  <2> QED
    BY <2>3 DEF Store!Next
<1>9. CASE RenameTmp
  BY <1>9, StoreStutters DEF RenameTmp, tools, Accepted, Saved
<1>10. CASE RenameFails
  BY <1>10 DEF RenameFails, Transfer, Undisturbed
<1>11. CASE LoadMap
  <2>1. /\ Accepted' = Accepted /\ Saved' = Saved /\ Wanted' = Wanted /\ s_map' = Saved
    BY <1>11 DEF LoadMap, Accepted, Saved, Wanted, store, tools
  <2>2. Store!Apply
    BY <2>1 DEF Store!Apply, Accepted, Saved, Wanted
  <2> QED
    BY <2>2 DEF Store!Next
<1>12. CASE Crash
  BY <1>12 DEF Crash, Steady
<1>13. CASE LoseBlock
  BY <1>13, StoreStutters DEF LoseBlock, store, tools, Accepted, Saved
<1>14. ASSUME NEW d \in Configs, StartUpload(t, d) PROVE Store!Next
  <2>1. /\ t_cfg[t] = None /\ t_cfg' = [t_cfg EXCEPT ![t] = d] /\ d # None
        /\ UNCHANGED <<pc, tmp, zcf, s_map>>
    BY <1>14, UploadAssumption DEF StartUpload, store
  <2>2. Wanted[t] = NoFile /\ Wanted' = [Wanted EXCEPT ![t] = File(d)]
    BY <2>1 DEF Wanted, TypeOK
  <2>3. Accepted' = Accepted /\ Saved' = Saved /\ s_map' = s_map
    BY <2>1 DEF Accepted, Saved
  <2>4. Store!Request(t, File(d))
    BY <2>2, <2>3 DEF Store!Request, Wanted, Accepted, Saved
  <2> QED
    BY <2>4 DEF Store!Next
<1>15. CASE SendBlock(t)
  BY <1>15, StoreStutters DEF SendBlock, store, tools, Accepted, Saved
<1>16. CASE ReceiveAck(t)
  <2>1. A # <<>> /\ UNCHANGED <<zcf, tmp, pc, s_map, s_active>>
    BY <1>16 DEF ReceiveAck, store
  <2>2. \/ t_cfg' = t_cfg
        \/ c # None /\ Head(A) = k /\ k = Chunks(c) /\ t_cfg' = [t_cfg EXCEPT ![t] = None]
    BY <1>16 DEF ReceiveAck
  <2>3. CASE t_cfg' = t_cfg
    BY <2>1, <2>3, StoreStutters DEF Accepted, Saved
  <2>4. CASE c # None /\ Head(A) = k /\ k = Chunks(c) /\ t_cfg' = [t_cfg EXCEPT ![t] = None]
    <3>1. c \in Configs /\ k # 0
      BY <1>1, <2>4, ChunksParts
    <3>2. ~(pc = "idle" /\ s_active)
      <4> SUFFICES ASSUME pc = "idle", s_active PROVE FALSE
        OBVIOUS
      <4>1. Going(c, k, A, queue, s_next_block, tmp, s_bytes_received)
        BY DEF Transfer
      <4> HIDE DEF c, k, A
      <4> QED
        BY <1>1, <2>1, <2>4, <3>1, <4>1, GoingAdvances
    <3>3. Begun(c, k, A)
      BY <2>4, <3>1 DEF Begun
    <3>4. \/ pc \in {"validate", "remove", "rename"} /\ tmp = File(c)
          \/ pc \in {"load", "idle"} /\ zcf = File(c)
      BY <3>2, <3>3 DEF Committed, TypeOK
    <3>5. Wanted[t] = File(c) /\ File(c) # NoFile
      BY <2>4, <3>1, FileTyped, UploadAssumption DEF Wanted
    <3>6. Wanted[t] \in {Saved, Accepted} \ {NoFile}
      BY <3>4, <3>5 DEF Saved, Accepted
    <3>7. Wanted' = [Wanted EXCEPT ![t] = NoFile]
      BY <2>4 DEF Wanted, TypeOK
    <3>8. Accepted' = Accepted /\ Saved' = Saved /\ s_map' = s_map
      BY <2>1 DEF Accepted, Saved
    <3>9. Store!Confirm(t)
      BY <3>6, <3>7, <3>8 DEF Store!Confirm, Wanted, Accepted, Saved
    <3> QED
      BY <3>9 DEF Store!Next
  <2> QED
    BY <2>2, <2>3, <2>4
<1>17. CASE GiveUp(t)
  BY <1>17 DEF GiveUp, Undisturbed
<1>18. CASE LoseAck(t)
  BY <1>18, StoreStutters DEF LoseAck, store, tools, Accepted, Saved
<1> QED
  BY <1>2, <1>3, <1>4, <1>5, <1>6, <1>7, <1>8, <1>9, <1>10, <1>11, <1>12, <1>13, <1>14,
     <1>15, <1>16, <1>17, <1>18 DEF Next, Handler

\* One tool that finishes its uploads, over a bus that loses and on a module whose
\* power and file operations hold once the file is complete: the transfer implements
\* the store.  That it commits and applies in the end is checked by TLC.
THEOREM StoreCorrect ==
  ASSUME NEW t \in Tools, Tools = {t}, Undisturbed, Steady
  PROVE  Spec => Store!Safety
<1>1. Init => Store!Init /\ Committed(t)
  <2> SUFFICES ASSUME Init PROVE Store!Init /\ Committed(t)
    OBVIOUS
  <2>1. Committed(t)
    BY DEF Init, Committed, Begun
  <2>2. Store!Init
    BY DEF Init, Store!Init
  <2> QED
    BY <2>1, <2>2
<1>2. TypeOK /\ Transfer(t) /\ Committed(t) /\ [Next]_vars => Committed(t)'
  BY CommittedStep
<1>3. TypeOK /\ Transfer(t) /\ Committed(t) /\ [Next]_vars => [Store!Next]_(Store!csvars)
  BY StoreStep
<1> QED
  BY <1>1, <1>2, <1>3, TransferAlways, PTL DEF Spec, Store!Safety
=============================================================================
