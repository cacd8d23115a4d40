------------------------- MODULE ZcfDownload_proofs -------------------------
(***************************************************************************)
(* Proofs about the download of the stored configuration, for any files,   *)
(* any chunk, any number of attempts and any loss.                         *)
(***************************************************************************)
EXTENDS ZcfDownload, TLAPS

BlockType == [subcode : Nat, chunk : Seq(Cells)]

\* Where block k of a file of n units ends, and what it holds.
Upto(n, k) == IF k * Chunk < n THEN k * Chunk ELSE n
Piece(f, k) == SubSeq(f, Upto(Len(f), k) + 1, Upto(Len(f), k + 1))

\* While the file is the one the tool's data is of: what the sender reads, what is on
\* the bus and what the tool has are the pieces of this file.
Pieces ==
  source # NoFile =>
    /\ source = zcf
    /\ pc # "idle" => file_size = Len(source)
    /\ pc \in {"arm", "drain", "send", "wait", "check"} => chunk = Piece(source, block_index)
    /\ \A i \in 1 .. Len(bus) : bus[i].chunk = Piece(source, bus[i].subcode)
    /\ t_data = SubSeq(source, 1, Upto(Len(source), t_next))
    /\ t_done <=> t_next # 0 /\ Len(source) <= (t_next - 1) * Chunk

\* Unless another module answered, what is acknowledged is what the tool has.
Honest ==
  /\ ~misled => /\ \A i \in 1 .. Len(acks) : acks[i].status # 2 => acks[i].block < t_next
                /\ \A i \in 1 .. Len(giving) : giving[i].status # 2 => giving[i].block < t_next
  /\ pc \in {"drain", "send", "wait", "check"} =>
       /\ s_zcf_send_ack_block = block_index
       /\ ~misled /\ s_zcf_send_ack_status \in {0, 1} => block_index < t_next

DownloadInv == Pieces /\ Honest

-----------------------------------------------------------------------------
LEMMA Part ==
  ASSUME NEW f \in Seq(Cells), NEW m \in Nat, NEW n \in 0 .. Len(f), m <= n
  PROVE  SubSeq(f, m + 1, n) \in Seq(Cells) /\ Len(SubSeq(f, m + 1, n)) = n - m
  OBVIOUS

LEMMA NoUnits ==
  ASSUME NEW f \in Seq(Cells)
  PROVE  f = <<>> <=> Len(f) = 0
  OBVIOUS

LEMMA Joined ==
  ASSUME NEW f \in Seq(Cells), NEW m \in Nat, NEW n \in 0 .. Len(f), m <= n
  PROVE  SubSeq(f, 1, m) \o SubSeq(f, m + 1, n) = SubSeq(f, 1, n)
  OBVIOUS

LEMMA Tails ==
  ASSUME NEW S, NEW s \in Seq(S), s # <<>>
  PROVE  /\ Len(s) \in Nat \ {0} /\ Tail(s) \in Seq(S) /\ Len(Tail(s)) = Len(s) - 1
         /\ Head(s) \in S /\ Head(s) = s[1] /\ 1 \in 1 .. Len(s)
         /\ \A i \in 1 .. Len(Tail(s)) : i + 1 \in 1 .. Len(s) /\ Tail(s)[i] = s[i + 1]
  OBVIOUS

LEMMA Appended ==
  ASSUME NEW S, NEW s \in Seq(S), NEW e \in S
  PROVE  /\ Append(s, e) \in Seq(S)
         /\ \A i \in 1 .. Len(Append(s, e)) :
              Append(s, e)[i] = (IF i \in 1 .. Len(s) THEN s[i] ELSE e)
  OBVIOUS

LEMMA Single ==
  ASSUME NEW S, NEW e \in S
  PROVE  <<e>> \in Seq(S) /\ Len(<<e>>) = 1 /\ <<e>>[1] = e
  OBVIOUS

LEMMA Quotient ==
  ASSUME NEW x \in Nat, NEW d \in Nat \ {0}
  PROVE  x \div d \in Nat /\ x < (x \div d) * d + d
  OBVIOUS

LEMMA Scaled ==
  ASSUME NEW m \in Nat, NEW n \in Nat, NEW d \in Nat, m <= n
  PROVE  m * d <= n * d
<1>1. n = m + (n - m) /\ n - m \in Nat
  OBVIOUS
<1>2. (m + (n - m)) * d = m * d + (n - m) * d /\ (n - m) * d \in Nat /\ m * d \in Nat
  BY <1>1
<1> QED
  BY <1>1, <1>2

\* The block the sender reads has the type of a block.
LEMMA ReadTyped ==
  ASSUME TypeOK, ReadBlock
  PROVE  chunk' \in Seq(Cells)
<1> DEFINE len == ChunkLen(block_index)
           m == block_index * Chunk
<1>1. Chunk \in Nat \ {0} /\ file_size \in Nat /\ block_index \in Nat /\ m \in Nat
  BY DownloadAssumption DEF TypeOK
<1>2. len \in Nat
  BY <1>1 DEF ChunkLen
<1>3. CASE len > 0
  <2>1. zcf # NoFile /\ m + len <= Len(zcf)
    BY <1>3 DEF ReadBlock, Readable
  <2>2. zcf \in Seq(Cells) /\ Len(zcf) \in Nat
    BY <2>1 DEF TypeOK
  <2>3. chunk' = SubSeq(zcf, m + 1, m + len)
    BY <1>3 DEF ReadBlock
  <2> HIDE DEF m, len
  <2>4. m + len \in 0 .. Len(zcf) /\ m <= m + len
    BY <1>1, <1>2, <2>1, <2>2
  <2> QED
    BY <1>1, <2>2, <2>3, <2>4, Part
<1>4. CASE ~(len > 0)
  BY <1>4 DEF ReadBlock
<1> QED
  BY <1>3, <1>4

\* An answer is queued or dropped.
LEMMA AnswerTyped ==
  ASSUME acks \in Seq(Ack), NEW k \in Nat, NEW status \in {0, 1, 2}, Answer(k, status)
  PROVE  /\ acks' \in Seq(Ack)
         /\ \A i \in 1 .. Len(acks') : \/ i \in 1 .. Len(acks) /\ acks'[i] = acks[i]
                                       \/ acks'[i].block = k /\ acks'[i].status = status
<1> DEFINE a == [block |-> k, status |-> status]
<1>1. a \in Ack /\ a.block = k /\ a.status = status
  BY DEF Ack
<1>2. acks' = Append(acks, a) \/ acks' = acks
  BY DEF Answer
<1> HIDE DEF a
<1> QED
  BY <1>1, <1>2, Appended

LEMMA TypesStart == Init => TypeOK
<1> SUFFICES ASSUME Init PROVE TypeOK
  OBVIOUS
<1>1. zcf \in Seq(Cells)
  <2>1. PICK c \in Configs : zcf = File(c)
    BY DEF Init
  <2>2. Size[c] \in Nat /\ \A i \in 1 .. Size[c] : <<c, i>> \in Cells
    BY DownloadAssumption DEF Cells
  <2> QED
    BY <2>1, <2>2 DEF File
<1> QED
  <2>1. /\ zcf \in Seq(Cells) \cup {NoFile} /\ source \in Seq(Cells) \cup {NoFile}
        /\ misled \in BOOLEAN
        /\ pc \in {"idle", "read", "arm", "drain", "send", "wait", "check"}
    BY <1>1 DEF Init
  <2>2. /\ file_size \in Nat /\ block_index \in Nat /\ chunk \in Seq(Cells)
        /\ attempt \in 0 .. ZCF_SEND_MAX_RETRIES
    BY DownloadAssumption DEF Init
  <2>3. /\ result \in {"none", "ok", "failed"}
        /\ s_zcf_send_waiting_ack \in BOOLEAN
        /\ s_zcf_send_ack_block \in Nat
        /\ s_zcf_send_ack_sem \in BOOLEAN
    BY DEF Init
  <2>4. s_zcf_send_ack_status \in {0, 1, 2, NoStatus}
    BY DEF Init
  <2>5. giving \in Seq(Ack) /\ Len(giving) <= 1 /\ acks \in Seq(Ack)
    BY DEF Init
  <2>6. bus \in Seq([subcode : Nat, chunk : Seq(Cells)]) /\ Len(bus) <= 1
    BY DEF Init
  <2>7. t_next \in Nat /\ t_data \in Seq(Cells)
    BY DEF Init
  <2>8. t_done \in BOOLEAN
    BY DEF Init
  <2> QED
    BY <2>1, <2>2, <2>3, <2>4, <2>5, <2>6, <2>7, <2>8 DEF TypeOK

LEMMA TypesStep == TypeOK /\ [Next]_vars => TypeOK'
<1> SUFFICES ASSUME TypeOK, [Next]_vars PROVE TypeOK'
  OBVIOUS
<1> USE DEF sender, shared, tool, history
<1>1. CASE UNCHANGED vars
  BY <1>1 DEF TypeOK, vars
<1>2. CASE Announce
  <2>1. zcf \in Seq(Cells) /\ file_size' \in Nat
    BY <1>2 DEF TypeOK, Announce
  <2>2. source' \in Seq(Cells) \cup {NoFile} /\ misled' \in BOOLEAN /\ block_index' \in Nat
    BY <1>2, <2>1 DEF TypeOK, Announce
  <2>3. t_next' \in Nat /\ t_data' \in Seq(Cells) /\ t_done' \in BOOLEAN
    <3>1. t_next' \in Nat /\ t_data' \in Seq(Cells)
      <4>1. (t_next' = 0 /\ t_data' = <<>>) \/ (t_next' = t_next /\ t_data' = t_data)
        BY <1>2 DEF Announce
      <4>2. t_next \in Nat /\ t_data \in Seq(Cells)
        BY DEF TypeOK
      <4>3. CASE t_next' = 0 /\ t_data' = <<>>
        BY <4>3
      <4>4. CASE t_next' = t_next /\ t_data' = t_data
        BY <4>2, <4>4
      <4> QED
        BY <4>1, <4>3, <4>4
    <3>2. t_done' \in BOOLEAN
      BY <1>2 DEF TypeOK, Announce
    <3> QED
      BY <3>1, <3>2
  <2>4. pc' = "read" /\ UNCHANGED <<zcf, chunk, attempt, result, shared, giving, bus, acks>>
    BY <1>2 DEF Announce
  <2> QED
    BY <2>1, <2>2, <2>3, <2>4 DEF TypeOK
<1>3. CASE ReadBlock
  <2>1. chunk' \in Seq(Cells)
    BY <1>3, ReadTyped
  <2> QED
    BY <1>3, <2>1, DownloadAssumption DEF TypeOK, ReadBlock
<1>4. CASE ReadFails
  BY <1>4 DEF TypeOK, ReadFails, Return
<1>5. CASE Arm \/ Drain
  <2>1. CASE Arm
    BY <2>1 DEF TypeOK, Arm
  <2>2. CASE Drain
    BY <2>2 DEF TypeOK, Drain
  <2> QED
    BY <1>5, <2>1, <2>2
<1>6. CASE SendBlock
  <2>1. bus' \in Seq(BlockType) /\ Len(bus') <= 1
    <3>1. [subcode |-> block_index, chunk |-> chunk] \in BlockType
      BY DEF TypeOK, BlockType
    <3> QED
      BY <1>6, <3>1, Single DEF SendBlock
  <2> QED
    BY <1>6, <2>1 DEF TypeOK, SendBlock, BlockType
<1>7. CASE SendFails \/ AckTaken \/ NextBlock \/ LastBlockAccepted \/ GiveUp
  <2>1. CASE SendFails \/ LastBlockAccepted \/ GiveUp
    BY <2>1 DEF TypeOK, SendFails, LastBlockAccepted, GiveUp, Return
  <2>2. CASE AckTaken
    BY <2>2 DEF TypeOK, AckTaken
  <2>3. CASE NextBlock
    <3>1. block_index' \in Nat /\ pc' = "read" /\ s_zcf_send_waiting_ack' = FALSE
      BY <2>3 DEF TypeOK, NextBlock
    <3>2. UNCHANGED <<zcf, file_size, chunk, attempt, result, s_zcf_send_ack_block,
                      s_zcf_send_ack_status, s_zcf_send_ack_sem, giving, bus, acks, tool, history>>
      BY <2>3 DEF NextBlock
    <3> QED
      BY <3>1, <3>2 DEF TypeOK
  <2> QED
    BY <1>7, <2>1, <2>2, <2>3
<1>8. CASE Retry
  <2>1. attempt' \in 0 .. ZCF_SEND_MAX_RETRIES
    BY <1>8, DownloadAssumption DEF TypeOK, Retry
  <2> QED
    BY <1>8, <2>1 DEF TypeOK, Retry
<1>9. ASSUME acks # <<>>
      PROVE  Tail(acks) \in Seq(Ack) /\ Head(acks) \in Ack
  BY <1>9, Tails DEF TypeOK
<1>10. CASE IgnoreAck
  BY <1>9, <1>10 DEF TypeOK, IgnoreAck
<1>11. CASE AcceptAck
  <2>1. <<Head(acks)>> \in Seq(Ack) /\ Len(<<Head(acks)>>) = 1
    BY <1>9, <1>11, Single DEF AcceptAck
  <2> QED
    BY <1>9, <1>11, <2>1 DEF TypeOK, AcceptAck
<1>12. CASE GiveAck
  <2>1. Head(giving) \in Ack
    BY <1>12, Tails DEF TypeOK, GiveAck
  <2>2. Head(giving).status \in {0, 1, 2}
    BY <2>1 DEF Ack
  <2>3. giving' \in Seq(Ack) /\ Len(giving') = 0
    BY <1>12 DEF GiveAck
  <2> QED
    BY <1>12, <2>2, <2>3 DEF TypeOK, GiveAck
<1>13. ASSUME bus # <<>>
       PROVE  Head(bus).subcode \in Nat /\ Head(bus).chunk \in Seq(Cells)
  <2>1. Head(bus) \in BlockType
    BY <1>13, Tails DEF TypeOK, BlockType
  <2> QED
    BY <2>1 DEF BlockType
<1>14. CASE ToolReceives
  <2>1. acks' \in Seq(Ack)
    BY <1>13, <1>14, AnswerTyped DEF TypeOK, ToolReceives
  <2>2. t_next' \in Nat /\ t_data' \in Seq(Cells) /\ t_done' \in BOOLEAN
    <3>1. t_next \in Nat /\ t_data \in Seq(Cells) /\ t_done \in BOOLEAN
      BY DEF TypeOK
    <3>2. \/ UNCHANGED tool
          \/ /\ t_next' = t_next + 1 /\ t_data' = t_data \o Head(bus).chunk
             /\ t_done' = (Head(bus).chunk = <<>>)
      BY <1>14 DEF ToolReceives
    <3>3. t_done' \in BOOLEAN
      BY <3>1, <3>2, Zenon
    <3>4. bus # <<>>
      BY <1>14 DEF ToolReceives
    <3>5. t_next' \in Nat /\ t_data' \in Seq(Cells)
      <4>1. \/ t_next' = t_next /\ t_data' = t_data
            \/ t_next' = t_next + 1 /\ t_data' = t_data \o Head(bus).chunk
        BY <3>2
      <4>2. t_next \in Nat /\ t_data \in Seq(Cells)
        BY DEF TypeOK
      <4>3. CASE t_next' = t_next /\ t_data' = t_data
        BY <4>2, <4>3
      <4>4. CASE t_next' = t_next + 1 /\ t_data' = t_data \o Head(bus).chunk
        BY <1>13, <3>4, <4>2, <4>4
      <4> QED
        BY <4>1, <4>3, <4>4
    <3> QED
      BY <3>3, <3>5
  <2>3. bus' = <<>> /\ UNCHANGED <<zcf, pc, sender, result, shared, giving, history>>
    BY <1>14 DEF ToolReceives
  <2> QED
    BY <2>1, <2>2, <2>3 DEF TypeOK
<1>15. CASE ModuleAnswers
  <2>1. acks' \in Seq(Ack)
    BY <1>13, <1>15, AnswerTyped DEF TypeOK, ModuleAnswers
  <2> QED
    BY <1>15, <2>1 DEF TypeOK, ModuleAnswers
<1>16. CASE Lose
  <2>1. acks' \in Seq(Ack)
    BY <1>9, <1>16 DEF TypeOK, Lose
  <2>2. bus' \in Seq([subcode : Nat, chunk : Seq(Cells)]) /\ Len(bus') <= 1
    <3>1. bus' = bus \/ bus' = <<>>
      BY <1>16 DEF Lose
    <3>2. CASE bus' = bus
      BY <3>2 DEF TypeOK
    <3>3. CASE bus' = <<>>
      BY <3>3
    <3> QED
      BY <3>1, <3>2, <3>3
  <2>3. UNCHANGED <<zcf, pc, sender, result, shared, giving, tool, history>>
    BY <1>16 DEF Lose
  <2> QED
    BY <2>1, <2>2, <2>3 DEF TypeOK
<1>17. CASE ReplaceFile
  <2>1. \A c \in Configs : File(c) \in Seq(Cells)
    <3> SUFFICES ASSUME NEW c \in Configs PROVE File(c) \in Seq(Cells)
      OBVIOUS
    <3>1. Size[c] \in Nat /\ \A i \in 1 .. Size[c] : <<c, i>> \in Cells
      BY DownloadAssumption DEF Cells
    <3> QED
      BY <3>1 DEF File
  <2> QED
    BY <1>17, <2>1 DEF TypeOK, ReplaceFile
<1> QED
  BY <1>1, <1>2, <1>3, <1>4, <1>5, <1>6, <1>7, <1>8, <1>10, <1>11, <1>12, <1>14,
     <1>15, <1>16, <1>17 DEF Next, Sender, Handler

\* Every variable of the download keeps its type; at most one block is on the bus and
\* at most one acknowledgement in the handler.
THEOREM TypeCorrect == Spec => []TypeOK
BY TypesStart, TypesStep, PTL DEF Spec

-----------------------------------------------------------------------------
(* The pieces of a file *)

Held == {"arm", "drain", "send", "wait", "check"}

LEMMA UptoParts ==
  ASSUME NEW n \in Nat, NEW k \in Nat
  PROVE  /\ Upto(n, k) \in 0 .. n /\ Upto(n, k + 1) \in 0 .. n
         /\ Upto(n, k) <= Upto(n, k + 1)
         /\ k * Chunk < n => /\ Upto(n, k) = k * Chunk
                             /\ Upto(n, k + 1) = (IF n - k * Chunk < Chunk THEN n ELSE k * Chunk + Chunk)
         /\ n <= k * Chunk => Upto(n, k) = n /\ Upto(n, k + 1) = n
<1>1. /\ Chunk \in Nat \ {0} /\ k * Chunk \in Nat /\ (k + 1) * Chunk = k * Chunk + Chunk
  BY DownloadAssumption
<1>2. /\ Upto(n, k) = (IF k * Chunk < n THEN k * Chunk ELSE n)
      /\ Upto(n, k + 1) = (IF k * Chunk + Chunk < n THEN k * Chunk + Chunk ELSE n)
  BY <1>1 DEF Upto
<1> QED
  BY <1>1, <1>2

LEMMA PieceParts ==
  ASSUME NEW f \in Seq(Cells), NEW k \in Nat
  PROVE  /\ Piece(f, k) = <<>> <=> Len(f) <= k * Chunk
         /\ SubSeq(f, 1, Upto(Len(f), k)) \o Piece(f, k) = SubSeq(f, 1, Upto(Len(f), k + 1))
<1> DEFINE n == Len(f)
           m == Upto(n, k)
           e == Upto(n, k + 1)
<1>1. n \in Nat /\ Chunk \in Nat \ {0} /\ k * Chunk \in Nat
  BY DownloadAssumption
<1>2. /\ m \in 0 .. n /\ e \in 0 .. n /\ m <= e
      /\ k * Chunk < n => m = k * Chunk /\ e = (IF n - k * Chunk < Chunk THEN n ELSE k * Chunk + Chunk)
      /\ n <= k * Chunk => m = n /\ e = n
  BY <1>1, UptoParts
<1>3. Piece(f, k) = SubSeq(f, m + 1, e)
  BY DEF Piece
<1> HIDE DEF m, e
<1>4. SubSeq(f, m + 1, e) \in Seq(Cells) /\ Len(SubSeq(f, m + 1, e)) = e - m
  BY <1>1, <1>2, Part
<1>5. SubSeq(f, m + 1, e) = <<>> <=> m = e
  <2>1. SubSeq(f, m + 1, e) = <<>> <=> Len(SubSeq(f, m + 1, e)) = 0
    BY <1>4, NoUnits
  <2> QED
    BY <1>1, <1>2, <1>4, <2>1
<1>6. m = e <=> n <= k * Chunk
  BY <1>1, <1>2
<1>7. SubSeq(f, 1, m) \o SubSeq(f, m + 1, e) = SubSeq(f, 1, e)
  BY <1>1, <1>2, Joined
<1> QED
  BY <1>3, <1>5, <1>6, <1>7 DEF m, e

LEMMA ReadPiece ==
  ASSUME TypeOK, ReadBlock, zcf # NoFile, file_size = Len(zcf)
  PROVE  chunk' = Piece(zcf, block_index)
<1> DEFINE len == ChunkLen(block_index)
           m == block_index * Chunk
           n == Len(zcf)
<1>1. /\ Chunk \in Nat \ {0} /\ zcf \in Seq(Cells) /\ n \in Nat /\ block_index \in Nat /\ m \in Nat
  BY DownloadAssumption DEF TypeOK
<1>2. len = LET left == IF m < n THEN n - m ELSE 0 IN IF left < Chunk THEN left ELSE Chunk
  BY DEF ChunkLen
<1>3. chunk' = IF len > 0 THEN SubSeq(zcf, m + 1, m + len) ELSE <<>>
  BY DEF ReadBlock
<1>4. /\ m < n => /\ Upto(n, block_index) = m
                  /\ Upto(n, block_index + 1) = (IF n - m < Chunk THEN n ELSE m + Chunk)
      /\ n <= m => Upto(n, block_index) = n /\ Upto(n, block_index + 1) = n
  BY <1>1, UptoParts
<1>5. Piece(zcf, block_index) = SubSeq(zcf, Upto(n, block_index) + 1, Upto(n, block_index + 1))
  BY DEF Piece
<1>6. Piece(zcf, block_index) = <<>> <=> n <= m
  BY <1>1, PieceParts
<1> HIDE DEF len, m, n
<1>7. CASE m < n
  <2>1. len > 0 /\ m + len = (IF n - m < Chunk THEN n ELSE m + Chunk)
    BY <1>1, <1>2, <1>7
  <2> QED
    BY <1>3, <1>4, <1>5, <1>7, <2>1
<1>8. CASE n <= m
  <2>1. ~(len > 0)
    BY <1>1, <1>2, <1>8
  <2> QED
    BY <1>3, <1>6, <1>8, <2>1
<1> QED
  BY <1>1, <1>7, <1>8

LEMMA PiecesKept ==
  ASSUME Pieces, UNCHANGED <<zcf, source, file_size, tool>>,
         bus' = bus \/ bus' = <<>>,
         pc' # "idle" => pc # "idle",
         pc' \in Held => pc \in Held /\ UNCHANGED <<chunk, block_index>>
  PROVE  Pieces'
<1> SUFFICES ASSUME source' # NoFile PROVE Pieces'
  BY DEF Pieces
<1>1. source = zcf /\ zcf' = zcf /\ source' = source /\ file_size' = file_size
      /\ t_data' = t_data /\ t_next' = t_next /\ t_done' = t_done /\ source # NoFile
  BY DEF Pieces, tool
<1>2. \A i \in 1 .. Len(bus') : bus'[i].chunk = Piece(source, bus'[i].subcode)
  <2>1. CASE bus' = bus
    BY <1>1, <2>1 DEF Pieces
  <2>2. CASE bus' = <<>>
    BY <2>2
  <2> QED
    BY <2>1, <2>2
<1>3. pc' # "idle" => file_size' = Len(source)
  BY <1>1 DEF Pieces
<1>4. pc' \in Held => chunk' = Piece(source, block_index')
  BY <1>1 DEF Pieces, Held
<1>5. /\ t_data = SubSeq(source, 1, Upto(Len(source), t_next))
      /\ t_done <=> t_next # 0 /\ Len(source) <= (t_next - 1) * Chunk
  BY <1>1 DEF Pieces
<1> QED
  BY <1>1, <1>2, <1>3, <1>4, <1>5 DEF Pieces, Held

LEMMA PiecesReceived ==
  ASSUME TypeOK, Pieces, ToolReceives
  PROVE  Pieces'
<1> SUFFICES ASSUME source' # NoFile PROVE Pieces'
  BY DEF Pieces
<1> DEFINE h == Head(bus)
           n == Len(source)
<1>1. /\ bus # <<>> /\ bus' = <<>>
      /\ UNCHANGED <<zcf, source, file_size, chunk, block_index, pc>>
  BY DEF ToolReceives, sender, history
<1>2. /\ source = zcf /\ source \in Seq(Cells) /\ n \in Nat /\ t_next \in Nat
      /\ t_data = SubSeq(source, 1, Upto(n, t_next))
      /\ t_done <=> t_next # 0 /\ n <= (t_next - 1) * Chunk
      /\ pc # "idle" => file_size = n
      /\ pc \in Held => chunk = Piece(source, block_index)
  BY <1>1 DEF Pieces, TypeOK, Held
<1>3. h.chunk = Piece(source, h.subcode)
  <2>1. h = bus[1] /\ 1 \in 1 .. Len(bus)
    BY <1>1, Tails DEF TypeOK
  <2> QED
    BY <1>1, <2>1 DEF Pieces
<1>4. \/ UNCHANGED <<t_next, t_data, t_done>>
      \/ /\ h.subcode = t_next
         /\ t_next' = t_next + 1
         /\ t_data' = t_data \o h.chunk
         /\ t_done' = (h.chunk = <<>>)
  BY DEF ToolReceives, tool
<1> HIDE DEF h
<1>5. /\ t_data' = SubSeq(source, 1, Upto(n, t_next'))
      /\ t_done' <=> t_next' # 0 /\ n <= (t_next' - 1) * Chunk
  <2>1. CASE UNCHANGED <<t_next, t_data, t_done>>
    BY <1>2, <2>1
  <2>2. CASE /\ h.subcode = t_next
             /\ t_next' = t_next + 1
             /\ t_data' = t_data \o h.chunk
             /\ t_done' = (h.chunk = <<>>)
    <3>1. h.chunk = Piece(source, t_next)
      BY <1>3, <2>2
    <3>2. h.chunk = <<>> <=> n <= t_next * Chunk
      BY <1>2, <3>1, PieceParts
    <3>3. t_data' = SubSeq(source, 1, Upto(n, t_next'))
      BY <1>2, <2>2, <3>1, PieceParts
    <3>4. t_next' # 0 /\ t_next' - 1 = t_next
      BY <1>2, <2>2
    <3> QED
      BY <2>2, <3>2, <3>3, <3>4
  <2> QED
    BY <1>4, <2>1, <2>2
<1> HIDE DEF n
<1>6. \A i \in 1 .. Len(bus') : bus'[i].chunk = Piece(source, bus'[i].subcode)
  BY <1>1
<1> QED
  BY <1>1, <1>2, <1>5, <1>6 DEF Pieces, Held, n

LEMMA PiecesStep ==
  ASSUME TypeOK, Pieces, [Next]_vars
  PROVE  Pieces'
<1> USE DEF sender, shared, tool, history, Held
<1>1. CASE UNCHANGED vars
  BY <1>1, PiecesKept DEF vars
<1>2. CASE Announce
  <2>1. zcf # NoFile /\ zcf \in Seq(Cells) /\ Len(zcf) \in Nat
    BY <1>2 DEF TypeOK, Announce
  <2>2. /\ bus' = <<>> /\ file_size' = Len(zcf) /\ zcf' = zcf /\ pc' = "read"
    BY <1>2 DEF Announce
  <2>3. CASE t_next' = 0 /\ t_data' = <<>> /\ t_done' = FALSE /\ source' = zcf
    <3>1. SubSeq(zcf, 1, Upto(Len(zcf), 0)) = <<>>
      <4>1. Upto(Len(zcf), 0) = 0
        BY <2>1, DownloadAssumption DEF Upto
      <4> QED
        BY <2>1, <4>1
    <3>2. \A i \in 1 .. Len(bus') : bus'[i].chunk = Piece(source', bus'[i].subcode)
      BY <2>2
    <3>3. t_data' = SubSeq(source', 1, Upto(Len(source'), t_next')) /\ ~t_done' /\ t_next' = 0
      BY <2>3, <3>1
    <3>4. source' = zcf' /\ file_size' = Len(source') /\ pc' \notin Held
      BY <2>2, <2>3
    <3> QED
      BY <3>2, <3>3, <3>4 DEF Pieces
  <2>4. CASE UNCHANGED tool /\ source' = (IF source = zcf THEN zcf ELSE NoFile)
    <3> SUFFICES ASSUME source' # NoFile PROVE Pieces'
      BY DEF Pieces
    <3>1. source = zcf /\ source' = zcf
      BY <2>4
    <3>2. /\ t_data = SubSeq(source, 1, Upto(Len(source), t_next))
          /\ t_done <=> t_next # 0 /\ Len(source) <= (t_next - 1) * Chunk
      BY <2>1, <3>1 DEF Pieces
    <3> QED
      BY <2>2, <2>4, <3>1, <3>2 DEF Pieces
  <2> QED
    BY <1>2, <2>3, <2>4 DEF Announce
<1>3. CASE ReadBlock
  <2> SUFFICES ASSUME source' # NoFile PROVE Pieces'
    BY DEF Pieces
  <2>1. /\ pc = "read" /\ pc' = "arm"
        /\ UNCHANGED <<zcf, file_size, block_index, bus, tool, source>>
    BY <1>3 DEF ReadBlock
  <2>2. source = zcf /\ zcf # NoFile /\ file_size = Len(zcf)
    BY <2>1 DEF Pieces
  <2>3. chunk' = Piece(zcf, block_index)
    BY <1>3, <2>2, ReadPiece
  <2> QED
    BY <2>1, <2>2, <2>3 DEF Pieces
<1>4. CASE ReadFails \/ SendFails \/ LastBlockAccepted \/ GiveUp
  <2>1. /\ pc' = "idle" /\ bus' = bus /\ UNCHANGED <<zcf, source, file_size, tool>>
    BY <1>4 DEF ReadFails, SendFails, LastBlockAccepted, GiveUp, Return
  <2> QED
    BY <2>1, PiecesKept
<1>5. CASE Arm \/ Drain \/ AckTaken \/ Retry
  <2>1. /\ pc \in Held /\ UNCHANGED <<zcf, source, file_size, tool, bus, chunk, block_index>>
    BY <1>5 DEF Arm, Drain, AckTaken, Retry, Unanswered
  <2> QED
    BY <2>1, PiecesKept
<1>6. CASE NextBlock
  <2>1. pc = "check" /\ pc' = "read" /\ UNCHANGED <<zcf, source, file_size, tool, bus>>
    BY <1>6 DEF NextBlock
  <2> QED
    BY <2>1, PiecesKept
<1>7. CASE SendBlock
  <2> SUFFICES ASSUME source' # NoFile PROVE Pieces'
    BY DEF Pieces
  <2>1. /\ bus' = <<[subcode |-> block_index, chunk |-> chunk]>> /\ pc = "send" /\ pc' = "wait"
        /\ UNCHANGED <<zcf, sender, tool, source>>
    BY <1>7 DEF SendBlock
  <2>2. chunk = Piece(source, block_index)
    BY <2>1 DEF Pieces
  <2>3. \A i \in 1 .. Len(bus') : bus'[i].chunk = Piece(source, bus'[i].subcode)
    <3> DEFINE e == [subcode |-> block_index, chunk |-> chunk]
    <3>1. e.subcode = block_index /\ e.chunk = chunk
      OBVIOUS
    <3>2. e \in {e}
      OBVIOUS
    <3> HIDE DEF e
    <3>3. Len(<<e>>) = 1 /\ <<e>>[1] = e
      BY <3>2, Single
    <3>4. bus' = <<e>>
      BY <2>1 DEF e
    <3> QED
      BY <2>2, <3>1, <3>3, <3>4
  <2> QED
    BY <2>1, <2>3 DEF Pieces
<1>8. CASE IgnoreAck \/ AcceptAck \/ GiveAck \/ ModuleAnswers \/ Lose
  <2>1. /\ pc' = pc /\ UNCHANGED <<zcf, source, file_size, tool, chunk, block_index>>
    BY <1>8 DEF IgnoreAck, AcceptAck, GiveAck, ModuleAnswers, Lose
  <2>2. bus' = bus \/ bus' = <<>>
    BY <1>8 DEF IgnoreAck, AcceptAck, GiveAck, ModuleAnswers, Lose
  <2> QED
    BY <2>1, <2>2, PiecesKept
<1>9. CASE ToolReceives
  BY <1>9, PiecesReceived
<1>10. CASE ReplaceFile
  BY <1>10 DEF ReplaceFile, Pieces
<1> QED
  BY <1>1, <1>2, <1>3, <1>4, <1>5, <1>6, <1>7, <1>8, <1>9, <1>10 DEF Next, Sender, Handler

LEMMA PiecesStart == Init => Pieces
<1> SUFFICES ASSUME Init PROVE Pieces
  OBVIOUS
<1>1. PICK c \in Configs : zcf = File(c)
  BY DEF Init
<1>2. Size[c] \in Nat /\ \A i \in 1 .. Size[c] : <<c, i>> \in Cells
  BY DownloadAssumption DEF Cells
<1>3. zcf \in Seq(Cells) /\ Len(zcf) \in Nat
  BY <1>1, <1>2 DEF File
<1>4. Upto(Len(zcf), 0) = 0
  BY <1>3, DownloadAssumption DEF Upto
<1>5. SubSeq(zcf, 1, 0) = <<>>
  BY <1>3
<1> QED
  BY <1>4, <1>5 DEF Init, Pieces

\* What the tool has received is a beginning of the file the download began with,
\* as long as that file is not replaced.
THEOREM PrefixCorrect == Spec => []ReceivedIsPrefix
<1>1. TypeOK /\ Pieces /\ [Next]_vars => Pieces'
  BY PiecesStep
<1>2. TypeOK /\ Pieces => ReceivedIsPrefix
  <2> SUFFICES ASSUME TypeOK, Pieces, source # NoFile
               PROVE  t_data = SubSeq(source, 1, Len(t_data))
    BY DEF ReceivedIsPrefix
  <2> DEFINE m == Upto(Len(source), t_next)
  <2>1. source \in Seq(Cells) /\ Len(source) \in Nat /\ t_next \in Nat
    BY DEF TypeOK
  <2>2. m \in 0 .. Len(source) /\ m \in Nat
    <3> DEFINE n == Len(source)
    <3>1. n \in Nat
      BY <2>1
    <3> HIDE DEF n
    <3>2. Upto(n, t_next) \in 0 .. n
      BY <2>1, <3>1, UptoParts
    <3>3. m \in 0 .. n
      BY <3>2 DEF n
    <3> HIDE DEF m
    <3> QED
      BY <3>1, <3>3 DEF n
  <2>3. t_data = SubSeq(source, 1, m)
    BY DEF Pieces
  <2> HIDE DEF m
  <2>4. Len(SubSeq(source, 1, m)) = m
    BY <2>1, <2>2
  <2> QED
    BY <2>3, <2>4
<1> QED
  BY <1>1, <1>2, PiecesStart, TypeCorrect, PTL DEF Spec

-----------------------------------------------------------------------------
(* The acknowledgements *)

LEMMA HonestKept ==
  ASSUME Honest, UNCHANGED <<misled, acks, giving, t_next>>,
         pc' \in {"drain", "send", "wait", "check"} =>
           /\ pc \in {"drain", "send", "wait", "check"}
           /\ UNCHANGED <<block_index, s_zcf_send_ack_block, s_zcf_send_ack_status>>
  PROVE  Honest'
BY DEF Honest

LEMMA HonestReceived ==
  ASSUME TypeOK, Honest, ToolReceives
  PROVE  Honest'
<1>1. bus # <<>> /\ Head(bus).subcode \in Nat
  <2>1. bus # <<>> /\ bus \in Seq(BlockType)
    BY DEF ToolReceives, TypeOK, BlockType
  <2>2. Head(bus) \in BlockType
    BY <2>1, Tails
  <2> QED
    BY <2>1, <2>2 DEF BlockType
<1>2. /\ UNCHANGED <<pc, block_index, s_zcf_send_ack_block, s_zcf_send_ack_status, giving, misled>>
  BY DEF ToolReceives, sender, shared, history
<1>3. t_next' = t_next \/ t_next' = t_next + 1
  BY DEF ToolReceives, tool
<1>4. t_next \in Nat /\ acks \in Seq(Ack) /\ giving \in Seq(Ack) /\ block_index \in Nat
  BY DEF TypeOK
<1> DEFINE h == Head(bus)
<1>5. \/ acks' = acks
      \/ Answer(h.subcode, 2)
      \/ h.subcode < t_next' /\ \E status \in {0, 1} : Answer(h.subcode, status)
  BY <1>1, <1>3, <1>4 DEF ToolReceives, tool
<1> HIDE DEF h
<1>6. \A i \in 1 .. Len(acks') : \/ i \in 1 .. Len(acks) /\ acks'[i] = acks[i]
                                 \/ acks'[i].status = 2
                                 \/ acks'[i].block < t_next'
  <2>1. CASE acks' = acks
    BY <2>1
  <2>2. CASE Answer(h.subcode, 2)
    BY <1>1, <1>4, <2>2, AnswerTyped DEF h
  <2>3. ASSUME h.subcode < t_next', NEW status \in {0, 1}, Answer(h.subcode, status)
        PROVE  \A i \in 1 .. Len(acks') : \/ i \in 1 .. Len(acks) /\ acks'[i] = acks[i]
                                          \/ acks'[i].block < t_next'
    BY <1>1, <1>4, <2>3, AnswerTyped DEF h
  <2> QED
    BY <1>5, <2>1, <2>2, <2>3
<1>7. \A n \in Nat : n < t_next => n < t_next'
  BY <1>3, <1>4
<1>8. /\ \A i \in 1 .. Len(acks) : acks[i].block \in Nat
      /\ \A i \in 1 .. Len(giving) : giving[i].block \in Nat
  <2>1. \A i \in 1 .. Len(acks) : acks[i] \in Ack
    BY <1>4
  <2>2. \A i \in 1 .. Len(giving) : giving[i] \in Ack
    BY <1>4
  <2> QED
    BY <2>1, <2>2 DEF Ack
<1>9. ~misled => \A i \in 1 .. Len(acks') : acks'[i].status # 2 => acks'[i].block < t_next'
  BY <1>6, <1>7, <1>8 DEF Honest
<1>10. ~misled => \A i \in 1 .. Len(giving) : giving[i].status # 2 => giving[i].block < t_next'
  BY <1>7, <1>8 DEF Honest
<1>11. pc \in {"drain", "send", "wait", "check"} =>
         /\ s_zcf_send_ack_block = block_index
         /\ ~misled /\ s_zcf_send_ack_status \in {0, 1} => block_index < t_next'
  BY <1>4, <1>7 DEF Honest
<1> QED
  BY <1>2, <1>9, <1>10, <1>11 DEF Honest

LEMMA HonestStep ==
  ASSUME TypeOK, Honest, [Next]_vars
  PROVE  Honest'
<1> USE DEF sender, shared, tool, history
<1>1. CASE UNCHANGED vars
  BY <1>1, HonestKept DEF vars
<1>2. CASE Announce
  <2>1. acks' = <<>> /\ giving' = <<>> /\ pc' = "read"
    BY <1>2 DEF Announce
  <2> QED
    BY <2>1 DEF Honest
<1>3. CASE ReadBlock \/ ReadFails \/ SendFails \/ NextBlock \/ LastBlockAccepted \/ Retry \/ GiveUp
  <2>1. pc' \in {"idle", "read", "arm"} /\ UNCHANGED <<misled, acks, giving, t_next>>
    BY <1>3 DEF ReadBlock, ReadFails, SendFails, NextBlock, LastBlockAccepted, Retry, GiveUp, Return
  <2> QED
    BY <2>1, HonestKept
<1>4. CASE Arm
  <2>1. /\ s_zcf_send_ack_block' = block_index /\ block_index' = block_index
        /\ s_zcf_send_ack_status' = NoStatus
        /\ UNCHANGED <<misled, acks, giving, t_next>>
    BY <1>4 DEF Arm
  <2>2. NoStatus \notin {0, 1}
    BY SMT DEF NoStatus
  <2> QED
    BY <2>1, <2>2 DEF Honest
<1>5. CASE Drain \/ SendBlock \/ AckTaken
  <2>1. /\ pc \in {"drain", "send", "wait", "check"}
        /\ UNCHANGED <<misled, acks, giving, t_next, block_index, s_zcf_send_ack_block,
                       s_zcf_send_ack_status>>
    BY <1>5 DEF Drain, SendBlock, AckTaken
  <2> QED
    BY <2>1, HonestKept
<1>6. ASSUME acks # <<>>
      PROVE  /\ Head(acks) = acks[1] /\ 1 \in 1 .. Len(acks)
             /\ \A i \in 1 .. Len(Tail(acks)) : i + 1 \in 1 .. Len(acks) /\ Tail(acks)[i] = acks[i + 1]
  BY <1>6, Tails DEF TypeOK
<1>7. CASE IgnoreAck \/ AcceptAck
  <2>1. /\ acks # <<>> /\ acks' = Tail(acks) /\ giving' \in {giving, <<Head(acks)>>}
        /\ UNCHANGED <<pc, misled, t_next, block_index, s_zcf_send_ack_block, s_zcf_send_ack_status>>
    BY <1>7 DEF IgnoreAck, AcceptAck
  <2>2. Head(acks) = acks[1] /\ 1 \in 1 .. Len(acks)
    BY <1>6, <2>1
  <2>3. \A i \in 1 .. Len(acks') : i + 1 \in 1 .. Len(acks) /\ acks'[i] = acks[i + 1]
    BY <1>6, <2>1
  <2>4. ~misled => \A i \in 1 .. Len(acks') : acks'[i].status # 2 => acks'[i].block < t_next
    BY <2>3 DEF Honest
  <2>5. ~misled => \A i \in 1 .. Len(giving') : giving'[i].status # 2 => giving'[i].block < t_next
    <3>1. CASE giving' = giving
      BY <3>1 DEF Honest
    <3>2. CASE giving' = <<Head(acks)>>
      <4> DEFINE e == Head(acks)
      <4>1. e \in {e} /\ e = acks[1]
        BY <2>2
      <4> HIDE DEF e
      <4>2. Len(<<e>>) = 1 /\ <<e>>[1] = e
        BY <4>1, Single
      <4>3. giving' = <<e>>
        BY <3>2 DEF e
      <4>4. ~misled /\ e.status # 2 => e.block < t_next
        BY <2>2, <4>1 DEF Honest
      <4> QED
        BY <4>2, <4>3, <4>4
    <3> QED
      BY <2>1, <3>1, <3>2
  <2> QED
    BY <2>1, <2>4, <2>5 DEF Honest
<1>8. CASE GiveAck
  <2> DEFINE g == Head(giving)
  <2>1. /\ giving # <<>> /\ giving' = <<>> /\ s_zcf_send_ack_status' = g.status
        /\ misled' = (misled \/ g.block # s_zcf_send_ack_block)
        /\ UNCHANGED <<pc, t_next, acks, block_index, s_zcf_send_ack_block>>
    BY <1>8 DEF GiveAck
  <2>2. g = giving[1] /\ 1 \in 1 .. Len(giving)
    BY <2>1, Tails DEF TypeOK
  <2> HIDE DEF g
  <2>3. ~misled /\ g.status # 2 => g.block < t_next
    BY <2>2 DEF Honest
  <2>4. ~misled' => ~misled /\ g.block = s_zcf_send_ack_block
    BY <2>1
  <2>5. ~misled' => \A i \in 1 .. Len(acks') : acks'[i].status # 2 => acks'[i].block < t_next'
    BY <2>1, <2>4 DEF Honest
  <2>6. \A i \in 1 .. Len(giving') : FALSE
    BY <2>1
  <2>7. pc' \in {"drain", "send", "wait", "check"} =>
          /\ s_zcf_send_ack_block' = block_index'
          /\ ~misled' /\ s_zcf_send_ack_status' \in {0, 1} => block_index' < t_next'
    BY <2>1, <2>3, <2>4 DEF Honest
  <2> QED
    BY <2>5, <2>6, <2>7 DEF Honest
<1>9. CASE ToolReceives
  BY <1>9, HonestReceived
<1>10. CASE ModuleAnswers
  BY <1>10 DEF ModuleAnswers, Honest
<1>11. CASE Lose
  <2>1. /\ acks' = acks \/ (acks # <<>> /\ acks' = Tail(acks))
        /\ UNCHANGED <<pc, misled, giving, t_next, block_index, s_zcf_send_ack_block,
                       s_zcf_send_ack_status>>
    BY <1>11 DEF Lose
  <2>2. CASE acks' = acks
    BY <2>1, <2>2, HonestKept
  <2>3. CASE acks # <<>> /\ acks' = Tail(acks)
    <3>1. \A i \in 1 .. Len(acks') : i + 1 \in 1 .. Len(acks) /\ acks'[i] = acks[i + 1]
      BY <1>6, <2>3
    <3>2. ~misled => \A i \in 1 .. Len(acks') : acks'[i].status # 2 => acks'[i].block < t_next
      BY <3>1 DEF Honest
    <3> QED
      BY <2>1, <3>2 DEF Honest
  <2> QED
    BY <2>1, <2>2, <2>3
<1>12. CASE ReplaceFile
  BY <1>12, HonestKept DEF ReplaceFile
<1> QED
  BY <1>1, <1>2, <1>3, <1>4, <1>5, <1>7, <1>8, <1>9, <1>10, <1>11, <1>12
     DEF Next, Sender, Handler

\* A download that is reported as sent has been received whole, unless the file was
\* replaced or an acknowledgement counted that was not the tool's answer to the
\* block: losses, refusals, and late or repeated answers never mislead the sender.
THEOREM SentCorrect == Spec => SentIsReceived
<1> DEFINE Sent == pc # "idle" /\ pc' = "idle" /\ result' = "ok" =>
                     misled \/ source = NoFile \/ (t_done /\ t_data = source)
<1>1. Init => Honest
  BY DEF Init, Honest
<1>2. TypeOK /\ Pieces /\ Honest /\ [Next]_vars => Pieces' /\ Honest'
  BY PiecesStep, HonestStep
<1>3. TypeOK /\ Pieces /\ Honest /\ [Next]_vars => [Sent]_vars
  <2> SUFFICES ASSUME TypeOK, Pieces, Honest, Next, pc # "idle", pc' = "idle", result' = "ok",
                      ~misled, source # NoFile
               PROVE  t_done /\ t_data = source
    OBVIOUS
  <2>1. LastBlockAccepted
    <3>1. CASE Announce \/ ReadBlock \/ ReadFails \/ Arm \/ Drain \/ SendBlock
      BY <3>1 DEF Announce, ReadBlock, ReadFails, Arm, Drain, SendBlock, Return
    <3>2. CASE SendFails \/ AckTaken \/ NextBlock \/ Retry \/ GiveUp
      BY <3>2 DEF SendFails, AckTaken, NextBlock, Retry, GiveUp, Return
    <3>3. CASE IgnoreAck \/ AcceptAck \/ GiveAck \/ ToolReceives \/ ModuleAnswers \/ Lose \/ ReplaceFile
      BY <3>3 DEF IgnoreAck, AcceptAck, GiveAck, ToolReceives, ModuleAnswers, Lose, ReplaceFile
    <3> QED
      BY <3>1, <3>2, <3>3 DEF Next, Sender, Handler
  <2> DEFINE n == Len(source)
  <2>2. /\ source \in Seq(Cells) /\ n \in Nat /\ t_next \in Nat /\ block_index \in Nat
        /\ t_data \in Seq(Cells) /\ Chunk \in Nat \ {0}
    BY DownloadAssumption DEF TypeOK
  <2>3. pc = "check" /\ s_zcf_send_ack_status \in {0, 1}
    BY <2>1 DEF LastBlockAccepted, Accepted
  <2>4. block_index < t_next
    BY <2>3 DEF Honest
  <2>5. file_size = n /\ t_data = SubSeq(source, 1, Upto(n, t_next))
        /\ (t_done <=> t_next # 0 /\ n <= (t_next - 1) * Chunk)
    BY <2>3 DEF Pieces
  <2>6. n <= block_index * Chunk
    <3> DEFINE x == n + Chunk - 1
               q == x \div Chunk
    <3>1. x \in Nat
      BY <2>2
    <3>2. q \in Nat /\ x < q * Chunk + Chunk
      BY <2>2, <3>1, Quotient
    <3>3. block_index = q
      <4>1. block_index + 1 = q + 1
        BY <2>1, <2>5 DEF LastBlockAccepted, TotalBlocks
      <4> HIDE DEF q
      <4> QED
        BY <2>2, <3>2, <4>1
    <3>4. q * Chunk \in Nat
      BY <2>2, <3>2
    <3> HIDE DEF q, n
    <3> QED
      BY <2>2, <3>2, <3>3, <3>4
  <2>7. block_index * Chunk <= (t_next - 1) * Chunk /\ (t_next - 1) * Chunk <= t_next * Chunk
    <3>1. block_index <= t_next - 1 /\ t_next - 1 \in Nat /\ t_next - 1 <= t_next
      BY <2>2, <2>4
    <3> QED
      BY <2>2, <3>1, Scaled
  <2>8. n <= (t_next - 1) * Chunk /\ n <= t_next * Chunk /\ t_next # 0
    <3>1. block_index * Chunk \in Nat /\ (t_next - 1) * Chunk \in Nat /\ t_next * Chunk \in Nat
      <4>1. t_next - 1 \in Nat
        BY <2>2, <2>4
      <4> QED
        BY <2>2, <4>1
    <3> HIDE DEF n
    <3> QED
      BY <2>2, <2>4, <2>6, <2>7, <3>1
  <2>9. Upto(n, t_next) = n
    BY <2>2, <2>8, UptoParts
  <2>10. SubSeq(source, 1, n) = source
    BY <2>2
  <2> QED
    BY <2>5, <2>8, <2>9, <2>10
<1> QED
  BY <1>1, <1>2, <1>3, PiecesStart, TypeCorrect, PTL DEF Spec, SentIsReceived
-----------------------------------------------------------------------------
(* How long it takes *)

\* What protocol_task has still to do at most before it is done with the download: of
\* each block the reading, and of each attempt the five steps from Arm to the answer.
PerBlock == 5 * ZCF_SEND_MAX_RETRIES + 1

ToGo(p) ==
  CASE p = "arm" -> 5 [] p = "drain" -> 4 [] p = "send" -> 3 [] p = "wait" -> 2 [] OTHER -> 1

StepsLeft ==
  IF pc = "idle" THEN 0
  ELSE IF pc = "read" THEN (TotalBlocks - block_index) * PerBlock
  ELSE (TotalBlocks - block_index - 1) * PerBlock
         + 5 * (ZCF_SEND_MAX_RETRIES - attempt) + ToGo(pc)

\* What protocol_task has left to do shrinks with each of its steps, and nobody else
\* adds to it, so that it is back at its other duties after TotalBlocks * PerBlock of
\* them, of which TotalBlocks * ZCF_SEND_MAX_RETRIES can be timeouts, whatever is
\* answered, lost, refused or replaced meanwhile.
DownloadNears ==
  [][pc # "idle" => IF pc' = pc THEN StepsLeft' = StepsLeft ELSE StepsLeft' \in 0 .. StepsLeft - 1]_vars

\* Where the sender is: within the blocks, and within the attempts of one.
InHand ==
  pc # "idle" =>
    /\ block_index < TotalBlocks
    /\ pc # "read" => attempt \in 1 .. ZCF_SEND_MAX_RETRIES

LEMMA TotalIsNat ==
  ASSUME NEW n \in Nat
  PROVE  (n + Chunk - 1) \div Chunk + 1 \in Nat \ {0}
<1>1. n + Chunk - 1 \in Nat /\ Chunk \in Nat \ {0}
  BY DownloadAssumption
<1>2. (n + Chunk - 1) \div Chunk \in Nat
  BY <1>1, Quotient
<1> QED
  BY <1>2

LEMMA BlocksAreNat ==
  ASSUME TypeOK
  PROVE  TotalBlocks \in Nat \ {0} /\ block_index \in Nat /\ ZCF_SEND_MAX_RETRIES \in Nat \ {0}
         /\ attempt \in Nat /\ PerBlock \in Nat
<1>1. file_size \in Nat /\ block_index \in Nat /\ attempt \in Nat
      /\ ZCF_SEND_MAX_RETRIES \in Nat \ {0}
  BY DownloadAssumption DEF TypeOK
<1>2. TotalBlocks \in Nat \ {0}
  BY <1>1, TotalIsNat DEF TotalBlocks
<1>3. PerBlock \in Nat
  BY <1>1 DEF PerBlock
<1> QED
  BY <1>1, <1>2, <1>3

\* The rest of a product.
LEMMA OneMore ==
  ASSUME NEW k \in Nat, NEW m \in Nat \ {0}
  PROVE  m * k = (m - 1) * k + k /\ (m - 1) * k \in Nat /\ m * k \in Nat
<1>1. m - 1 \in Nat /\ m = (m - 1) + 1
  OBVIOUS
<1>2. ((m - 1) + 1) * k = (m - 1) * k + k /\ (m - 1) * k \in Nat
  BY <1>1
<1> QED
  BY <1>1, <1>2

\* What StepsLeft is, with the product that occurs in it named.
LEMMA LeftIs ==
  ASSUME TypeOK, InHand, pc # "idle"
  PROVE  \E done \in Nat :
           /\ done = (TotalBlocks - block_index - 1) * PerBlock
           /\ StepsLeft = IF pc = "read" THEN done + PerBlock
                          ELSE done + 5 * (ZCF_SEND_MAX_RETRIES - attempt) + ToGo(pc)
<1>1. TotalBlocks - block_index \in Nat \ {0} /\ PerBlock \in Nat
  BY BlocksAreNat DEF InHand
<1> DEFINE m == TotalBlocks - block_index
<1>2. m * PerBlock = (m - 1) * PerBlock + PerBlock /\ (m - 1) * PerBlock \in Nat
  <2> HIDE DEF m
  <2> QED
    BY <1>1, OneMore DEF m
<1> QED
  BY <1>2 DEF StepsLeft

LEMMA InHandStep ==
  ASSUME TypeOK, InHand, [Next]_vars
  PROVE  InHand'
<1> USE DEF sender, shared, tool, history
<1>1. CASE UNCHANGED vars
  BY <1>1 DEF InHand, TotalBlocks, vars
<1>2. CASE Announce
  <2>1. block_index' = 0 /\ pc' = "read" /\ file_size' \in Nat
    BY <1>2, TypesStep DEF Announce, TypeOK
  <2>2. TotalBlocks' \in Nat \ {0}
    BY <2>1, TotalIsNat DEF TotalBlocks
  <2> QED
    BY <2>1, <2>2 DEF InHand
<1>3. CASE ReadBlock
  BY <1>3, DownloadAssumption DEF ReadBlock, InHand, TotalBlocks
<1>4. CASE ReadFails \/ SendFails \/ LastBlockAccepted \/ GiveUp
  BY <1>4 DEF ReadFails, SendFails, LastBlockAccepted, GiveUp, Return, InHand
<1>5. CASE Arm \/ Drain \/ SendBlock \/ AckTaken
  BY <1>5 DEF Arm, Drain, SendBlock, AckTaken, InHand, TotalBlocks
<1>6. CASE NextBlock
  BY <1>6 DEF NextBlock, InHand, TotalBlocks
<1>7. CASE Retry
  <2>1. /\ attempt \in 1 .. ZCF_SEND_MAX_RETRIES /\ attempt < ZCF_SEND_MAX_RETRIES
        /\ attempt' = attempt + 1 /\ ZCF_SEND_MAX_RETRIES \in Nat
    BY <1>7, DownloadAssumption DEF Retry, Unanswered, InHand
  <2>2. attempt' \in 1 .. ZCF_SEND_MAX_RETRIES
    BY <2>1
  <2> QED
    BY <1>7, <2>2 DEF Retry, Unanswered, InHand, TotalBlocks
<1>8. CASE Handler \/ ToolReceives \/ ModuleAnswers \/ Lose \/ ReplaceFile
  BY <1>8 DEF Handler, IgnoreAck, AcceptAck, GiveAck, ToolReceives, ModuleAnswers, Lose, ReplaceFile,
     InHand, TotalBlocks
<1> QED
  BY <1>1, <1>2, <1>3, <1>4, <1>5, <1>6, <1>7, <1>8 DEF Next, Sender

\* The steps of protocol_task take it nearer to the end.
LEMMA SenderNears ==
  ASSUME TypeOK, TypeOK', InHand, InHand', Sender
  PROVE  pc' # pc /\ StepsLeft' \in 0 .. StepsLeft - 1
<1> USE DEF sender
<1> DEFINE N == ZCF_SEND_MAX_RETRIES
<1>1. pc # "idle" /\ pc' # pc
  BY DEF Sender, ReadBlock, ReadFails, Arm, Drain, SendBlock, SendFails, AckTaken, NextBlock,
     LastBlockAccepted, Retry, GiveUp, Unanswered, Return
<1>2. /\ block_index \in Nat /\ N \in Nat \ {0} /\ attempt \in Nat /\ PerBlock = 5 * N + 1
      /\ TotalBlocks \in Nat /\ PerBlock \in Nat
  BY BlocksAreNat DEF PerBlock
<1>3. PICK done \in Nat :
        /\ done = (TotalBlocks - block_index - 1) * PerBlock
        /\ StepsLeft = IF pc = "read" THEN done + PerBlock ELSE done + 5 * (N - attempt) + ToGo(pc)
  BY <1>1, LeftIs
<1>4. pc # "read" => attempt \in 1 .. N
  BY <1>1 DEF InHand
<1>5. pc \in {"read", "arm", "drain", "send", "wait", "check"}
  BY <1>1 DEF TypeOK
<1>6. StepsLeft \in Nat \ {0}
  <2>1. ToGo(pc) \in 1 .. 5
    BY <1>5 DEF ToGo
  <2> QED
    BY <1>2, <1>3, <1>4, <2>1
<1>7. CASE ReadFails \/ SendFails \/ LastBlockAccepted \/ GiveUp
  <2>1. pc' = "idle"
    BY <1>7 DEF ReadFails, SendFails, LastBlockAccepted, GiveUp, Return
  <2>2. StepsLeft' = 0
    BY <2>1 DEF StepsLeft
  <2> QED
    BY <1>1, <1>6, <2>2
<1>8. CASE NextBlock
  <2>1. pc = "check" /\ pc' = "read" /\ block_index' = block_index + 1 /\ TotalBlocks' = TotalBlocks
    BY <1>8 DEF NextBlock, TotalBlocks
  <2>2. TotalBlocks - (block_index + 1) = TotalBlocks - block_index - 1
    BY <1>2
  <2>3. StepsLeft' = done
    BY <1>3, <2>1, <2>2 DEF StepsLeft, PerBlock
  <2>4. StepsLeft = done + 5 * (N - attempt) + 1
    BY <1>3, <2>1 DEF ToGo
  <2> QED
    BY <1>1, <1>2, <1>3, <1>4, <2>1, <2>3, <2>4
<1>9. ASSUME pc' \notin {"idle", "read"}, TotalBlocks' = TotalBlocks, block_index' = block_index
      PROVE  StepsLeft' = done + 5 * (N - attempt') + ToGo(pc')
  BY <1>3, <1>9 DEF StepsLeft, PerBlock
<1>10. CASE ReadBlock
  <2>1. pc = "read" /\ pc' = "arm" /\ attempt' = 1 /\ TotalBlocks' = TotalBlocks /\ block_index' = block_index
    BY <1>10 DEF ReadBlock, TotalBlocks
  <2>2. StepsLeft' = done + 5 * (N - 1) + 5 /\ StepsLeft = done + 5 * N + 1
    BY <1>2, <1>3, <1>9, <2>1 DEF ToGo
  <2> QED
    BY <1>1, <1>2, <2>2
<1>11. CASE Retry
  <2>1. /\ pc \in {"wait", "check"} /\ pc' = "arm" /\ attempt' = attempt + 1
        /\ TotalBlocks' = TotalBlocks /\ block_index' = block_index /\ attempt < N
    BY <1>11 DEF Retry, Unanswered, TotalBlocks
  <2>2. StepsLeft' = done + 5 * (N - (attempt + 1)) + 5
    BY <1>9, <2>1 DEF ToGo
  <2>3. StepsLeft = done + 5 * (N - attempt) + ToGo(pc) /\ ToGo(pc) \in 1 .. 2
    BY <1>3, <2>1 DEF ToGo
  <2> QED
    BY <1>1, <1>2, <2>1, <2>2, <2>3
<1>12. CASE Arm \/ Drain \/ SendBlock \/ AckTaken
  <2>1. /\ <<pc, pc'>> \in {<<"arm", "drain">>, <<"drain", "send">>, <<"send", "wait">>, <<"wait", "check">>}
        /\ TotalBlocks' = TotalBlocks /\ block_index' = block_index /\ attempt' = attempt
    BY <1>12 DEF Arm, Drain, SendBlock, AckTaken, TotalBlocks
  <2>2. ToGo(pc') = ToGo(pc) - 1 /\ ToGo(pc) \in 2 .. 5 /\ pc' \notin {"idle", "read"} /\ pc # "read"
    BY <2>1 DEF ToGo
  <2>3. StepsLeft' = done + 5 * (N - attempt) + ToGo(pc') /\ StepsLeft = done + 5 * (N - attempt) + ToGo(pc)
    BY <1>3, <1>9, <2>1, <2>2
  <2>4. attempt \in 1 .. N
    BY <1>4, <2>2
  <2> QED
    BY <1>1, <1>2, <2>2, <2>3, <2>4
<1> QED
  BY <1>7, <1>8, <1>10, <1>11, <1>12 DEF Sender

\* A download takes a bounded number of steps, for files and numbers of attempts of any
\* size: the safety part of DownloadEnds, whose rest is that protocol_task runs.
THEOREM DownloadNearsCorrect == Spec => DownloadNears
<1> DEFINE Nears == pc # "idle" => IF pc' = pc THEN StepsLeft' = StepsLeft
                                  ELSE StepsLeft' \in 0 .. StepsLeft - 1
<1>1. Init => TypeOK /\ InHand
  BY TypesStart DEF Init, InHand
<1>2. TypeOK /\ InHand /\ [Next]_vars => (TypeOK /\ InHand)'
  BY TypesStep, InHandStep
<1>3. TypeOK /\ InHand /\ [Next]_vars => [Nears]_vars
  <2> SUFFICES ASSUME TypeOK, InHand, Next, pc # "idle" PROVE Nears
    OBVIOUS
  <2>1. (TypeOK /\ InHand)'
    BY <1>2
  <2>2. CASE Sender
    BY <2>1, <2>2, SenderNears
  <2>3. CASE Handler \/ ToolReceives \/ ModuleAnswers \/ Lose \/ ReplaceFile
    <3>1. UNCHANGED <<pc, file_size, block_index, attempt>>
      BY <2>3 DEF Handler, IgnoreAck, AcceptAck, GiveAck, ToolReceives, ModuleAnswers, Lose, ReplaceFile, sender
    <3> QED
      BY <3>1 DEF StepsLeft, TotalBlocks, PerBlock, ToGo
  <2> QED
    BY <2>2, <2>3 DEF Next, Announce
<1> QED
  BY <1>1, <1>2, <1>3, PTL DEF Spec, DownloadNears
=============================================================================
