---------------------------- MODULE UdpLink_proofs ----------------------------
(***************************************************************************)
(* What holds of the device of UdpLink whichever client is at the other     *)
(* end: lemmas about its steps, for the theorems of the clients' modules.   *)
(***************************************************************************)
EXTENDS UdpLink, SequenceTheorems, TLAPS

-----------------------------------------------------------------------------
(* Channels                                                                 *)

LEMMA EnqueueType ==
  ASSUME NEW S, NEW ch \in Seq(S), NEW m \in S
  PROVE  Enqueue(ch, m) \in Seq(S)
  BY DEF Enqueue

LEMMA RemoveAtType ==
  ASSUME NEW S, NEW ch \in Seq(S), NEW i \in DOMAIN ch
  PROVE  /\ RemoveAt(ch, i) \in Seq(S)
         /\ Len(RemoveAt(ch, i)) = Len(ch) - 1
         /\ \A j \in 1..(Len(ch) - 1) :
               RemoveAt(ch, i)[j] = IF j < i THEN ch[j] ELSE ch[j + 1]
<1> DEFINE front == SubSeq(ch, 1, i - 1)
           back  == SubSeq(ch, i + 1, Len(ch))
<1>1. i \in 1..Len(ch) /\ Len(ch) \in Nat
  OBVIOUS
<1>2. /\ front \in Seq(S) /\ Len(front) = i - 1
      /\ \A j \in 1..(i - 1) : front[j] = ch[j]
  BY <1>1
<1>3. /\ back \in Seq(S) /\ Len(back) = Len(ch) - i
      /\ \A j \in 1..(Len(ch) - i) : back[j] = ch[i + j]
  BY <1>1
<1> HIDE DEF front, back
<1>4. front \o back \in Seq(S) /\ Len(front \o back) = Len(ch) - 1
  BY <1>1, <1>2, <1>3
<1>5. ASSUME NEW j \in 1..(Len(ch) - 1)
      PROVE  (front \o back)[j] = IF j < i THEN ch[j] ELSE ch[j + 1]
  <2>1. CASE j < i
    BY <1>1, <1>2, <1>3, <2>1
  <2>2. CASE ~(j < i)
    <3>1. j - (i - 1) \in 1..(Len(ch) - i) /\ i + (j - (i - 1)) = j + 1
      BY <1>1, <2>2
    <3>2. j \in (Len(front) + 1)..(Len(front) + Len(back))
      BY <1>1, <1>2, <1>3, <2>2
    <3>3. (front \o back)[j] = back[j - Len(front)]
      <4>1. \A k \in 1..(Len(front) + Len(back)) :
               (front \o back)[k] = IF k <= Len(front) THEN front[k] ELSE back[k - Len(front)]
        BY <1>2, <1>3, ConcatProperties
      <4>2. Len(front) \in Nat /\ Len(back) \in Nat
        BY <1>2, <1>3
      <4>3. j \in 1..(Len(front) + Len(back)) /\ ~(j <= Len(front))
        BY ONLY <3>2, <4>2
      <4> QED
        BY ONLY <4>1, <4>3
    <3> QED
      BY <1>2, <1>3, <2>2, <3>1, <3>3
  <2> QED
    BY <2>1, <2>2
<1> QED
  BY <1>4, <1>5 DEF RemoveAt, front, back

-----------------------------------------------------------------------------
(* Type correctness                                                         *)

\* The datagrams the device sends
Frames ==
    [type : {"FILE_START"}, file : 1..NFiles]
    \union [type : {"DATA"}, seq : Seqs, data : Nat \X Nat]
    \union [type : {"FILE_END"}, crc : Seq(Nat \X Nat)]
    \union [type : {"TRANSFER_DONE"}, count : Nat]

\* A link that is not ready was reset, and next_seq never gets ahead of the file
LinkTypes ==
    /\ LinkTypeOK
    /\ down \in Seq(Frames)
    /\ ~ready => nextSeq = 0
    /\ pc = "data" => nextSeq <= pos

LEMMA FramesAreMessages == Frames \subseteq Messages
  BY UdpLinkAssumption DEF Frames, Messages, Seqs

LEMMA FrameTypes ==
  /\ \A f \in 1..NFiles : Start(f) \in Frames
  /\ \A s \in Seqs, d \in Nat \X Nat : Data(s, d) \in Frames
  /\ \A c \in Seq(Nat \X Nat) : End(c) \in Frames
  /\ \A n \in Nat : Done(n) \in Frames
  /\ Ok \in Acks
  /\ \A m \in SUBSET Nat : Nack(m) \in Acks
  BY DEF Frames, Start, Data, End, Done, Ok, Nack, Acks

LEMMA LinkTypesInit == LinkInit => LinkTypes
  BY UdpLinkAssumption DEF LinkInit, LinkTypes, LinkTypeOK, Budgets

\* The thread's part of the invariant, when the channels keep their types
LEMMA AckTypes ==
  ASSUME LinkTypes
  PROVE  /\ [ack EXCEPT !.ok = FALSE, !.sem = 0]
              \in [ok : BOOLEAN, missing : SUBSET Nat, sem : {0, 1}]
         /\ [ack EXCEPT !.ok = FALSE, !.sem = 1]
              \in [ok : BOOLEAN, missing : SUBSET Nat, sem : {0, 1}]
         /\ [ack EXCEPT !.sem = 0]
              \in [ok : BOOLEAN, missing : SUBSET Nat, sem : {0, 1}]
  BY DEF LinkTypes, LinkTypeOK

LEMMA BudgetTypes ==
  ASSUME NEW b \in Budgets
  PROVE  /\ b.loss > 0 => [b EXCEPT !.loss = @ - 1] \in Budgets
         /\ [b EXCEPT !.loss = @] \in Budgets
         /\ [b EXCEPT !.loss = @ - 1].reset = b.reset
         /\ [b EXCEPT !.loss = @ - 1].torn = b.torn
         /\ [b EXCEPT !.loss = @ - 1].late = b.late
  BY DEF Budgets

LEMMA SentType ==
  ASSUME LinkTypes, NEW m \in Frames, down' = Enqueue(down, m)
  PROVE  down' \in Seq(Frames) /\ down' \in Seq(Messages)
  BY EnqueueType, FramesAreMessages DEF LinkTypes, LinkTypeOK

LEMMA ThreadTypes == LinkTypes /\ TransferThread => LinkTypes'
<1> SUFFICES ASSUME LinkTypes, TransferThread PROVE LinkTypes'
  OBVIOUS
<1> USE UdpLinkAssumption DEF LinkTypes, LinkTypeOK
<1>1. CASE SendFileStart
  <2>1. CASE ready
    <3>1. down' = Enqueue(down, Start(file)) /\ nextSeq' = 0 /\ crc' = <<>>
          /\ ack' = [ack EXCEPT !.ok = FALSE, !.sem = 0]
      BY <1>1, <2>1 DEF SendFileStart, ResetFileState
    <3>2. down' \in Seq(Frames) /\ down' \in Seq(Messages)
      BY <3>1, SentType, FrameTypes
    <3>3. ack' \in [ok : BOOLEAN, missing : SUBSET Nat, sem : {0, 1}]
      BY <3>1, AckTypes
    <3> QED
      BY <1>1, <3>1, <3>2, <3>3 DEF SendFileStart
  <2>2. CASE ~ready
    BY <1>1, <2>2 DEF SendFileStart, udpFile
  <2> QED
    BY <2>1, <2>2
<1>2. CASE SendFileData
  <2>1. pc = "data" /\ pos < NFrames /\ ready /\ nextSeq <= pos
        /\ down' = Enqueue(down, Data(nextSeq, <<file, pos>>))
        /\ crc' = Append(crc, <<file, pos>>)
        /\ nextSeq' = nextSeq + 1 /\ pos' = pos + 1
    BY <1>2 DEF SendFileData
  <2>2. <<file, pos>> \in Nat \X Nat /\ nextSeq \in Seqs
    BY <2>1 DEF Seqs
  <2>3. down' \in Seq(Frames) /\ down' \in Seq(Messages)
    BY <2>1, <2>2, SentType, FrameTypes
  <2>4. crc' \in Seq(Nat \X Nat)
    BY <2>1, <2>2
  <2> QED
    BY <1>2, <2>1, <2>3, <2>4 DEF SendFileData
<1>3. CASE EndOfFile
  BY <1>3 DEF EndOfFile, udpFile, net
<1>4. CASE SendFileEnd
  <2>1. finalCrc' \in Seq(Nat \X Nat) /\ down' = Enqueue(down, End(finalCrc'))
    BY <1>4 DEF SendFileEnd
  <2>2. down' \in Seq(Frames) /\ down' \in Seq(Messages)
    BY <2>1, SentType, FrameTypes
  <2> QED
    BY <1>4, <2>1, <2>2 DEF SendFileEnd, udpFile
<1>5. CASE ArmFileAck
  BY <1>5 DEF ArmFileAck, udpFile, net
<1>6. CASE FileAckTimeout
  BY <1>6 DEF FileAckTimeout, udpFile, net
<1>7. CASE FileAckOk
  <2>1. ack' \in [ok : BOOLEAN, missing : SUBSET Nat, sem : {0, 1}]
    BY <1>7, AckTypes DEF FileAckOk
  <2>2. file' \in 1..NFiles /\ pc' \in {"start", "done"}
    <3>1. CASE file < NFiles
      <4>1. file' = file + 1 /\ pc' = "start"
        BY <1>7, <3>1 DEF FileAckOk
      <4> QED
        BY <3>1, <4>1
    <3>2. CASE ~(file < NFiles)
      BY <1>7, <3>2 DEF FileAckOk
    <3> QED
      BY <3>1, <3>2
  <2>3. synced' = file /\ rounds' = 0
        /\ UNCHANGED <<pos, tries, finalCrc, nextSeq, crc, ready, down, toDevice, budget>>
    BY <1>7 DEF FileAckOk, udpFile, net
  <2> QED
    BY <2>1, <2>2, <2>3
<1>8. CASE FileAckNack
  <2>1. ack' \in [ok : BOOLEAN, missing : SUBSET Nat, sem : {0, 1}]
    BY <1>8, AckTypes DEF FileAckNack
  <2> QED
    BY <1>8, <2>1 DEF FileAckNack, udpFile, net
<1>9. CASE Repair
  BY <1>9 DEF Repair, udpFile, net
<1>10. CASE ResendMissing
  <2>1. PICK s \in ToResend : /\ down' = Enqueue(down, Data(s, <<file, s>>))
                              /\ pos' = s + 1
    BY <1>10 DEF ResendMissing
  <2>2. s \in Seqs /\ <<file, s>> \in Nat \X Nat /\ pos' \in 0..NFrames
    BY <2>1 DEF ToResend, Seqs
  <2>3. down' \in Seq(Frames) /\ down' \in Seq(Messages)
    BY <2>1, <2>2, SentType, FrameTypes
  <2> QED
    BY <1>10, <2>2, <2>3 DEF ResendMissing, udpFile
<1>11. CASE RepairSent
  BY <1>11 DEF RepairSent, udpFile, net
<1>12. CASE GiveUp
  BY <1>12 DEF GiveUp, udpFile, net
<1>13. CASE SendTransferDone
  <2>1. down' \in Seq(Frames) /\ down' \in Seq(Messages)
    BY <1>13, SentType, FrameTypes, FramesAreMessages DEF SendTransferDone
  <2> QED
    BY <1>13, <2>1 DEF SendTransferDone, udpFile
<1> QED
  BY <1>1, <1>2, <1>3, <1>4, <1>5, <1>6, <1>7, <1>8, <1>9, <1>10, <1>11, <1>12, <1>13
     DEF TransferThread

\* What a re-association leaves on record
LEMMA Reassociated ==
  ASSUME LinkTypes, StaConnected
  PROVE  /\ budget' \in Budgets /\ ~Associated'
         /\ budget'.torn = budget.torn \union {f \in {file} : Streaming}
         /\ budget'.late = (budget.late \/ Waiting)
<1>1. budget \in Budgets /\ budget.reset > 0
      /\ {f \in {file} : Streaming} \subseteq 1..NFiles /\ Waiting \in BOOLEAN
  BY DEF LinkTypes, LinkTypeOK, StaConnected, Waiting
<1>2. budget' = [budget EXCEPT !.reset = @ - 1,
                               !.torn = @ \union {f \in {file} : Streaming},
                               !.late = @ \/ Waiting]
  BY DEF StaConnected
<1>3. /\ budget' \in Budgets /\ budget'.reset = budget.reset - 1
      /\ budget'.torn = budget.torn \union {f \in {file} : Streaming}
      /\ budget'.late = (budget.late \/ Waiting)
  <2> DEFINE F == {f \in {file} : Streaming}
             w == Waiting
  <2>1. /\ budget.reset - 1 \in 0..MaxResets /\ budget.torn \union F \in SUBSET (1..NFiles)
        /\ (budget.late \/ w) \in BOOLEAN /\ budget \in Budgets
    BY <1>1, UdpLinkAssumption DEF Budgets
  <2>2. budget' = [budget EXCEPT !.reset = budget.reset - 1, !.torn = budget.torn \union F,
                                 !.late = (budget.late \/ w)]
    BY <1>2
  <2> HIDE DEF F, w
  <2>3. /\ budget' \in Budgets /\ budget'.reset = budget.reset - 1
        /\ budget'.torn = budget.torn \union F
        /\ budget'.late = (budget.late \/ w)
    BY ONLY <2>1, <2>2, Zenon DEF Budgets
  <2> QED
    BY <2>3 DEF F, w
<1>4. budget.reset \in 0..MaxResets /\ budget.reset - 1 # MaxResets
  BY <1>1, UdpLinkAssumption DEF Budgets
<1> QED
  BY <1>3, <1>4 DEF Associated

LEMMA NetworkTypes == LinkTypes /\ Network => LinkTypes'
<1> SUFFICES ASSUME LinkTypes, Network PROVE LinkTypes'
  OBVIOUS
<1> USE UdpLinkAssumption DEF LinkTypes, LinkTypeOK
<1>1. CASE ReceivePacket
  <2>1. PICK i \in Arrivals(toDevice) :
           /\ toDevice' = RemoveAt(toDevice, i)
           /\ ack' = [ok |-> toDevice[i].ok, missing |-> toDevice[i].missing, sem |-> 1]
    BY <1>1 DEF ReceivePacket
  <2>2. i \in DOMAIN toDevice /\ toDevice[i] \in Acks
    BY DEF Arrivals
  <2>3. toDevice' \in Seq(Acks)
    BY <2>1, <2>2, RemoveAtType
  <2>4. ack' \in [ok : BOOLEAN, missing : SUBSET Nat, sem : {0, 1}]
    BY <2>1, <2>2 DEF Acks
  <2>5. budget' \in Budgets
    <3>1. CASE pc = "arm"
      BY <1>1, <3>1, BudgetTypes DEF ReceivePacket
    <3>2. CASE pc # "arm"
      BY <1>1, <3>2, BudgetTypes DEF ReceivePacket
    <3> QED
      BY <3>1, <3>2
  <2> QED
    BY <1>1, <2>3, <2>4, <2>5 DEF ReceivePacket, txThread, udpFile
<1>2. CASE ReceiveHeartbeat
  BY <1>2 DEF ReceiveHeartbeat, txThread, udpFile, net
<1>3. CASE StaConnected
  <2>1. ack' \in [ok : BOOLEAN, missing : SUBSET Nat, sem : {0, 1}]
    BY <1>3, AckTypes DEF StaConnected
  <2>2. budget' \in Budgets
    BY <1>3, Reassociated
  <2>3. pc' \in {pc, "file_end"} /\ (pc' = "data" => pc = "data")
    BY <1>3 DEF StaConnected, Waiting
  <2>4. nextSeq' = 0 /\ crc' = <<>> /\ ready' = FALSE
        /\ UNCHANGED <<file, pos, synced, tries, finalCrc, rounds, down, toDevice>>
    BY <1>3 DEF StaConnected, net
  <2>5. pc' \in {"start", "data", "file_end", "arm", "wait", "repair", "selective",
                 "done", "over"}
    BY <2>3
  <2>6. nextSeq' \in 0..NFrames
    BY <2>4
  <2>7. crc' \in Seq(Nat \X Nat)
    BY <2>4
  <2>8. ready' \in BOOLEAN
    BY <2>4
  <2> QED
    BY <2>1, <2>2, <2>3, <2>4, <2>5, <2>6, <2>7, <2>8
<1>4. CASE Lose
  <2>1. budget' \in Budgets
    BY <1>4, BudgetTypes DEF Lose
  <2>2. down' \in Seq(Frames) /\ down' \in Seq(Messages) /\ toDevice' \in Seq(Acks)
    <3>1. CASE \E i \in DOMAIN down : down' = RemoveAt(down, i) /\ UNCHANGED toDevice
      BY <3>1, RemoveAtType
    <3>2. CASE \E i \in DOMAIN toDevice :
                  toDevice' = RemoveAt(toDevice, i) /\ UNCHANGED down
      BY <3>2, RemoveAtType
    <3> QED
      BY <1>4, <3>1, <3>2 DEF Lose
  <2> QED
    BY <1>4, <2>1, <2>2 DEF Lose, txThread, udpFile
<1> QED
  BY <1>1, <1>2, <1>3, <1>4 DEF Network

\* A client reads the one channel and writes the other
LEMMA ClientTypes ==
  ASSUME LinkTypes, UNCHANGED <<txThread, udpFile, ack, ready, budget>>,
         down' \in Seq(Frames), toDevice' \in Seq(Acks)
  PROVE  LinkTypes'
<1>1. down' \in Seq(Messages)
  BY FramesAreMessages
<1> QED
  BY <1>1 DEF LinkTypes, LinkTypeOK, txThread, udpFile

-----------------------------------------------------------------------------
(* The CRC                                                                  *)

\* A CRC is that of the whole file, unless a re-association interrupted the file.
\* Without one the link stays ready, and the frames sent again change nothing
Exact(c) == file \in budget.torn \/ c = Content(file)

CrcInv ==
    /\ ~ready => crc = <<>>
    /\ pc = "data" => file \in budget.torn \/ crc = [i \in 1..pos |-> <<file, i - 1>>]
    /\ pc = "file_end" /\ tries = 0 => Exact(crc)
    /\ pc = "file_end" /\ tries > 0 => Exact(finalCrc)
    /\ pc \in {"arm", "wait"} => tries > 0 /\ Exact(finalCrc)
    /\ Associated =>
         /\ ready /\ budget.torn = {}
         /\ pc \in {"file_end", "arm", "wait", "repair", "selective"} =>
              crc = Content(file)

LEMMA CrcInit == LinkInit => CrcInv
  BY DEF LinkInit, CrcInv

LEMMA CrcThread ==
  ASSUME LinkTypes, CrcInv, TransferThread, pc = "selective" => Associated
  PROVE  CrcInv'
<1> USE DEF CrcInv, LinkTypes, LinkTypeOK, udpFile, Exact, Associated
<1>1. CASE SendFileStart
  <2>1. crc' = <<>> /\ pos' = 0 /\ pc' = "data" /\ UNCHANGED <<ready, budget, file>>
    BY <1>1 DEF SendFileStart, ResetFileState
  <2>2. <<>> = [i \in 1..0 |-> <<file', i - 1>>]
    OBVIOUS
  <2> QED
    BY <2>1, <2>2
<1>2. CASE SendFileData
  <2>1. /\ pos \in Nat /\ ready
        /\ crc' = Append(crc, <<file, pos>>) /\ pos' = pos + 1
        /\ UNCHANGED <<pc, file, ready, budget>> /\ pc = "data"
    BY <1>2 DEF SendFileData
  <2>2. crc = [i \in 1..pos |-> <<file, i - 1>>] =>
          crc' = [i \in 1..(pos + 1) |-> <<file, i - 1>>]
    BY ONLY <2>1
  <2> QED
    BY <2>1, <2>2
<1>3. CASE EndOfFile
  BY <1>3 DEF EndOfFile, Content
<1>4. CASE SendFileEnd
  BY <1>4 DEF SendFileEnd
<1>5. CASE ArmFileAck
  BY <1>5 DEF ArmFileAck
<1>6. CASE FileAckTimeout
  BY <1>6 DEF FileAckTimeout
<1>7. CASE FileAckOk
  BY <1>7 DEF FileAckOk
<1>8. CASE FileAckNack
  BY <1>8 DEF FileAckNack
<1>9. CASE Repair
  BY <1>9 DEF Repair
<1>10. CASE ResendMissing
  BY <1>10 DEF ResendMissing
<1>11. CASE RepairSent
  BY <1>11 DEF RepairSent
<1>12. CASE GiveUp
  BY <1>12 DEF GiveUp
<1>13. CASE SendTransferDone
  BY <1>13 DEF SendTransferDone
<1> QED
  BY <1>1, <1>2, <1>3, <1>4, <1>5, <1>6, <1>7, <1>8, <1>9, <1>10, <1>11, <1>12, <1>13
     DEF TransferThread

LEMMA CrcNetwork == LinkTypes /\ CrcInv /\ Network => CrcInv'
<1> SUFFICES ASSUME LinkTypes, CrcInv, Network PROVE CrcInv'
  OBVIOUS
<1>0. budget \in Budgets
  BY DEF LinkTypes, LinkTypeOK
<1> USE DEF CrcInv, Exact, udpFile, txThread
\* Only a re-association changes more of the budget than the losses
<1>1. CASE ReceivePacket \/ Lose
  <2>1. /\ budget'.torn = budget.torn /\ (Associated' <=> Associated)
        /\ UNCHANGED <<txThread, udpFile>> /\ (ready' = ready \/ ready')
    <3>1. budget' = [budget EXCEPT !.loss = @ - 1] \/ budget' = budget
      BY <1>0, <1>1 DEF ReceivePacket, Lose, Budgets
    <3>2. UNCHANGED <<txThread, udpFile>> /\ (ready' = ready \/ ready')
      BY <1>1 DEF ReceivePacket, Lose
    <3> QED
      BY <1>0, <3>1, <3>2, BudgetTypes DEF Associated
  <2> QED
    BY <2>1
<1>2. CASE ReceiveHeartbeat
  BY <1>2 DEF ReceiveHeartbeat, Associated
<1>3. CASE StaConnected
  <2>1. ~Associated' /\ budget'.torn = budget.torn \union {f \in {file} : Streaming}
    BY <1>3, Reassociated
  <2>2. crc' = <<>> /\ UNCHANGED <<file, pos, tries, finalCrc>>
    BY <1>3 DEF StaConnected
  <2>3. /\ pc = "wait" => tries > 0 /\ (file \in budget.torn \/ finalCrc = Content(file))
        /\ pc' = pc \/ (pc = "wait" /\ pc' = "file_end")
    BY <1>3 DEF StaConnected, Waiting
  <2>4. pc = "data" \/ (pc = "file_end" /\ tries = 0) => file' \in budget'.torn
    BY <2>1, <2>2 DEF Streaming
  <2>5. tries = 0 => ~(tries > 0)
    OBVIOUS
  <2> QED
    BY <2>1, <2>2, <2>3, <2>4, <2>5
<1> QED
  BY <1>1, <1>2, <1>3 DEF Network

LEMMA CrcClient ==
  ASSUME CrcInv, UNCHANGED <<txThread, udpFile, ack, ready, budget>>
  PROVE  CrcInv'
  BY DEF CrcInv, Exact, Associated, txThread, udpFile

\* With re-associations the CRC may miss the frames before the last one; but a CRC
\* as long as a file is the CRC of the file it is sent for
WholeInv ==
    /\ ~ready => crc = <<>>
    /\ pc = "data" =>
         /\ Len(crc) <= pos
         /\ \A i \in 1..Len(crc) : crc[i] = <<file, pos - Len(crc) + i - 1>>
    /\ pc \in {"file_end", "arm", "wait", "repair", "selective"} =>
         (Len(crc) = NFrames => crc = Content(file))
    /\ pc \in {"arm", "wait"} \/ (pc = "file_end" /\ tries > 0) =>
         (Len(finalCrc) = NFrames => finalCrc = Content(file))

LEMMA WholeInit == LinkInit => WholeInv
  BY DEF LinkInit, WholeInv

LEMMA WholeThread == LinkTypes /\ WholeInv /\ TransferThread => WholeInv'
<1> SUFFICES ASSUME LinkTypes, WholeInv, TransferThread PROVE WholeInv'
  OBVIOUS
<1> USE DEF WholeInv, LinkTypes, LinkTypeOK, udpFile
<1>1. CASE SendFileStart
  <2>1. crc' = <<>> /\ pos' = 0 /\ pc' = "data" /\ UNCHANGED ready
    BY <1>1 DEF SendFileStart, ResetFileState
  <2>2. Len(crc') = 0
    BY <2>1
  <2> QED
    BY <2>1, <2>2
<1>2. CASE SendFileData
  <2>0. pc = "data" /\ crc' = Append(crc, <<file, pos>>) /\ pos' = pos + 1
        /\ UNCHANGED <<pc, file, ready>>
    BY <1>2 DEF SendFileData
  <2>1. /\ ready /\ pos \in Nat /\ crc \in Seq(Nat \X Nat)
        /\ pc = "data" /\ crc' = Append(crc, <<file, pos>>) /\ pos' = pos + 1
        /\ UNCHANGED <<pc, file, ready>>
        /\ Len(crc) <= pos
        /\ \A i \in 1..Len(crc) : crc[i] = <<file, pos - Len(crc) + i - 1>>
    <3>1. ready
      BY <1>2 DEF SendFileData
    <3>2. Len(crc) <= pos
          /\ \A i \in 1..Len(crc) : crc[i] = <<file, pos - Len(crc) + i - 1>>
      BY <2>0, Zenon
    <3>3. pos \in Nat /\ crc \in Seq(Nat \X Nat)
      BY UdpLinkAssumption
    <3> QED
      BY ONLY <2>0, <3>1, <3>2, <3>3
  <2>2. /\ Len(crc') = Len(crc) + 1 /\ Len(crc) \in Nat
        /\ \A i \in 1..Len(crc) : crc'[i] = crc[i]
        /\ crc'[Len(crc) + 1] = <<file, pos>>
    BY ONLY <2>1, AppendProperties
  <2>3. ASSUME NEW i \in 1..Len(crc')
        PROVE  crc'[i] = <<file', pos' - Len(crc') + i - 1>>
    <3>1. pos' - Len(crc') + i - 1 = pos - Len(crc) + i - 1
      BY <2>1, <2>2
    <3>2. CASE i \in 1..Len(crc)
      BY <2>1, <2>2, <3>1, <3>2
    <3>3. CASE i = Len(crc) + 1
      <4>1. pos - Len(crc) + i - 1 = pos
        BY <2>1, <2>2, <3>3
      <4> QED
        BY <2>1, <2>2, <3>1, <3>3, <4>1
    <3>4. i \in 1..Len(crc) \/ i = Len(crc) + 1
      BY ONLY <2>2
    <3> QED
      BY ONLY <3>2, <3>3, <3>4
  <2>4. Len(crc') <= pos'
    BY <2>1, <2>2
  <2> QED
    BY <2>1, <2>3, <2>4
<1>3. CASE EndOfFile
  <2>1. /\ pc = "data" /\ pos = NFrames /\ pc' = "file_end" /\ tries' = 0
        /\ UNCHANGED <<file, crc, ready>>
    BY <1>3 DEF EndOfFile
  <2>2. ASSUME Len(crc) = NFrames
        PROVE  crc = Content(file)
    <3>1. \A i \in 1..NFrames : crc[i] = <<file, i - 1>>
      BY <2>1, <2>2, UdpLinkAssumption
    <3>2. crc = [i \in 1..NFrames |-> crc[i]]
      BY <2>2
    <3> QED
      BY <3>1, <3>2 DEF Content
  <2> QED
    BY <2>1, <2>2
<1>4. CASE SendFileEnd
  BY <1>4 DEF SendFileEnd
<1>5. CASE ArmFileAck
  BY <1>5 DEF ArmFileAck
<1>6. CASE FileAckTimeout
  BY <1>6 DEF FileAckTimeout
<1>7. CASE FileAckOk
  BY <1>7 DEF FileAckOk
<1>8. CASE FileAckNack
  BY <1>8 DEF FileAckNack
<1>9. CASE Repair
  BY <1>9 DEF Repair
<1>10. CASE ResendMissing
  BY <1>10 DEF ResendMissing
<1>11. CASE RepairSent
  BY <1>11 DEF RepairSent
<1>12. CASE GiveUp
  BY <1>12 DEF GiveUp
<1>13. CASE SendTransferDone
  BY <1>13 DEF SendTransferDone
<1> QED
  BY <1>1, <1>2, <1>3, <1>4, <1>5, <1>6, <1>7, <1>8, <1>9, <1>10, <1>11, <1>12, <1>13
     DEF TransferThread

LEMMA WholeNetwork == LinkTypes /\ WholeInv /\ Network => WholeInv'
<1> SUFFICES ASSUME LinkTypes, WholeInv, Network PROVE WholeInv'
  OBVIOUS
<1> USE UdpLinkAssumption DEF WholeInv, LinkTypes, LinkTypeOK, udpFile, txThread
<1>1. CASE ReceivePacket
  BY <1>1 DEF ReceivePacket
<1>2. CASE ReceiveHeartbeat
  BY <1>2 DEF ReceiveHeartbeat
<1>3. CASE StaConnected
  <2>1. /\ crc' = <<>> /\ UNCHANGED <<file, pos, tries, finalCrc>>
        /\ pc' = IF pc = "wait" /\ ack.sem = 0 THEN "file_end" ELSE pc
    BY <1>3 DEF StaConnected, Waiting
  <2>2. Len(crc') = 0
    BY <2>1
  <2> QED
    BY <2>1, <2>2
<1>4. CASE Lose
  BY <1>4 DEF Lose
<1> QED
  BY <1>1, <1>2, <1>3, <1>4 DEF Network

LEMMA WholeClient ==
  ASSUME WholeInv, UNCHANGED <<txThread, udpFile, ack, ready, budget>>
  PROVE  WholeInv'
  BY DEF WholeInv, txThread, udpFile

LEMMA ThreadBudget == TransferThread => budget' = budget
  BY DEF TransferThread, SendFileStart, SendFileData, EndOfFile, SendFileEnd, ArmFileAck,
         FileAckTimeout, FileAckOk, FileAckNack, Repair, ResendMissing, RepairSent, GiveUp,
         SendTransferDone

\* A re-association is never taken back, nor what it disturbed
LEMMA HistoryStep ==
  ASSUME LinkTypes, TransferThread \/ Network \/ UNCHANGED budget
  PROVE  /\ Associated' => Associated /\ ~StaConnected
         /\ budget.late => budget'.late
         /\ budget.torn \subseteq budget'.torn
         /\ ~StaConnected => budget'.torn = budget.torn /\ budget'.late = budget.late
<1>1. budget \in Budgets
  BY DEF LinkTypes, LinkTypeOK
<1>2. CASE StaConnected
  BY <1>2, Reassociated
<1>3. CASE ~StaConnected
  <2>1. budget' = budget \/ budget' = [budget EXCEPT !.loss = @ - 1]
    <3>1. CASE TransferThread
      BY <3>1, ThreadBudget
    <3>2. CASE Network
      BY <1>1, <1>3, <3>2 DEF Network, ReceivePacket, ReceiveHeartbeat, Lose, Budgets
    <3> QED
      BY <3>1, <3>2
  <2>2. /\ budget'.reset = budget.reset /\ budget'.torn = budget.torn
        /\ budget'.late = budget.late
    BY <1>1, <2>1, BudgetTypes
  <2> QED
    BY <1>3, <2>2 DEF Associated
<1> QED
  BY <1>2, <1>3

-----------------------------------------------------------------------------
(* The channel to the client                                                *)

LEMMA SentAt ==
  ASSUME LinkTypes, NEW m \in Frames, down' = Enqueue(down, m)
  PROVE  /\ Len(down) \in Nat /\ Len(down') \in Nat
         /\ \A i \in 1..Len(down') :
               \/ i \in 1..Len(down) /\ down'[i] = down[i]
               \/ i = Len(down) + 1 /\ down'[i] = m
<1>1. down \in Seq(Frames)
  BY DEF LinkTypes
<1>2. CASE down' = down
  BY <1>1, <1>2
<1>3. CASE down' = Append(down, m)
  <2>1. /\ Len(down') = Len(down) + 1 /\ Len(down) \in Nat
        /\ down'[Len(down) + 1] = m
        /\ \A i \in 1..Len(down) : down'[i] = down[i]
    BY <1>1, <1>3, AppendProperties
  <2>2. \A i \in 1..Len(down') : i \in 1..Len(down) \/ i = Len(down) + 1
    BY <2>1
  <2> QED
    BY <2>1, <2>2
<1> QED
  BY <1>2, <1>3 DEF Enqueue

\* Where the datagram that is now at j was before the one at i was taken
Before(i, j) == IF j < i THEN j ELSE j + 1

LEMMA GoneAt ==
  ASSUME LinkTypes, NEW i \in DOMAIN down, down' = RemoveAt(down, i)
  PROVE  /\ i \in 1..Len(down) /\ Len(down) \in Nat /\ Len(down') = Len(down) - 1
         /\ \A j \in 1..Len(down') :
               Before(i, j) \in 1..Len(down) /\ down'[j] = down[Before(i, j)]
<1>1. down \in Seq(Frames) /\ i \in 1..Len(down) /\ Len(down) \in Nat
  BY DEF LinkTypes
<1>2. /\ Len(down') = Len(down) - 1
      /\ \A j \in 1..(Len(down) - 1) : down'[j] = IF j < i THEN down[j] ELSE down[j + 1]
  BY <1>1, RemoveAtType
<1> QED
  BY <1>1, <1>2 DEF Before

\* Frames are of the file that is being sent; its FILE_END is the last
FrameInv ==
    \A i \in 1..Len(down) :
        /\ down[i].type = "FILE_START" => down[i].file = file
        /\ down[i].type = "FILE_END" =>
             /\ i = Len(down) /\ Exact(down[i].crc)
             /\ pc \in {"arm", "wait"}
        /\ down[i].type = "TRANSFER_DONE" => pc = "over"

Quiet == Len(down) = 0 /\ Len(toDevice) = 0

\* One more frame of the file
LEMMA SentFrame ==
  ASSUME LinkTypes, FrameInv, pc \notin {"arm", "wait", "over"}, UNCHANGED <<file, budget>>,
         NEW m \in Frames, down' = Enqueue(down, m),
         m.type = "FILE_START" => m.file = file,
         m.type = "FILE_END" => Exact(m.crc) /\ pc' \in {"arm", "wait"},
         m.type = "TRANSFER_DONE" => pc' = "over"
  PROVE  FrameInv'
  BY SentAt DEF FrameInv, Exact

\* One frame less
LEMMA GoneFrame ==
  ASSUME LinkTypes, FrameInv, NEW i \in DOMAIN down, down' = RemoveAt(down, i),
         UNCHANGED <<pc, file>>, budget'.torn = budget.torn
  PROVE  FrameInv' /\ Len(down') = Len(down) - 1 /\ Len(down) \in Nat \ {0}
<1>1. /\ i \in 1..Len(down) /\ Len(down) \in Nat /\ Len(down') = Len(down) - 1
      /\ \A j \in 1..Len(down') :
            Before(i, j) \in 1..Len(down) /\ down'[j] = down[Before(i, j)]
  BY GoneAt
<1>2. \A j \in 1..Len(down') : Before(i, j) = Len(down) => j = Len(down')
  BY <1>1 DEF Before
<1>3. FrameInv'
  BY <1>1, <1>2 DEF FrameInv, Exact
<1> QED
  BY <1>1, <1>3

=============================================================================
