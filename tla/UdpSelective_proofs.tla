------------------------- MODULE UdpSelective_proofs -------------------------
(***************************************************************************)
(* Theorems about the device with a selective-repeat client, for every      *)
(* value of the constants.                                                  *)
(***************************************************************************)
EXTENDS UdpSelective, UdpLink_proofs

-----------------------------------------------------------------------------
(* Type correctness                                                         *)

Frame == Nat \X Nat

ReceiverTypes ==
    /\ cur \in 0..NFiles
    /\ got \in [DOMAIN got -> Frame] /\ DOMAIN got \subseteq Seqs
    /\ files \in [1..NFiles -> Seq(Frame)]
    /\ over \in BOOLEAN

LEMMA EmptyGot == ASSUME NEW g, g = <<>>
                  PROVE  g \in [DOMAIN g -> Frame] /\ DOMAIN g \subseteq Seqs
  OBVIOUS

LEMMA ReceiverInit == Init => ReceiverTypes
<1> SUFFICES ASSUME Init PROVE ReceiverTypes
  OBVIOUS
<1>1. got \in [DOMAIN got -> Frame] /\ DOMAIN got \subseteq Seqs
  BY EmptyGot DEF Init
<1>2. cur \in 0..NFiles
  BY UdpLinkAssumption DEF Init
<1>3. files \in [1..NFiles -> Seq(Frame)]
  BY DEF Init
<1>4. over \in BOOLEAN
  BY DEF Init
<1> QED
  BY <1>1, <1>2, <1>3, <1>4 DEF ReceiverTypes

\* A file is put together when all its frames are there
LEMMA AssembledType ==
  ASSUME ReceiverTypes
  PROVE  /\ Assembled \in Seq(Frame) /\ Missing \in SUBSET Nat
         /\ Missing # {} => Assembled = <<>>
<1>1. Missing \in SUBSET Nat
  BY UdpLinkAssumption DEF Missing, Seqs
<1>2. CASE Missing = {}
  <2>1. \A i \in 1..NFrames : i - 1 \in DOMAIN got
    BY <1>2, UdpLinkAssumption DEF Missing, Seqs
  <2>2. \A i \in 1..NFrames : got[i - 1] \in Frame
    BY <2>1 DEF ReceiverTypes
  <2>3. Assembled = [i \in 1..NFrames |-> got[i - 1]]
    BY <1>2 DEF Assembled
  <2> QED
    BY <1>1, <1>2, <2>2, <2>3, UdpLinkAssumption
<1>3. CASE Missing # {}
  <2>1. Assembled = <<>>
    BY <1>3, Zenon DEF Assembled
  <2>2. <<>> \in Seq(Frame)
    OBVIOUS
  <2> QED
    BY <1>1, <2>1, <2>2
<1> QED
  BY <1>2, <1>3

\* One datagram, as the client handles it
LEMMA HandleTypes ==
  ASSUME ReceiverTypes, toDevice \in Seq(Acks), NEW m \in Frames,
         OnFileStart(m) \/ OnData(m) \/ OnFileEnd(m) \/ OnTransferDone(m)
  PROVE  ReceiverTypes' /\ toDevice' \in Seq(Acks)
<1> USE UdpLinkAssumption
<1>0. /\ m.type = "FILE_START" => m.file \in 1..NFiles
      /\ m.type = "DATA" => m.seq \in Seqs /\ m.data \in Frame
  BY DEF Frames, Frame
<1>1. CASE OnFileStart(m)
  <2>1. cur' \in 0..NFiles /\ UNCHANGED <<files, over, toDevice>>
    BY <1>0, <1>1 DEF OnFileStart
  <2>2. got' = got \/ got' = <<>>
    BY <1>1 DEF OnFileStart
  <2> QED
    BY <2>1, <2>2, EmptyGot DEF ReceiverTypes
<1>2. CASE OnData(m)
  <2>1. m.seq \in Seqs /\ m.data \in Frame /\ UNCHANGED <<cur, files, over, toDevice>>
    BY <1>0, <1>2 DEF OnData
  <2>2. CASE got' = got
    BY <2>1, <2>2 DEF ReceiverTypes
  <2>3. CASE got' = [s \in DOMAIN got \union {m.seq} |->
                        IF s = m.seq THEN m.data ELSE got[s]]
    <3>1. got' \in [DOMAIN got' -> Frame] /\ DOMAIN got' \subseteq Seqs
      BY <2>1, <2>3 DEF ReceiverTypes
    <3> QED
      BY <2>1, <3>1 DEF ReceiverTypes
  <2> QED
    BY <1>2, <2>2, <2>3 DEF OnData
<1>3. CASE OnFileEnd(m)
  <2>1. UNCHANGED <<cur, got, over>>
    BY <1>3 DEF OnFileEnd
  <2>2. CASE /\ files' = [files EXCEPT ![cur] = Assembled]
             /\ toDevice' = Enqueue(toDevice, Ok)
    <3>1. files' \in [1..NFiles -> Seq(Frame)]
      BY <2>2, AssembledType DEF ReceiverTypes
    <3>2. toDevice' \in Seq(Acks)
      BY <2>2, EnqueueType, FrameTypes
    <3> QED
      BY <2>1, <3>1, <3>2 DEF ReceiverTypes
  <2>3. CASE /\ toDevice' = Enqueue(toDevice, Nack(IF cur = 0 THEN {} ELSE Missing))
             /\ UNCHANGED files
    <3>1. (IF cur = 0 THEN {} ELSE Missing) \in SUBSET Nat
      BY AssembledType
    <3>2. toDevice' \in Seq(Acks)
      BY <2>3, <3>1, EnqueueType, FrameTypes
    <3> QED
      BY <2>1, <2>3, <3>2 DEF ReceiverTypes
  <2> QED
    BY <1>3, <2>2, <2>3 DEF OnFileEnd
<1>4. CASE OnTransferDone(m)
  BY <1>4 DEF OnTransferDone, ReceiverTypes
<1> QED
  BY <1>1, <1>2, <1>3, <1>4

Types == LinkTypes /\ ReceiverTypes

LEMMA TypesInit == Init => Types
  BY LinkTypesInit, ReceiverInit DEF Types, Init

LEMMA TypesStep == Types /\ [Next]_vars => Types'
<1> SUFFICES ASSUME Types, [Next]_vars PROVE Types'
  OBVIOUS
<1>0. down \in Seq(Frames) /\ toDevice \in Seq(Acks)
  BY DEF Types, LinkTypes, LinkTypeOK
<1>1. CASE (TransferThread \/ Network) /\ UNCHANGED client
  <2>1. ReceiverTypes'
    BY <1>1 DEF Types, client, ReceiverTypes
  <2> QED
    BY <1>1, <2>1, ThreadTypes, NetworkTypes DEF Types
<1>2. CASE ClientReceive
  <2>1. PICK i \in DOMAIN down :
           /\ down' = RemoveAt(down, i)
           /\ \/ OnFileStart(down[i]) \/ OnData(down[i])
              \/ OnFileEnd(down[i]) \/ OnTransferDone(down[i])
    BY <1>2 DEF ClientReceive, Arrivals
  <2>2. down' \in Seq(Frames) /\ down[i] \in Frames
    BY <1>0, <2>1, RemoveAtType
  <2>3. ReceiverTypes' /\ toDevice' \in Seq(Acks)
    BY <1>0, <2>1, <2>2, HandleTypes DEF Types
  <2>4. UNCHANGED <<txThread, udpFile, ack, ready, budget>>
    BY <1>2 DEF ClientReceive
  <2> QED
    BY <2>2, <2>3, <2>4, ClientTypes DEF Types
<1>3. CASE UNCHANGED vars
  BY <1>3
     DEF vars, linkVars, txThread, udpFile, net, client, Types, LinkTypes, LinkTypeOK,
         ReceiverTypes
<1> QED
  BY <1>1, <1>2, <1>3 DEF Next

LEMMA Named == Types => DOMAIN files = 1..NFiles /\ synced \in 0..NFiles
  BY DEF Types, ReceiverTypes, LinkTypes, LinkTypeOK

LEMMA TypesAreCode == Types => TypeOK
  BY DEF Types, LinkTypes, ReceiverTypes, TypeOK, Frame

\* Every variable keeps to the values its code can give it, whatever the network
\* does
THEOREM SelectiveTypes == Spec => []TypeOK
  BY TypesAreCode, TypesInit, TypesStep, PTL DEF Spec

-----------------------------------------------------------------------------
(* What is in flight, and what the client has                               *)

\* The client has the file being sent, put together and saved
Has == cur = file /\ Assembled = Content(file) /\ files[file] = Content(file)

\* There is one answer at most.  It comes when nothing else is in flight, and an OK
\* is about the file being sent
AnswerInv ==
    /\ Len(toDevice) # 0 =>
         /\ Len(toDevice) = 1 /\ Len(down) = 0 /\ pc \in {"arm", "wait"}
         /\ toDevice[1].ok => Has
         /\ pc = "wait" => ack.sem = 0
    /\ pc = "wait" /\ ack.sem = 1 => Quiet /\ (ack.ok => Has)
    /\ pc \in {"start", "repair", "done"} => Quiet
    /\ pc = "file_end" /\ tries > 0 => Quiet
    /\ pc = "selective" => Len(toDevice) = 0 /\ (pos = 0 => Quiet)

\* When it has not seen the FILE_START of the file being sent, it still has the
\* whole file before that
CurInv == cur \in {0, file} \/ (cur = file - 1 /\ Assembled = Content(cur))

CountInv ==
    /\ pc \notin {"done", "over"} => synced = file - 1
    /\ pc \in {"done", "over"} => synced \in {file - 1, file}

OrderInv == FrameInv /\ AnswerInv /\ CurInv /\ CountInv

\* Nothing is said of what a re-association leaves
IInv == Types /\ (Associated => CrcInv /\ OrderInv)

LEMMA OrderInit == Init => OrderInv
<1> SUFFICES ASSUME Init PROVE OrderInv
  OBVIOUS
<1>1. Len(down) = 0 /\ Len(toDevice) = 0 /\ pc = "start" /\ file = 1 /\ synced = 0 /\ cur = 0
  BY DEF Init, LinkInit
<1> QED
  BY <1>1 DEF OrderInv, FrameInv, AnswerInv, CurInv, CountInv, Quiet

\* Two files differ, and no file is empty
LEMMA ContentDiffers ==
  ASSUME NEW f \in Nat, NEW g \in Nat
  PROVE  /\ Content(f) = Content(g) => f = g
         /\ Content(f) # <<>>
<1>1. 1 \in 1..NFrames
  BY UdpLinkAssumption
<1>2. Content(f)[1] = <<f, 0>> /\ Content(g)[1] = <<g, 0>>
  BY <1>1 DEF Content
<1>3. Len(Content(f)) = NFrames
  BY UdpLinkAssumption DEF Content
<1>4. Content(f) # <<>>
  <2> SUFFICES ASSUME Content(f) = <<>> PROVE FALSE
    OBVIOUS
  <2>1. Len(Content(f)) = 0
    OBVIOUS
  <2> QED
    BY <1>3, <2>1, UdpLinkAssumption
<1> QED
  BY <1>2, <1>4

\* The transfer thread leaves the client alone
LEMMA ThreadOrder ==
  ASSUME Timely = TRUE, IInv, Associated, TransferThread, UNCHANGED client
  PROVE  /\ OrderInv'
         /\ synced' = synced
              \/ (synced' = synced + 1 /\ synced' = file /\ files[file] = Content(file))
<1> USE UdpLinkAssumption
<1>1. /\ FrameInv /\ AnswerInv /\ CurInv /\ CountInv /\ Types /\ CrcInv
      /\ UNCHANGED <<cur, got, files>> /\ LinkTypes
  BY DEF IInv, OrderInv, client, Types
<1>2. /\ down \in Seq(Frames) /\ toDevice \in Seq(Acks)
      /\ Len(down) \in Nat /\ Len(toDevice) \in Nat
      /\ file \in 1..NFiles /\ synced \in 0..NFiles /\ tries \in Nat /\ pos \in Nat
      /\ ack \in [ok : BOOLEAN, missing : SUBSET Nat, sem : {0, 1}]
      /\ ready /\ UNCHANGED budget
  <2>1. UNCHANGED budget
    BY ThreadBudget
  <2> QED
    BY <1>1, <2>1 DEF Types, LinkTypes, LinkTypeOK, CrcInv
<1>3. UNCHANGED Assembled
  BY <1>1 DEF Assembled, Missing
<1> USE <1>1, <1>2 DEF udpFile, net
<1>4. ASSUME UNCHANGED <<file, synced>>, FrameInv', AnswerInv', CountInv'
      PROVE  OrderInv'
  BY <1>3, <1>4 DEF OrderInv, CurInv
<1>5. ASSUME UNCHANGED <<file, synced>>,
             pc \in {"done", "over"} <=> pc' \in {"done", "over"}
      PROVE  CountInv'
  BY <1>5 DEF CountInv
<1>6. ASSUME UNCHANGED <<down, file>>, pc \in {"arm", "wait"} => pc' \in {"arm", "wait"},
             pc # "over"
      PROVE  FrameInv'
  BY <1>6 DEF FrameInv, Exact
<1>7. ASSUME Len(down) = 0, UNCHANGED down
      PROVE  FrameInv'
  BY <1>7 DEF FrameInv
<1>8. UNCHANGED file => (Has' <=> Has)
  BY <1>3 DEF Has
<1>10. CASE SendFileStart
  <2>1. /\ pc = "start" /\ pc' = "data" /\ UNCHANGED <<file, synced, toDevice>>
        /\ down' = Enqueue(down, Start(file))
    BY <1>10 DEF SendFileStart
  <2>2. FrameInv'
    <3>1. Start(file) \in Frames
      BY FrameTypes
    <3>2. Start(file).type = "FILE_START" /\ Start(file).file = file
      BY DEF Start
    <3> QED
      BY <2>1, <3>1, <3>2, SentFrame
  <2>3. AnswerInv'
    BY <2>1 DEF AnswerInv, Quiet
  <2> QED
    BY <1>4, <1>5, <2>1, <2>2, <2>3
<1>11. CASE SendFileData
  <2>1. /\ pc = "data" /\ UNCHANGED <<pc, file, synced, toDevice>>
        /\ down' = Enqueue(down, Data(nextSeq, <<file, pos>>))
        /\ nextSeq \in Seqs /\ <<file, pos>> \in Nat \X Nat
    BY <1>11 DEF SendFileData, LinkTypes, LinkTypeOK, Seqs
  <2>2. FrameInv'
    <3>1. Data(nextSeq, <<file, pos>>) \in Frames
      BY <2>1, FrameTypes
    <3>2. Data(nextSeq, <<file, pos>>).type = "DATA"
      BY DEF Data
    <3> QED
      BY <2>1, <3>1, <3>2, SentFrame
  <2>3. AnswerInv'
    BY <2>1 DEF AnswerInv, Quiet
  <2> QED
    BY <1>4, <1>5, <2>1, <2>2, <2>3
<1>12. CASE EndOfFile
  <2>1. /\ pc = "data" /\ pc' = "file_end" /\ tries' = 0
        /\ UNCHANGED <<file, synced, down, toDevice>>
    BY <1>12 DEF EndOfFile
  <2>2. AnswerInv'
    BY <2>1 DEF AnswerInv, Quiet
  <2> QED
    BY <1>4, <1>5, <1>6, <2>1, <2>2
<1>13. CASE SendFileEnd
  <2>1. /\ pc = "file_end" /\ pc' = "arm" /\ UNCHANGED <<file, synced, toDevice>>
        /\ down' = Enqueue(down, End(finalCrc'))
        /\ finalCrc' = IF tries = 0 THEN crc ELSE finalCrc
    BY <1>13 DEF SendFileEnd
  <2>2. finalCrc' = Content(file) /\ finalCrc' \in Seq(Nat \X Nat)
    <3>1. budget.torn = {} /\ (tries = 0 \/ tries > 0)
      BY DEF CrcInv
    <3> QED
      BY <2>1, <3>1 DEF CrcInv, Exact, LinkTypes, LinkTypeOK
  <2>3. FrameInv'
    <3>1. End(finalCrc') \in Frames
      BY <2>2, FrameTypes
    <3>2. End(finalCrc').type = "FILE_END" /\ Exact(End(finalCrc').crc)
      BY <2>2 DEF End, Exact
    <3> QED
      BY <2>1, <3>1, <3>2, SentFrame
  <2>4. Len(toDevice) = 0
    BY <2>1 DEF AnswerInv
  <2>5. AnswerInv'
    BY <2>1, <2>4 DEF AnswerInv, Quiet
  <2> QED
    BY <1>4, <1>5, <2>1, <2>3, <2>5
<1>14. CASE ArmFileAck
  <2>1. /\ pc = "arm" /\ pc' = "wait" /\ UNCHANGED <<file, synced, down, toDevice>>
        /\ ack'.sem = 0
    BY <1>14 DEF ArmFileAck
  <2>2. AnswerInv'
    BY <1>8, <2>1 DEF AnswerInv, Quiet
  <2> QED
    BY <1>4, <1>5, <1>6, <2>1, <2>2
<1>15. CASE FileAckTimeout
  <2>1. /\ pc = "wait" /\ pc' = "file_end" /\ Len(down) = 0 /\ Len(toDevice) = 0
        /\ UNCHANGED <<file, synced, down, toDevice>>
    BY <1>15, Timely = TRUE DEF FileAckTimeout
  <2>2. AnswerInv'
    BY <2>1 DEF AnswerInv, Quiet
  <2> QED
    BY <1>4, <1>5, <1>7, <2>1, <2>2
<1>16. CASE FileAckOk
  <2>1. /\ pc = "wait" /\ ack.sem = 1 /\ ack.ok /\ synced' = file
        /\ pc' \in {"start", "done"}
        /\ pc' = "start" => file' = file + 1
        /\ pc' = "done" => file' = file
        /\ UNCHANGED <<down, toDevice>>
    BY <1>16 DEF FileAckOk
  <2>2. Quiet /\ Has /\ synced = file - 1
    BY <2>1 DEF AnswerInv, CountInv
  <2>3. FrameInv'
    BY <1>7, <2>1, <2>2 DEF Quiet
  <2>4. AnswerInv'
    BY <2>1, <2>2 DEF AnswerInv, Quiet
  <2>5. CurInv'
    BY <1>3, <2>1, <2>2 DEF CurInv, Has
  <2>6. CountInv'
    BY <2>1 DEF CountInv
  <2> QED
    BY <2>1, <2>2, <2>3, <2>4, <2>5, <2>6 DEF OrderInv, Has
<1>17. CASE FileAckNack
  <2>1. /\ pc = "wait" /\ ack.sem = 1 /\ pc' = "repair"
        /\ UNCHANGED <<file, synced, down, toDevice>>
    BY <1>17 DEF FileAckNack
  <2>2. Quiet
    BY <2>1 DEF AnswerInv
  <2>3. AnswerInv'
    BY <2>1, <2>2 DEF AnswerInv, Quiet
  <2> QED
    BY <1>4, <1>5, <1>7, <2>1, <2>2, <2>3 DEF Quiet
<1>18. CASE Repair
  <2>1. /\ pc = "repair" /\ pc' \in {"start", "selective"}
        /\ UNCHANGED <<file, synced, down, toDevice>>
    BY <1>18 DEF Repair
  <2>2. AnswerInv'
    BY <2>1 DEF AnswerInv, Quiet
  <2> QED
    BY <1>4, <1>5, <1>6, <2>1, <2>2
<1>19. CASE ResendMissing
  <2>1. /\ pc = "selective" /\ UNCHANGED <<pc, file, synced, toDevice>>
        /\ \E s \in ToResend : /\ down' = Enqueue(down, Data(s, <<file, s>>))
                               /\ pos' = s + 1
    BY <1>19 DEF ResendMissing
  <2>2. PICK s \in Seqs : down' = Enqueue(down, Data(s, <<file, s>>)) /\ pos' = s + 1
    BY <2>1 DEF ToResend
  <2>3. FrameInv'
    <3>1. <<file, s>> \in Nat \X Nat
      BY DEF Seqs
    <3>2. Data(s, <<file, s>>) \in Frames /\ Data(s, <<file, s>>).type = "DATA"
      BY <3>1, FrameTypes DEF Data
    <3> QED
      BY <2>1, <2>2, <3>2, SentFrame
  <2>4. pos' # 0
    BY <2>2 DEF Seqs
  <2>5. AnswerInv'
    BY <2>1, <2>4 DEF AnswerInv, Quiet
  <2> QED
    BY <1>4, <1>5, <2>1, <2>3, <2>5
<1>20. CASE RepairSent
  <2>1. /\ pc = "selective" /\ pc' = (IF pos = 0 THEN "start" ELSE "file_end")
        /\ tries' = 0 /\ UNCHANGED <<file, synced, down, toDevice>>
    BY <1>20 DEF RepairSent
  <2>2. AnswerInv'
    BY <2>1 DEF AnswerInv, Quiet
  <2> QED
    BY <1>4, <1>5, <1>6, <2>1, <2>2
<1>21. CASE GiveUp
  <2>1. /\ pc = "repair" \/ (pc = "file_end" /\ tries > 0)
        /\ pc' = "done" /\ UNCHANGED <<file, synced, down, toDevice>>
    BY <1>21 DEF GiveUp
  <2>2. Quiet
    BY <2>1 DEF AnswerInv
  <2>3. AnswerInv'
    BY <2>1, <2>2 DEF AnswerInv, Quiet
  <2>4. CountInv'
    BY <2>1 DEF CountInv
  <2> QED
    BY <1>4, <1>7, <2>1, <2>2, <2>3, <2>4 DEF Quiet
<1>22. CASE SendTransferDone
  <2>1. /\ pc = "done" /\ pc' = "over" /\ UNCHANGED <<file, synced, toDevice>>
        /\ down' = Enqueue(down, Done(synced))
    BY <1>22 DEF SendTransferDone
  <2>2. FrameInv'
    <3>1. Done(synced) \in Frames /\ Done(synced).type = "TRANSFER_DONE"
      BY FrameTypes DEF Done
    <3> QED
      BY <2>1, <3>1, SentFrame
  <2>3. Len(toDevice) = 0
    BY <2>1 DEF AnswerInv, Quiet
  <2>4. AnswerInv'
    BY <2>1, <2>3 DEF AnswerInv, Quiet
  <2> QED
    BY <1>4, <1>5, <2>1, <2>2, <2>4
<1> QED
  BY <1>10, <1>11, <1>12, <1>13, <1>14, <1>15, <1>16, <1>17, <1>18, <1>19, <1>20, <1>21,
     <1>22
     DEF TransferThread

\* The link stays ready, so the network only delivers an answer or loses a datagram
LEMMA NetworkOrder ==
  ASSUME IInv, Associated, Associated', Network, UNCHANGED client
  PROVE  OrderInv' /\ synced' = synced
<1>1. /\ FrameInv /\ AnswerInv /\ CurInv /\ CountInv /\ Types /\ CrcInv
      /\ UNCHANGED <<cur, got, files>> /\ LinkTypes
  BY DEF IInv, OrderInv, client, Types
<1>2. /\ down \in Seq(Frames) /\ toDevice \in Seq(Acks)
      /\ Len(down) \in Nat /\ Len(toDevice) \in Nat
      /\ ~StaConnected /\ budget'.torn = budget.torn
  BY <1>1, HistoryStep DEF LinkTypes, LinkTypeOK
<1> USE <1>1, <1>2
<1>3. UNCHANGED Assembled
  BY DEF Assembled, Missing
<1>4. ASSUME UNCHANGED txThread, FrameInv', AnswerInv'
      PROVE  OrderInv' /\ synced' = synced
  BY <1>3, <1>4 DEF OrderInv, CurInv, CountInv, txThread
<1>5. ASSUME NEW i \in DOMAIN toDevice, toDevice' = RemoveAt(toDevice, i)
      PROVE  /\ Len(toDevice) = 1 /\ i = 1 /\ Len(toDevice') = 0
             /\ Len(down) = 0 /\ pc \in {"arm", "wait"}
             /\ toDevice[1].ok => Has
  <2>1. i \in 1..Len(toDevice) /\ Len(toDevice') = Len(toDevice) - 1
    BY <1>5, RemoveAtType
  <2>2. Len(toDevice) = 1 /\ Len(down) = 0 /\ pc \in {"arm", "wait"}
        /\ (toDevice[1].ok => Has)
    BY <2>1 DEF AnswerInv
  <2> QED
    BY <2>1, <2>2
<1>6. CASE ReceivePacket
  <2>1. PICK i \in DOMAIN toDevice :
           /\ toDevice' = RemoveAt(toDevice, i)
           /\ ack' = [ok |-> toDevice[i].ok, missing |-> toDevice[i].missing, sem |-> 1]
    BY <1>6 DEF ReceivePacket, Arrivals
  <2>2. UNCHANGED <<txThread, down>>
    BY <1>6 DEF ReceivePacket
  <2>3. /\ i = 1 /\ Len(toDevice') = 0 /\ Len(down) = 0 /\ pc \in {"arm", "wait"}
        /\ toDevice[1].ok => Has
    BY <1>5, <2>1
  <2>4. ack'.ok => Has'
    BY <1>3, <2>1, <2>2, <2>3 DEF Has, txThread
  <2>5. FrameInv'
    BY <2>2, <2>3 DEF FrameInv, txThread
  <2>6. AnswerInv'
    BY <2>2, <2>3, <2>4 DEF AnswerInv, Quiet, txThread
  <2> QED
    BY <1>4, <2>2, <2>5, <2>6
<1>7. CASE ReceiveHeartbeat
  BY <1>7 DEF ReceiveHeartbeat, CrcInv
<1>8. CASE Lose
  <2>1. UNCHANGED <<txThread, ack>>
    BY <1>8 DEF Lose
  <2>2. CASE \E i \in DOMAIN down : down' = RemoveAt(down, i) /\ UNCHANGED toDevice
    <3>1. PICK i \in DOMAIN down : down' = RemoveAt(down, i) /\ UNCHANGED toDevice
      BY <2>2
    <3>2. FrameInv' /\ Len(down') = Len(down) - 1 /\ Len(down) # 0
      BY <2>1, <3>1, GoneFrame DEF txThread
    <3>3. Len(toDevice') = 0 /\ ~(pc = "wait" /\ ack.sem = 1)
          /\ pc \notin {"start", "repair", "done"} /\ ~(pc = "file_end" /\ tries > 0)
          /\ ~(pc = "selective" /\ pos = 0)
      BY <3>1, <3>2 DEF AnswerInv, Quiet
    <3>4. AnswerInv'
      BY <2>1, <3>3 DEF AnswerInv, Quiet, txThread
    <3> QED
      BY <1>4, <2>1, <3>2, <3>4
  <2>3. CASE \E i \in DOMAIN toDevice :
                toDevice' = RemoveAt(toDevice, i) /\ UNCHANGED down
    <3>1. Len(toDevice') = 0 /\ Len(down) = 0 /\ pc \in {"arm", "wait"} /\ UNCHANGED down
      BY <1>5, <2>3
    <3>2. FrameInv'
      BY <3>1 DEF FrameInv
    <3>3. pc = "wait" /\ ack.sem = 1 /\ ack.ok => Has'
      BY <1>3, <2>1 DEF AnswerInv, Has, txThread
    <3>4. AnswerInv'
      BY <2>1, <3>1, <3>3 DEF AnswerInv, Quiet, txThread
    <3> QED
      BY <1>4, <2>1, <3>2, <3>4
  <2> QED
    BY <1>8, <2>2, <2>3 DEF Lose
<1> QED
  BY <1>6, <1>7, <1>8 DEF Network

\* A frame arrives: while there is one, no answer is in flight or taken
LEMMA ReceiveOrder ==
  ASSUME Fifo = TRUE, IInv, Associated, ClientReceive
  PROVE  /\ OrderInv' /\ synced' = synced
         /\ \/ files' = files
            \/ synced = file - 1 /\ files' = [files EXCEPT ![file] = Content(file)]
<1>1. /\ FrameInv /\ AnswerInv /\ CurInv /\ CountInv /\ Types /\ LinkTypes
      /\ UNCHANGED <<txThread, ack, budget>> /\ CrcInv
  BY DEF IInv, OrderInv, ClientReceive, Types
<1>2. /\ down \in Seq(Frames) /\ toDevice \in Seq(Acks)
      /\ Len(down) \in Nat /\ Len(toDevice) \in Nat
      /\ ack \in [ok : BOOLEAN, missing : SUBSET Nat, sem : {0, 1}]
      /\ file \in 1..NFiles /\ ReceiverTypes
      /\ files \in [1..NFiles -> Seq(Frame)] /\ cur \in 0..NFiles
  BY <1>1 DEF Types, LinkTypes, LinkTypeOK, ReceiverTypes
<1> DEFINE m == down[1]
<1>3. /\ down' = RemoveAt(down, 1) /\ 1 \in DOMAIN down
      /\ OnFileStart(m) \/ OnData(m) \/ OnFileEnd(m) \/ OnTransferDone(m)
  BY DEF ClientReceive, Arrivals
<1>4. FrameInv' /\ Len(down') = Len(down) - 1 /\ Len(down) # 0
  BY <1>1, <1>3, GoneFrame DEF txThread
<1> USE <1>1, <1>2
<1>5. /\ Len(toDevice) = 0 /\ ~(pc = "wait" /\ ack.sem = 1)
      /\ pc \notin {"start", "repair", "done"} /\ ~(pc = "file_end" /\ tries > 0)
      /\ ~(pc = "selective" /\ pos = 0)
  BY <1>4 DEF AnswerInv, Quiet
<1>6. ASSUME UNCHANGED <<toDevice, files>>, CurInv'
      PROVE  OrderInv' /\ synced' = synced /\ files' = files
  <2>1. AnswerInv'
    BY <1>5, <1>6 DEF AnswerInv, Quiet, txThread
  <2>2. CountInv' /\ synced' = synced
    BY DEF CountInv, txThread
  <2> QED
    BY <1>4, <1>6, <2>1, <2>2 DEF OrderInv
<1>7. CASE OnFileStart(m)
  <2>1. m.file = file
    BY <1>3, <1>7 DEF OnFileStart, FrameInv
  <2>2. CurInv'
    BY <1>7, <2>1 DEF OnFileStart, CurInv, txThread
  <2> QED
    BY <1>6, <1>7, <2>2 DEF OnFileStart
<1>8. CASE OnData(m)
  <2>1. UNCHANGED <<cur, files, toDevice, file>>
    BY <1>8 DEF OnData, txThread
  <2>2. CASE cur \in {0, file}
    BY <1>6, <2>1, <2>2 DEF CurInv
  <2>3. CASE cur = file - 1 /\ Assembled = Content(cur)
    <3>1. Assembled # <<>>
      BY <2>3, ContentDiffers
    <3>2. Seqs \subseteq DOMAIN got
      BY <3>1, AssembledType DEF Missing
    <3>3. m.seq \in Seqs
      <4>1. m \in Frames
        BY <1>3, ElementOfSeq
      <4> QED
        BY <1>8, <4>1 DEF OnData, Frames
    <3>4. got' = got
      BY <1>8, <3>2, <3>3 DEF OnData
    <3>5. Assembled' = Assembled
      BY <3>4 DEF Assembled, Missing
    <3> QED
      BY <1>6, <2>1, <2>3, <3>5 DEF CurInv
  <2> QED
    BY <2>2, <2>3 DEF CurInv
<1>9. CASE OnTransferDone(m)
  <2>1. UNCHANGED <<cur, got, files, toDevice, file>>
    BY <1>9 DEF OnTransferDone, txThread
  <2>2. CurInv'
    BY <2>1 DEF CurInv, Assembled, Missing
  <2> QED
    BY <1>6, <2>1, <2>2
\* FILE_END: the answer is the only datagram in flight
<1>10. CASE OnFileEnd(m)
  <2>1. /\ m.crc = Content(file) /\ pc \in {"arm", "wait"}
        /\ Len(down') = 0 /\ synced = file - 1
    BY <1>3, <1>4, <1>10 DEF OnFileEnd, FrameInv, CountInv, CrcInv, Exact
  <2>2. UNCHANGED <<cur, got>>
    BY <1>10 DEF OnFileEnd
  <2>3. UNCHANGED Assembled
    BY <2>2 DEF Assembled, Missing
  <2>4. CurInv' /\ CountInv' /\ synced' = synced
    BY <2>2, <2>3 DEF CurInv, CountInv, txThread
  <2>5. ASSUME NEW a \in Acks, toDevice' = Enqueue(toDevice, a), a.ok => Has'
        PROVE  OrderInv'
    <3>1. Len(toDevice') = 0 \/ (Len(toDevice') = 1 /\ toDevice'[1] = a)
      <4>1. toDevice' = toDevice \/ toDevice' = Append(toDevice, a)
        BY <2>5 DEF Enqueue
      <4>2. CASE toDevice' = Append(toDevice, a)
        <5>1. Len(toDevice') = Len(toDevice) + 1 /\ toDevice'[Len(toDevice) + 1] = a
          BY <4>2, AppendProperties
        <5> QED
          BY <1>5, <5>1
      <4> QED
        BY <1>5, <4>1, <4>2
    <3>2. pc = "wait" => ack.sem = 0
      BY <1>5
    <3>3. AnswerInv'
      BY <1>5, <2>1, <2>5, <3>1, <3>2 DEF AnswerInv, Quiet, txThread
    <3> QED
      BY <1>4, <2>4, <3>3 DEF OrderInv
  <2>6. CASE cur # 0 /\ Missing = {} /\ Assembled = m.crc
    <3>1. cur = file
      <4>1. cur \in {0, file} \/ (cur = file - 1 /\ Content(cur) = Content(file))
        BY <2>1, <2>6 DEF CurInv
      <4> QED
        BY <2>6, <4>1, ContentDiffers
    <3>2. files' = [files EXCEPT ![file] = Content(file)]
          /\ toDevice' = Enqueue(toDevice, Ok)
      <4>1. Missing = {}
        BY <2>6
      <4> QED
        BY <1>10, <2>1, <2>6, <3>1, <4>1 DEF OnFileEnd
    <3>3. Has'
      BY <2>1, <2>2, <2>3, <2>6, <3>1, <3>2 DEF Has, txThread
    <3>4. OrderInv'
      BY <2>5, <3>2, <3>3, FrameTypes
    <3> QED
      BY <2>1, <2>4, <3>2, <3>4
  <2>7. CASE ~(cur # 0 /\ Missing = {} /\ Assembled = m.crc)
    <3> DEFINE a == Nack(IF cur = 0 THEN {} ELSE Missing)
    <3>1. toDevice' = Enqueue(toDevice, a) /\ files' = files
      BY <1>10, <2>7 DEF OnFileEnd
    <3>2. a \in Acks /\ ~a.ok
      <4>1. (IF cur = 0 THEN {} ELSE Missing) \in SUBSET Nat
        BY AssembledType
      <4> QED
        BY <4>1, FrameTypes DEF Nack
    <3> HIDE DEF a
    <3>3. OrderInv'
      BY <2>5, <3>1, <3>2
    <3> QED
      BY <2>4, <3>1, <3>3
  <2> QED
    BY <2>6, <2>7
<1> QED
  BY <1>3, <1>7, <1>8, <1>9, <1>10

-----------------------------------------------------------------------------
(* The theorem                                                              *)

\* What is asked of the network: datagrams keep their order, and an answer takes
\* less than the device waits for it
Orderly == Fifo = TRUE /\ Timely = TRUE

LEMMA StaysAssociated ==
  ASSUME Types, [Next]_vars, Associated'
  PROVE  Associated
  BY HistoryStep DEF Types, Next, ClientReceive, vars, linkVars

LEMMA CrcStep ==
  ASSUME Types, CrcInv, Associated, [Next]_vars
  PROVE  CrcInv'
<1>1. CASE (TransferThread \/ Network) /\ UNCHANGED client
  BY <1>1, CrcThread, CrcNetwork DEF Types
<1>2. CASE UNCHANGED <<txThread, udpFile, ack, ready, budget>>
  BY <1>2, CrcClient
<1> QED
  BY <1>1, <1>2 DEF Next, ClientReceive, vars, linkVars

LEMMA IInvInit == Init => IInv
  BY TypesInit, CrcInit, OrderInit DEF Init, IInv

LEMMA IInvStep == Orderly /\ IInv /\ [Next]_vars => IInv'
<1> SUFFICES ASSUME Orderly, IInv, [Next]_vars PROVE IInv'
  OBVIOUS
<1>1. Types'
  BY TypesStep DEF IInv
<1>2. ASSUME Associated'
      PROVE  CrcInv' /\ OrderInv'
  <2>1. Associated /\ Types /\ CrcInv /\ OrderInv
    BY <1>2, StaysAssociated DEF IInv
  <2>2. CrcInv'
    BY <2>1, CrcStep
  <2>3. CASE UNCHANGED vars
    <3>1. UNCHANGED <<pc, file, pos, synced, tries, ack, down, toDevice, budget, client>>
      BY <2>3 DEF vars, linkVars, txThread, net
    <3>2. FrameInv' /\ CountInv'
      BY <2>1, <3>1 DEF OrderInv, FrameInv, Exact, CountInv
    <3>3. AnswerInv' /\ CurInv'
      BY <2>1, <3>1 DEF OrderInv, AnswerInv, CurInv, Has, Assembled, Missing, Quiet, client
    <3> QED
      BY <2>2, <3>2, <3>3 DEF OrderInv
  <2> QED
    BY <1>2, <2>1, <2>2, <2>3, ThreadOrder, NetworkOrder, ReceiveOrder DEF Orderly, Next
<1> QED
  BY <1>1, <1>2 DEF IInv

LEMMA PromiseInit == Init => Promise!Init
<1> SUFFICES ASSUME Init PROVE Promise!Init
  OBVIOUS
<1>1. synced = 0 /\ files = [f \in 1..NFiles |-> <<>>]
  BY DEF Init, LinkInit
<1>2. \A f \in 1..NFiles : files[f] # Content(f)
  BY <1>1, ContentDiffers
<1> QED
  BY <1>1, <1>2 DEF Promise!Init, Saved

LEMMA PromiseStep ==
  ASSUME Orderly, IInv, [Next]_vars
  PROVE  [Associated' => Promise!Next]_<<Saved, synced>>
<1> SUFFICES ASSUME Associated' PROVE [Promise!Next]_<<Saved, synced>>
  OBVIOUS
<1>1. /\ file \in 1..NFiles /\ synced \in 0..NFiles
      /\ files \in [1..NFiles -> Seq(Frame)] /\ Associated
  BY StaysAssociated DEF IInv, Types, LinkTypes, LinkTypeOK, ReceiverTypes
<1>2. CASE (TransferThread \/ Network) /\ UNCHANGED client
  <2>1. UNCHANGED files
    BY <1>2 DEF client
  <2>2. synced' = synced
          \/ (synced' = synced + 1 /\ synced' = file /\ files[file] = Content(file))
    BY <1>1, <1>2, ThreadOrder, NetworkOrder DEF Orderly
  <2>3. CASE synced' = synced + 1 /\ synced' = file /\ files[file] = Content(file)
    <3>1. synced + 1 \in Saved /\ Saved' = Saved
      BY <1>1, <2>1, <2>3 DEF Saved
    <3> QED
      BY <2>3, <3>1 DEF Promise!Next, Promise!Confirm
  <2> QED
    BY <2>1, <2>2, <2>3 DEF Saved
<1>3. CASE ClientReceive
  <2>1. /\ synced' = synced
        /\ \/ files' = files
           \/ synced = file - 1 /\ files' = [files EXCEPT ![file] = Content(file)]
    BY <1>1, <1>3, ReceiveOrder DEF Orderly
  <2>2. CASE synced = file - 1 /\ files' = [files EXCEPT ![file] = Content(file)]
    <3>1. synced < NFiles /\ synced + 1 = file
      BY <1>1, <2>2, UdpLinkAssumption
    <3>2. Saved' = Saved \union {file}
      BY <1>1, <2>2 DEF Saved
    <3> QED
      BY <2>1, <3>1, <3>2 DEF Promise!Next, Promise!Save
  <2> QED
    BY <2>1, <2>2 DEF Saved
<1>4. CASE UNCHANGED vars
  BY <1>4 DEF vars, client, linkVars, txThread, Saved
<1> QED
  BY <1>2, <1>3, <1>4 DEF Next

\* Until the station re-associates, the session transfer does what FileSync allows,
\* step by step: the client saves the file after the synced ones, then the device
\* counts it.  Frames it kept of one file are never taken for another's
THEOREM SelectiveKeepsPromise ==
  ASSUME Orderly
  PROVE  Spec => KeepsPromise
<1>1. /\ Init => Promise!Init /\ IInv
      /\ IInv /\ [Next]_vars => IInv'
  BY IInvInit, IInvStep, PromiseInit
<1>2. ASSUME IInv, [Next]_vars
      PROVE  [Associated' => Promise!Next]_<<Saved, synced>>
  BY <1>2, PromiseStep
<1> QED
  BY <1>1, <1>2, PTL DEF Spec, KeepsPromise

================================================================================
