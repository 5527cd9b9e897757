--------------------------- MODULE UdpPython_proofs ---------------------------
(***************************************************************************)
(* Theorems about the device with the Python client, for every value of the *)
(* constants.  This client closes its file when it answers and gives up at  *)
(* the first frame out of place: order on the way is all it needs.          *)
(***************************************************************************)
EXTENDS UdpPython, UdpLink_proofs

-----------------------------------------------------------------------------
(* Type correctness                                                         *)

Frame  == Nat \X Nat
Handle == [name : 0..NFiles, data : Seq(Frame), expected : Nat, invalid : BOOLEAN]

\* A file is open under its name, and only while the download runs
ReceiverTypes ==
    /\ handle \in Handle
    /\ Open => handle.name \in 1..NFiles /\ result = "running"
    /\ files \in [1..NFiles -> Seq(Frame)]
    /\ result \in {"running", "done", "failed"}

LEMMA NoFileType == NoFile \in Handle
  BY UdpLinkAssumption DEF NoFile, Handle

LEMMA OpenedType ==
  ASSUME NEW h \in Handle, NEW f \in 1..NFiles
  PROVE  [h EXCEPT !.name = f] \in Handle /\ [h EXCEPT !.name = f].name = f
  BY UdpLinkAssumption DEF Handle

LEMMA ReceiverInit == Init => ReceiverTypes
  BY NoFileType DEF Init, ReceiverTypes, Open

\* One datagram, as the receiver handles it
LEMMA HandleTypes ==
  ASSUME ReceiverTypes, toDevice \in Seq(Acks), NEW m \in Frames, result = "running",
         OnFileStart(m) \/ OnData(m) \/ OnFileEndOk(m) \/ OnFileEndBad(m)
           \/ OnTransferDone(m) \/ OnMisplaced(m)
  PROVE  ReceiverTypes' /\ toDevice' \in Seq(Acks)
<1> USE UdpLinkAssumption
<1>0. /\ m.type = "FILE_START" => m.file \in 1..NFiles
      /\ m.type = "DATA" => m.seq \in Nat /\ m.data \in Frame
  BY DEF Frames, Frame, Seqs
<1>1. CASE OnFileStart(m)
  <2>1. handle' = [NoFile EXCEPT !.name = m.file] /\ m.file \in 1..NFiles
    BY <1>0, <1>1 DEF OnFileStart
  <2>2. handle' \in Handle /\ handle'.name \in 1..NFiles
    BY <2>1, NoFileType, OpenedType, Zenon
  <2> QED
    BY <1>1, <2>2 DEF OnFileStart, NoAnswer, ReceiverTypes, Open
<1>2. CASE OnData(m)
  <2>1. /\ handle' = [handle EXCEPT !.data = Append(@, m.data), !.expected = m.seq + 1,
                                    !.invalid = @ \/ m.seq # handle.expected]
        /\ m.seq \in Nat /\ m.data \in Frame /\ Open
        /\ UNCHANGED <<files, result, toDevice>>
    BY <1>0, <1>2 DEF OnData, NoAnswer
  <2>2. /\ Append(handle.data, m.data) \in Seq(Frame) /\ m.seq + 1 \in Nat
        /\ (handle.invalid \/ m.seq # handle.expected) \in BOOLEAN
    BY <2>1 DEF ReceiverTypes, Handle
  <2>3. handle' \in Handle /\ handle'.name = handle.name
    BY <2>1, <2>2 DEF ReceiverTypes, Handle
  <2> QED
    BY <2>1, <2>3 DEF ReceiverTypes
<1>3. CASE OnFileEndOk(m)
  <2>1. handle.data \in Seq(Frame)
    BY DEF ReceiverTypes, Handle
  <2>2. files' \in [1..NFiles -> Seq(Frame)]
    BY <1>3, <2>1 DEF OnFileEndOk, ReceiverTypes
  <2>3. toDevice' \in Seq(Acks)
    BY <1>3, EnqueueType, FrameTypes DEF OnFileEndOk
  <2> QED
    BY <1>3, <2>2, <2>3, NoFileType DEF OnFileEndOk, ReceiverTypes, Open
<1>4. CASE OnFileEndBad(m)
  <2>1. toDevice' \in Seq(Acks)
    BY <1>4, EnqueueType, FrameTypes DEF OnFileEndBad
  <2> QED
    BY <1>4, <2>1, NoFileType DEF OnFileEndBad, ReceiverTypes, Open
<1>5. CASE OnTransferDone(m)
  BY <1>5 DEF OnTransferDone, NoAnswer, ReceiverTypes, Open
<1>6. CASE OnMisplaced(m)
  BY <1>6, NoFileType DEF OnMisplaced, Fail, NoAnswer, ReceiverTypes, Open
<1> QED
  BY <1>1, <1>2, <1>3, <1>4, <1>5, <1>6

Types == LinkTypes /\ ReceiverTypes

LEMMA TypesInit == Init => Types
  BY LinkTypesInit, ReceiverInit DEF Types, Init

LEMMA TypesStep == Types /\ [Next]_vars => Types'
<1> SUFFICES ASSUME Types, [Next]_vars PROVE Types'
  OBVIOUS
<1>0. down \in Seq(Frames) /\ toDevice \in Seq(Acks)
  BY DEF Types, LinkTypes, LinkTypeOK
<1>1. CASE (TransferThread \/ Network) /\ UNCHANGED client
  <2>1. ReceiverTypes'
    BY <1>1 DEF Types, client, ReceiverTypes, Open
  <2> QED
    BY <1>1, <2>1, ThreadTypes, NetworkTypes DEF Types
<1>2. CASE ClientReceive
  <2>1. PICK i \in DOMAIN down :
           /\ down' = RemoveAt(down, i)
           /\ \/ result = "running" /\ ( OnFileStart(down[i]) \/ OnData(down[i])
                   \/ OnFileEndOk(down[i]) \/ OnFileEndBad(down[i])
                   \/ OnTransferDone(down[i]) \/ OnMisplaced(down[i]))
              \/ NoAnswer /\ UNCHANGED client
    BY <1>2 DEF ClientReceive, Arrivals
  <2>2. down' \in Seq(Frames) /\ down[i] \in Frames
    BY <1>0, <2>1, RemoveAtType
  <2>3. ReceiverTypes' /\ toDevice' \in Seq(Acks)
    <3>1. CASE NoAnswer /\ UNCHANGED client
      BY <1>0, <3>1 DEF NoAnswer, client, Types, ReceiverTypes, Open
    <3> QED
      BY <1>0, <2>1, <2>2, <3>1, HandleTypes DEF Types
  <2>4. UNCHANGED <<txThread, udpFile, ack, ready, budget>>
    BY <1>2 DEF ClientReceive
  <2> QED
    BY <2>2, <2>3, <2>4, ClientTypes DEF Types
<1>3. CASE WaitTimeout
  <2>1. LinkTypes'
    BY <1>3 DEF Types, LinkTypes, LinkTypeOK, WaitTimeout, linkVars, txThread, udpFile, net
  <2>2. ReceiverTypes'
    BY <1>3, NoFileType DEF WaitTimeout, Types, ReceiverTypes, Open
  <2> QED
    BY <2>1, <2>2 DEF Types
<1>4. CASE UNCHANGED vars
  BY <1>4
     DEF vars, linkVars, txThread, udpFile, net, client, Types, LinkTypes, LinkTypeOK,
         ReceiverTypes, Open
<1> QED
  BY <1>1, <1>2, <1>3, <1>4 DEF Next

LEMMA Named == Types => DOMAIN files = 1..NFiles /\ synced \in 0..NFiles
  BY DEF Types, ReceiverTypes, LinkTypes, LinkTypeOK

LEMMA TypesAreCode == Types => TypeOK
  BY DEF Types, LinkTypes, ReceiverTypes, TypeOK, Handle, Frame

\* Every variable keeps to the values its code can give it, whatever the network
\* does
THEOREM PythonTypes == Spec => []TypeOK
  BY TypesAreCode, TypesInit, TypesStep, PTL DEF Spec

-----------------------------------------------------------------------------
(* One token                                                                *)

Announced(i) == down[i].type = "FILE_START"
Taken        == pc = "wait" /\ ack.sem = 1
Saved(f)     == files[f] = Content(f)

\* Nothing has been asked of the client that it has not answered
NoToken == /\ ~Open /\ Len(toDevice) = 0 /\ ~Taken
           /\ \A i \in 1..Len(down) : ~Announced(i)

\* A FILE_START on its way, the open file, its answer on its way, the answer taken:
\* there is one of these at most, it is about the file being sent, and there is none
\* when the next FILE_START is sent
TokenInv ==
    /\ \A i, j \in 1..Len(down) : Announced(i) /\ Announced(j) => i = j
    /\ \A i \in 1..Len(down) : Announced(i) =>
          down[i].file = file /\ ~Open /\ Len(toDevice) = 0 /\ ~Taken
    /\ Open => handle.name = file /\ Len(toDevice) = 0 /\ ~Taken
    /\ Len(toDevice) # 0 =>
          Len(toDevice) = 1 /\ ~Taken /\ (toDevice[1].ok => Saved(file))
    /\ Taken /\ ack.ok => Saved(file)
    /\ pc \in {"start", "repair", "selective"} \/ synced = file => NoToken

\* The FILE_END of a whole file that the client will compare with what it has is
\* that of the file it has open then
EndInv ==
    \A i \in 1..Len(down) :
        /\ Open \/ \E k \in 1..Len(down) : k < i /\ Announced(k)
        /\ down[i].type = "FILE_END" /\ Len(down[i].crc) = NFrames
        => down[i].crc = Content(file)

CountInv ==
    /\ pc \notin {"done", "over"} => synced = file - 1
    /\ pc \in {"done", "over"} => synced \in {file - 1, file}

OrderInv == TokenInv /\ EndInv /\ CountInv /\ SavedIntact

IInv == Types /\ WholeInv /\ OrderInv

LEMMA OrderInit == Init => OrderInv
<1> SUFFICES ASSUME Init PROVE OrderInv
  OBVIOUS
<1>1. Len(down) = 0 /\ Len(toDevice) = 0 /\ ~Open /\ pc = "start" /\ file = 1 /\ synced = 0
  BY DEF Init, LinkInit, Open
<1>2. TokenInv /\ EndInv /\ CountInv
  BY <1>1 DEF TokenInv, NoToken, EndInv, CountInv, Taken
<1>3. SavedIntact
  BY DEF Init, SavedIntact
<1> QED
  BY <1>2, <1>3 DEF OrderInv

LEMMA QuietEnd == NoToken => EndInv
  BY DEF NoToken, EndInv

\* A frame that is no FILE_START is sent
LEMMA SentPlain ==
  ASSUME Types, TokenInv, EndInv, NEW m \in Frames, down' = Enqueue(down, m),
         m.type # "FILE_START",
         m.type = "FILE_END" /\ Len(m.crc) = NFrames => m.crc = Content(file),
         UNCHANGED <<file, synced, handle, files, toDevice>>,
         pc # "wait", pc' # "wait",
         pc' \in {"start", "repair", "selective"} => pc \in {"start", "repair", "selective"}
  PROVE  TokenInv' /\ EndInv'
<1>1. /\ Len(down) \in Nat /\ Len(down') \in Nat
      /\ \A i \in 1..Len(down') :
            \/ i \in 1..Len(down) /\ down'[i] = down[i]
            \/ i = Len(down) + 1 /\ down'[i] = m
  BY SentAt DEF Types
<1>2. \A i \in 1..Len(down') : Announced(i)' =>
         i \in 1..Len(down) /\ Announced(i) /\ down'[i] = down[i]
  BY <1>1 DEF Announced
<1>3. ~Taken /\ ~Taken' /\ (Open' <=> Open)
  BY DEF Taken, Open
<1>4. NoToken => NoToken'
  BY <1>2, <1>3 DEF NoToken
<1>5. TokenInv'
  BY <1>2, <1>3, <1>4 DEF TokenInv, Saved
<1>6. EndInv'
  BY <1>1, <1>2, <1>3 DEF EndInv
<1> QED
  BY <1>5, <1>6

\* A datagram to the client is lost, or comes when nobody listens any more
LEMMA GonePlain ==
  ASSUME Types, TokenInv, EndInv, NEW i \in DOMAIN down, down' = RemoveAt(down, i),
         UNCHANGED <<pc, ack, file, synced, handle, files, toDevice>>
  PROVE  TokenInv' /\ EndInv'
<1>1. /\ i \in 1..Len(down) /\ Len(down) \in Nat /\ Len(down') = Len(down) - 1
      /\ \A j \in 1..Len(down') :
            Before(i, j) \in 1..Len(down) /\ down'[j] = down[Before(i, j)]
  BY GoneAt DEF Types
<1>2. \A j \in 1..Len(down') : Announced(j)' =>
         Before(i, j) \in 1..Len(down) /\ Announced(Before(i, j))
  BY <1>1 DEF Announced
<1>3. \A j, k \in 1..Len(down') : /\ Before(i, j) = Before(i, k) => j = k
                                  /\ k < j => Before(i, k) < Before(i, j)
  BY <1>1 DEF Before
<1>4. (Taken' <=> Taken) /\ (Open' <=> Open)
  BY DEF Taken, Open
<1>5. NoToken => NoToken'
  BY <1>2, <1>4 DEF NoToken
<1>6. TokenInv'
  <2>1. \A j, k \in 1..Len(down') : Announced(j)' /\ Announced(k)' => j = k
    BY <1>2, <1>3 DEF TokenInv
  <2>2. \A j \in 1..Len(down') : Announced(j)' =>
           down'[j].file = file /\ ~Open /\ Len(toDevice) = 0 /\ ~Taken
    BY <1>1, <1>2 DEF TokenInv
  <2> QED
    BY <1>4, <1>5, <2>1, <2>2 DEF TokenInv, Saved
<1>7. EndInv'
  BY <1>1, <1>2, <1>3, <1>4 DEF EndInv
<1> QED
  BY <1>6, <1>7

\* The transfer thread leaves the client alone
LEMMA ThreadOrder ==
  ASSUME IInv, TransferThread, UNCHANGED client
  PROVE  /\ OrderInv'
         /\ synced' = synced \/ (synced' = synced + 1 /\ synced' = file /\ Saved(file))
<1> USE UdpLinkAssumption
<1>1. /\ TokenInv /\ EndInv /\ CountInv /\ SavedIntact /\ Types /\ WholeInv
      /\ UNCHANGED <<handle, files>>
  BY DEF IInv, OrderInv, client
<1>2. /\ down \in Seq(Frames) /\ toDevice \in Seq(Acks)
      /\ Len(down) \in Nat /\ Len(toDevice) \in Nat
      /\ file \in 1..NFiles /\ synced \in 0..NFiles /\ tries \in Nat
      /\ ack \in [ok : BOOLEAN, missing : SUBSET Nat, sem : {0, 1}]
  BY <1>1 DEF Types, LinkTypes, LinkTypeOK
<1>3. SavedIntact' /\ (Open' <=> Open) /\ (\A f : Saved(f)' <=> Saved(f))
  BY <1>1 DEF SavedIntact, Open, Saved
<1> USE <1>1, <1>2 DEF udpFile, net
\* Nothing is sent
<1>4. ASSUME UNCHANGED <<file, synced, down, toDevice>>, ~Taken',
             pc' \in {"start", "repair", "selective"} =>
                pc \in {"start", "repair", "selective"} \/ Taken
      PROVE  TokenInv' /\ EndInv'
  <2>1. EndInv'
    BY <1>3, <1>4 DEF EndInv, Announced
  <2>2. NoToken' <=> (NoToken \/ (~Open /\ Len(toDevice) = 0
                                  /\ \A i \in 1..Len(down) : ~Announced(i)))
    BY <1>3, <1>4 DEF NoToken, Announced
  <2>3. Taken => NoToken'
    BY <2>2 DEF TokenInv
  <2>4. pc' \in {"start", "repair", "selective"} \/ synced' = file' => NoToken'
    BY <1>4, <2>2, <2>3 DEF TokenInv
  <2>5. TokenInv'
    BY <1>3, <1>4, <2>4 DEF TokenInv, Announced
  <2> QED
    BY <2>1, <2>5
<1>5. ASSUME UNCHANGED <<file, synced>>,
             pc \in {"done", "over"} <=> pc' \in {"done", "over"}
      PROVE  CountInv'
  BY <1>5 DEF CountInv
<1>6. ASSUME TokenInv', EndInv', CountInv'
      PROVE  OrderInv'
  BY <1>3, <1>6 DEF OrderInv
<1>10. CASE SendFileStart
  <2>1. /\ pc = "start" /\ pc' = "data" /\ UNCHANGED <<file, synced, toDevice>>
        /\ down' = down \/ down' = Enqueue(down, Start(file))
    BY <1>10 DEF SendFileStart
  <2>2. NoToken /\ ~Taken'
    BY <2>1 DEF TokenInv, Taken
  <2>3. CASE down' = down
    BY <1>4, <1>5, <1>6, <2>1, <2>2, <2>3
  <2>4. CASE down' = Enqueue(down, Start(file))
    <3>1. Start(file) \in Frames /\ Start(file).type = "FILE_START" /\ Start(file).file = file
      BY FrameTypes DEF Start
    <3>2. /\ Len(down) \in Nat /\ Len(down') \in Nat
          /\ \A i \in 1..Len(down') :
                \/ i \in 1..Len(down) /\ down'[i] = down[i]
                \/ i = Len(down) + 1 /\ down'[i] = Start(file)
      BY <2>4, <3>1, SentAt DEF Types
    <3>3. \A i \in 1..Len(down') : Announced(i)' => i = Len(down) + 1 /\ down'[i].file = file
      BY <2>2, <3>1, <3>2 DEF NoToken, Announced
    <3>4. /\ ~Open' /\ Len(toDevice') = 0 /\ ~Taken' /\ synced' # file'
          /\ pc' \notin {"start", "repair", "selective"}
      BY <1>3, <2>1, <2>2 DEF NoToken, CountInv
    <3>5. TokenInv'
      BY <2>1, <3>3, <3>4 DEF TokenInv
    <3>6. EndInv'
      <4>1. ASSUME NEW i \in 1..Len(down'), NEW k \in 1..Len(down'),
                   k < i, Announced(k)', down'[i].type = "FILE_END"
            PROVE  FALSE
        BY <3>2, <3>3, <4>1
      <4> QED
        BY <3>4, <4>1 DEF EndInv
    <3> QED
      BY <1>5, <1>6, <2>1, <3>5, <3>6
  <2> QED
    BY <2>1, <2>3, <2>4
<1>11. CASE SendFileData
  <2>1. /\ pc = "data" /\ UNCHANGED <<pc, file, synced, toDevice>>
        /\ down' = Enqueue(down, Data(nextSeq, <<file, pos>>))
        /\ nextSeq \in Seqs /\ <<file, pos>> \in Nat \X Nat
    BY <1>11 DEF SendFileData, Types, LinkTypes, LinkTypeOK, Seqs
  <2>2. Data(nextSeq, <<file, pos>>) \in Frames
        /\ Data(nextSeq, <<file, pos>>).type = "DATA"
    BY <2>1, FrameTypes DEF Data
  <2>3. TokenInv' /\ EndInv'
    BY <2>1, <2>2, SentPlain
  <2> QED
    BY <1>5, <1>6, <2>1, <2>3
<1>12. CASE EndOfFile
  <2>1. pc = "data" /\ pc' = "file_end" /\ UNCHANGED <<file, synced, down, toDevice>>
    BY <1>12 DEF EndOfFile
  <2> QED
    BY <1>4, <1>5, <1>6, <2>1 DEF Taken
<1>13. CASE SendFileEnd
  <2>1. /\ pc = "file_end" /\ pc' = "arm" /\ UNCHANGED <<file, synced, toDevice>>
        /\ down' = Enqueue(down, End(finalCrc'))
        /\ finalCrc' = IF tries = 0 THEN crc ELSE finalCrc
    BY <1>13 DEF SendFileEnd
  <2>2. /\ finalCrc' \in Seq(Nat \X Nat)
        /\ Len(finalCrc') = NFrames => finalCrc' = Content(file)
    BY <2>1 DEF WholeInv, Types, LinkTypes, LinkTypeOK
  <2>3. /\ End(finalCrc') \in Frames /\ End(finalCrc').type = "FILE_END"
        /\ End(finalCrc').crc = finalCrc'
    BY <2>2, FrameTypes DEF End
  <2>4. TokenInv' /\ EndInv'
    BY <2>1, <2>2, <2>3, SentPlain
  <2> QED
    BY <1>5, <1>6, <2>1, <2>4
<1>14. CASE ArmFileAck
  <2>1. /\ pc = "arm" /\ pc' = "wait" /\ UNCHANGED <<file, synced, down, toDevice>>
        /\ ack'.sem = 0
    BY <1>14 DEF ArmFileAck
  <2> QED
    BY <1>4, <1>5, <1>6, <2>1 DEF Taken
<1>15. CASE FileAckTimeout
  <2>1. /\ pc = "wait" /\ pc' = "file_end" /\ UNCHANGED <<file, synced, down, toDevice>>
    BY <1>15 DEF FileAckTimeout
  <2> QED
    BY <1>4, <1>5, <1>6, <2>1 DEF Taken
<1>16. CASE FileAckOk
  <2>1. /\ pc = "wait" /\ Taken /\ ack.ok /\ synced' = file
        /\ pc' \in {"start", "done"}
        /\ pc' = "start" => file' = file + 1
        /\ pc' = "done" => file' = file
        /\ UNCHANGED <<down, toDevice>>
    BY <1>16 DEF FileAckOk, Taken
  <2>2. Saved(file) /\ synced = file - 1 /\ ~Open /\ Len(toDevice) = 0
        /\ \A i \in 1..Len(down) : ~Announced(i)
    BY <2>1 DEF TokenInv, CountInv
  <2>3. NoToken'
    BY <1>3, <2>1, <2>2 DEF NoToken, Taken, Announced
  <2>4. TokenInv'
    BY <2>3 DEF TokenInv, NoToken
  <2>5. EndInv'
    BY <2>3 DEF EndInv, NoToken
  <2>6. CountInv'
    BY <2>1 DEF CountInv
  <2> QED
    BY <1>6, <2>1, <2>2, <2>4, <2>5, <2>6
<1>17. CASE FileAckNack
  <2>1. /\ Taken /\ pc = "wait" /\ pc' = "repair"
        /\ UNCHANGED <<file, synced, down, toDevice>>
    BY <1>17 DEF FileAckNack, Taken
  <2> QED
    BY <1>4, <1>5, <1>6, <2>1 DEF Taken
<1>18. CASE Repair
  <2>1. /\ pc = "repair" /\ pc' \in {"start", "selective"}
        /\ UNCHANGED <<file, synced, down, toDevice>>
    BY <1>18 DEF Repair
  <2> QED
    BY <1>4, <1>5, <1>6, <2>1 DEF Taken
<1>19. CASE ResendMissing
  <2>1. /\ pc = "selective" /\ UNCHANGED <<pc, file, synced, toDevice>>
        /\ \E s \in ToResend : down' = Enqueue(down, Data(s, <<file, s>>))
    BY <1>19 DEF ResendMissing
  <2>2. PICK s \in Seqs : down' = Enqueue(down, Data(s, <<file, s>>))
    BY <2>1 DEF ToResend
  <2>3. Data(s, <<file, s>>) \in Frames /\ Data(s, <<file, s>>).type = "DATA"
    <3>1. <<file, s>> \in Nat \X Nat
      BY DEF Seqs
    <3> QED
      BY <3>1, FrameTypes DEF Data
  <2>4. TokenInv' /\ EndInv'
    BY <2>1, <2>2, <2>3, SentPlain
  <2> QED
    BY <1>5, <1>6, <2>1, <2>4
<1>20. CASE RepairSent
  <2>1. /\ pc = "selective" /\ pc' \in {"start", "file_end"}
        /\ UNCHANGED <<file, synced, down, toDevice>>
    BY <1>20 DEF RepairSent
  <2> QED
    BY <1>4, <1>5, <1>6, <2>1 DEF Taken
<1>21. CASE GiveUp
  <2>1. /\ pc \in {"data", "repair", "selective", "file_end"} /\ pc' = "done"
        /\ UNCHANGED <<file, synced, down, toDevice>>
    BY <1>21 DEF GiveUp
  <2>2. CountInv'
    BY <2>1 DEF CountInv
  <2> QED
    BY <1>4, <1>6, <2>1, <2>2 DEF Taken
<1>22. CASE SendTransferDone
  <2>1. /\ pc = "done" /\ pc' = "over" /\ UNCHANGED <<file, synced, toDevice>>
        /\ down' = down \/ down' = Enqueue(down, Done(synced))
    BY <1>22 DEF SendTransferDone
  <2>2. CASE down' = down
    BY <1>4, <1>5, <1>6, <2>1, <2>2 DEF Taken
  <2>3. CASE down' = Enqueue(down, Done(synced))
    <3>1. Done(synced) \in Frames /\ Done(synced).type = "TRANSFER_DONE"
      BY FrameTypes DEF Done
    <3>2. TokenInv' /\ EndInv'
      BY <2>1, <2>3, <3>1, SentPlain
    <3> QED
      BY <1>5, <1>6, <2>1, <3>2
  <2> QED
    BY <2>1, <2>2, <2>3
<1> QED
  BY <1>10, <1>11, <1>12, <1>13, <1>14, <1>15, <1>16, <1>17, <1>18, <1>19, <1>20, <1>21,
     <1>22
     DEF TransferThread

\* An answer comes, a datagram is lost, the station re-associates: no token more
LEMMA NetworkOrder ==
  ASSUME IInv, Network, UNCHANGED client
  PROVE  OrderInv' /\ synced' = synced
<1>1. /\ TokenInv /\ EndInv /\ CountInv /\ SavedIntact /\ Types
      /\ UNCHANGED <<handle, files>>
  BY DEF IInv, OrderInv, client
<1>2. /\ down \in Seq(Frames) /\ toDevice \in Seq(Acks)
      /\ Len(down) \in Nat /\ Len(toDevice) \in Nat
      /\ file \in 1..NFiles /\ synced \in 0..NFiles
      /\ ack \in [ok : BOOLEAN, missing : SUBSET Nat, sem : {0, 1}]
  BY <1>1 DEF Types, LinkTypes, LinkTypeOK
<1>3. SavedIntact' /\ (Open' <=> Open) /\ (\A f : Saved(f)' <=> Saved(f))
  BY <1>1 DEF SavedIntact, Open, Saved
<1> USE <1>1, <1>2 DEF udpFile, net, txThread
<1>4. ASSUME UNCHANGED <<pc, file, synced>>, TokenInv', EndInv'
      PROVE  OrderInv' /\ synced' = synced
  BY <1>3, <1>4 DEF OrderInv, CountInv
<1>5. ASSUME NEW i \in DOMAIN toDevice, toDevice' = RemoveAt(toDevice, i)
      PROVE  /\ i = 1 /\ Len(toDevice) = 1 /\ Len(toDevice') = 0
             /\ ~Open /\ ~Taken /\ pc \notin {"start", "repair", "selective"}
             /\ synced # file /\ \A j \in 1..Len(down) : ~Announced(j)
             /\ toDevice[1].ok => Saved(file)
  <2>1. i \in 1..Len(toDevice) /\ Len(toDevice') = Len(toDevice) - 1
    BY <1>5, RemoveAtType
  <2> QED
    BY <2>1 DEF TokenInv, NoToken
<1>6. CASE ReceivePacket
  <2>1. PICK i \in DOMAIN toDevice :
           /\ toDevice' = RemoveAt(toDevice, i)
           /\ ack' = [ok |-> toDevice[i].ok, missing |-> toDevice[i].missing, sem |-> 1]
    BY <1>6 DEF ReceivePacket, Arrivals
  <2>2. UNCHANGED <<pc, file, synced, down>>
    BY <1>6 DEF ReceivePacket
  <2>3. /\ i = 1 /\ Len(toDevice') = 0
        /\ ~Open /\ pc \notin {"start", "repair", "selective"}
        /\ synced # file /\ \A j \in 1..Len(down) : ~Announced(j)
        /\ toDevice[1].ok => Saved(file)
    BY <1>5, <2>1
  <2>4. \A j \in 1..Len(down') : ~Announced(j)'
    BY <2>2, <2>3 DEF Announced
  <2>5. ack'.ok => Saved(file)'
    BY <1>3, <2>1, <2>2, <2>3
  <2>6. TokenInv'
    BY <1>3, <2>2, <2>3, <2>4, <2>5 DEF TokenInv, Saved
  <2>7. EndInv'
    BY <1>3, <2>3, <2>4 DEF EndInv
  <2> QED
    BY <1>4, <2>2, <2>6, <2>7
<1>7. CASE ReceiveHeartbeat
  <2>1. UNCHANGED <<pc, file, synced, ack, down, toDevice>>
    BY <1>7 DEF ReceiveHeartbeat
  <2>2. (Taken' <=> Taken) /\ (\A i : Announced(i)' <=> Announced(i))
    BY <2>1 DEF Taken, Announced
  <2>3. TokenInv' /\ EndInv'
    BY <1>3, <2>1, <2>2 DEF TokenInv, EndInv, NoToken
  <2> QED
    BY <1>4, <2>1, <2>3
<1>8. CASE StaConnected
  <2>1. /\ pc' = IF pc = "wait" /\ ack.sem = 0 THEN "file_end" ELSE pc
        /\ ack' = [ack EXCEPT !.ok = FALSE, !.sem = 1]
        /\ UNCHANGED <<file, synced, down, toDevice>>
    BY <1>8 DEF StaConnected, Waiting
  <2>2. (Taken' => Taken /\ ~ack'.ok) /\ (\A i : Announced(i)' <=> Announced(i))
    BY <2>1 DEF Taken, Announced
  <2>3. NoToken => NoToken'
    BY <1>3, <2>1, <2>2 DEF NoToken
  <2>4. pc' \in {"start", "repair", "selective"} => pc' = pc
    BY <2>1
  <2>5. TokenInv'
    BY <1>3, <2>1, <2>2, <2>3, <2>4 DEF TokenInv
  <2>6. EndInv'
    BY <1>3, <2>1, <2>2 DEF EndInv
  <2>7. CountInv'
    BY <2>1 DEF CountInv
  <2> QED
    BY <1>3, <2>1, <2>5, <2>6, <2>7 DEF OrderInv
<1>9. CASE Lose
  <2>1. UNCHANGED <<pc, file, synced, ack>>
    BY <1>9 DEF Lose
  <2>2. CASE \E i \in DOMAIN down : down' = RemoveAt(down, i) /\ UNCHANGED toDevice
    <3>1. TokenInv' /\ EndInv'
      BY <2>1, <2>2, GonePlain
    <3> QED
      BY <1>4, <2>1, <3>1
  <2>3. CASE \E i \in DOMAIN toDevice :
                toDevice' = RemoveAt(toDevice, i) /\ UNCHANGED down
    <3>1. /\ Len(toDevice') = 0 /\ UNCHANGED down /\ ~Open /\ ~Taken
          /\ pc \notin {"start", "repair", "selective"} /\ synced # file
          /\ \A j \in 1..Len(down) : ~Announced(j)
      BY <1>5, <2>3
    <3>2. ~Taken' /\ \A j \in 1..Len(down') : ~Announced(j)'
      BY <2>1, <3>1 DEF Taken, Announced
    <3>3. TokenInv' /\ EndInv'
      BY <1>3, <2>1, <3>1, <3>2 DEF TokenInv, EndInv
    <3> QED
      BY <1>4, <2>1, <3>3
  <2> QED
    BY <1>9, <2>2, <2>3 DEF Lose
<1> QED
  BY <1>6, <1>7, <1>8, <1>9 DEF Network

\* The client takes the oldest datagram
LEMMA ReceiveOrder ==
  ASSUME Fifo = TRUE, IInv, ClientReceive
  PROVE  /\ OrderInv' /\ synced' = synced
         /\ \/ files' = files
            \/ synced = file - 1 /\ files' = [files EXCEPT ![file] = Content(file)]
<1>1. /\ TokenInv /\ EndInv /\ CountInv /\ SavedIntact /\ Types
      /\ UNCHANGED <<pc, file, synced, ack>>
  BY DEF IInv, OrderInv, ClientReceive, txThread
<1>2. /\ down \in Seq(Frames) /\ toDevice \in Seq(Acks)
      /\ Len(down) \in Nat /\ Len(toDevice) \in Nat
      /\ file \in 1..NFiles /\ synced \in 0..NFiles
      /\ files \in [1..NFiles -> Seq(Frame)] /\ handle \in Handle
      /\ Open => handle.name \in 1..NFiles
  BY <1>1 DEF Types, LinkTypes, LinkTypeOK, ReceiverTypes
<1> DEFINE m == down[1]
<1>3. /\ down' = RemoveAt(down, 1) /\ 1 \in DOMAIN down
      /\ \/ result = "running" /\ ( OnFileStart(m) \/ OnData(m)
              \/ OnFileEndOk(m) \/ OnFileEndBad(m) \/ OnTransferDone(m)
              \/ OnMisplaced(m))
         \/ NoAnswer /\ UNCHANGED client
  BY DEF ClientReceive, Arrivals
<1>4. /\ 1 \in 1..Len(down) /\ Len(down') = Len(down) - 1
      /\ \A j \in 1..Len(down') :
            Before(1, j) \in 1..Len(down) /\ down'[j] = down[Before(1, j)]
  BY <1>1, <1>3, GoneAt DEF Types
<1>5. \A j \in 1..Len(down') : /\ j + 1 \in 1..Len(down) /\ down'[j] = down[j + 1]
                               /\ Announced(j)' <=> Announced(j + 1)
  BY <1>2, <1>4 DEF Before, Announced
<1> HIDE DEF m
<1> USE <1>1, <1>2
<1>6. Taken' <=> Taken
  BY DEF Taken
<1>7. m.type = "FILE_START" <=> Announced(1)
  BY DEF m, Announced
<1>8. ASSUME TokenInv', EndInv', SavedIntact'
      PROVE  OrderInv'
  BY <1>8 DEF OrderInv, CountInv
\* The client does not answer, and the file it has open stays open or is dropped
<1>9. ASSUME NoAnswer, UNCHANGED files, Open' => Open /\ handle'.name = handle.name
      PROVE  OrderInv'
  <2>1. UNCHANGED toDevice
    BY <1>9 DEF NoAnswer
  <2>2. NoToken => NoToken'
    BY <1>5, <1>6, <1>9, <2>1 DEF NoToken
  <2>3. \A i, j \in 1..Len(down') : Announced(i)' /\ Announced(j)' => i = j
    <3>1. \A i, j \in 1..Len(down') : Announced(i)' /\ Announced(j)' => i + 1 = j + 1
      BY <1>5 DEF TokenInv
    <3> QED
      BY <3>1
  <2>4. \A i \in 1..Len(down') : Announced(i)' =>
           down'[i].file = file /\ ~Open /\ Len(toDevice) = 0 /\ ~Taken
    BY <1>5 DEF TokenInv
  <2>5. TokenInv'
    BY <1>6, <1>9, <2>1, <2>2, <2>3, <2>4 DEF TokenInv, Saved
  <2>6. EndInv'
    <3>1. ASSUME NEW j \in 1..Len(down'),
                 Open' \/ \E k \in 1..Len(down') : k < j /\ Announced(k)'
          PROVE  Open \/ \E k \in 1..Len(down) : k < j + 1 /\ Announced(k)
      <4>1. CASE Open'
        BY <1>9, <4>1
      <4>2. CASE \E k \in 1..Len(down') : k < j /\ Announced(k)'
        <5>1. PICK k \in 1..Len(down') : k < j /\ Announced(k)'
          BY <4>2
        <5>2. k + 1 \in 1..Len(down) /\ k + 1 < j + 1 /\ Announced(k + 1)
          BY <1>5, <5>1
        <5> QED
          BY <5>2
      <4> QED
        BY <3>1, <4>1, <4>2
    <3>2. UNCHANGED file
      OBVIOUS
    <3> QED
      BY <1>5, <3>1, <3>2 DEF EndInv
  <2> QED
    BY <1>8, <1>9, <2>5, <2>6 DEF SavedIntact
<1>10. CASE NoAnswer /\ UNCHANGED client
  BY <1>9, <1>10 DEF client, Open
<1>11. CASE OnFileStart(m)
  <2>1. /\ Announced(1) /\ handle' = [NoFile EXCEPT !.name = m.file]
        /\ UNCHANGED <<toDevice, files>>
    BY <1>7, <1>11 DEF OnFileStart, NoAnswer
  <2>2. m.file = file /\ ~Open /\ Len(toDevice) = 0 /\ ~Taken
    BY <1>4, <2>1 DEF TokenInv, m
  <2>3. handle'.name = file
    BY <2>1, <2>2, NoFileType, OpenedType, Zenon
  <2>4. \A j \in 1..Len(down') : ~Announced(j)'
    <3>1. \A j \in 1..Len(down') : Announced(j)' => j + 1 = 1
      BY <1>4, <1>5, <2>1 DEF TokenInv
    <3> QED
      BY <3>1
  <2>5. pc \notin {"start", "repair", "selective"} /\ synced # file
    BY <1>4, <2>1 DEF TokenInv, NoToken
  <2>6. TokenInv'
    BY <1>6, <2>1, <2>2, <2>3, <2>4, <2>5 DEF TokenInv
  <2>7. EndInv'
    <3>1. ASSUME NEW j \in 1..Len(down'), down'[j].type = "FILE_END",
                 Len(down'[j].crc) = NFrames
          PROVE  down'[j].crc = Content(file)
      <4>1. j + 1 \in 1..Len(down) /\ down'[j] = down[j + 1] /\ 1 < j + 1
        BY <1>5
      <4> QED
        BY <1>4, <2>1, <3>1, <4>1 DEF EndInv
    <3> QED
      BY <3>1 DEF EndInv
  <2> QED
    BY <1>8, <2>1, <2>6, <2>7 DEF SavedIntact
<1>12. CASE OnData(m)
  <2>1. Open /\ handle'.name = handle.name
    BY <1>12 DEF OnData, Handle
  <2> QED
    BY <1>9, <1>12, <2>1 DEF OnData
<1>13. CASE OnTransferDone(m)
  BY <1>9, <1>13 DEF OnTransferDone, Open
<1>14. CASE OnMisplaced(m)
  BY <1>9, <1>14 DEF OnMisplaced, Fail, Open
\* FILE_END is answered with a, and the file closed
<1>15. ASSUME NEW a \in Acks, Open, handle' = NoFile, toDevice' = Enqueue(toDevice, a),
              a.ok => Saved(file)', SavedIntact'
       PROVE  OrderInv'
  <2>1. /\ ~Open' /\ ~Taken /\ Len(toDevice) = 0
        /\ pc \notin {"start", "repair", "selective"} /\ synced # file
        /\ \A j \in 1..Len(down) : ~Announced(j)
    BY <1>15 DEF TokenInv, NoToken, Open
  <2>2. Len(toDevice') = 0 \/ (Len(toDevice') = 1 /\ toDevice'[1] = a)
    <3>1. toDevice' = toDevice \/ toDevice' = Append(toDevice, a)
      BY <1>15 DEF Enqueue
    <3>2. CASE toDevice' = Append(toDevice, a)
      <4>1. Len(toDevice') = Len(toDevice) + 1 /\ toDevice'[Len(toDevice) + 1] = a
        BY <3>2, AppendProperties
      <4> QED
        BY <2>1, <4>1
    <3> QED
      BY <2>1, <3>1, <3>2
  <2>3. \A j \in 1..Len(down') : ~Announced(j)'
    BY <1>5, <2>1
  <2>4. TokenInv'
    BY <1>6, <1>15, <2>1, <2>2, <2>3 DEF TokenInv
  <2>5. EndInv'
    BY <2>1, <2>3 DEF EndInv
  <2> QED
    BY <1>8, <1>15, <2>4, <2>5
<1>16. CASE OnFileEndOk(m)
  <2>1. /\ m.type = "FILE_END" /\ Open /\ handle.data = m.crc
        /\ Len(m.crc) = NFrames
    BY <1>16 DEF OnFileEndOk, Success
  <2>2. m.crc = Content(file)
    BY <1>4, <2>1 DEF EndInv, m
  <2>3. handle.name = file /\ synced # file
    BY <2>1 DEF TokenInv, NoToken
  <2>4. files' = [files EXCEPT ![file] = Content(file)]
    BY <1>16, <2>1, <2>2, <2>3 DEF OnFileEndOk
  <2>5. SavedIntact' /\ Saved(file)'
    BY <2>4 DEF SavedIntact, Saved
  <2>6. OrderInv'
    BY <1>15, <1>16, <2>5, FrameTypes DEF OnFileEndOk
  <2>7. synced = file - 1
    BY <2>3 DEF CountInv
  <2> QED
    BY <2>4, <2>6, <2>7
<1>17. CASE OnFileEndBad(m)
  <2>1. Nack({}) \in Acks /\ ~Nack({}).ok
    BY FrameTypes DEF Nack
  <2>2. SavedIntact'
    BY <1>17 DEF OnFileEndBad, SavedIntact
  <2>3. OrderInv'
    BY <1>15, <1>17, <2>1, <2>2 DEF OnFileEndBad
  <2> QED
    BY <1>17, <2>3 DEF OnFileEndBad
<1>18. OnFileEndOk(m) \/ files' = files
  BY <1>3 DEF client, OnFileStart, OnData, OnFileEndBad, OnTransferDone, OnMisplaced, Fail
<1>19. OrderInv'
  BY <1>3, <1>10, <1>11, <1>12, <1>13, <1>14, <1>16, <1>17
<1> QED
  BY <1>16, <1>18, <1>19

-----------------------------------------------------------------------------
(* The theorems                                                             *)

LEMMA TimeoutOrder ==
  ASSUME IInv, WaitTimeout
  PROVE  OrderInv' /\ UNCHANGED <<synced, files>>
<1>1. /\ TokenInv /\ EndInv /\ CountInv /\ SavedIntact
      /\ UNCHANGED <<pc, file, synced, ack, down, toDevice, files>> /\ ~Open'
  BY DEF IInv, OrderInv, WaitTimeout, linkVars, txThread, net, Open
<1>2. (Taken' <=> Taken) /\ (\A i : Announced(i)' <=> Announced(i))
  BY <1>1 DEF Taken, Announced
<1>3. TokenInv'
  BY <1>1, <1>2 DEF TokenInv, NoToken, Saved
<1>4. EndInv'
  BY <1>1, <1>2 DEF EndInv
<1>5. CountInv' /\ SavedIntact'
  BY <1>1 DEF CountInv, SavedIntact
<1> QED
  BY <1>1, <1>3, <1>4, <1>5 DEF OrderInv

LEMMA IInvInit == Init => IInv
  BY TypesInit, WholeInit, OrderInit DEF Init, IInv

LEMMA WholeStep == Types /\ WholeInv /\ [Next]_vars => WholeInv'
<1> SUFFICES ASSUME Types, WholeInv, [Next]_vars PROVE WholeInv'
  OBVIOUS
<1>1. CASE (TransferThread \/ Network) /\ UNCHANGED client
  BY <1>1, WholeThread, WholeNetwork DEF Types
<1>2. CASE UNCHANGED <<txThread, udpFile, ack, ready, budget>>
  BY <1>2, WholeClient
<1> QED
  BY <1>1, <1>2 DEF Next, ClientReceive, WaitTimeout, vars, linkVars

LEMMA IInvStep == Fifo = TRUE /\ IInv /\ [Next]_vars => IInv'
<1> SUFFICES ASSUME Fifo = TRUE, IInv, [Next]_vars PROVE IInv'
  OBVIOUS
<1>1. Types' /\ WholeInv'
  BY TypesStep, WholeStep DEF IInv
<1>2. OrderInv'
  <2>1. CASE UNCHANGED vars
    <3>1. UNCHANGED <<pc, file, synced, ack, down, toDevice, handle, files>>
      BY <2>1 DEF vars, linkVars, txThread, net, client
    <3>2. /\ Taken' <=> Taken
          /\ Open' <=> Open
          /\ \A i : Announced(i)' <=> Announced(i)
      BY <3>1 DEF Taken, Open, Announced
    <3> QED
      BY <3>1, <3>2
         DEF IInv, OrderInv, TokenInv, EndInv, CountInv, SavedIntact, NoToken, Saved
  <2> QED
    BY <2>1, ThreadOrder, NetworkOrder, ReceiveOrder, TimeoutOrder DEF Next
<1> QED
  BY <1>1, <1>2 DEF IInv

LEMMA IInvIntact == IInv => SavedIntact
  BY DEF IInv, OrderInv

\* transfer.py: "A successful file is never exposed at its final path until the
\* total byte count and FILE_END CRC32 both match": what is there is the device's
\* file of that name, whatever the network loses or delays and however often the
\* station re-associates, as long as it does not reorder
THEOREM PythonFilesIntact ==
  ASSUME Fifo = TRUE
  PROVE  Spec => []SavedIntact
<1>1. (Init => IInv) /\ (IInv /\ [Next]_vars => IInv')
  BY IInvInit, IInvStep
<1> QED
  BY <1>1, IInvIntact, PTL DEF Spec

LEMMA PromiseInit == Init => Promise!Init
<1> SUFFICES ASSUME Init PROVE Promise!Init
  OBVIOUS
<1>1. synced = 0 /\ files = [f \in 1..NFiles |-> <<>>]
  BY DEF Init, LinkInit
<1>2. ASSUME NEW f \in 1..NFiles
      PROVE  files[f] # Content(f)
  <2>1. files[f] = <<>> /\ Len(files[f]) = 0
    BY <1>1
  <2>2. Content(f) \in Seq(Nat \X Nat) /\ Len(Content(f)) = NFrames
    BY UdpLinkAssumption DEF Content
  <2> QED
    BY <2>1, <2>2, UdpLinkAssumption
<1> QED
  BY <1>1, <1>2 DEF Promise!Init

LEMMA PromiseStep ==
  ASSUME Fifo = TRUE, IInv, [Next]_vars
  PROVE  [Promise!Next]_
             <<{f \in 1..NFiles : files[f] = Content(f)}, synced>>
<1> DEFINE saved == {f \in 1..NFiles : files[f] = Content(f)}
<1>1. /\ file \in 1..NFiles /\ synced \in 0..NFiles
      /\ files \in [1..NFiles -> Seq(Frame)]
  BY DEF IInv, Types, LinkTypes, LinkTypeOK, ReceiverTypes
<1>2. CASE (TransferThread \/ Network) /\ UNCHANGED client
  <2>1. UNCHANGED files
    BY <1>2 DEF client
  <2>2. synced' = synced \/ (synced' = synced + 1 /\ synced' = file /\ Saved(file))
    BY <1>2, ThreadOrder, NetworkOrder
  <2>3. CASE synced' = synced + 1 /\ synced' = file /\ Saved(file)
    <3>1. synced + 1 \in saved /\ saved' = saved
      BY <1>1, <2>1, <2>3 DEF Saved
    <3> QED
      BY <2>3, <3>1 DEF Promise!Next, Promise!Confirm
  <2> QED
    BY <2>1, <2>2, <2>3
<1>3. CASE ClientReceive
  <2>1. /\ synced' = synced
        /\ \/ files' = files
           \/ synced = file - 1 /\ files' = [files EXCEPT ![file] = Content(file)]
    BY <1>3, ReceiveOrder
  <2>2. CASE synced = file - 1 /\ files' = [files EXCEPT ![file] = Content(file)]
    <3>1. synced < NFiles /\ synced + 1 = file
      BY <1>1, <2>2, UdpLinkAssumption
    <3>2. saved' = saved \union {file}
      BY <1>1, <2>2
    <3> QED
      BY <2>1, <3>1, <3>2 DEF Promise!Next, Promise!Save
  <2> QED
    BY <2>1, <2>2
<1>4. CASE WaitTimeout \/ UNCHANGED vars
  <2>1. UNCHANGED <<synced, files>>
    BY <1>4 DEF WaitTimeout, vars, client, linkVars, txThread
  <2> QED
    BY <2>1
<1> QED
  BY <1>2, <1>3, <1>4 DEF Next

\* The session transfer does what FileSync allows, step by step: the client saves
\* the file after the synced ones, then the device counts it
THEOREM PythonKeepsPromise ==
  ASSUME Fifo = TRUE
  PROVE  Spec => KeepsPromise
<1>1. /\ Init => Promise!Init /\ IInv
      /\ IInv /\ [Next]_vars => IInv'
  BY IInvInit, IInvStep, PromiseInit
<1>2. ASSUME IInv, [Next]_vars
      PROVE  [Promise!Next]_
                 <<{f \in 1..NFiles : files[f] = Content(f)}, synced>>
  BY <1>2, PromiseStep
<1> QED
  BY <1>1, <1>2, PTL DEF Spec, KeepsPromise, Promise!Spec

================================================================================
