--------------------------- MODULE UdpFlutter_proofs ---------------------------
(***************************************************************************)
(* Theorems about the device with the Flutter client, for every value of    *)
(* the constants.  MCUdpClients extends UdpFlutter: the last theorem is     *)
(* about the specification its run checks.                                  *)
(***************************************************************************)
EXTENDS MCUdpClients, UdpLink_proofs, WellFoundedInduction

-----------------------------------------------------------------------------
(* Draining what came early                                                 *)

\* The least-number principle, for a set of naturals
LEMMA Least ==
  ASSUME NEW T \in SUBSET Nat, T # {}
  PROVE  \E n \in T : \A m \in T : n <= m
<1>1. PICK R : IsWellFoundedOn(R, Nat) /\ \A x, y \in Nat : x < y => <<x, y>> \in R
  <2> DEFINE L == OpToRel(<, Nat)
  <2>1. IsWellFoundedOn(L, Nat)
    BY NatLessThanWellFounded
  <2>2. \A x, y \in Nat : x < y => <<x, y>> \in L
    BY DEF OpToRel
  <2> HIDE DEF L
  <2> QED
    BY <2>1, <2>2
<1>2. T \subseteq Nat
  OBVIOUS
<1>3. \E n \in T : \A m \in T : ~ (<<m, n>> \in R)
  <2>1. IsWellFoundedOn(R, Nat)
    BY <1>1
  <2> QED
    BY <1>2, <2>1, WFMin, Zenon
<1>4. PICK n \in T : \A m \in T : ~ (<<m, n>> \in R)
  BY <1>3
<1>5. \A m \in T : ~ (m < n)
  BY <1>1, <1>2, <1>4
<1>6. \A m \in T : n <= m
  BY <1>2, <1>5
<1> QED
  BY <1>6

Frame == Nat \X Nat

\* What is drained is a run of frames that starts with d and stops within the file
LEMMA DrainType ==
  ASSUME NEW d \in Seq(Frame), Len(d) <= NFrames,
         NEW h, h \in [DOMAIN h -> Frame], DOMAIN h \subseteq Seqs
  PROVE  Drain(d, h) \in Seq(Frame) /\ Len(Drain(d, h)) <= NFrames
<1> DEFINE Run(n) == n \notin DOMAIN h /\ Len(d)..(n - 1) \subseteq DOMAIN h
           next == CHOOSE n \in Len(d)..NFrames : Run(n)
           T == {n \in Len(d)..NFrames : n \notin DOMAIN h}
<1>1. Len(d) \in Nat /\ NFrames \in Nat /\ T \subseteq Nat
  BY UdpLinkAssumption
<1>2. NFrames \in T
  BY <1>1 DEF Seqs
<1>3. PICK n \in T : \A m \in T : n <= m
  BY <1>1, <1>2, Least
<1>4. n \in Len(d)..NFrames /\ n \notin DOMAIN h
  OBVIOUS
<1>5. \A k \in Len(d)..(n - 1) : k \in DOMAIN h
  BY <1>1, <1>3, <1>4
<1>6. next \in Len(d)..NFrames /\ Run(next)
  BY <1>4, <1>5
<1> HIDE DEF next
<1>7. Drain(d, h) = [i \in 1..next |-> IF i <= Len(d) THEN d[i] ELSE h[i - 1]]
  BY DEF Drain, next
<1>8. next \in Nat /\ \A i \in 1..next : ~(i <= Len(d)) => i - 1 \in Len(d)..(next - 1)
  BY <1>1, <1>6
<1>9. \A i \in 1..next : (IF i <= Len(d) THEN d[i] ELSE h[i - 1]) \in Frame
  BY <1>1, <1>6, <1>8
<1>10. Drain(d, h) \in [1..next -> Frame]
  BY <1>7, <1>9
<1>11. Drain(d, h) \in Seq(Frame) /\ Len(Drain(d, h)) = next
  BY <1>8, <1>10
<1> QED
  BY <1>1, <1>6, <1>11

-----------------------------------------------------------------------------
(* Type correctness                                                         *)

ClientFile == [name : 0..NFiles, data : Seq(Frame)]

\* The client never holds more than a file, and its retries end the download
\* before they are too many
ClientTypes1 ==
    /\ cur \in ClientFile /\ Len(cur.data) <= NFrames
    /\ held \in [DOMAIN held -> Frame] /\ DOMAIN held \subseteq Seqs
    /\ nacks \in [count : 0..MaxNacks, name : 0..NFiles]
    /\ result = "running" => nacks.count < MaxNacks
    /\ writes \in Seq([name : 1..NFiles, data : Seq(Frame)])
    /\ files \in [1..NFiles -> Seq(Frame)]
    /\ received \subseteq 1..NFiles /\ faults \in 0..MaxWriteFaults
    /\ result \in {"running", "done", "gave_up"}

LEMMA NoFileType == NoFile \in ClientFile /\ Len(NoFile.data) <= NFrames
  BY UdpLinkAssumption DEF NoFile, ClientFile

LEMMA EmptyHeld == ASSUME NEW h, h = <<>>
                   PROVE  h \in [DOMAIN h -> Frame] /\ DOMAIN h \subseteq Seqs
  OBVIOUS

LEMMA ClientInit == Init => ClientTypes1
<1> SUFFICES ASSUME Init PROVE ClientTypes1
  OBVIOUS
<1>1. cur \in ClientFile /\ Len(cur.data) <= NFrames
  BY NoFileType DEF Init
<1>2. held \in [DOMAIN held -> Frame] /\ DOMAIN held \subseteq Seqs
  BY EmptyHeld DEF Init
<1>3. nacks \in [count : 0..MaxNacks, name : 0..NFiles] /\ nacks.count < MaxNacks
  BY UdpLinkAssumption, UdpFlutterAssumption DEF Init
<1>4. files \in [1..NFiles -> Seq(Frame)]
  BY DEF Init
<1>5. writes \in Seq([name : 1..NFiles, data : Seq(Frame)])
  BY DEF Init
<1>6. received \subseteq 1..NFiles /\ faults \in 0..MaxWriteFaults /\ result = "running"
  BY UdpFlutterAssumption DEF Init
<1> QED
  BY <1>1, <1>2, <1>3, <1>4, <1>5, <1>6 DEF ClientTypes1

\* One datagram, as the client handles it
LEMMA HandleTypes ==
  ASSUME ClientTypes1, toDevice \in Seq(Acks), NEW m \in Frames, result = "running",
         OnFileStart(m) \/ OnData(m) \/ OnFileEndOk(m) \/ OnFileEndBad(m)
           \/ OnTransferDone(m)
  PROVE  ClientTypes1' /\ toDevice' \in Seq(Acks)
<1> USE UdpLinkAssumption, UdpFlutterAssumption
<1>0. /\ m.type = "FILE_START" => m.file \in 1..NFiles
      /\ m.type = "DATA" => m.seq \in Seqs /\ m.data \in Frame
      /\ m.type = "FILE_END" => m.crc \in Seq(Frame)
  BY DEF Frames, Frame
<1>1. CASE OnFileStart(m)
  <2>1. cur' = [name |-> m.file, data |-> <<>>] /\ m.file \in 1..NFiles
    BY <1>0, <1>1 DEF OnFileStart
  <2>2. cur' \in ClientFile /\ Len(cur'.data) <= NFrames
    BY <2>1 DEF ClientFile
  <2>3. held' \in [DOMAIN held' -> Frame] /\ DOMAIN held' \subseteq Seqs
    BY <1>1, EmptyHeld DEF OnFileStart
  <2>4. UNCHANGED <<nacks, writes, received, files, faults, result, toDevice>>
    BY <1>1 DEF OnFileStart, NoAnswer
  <2> QED
    BY <2>2, <2>3, <2>4 DEF ClientTypes1
<1>2. CASE OnData(m)
  <2>1. m.seq \in Seqs /\ m.data \in Frame
        /\ UNCHANGED <<nacks, writes, received, files, faults, result, toDevice>>
    BY <1>0, <1>2 DEF OnData, NoAnswer
  <2>2. CASE UNCHANGED <<cur, held>>
    BY <2>1, <2>2 DEF ClientTypes1
  <2>3. CASE /\ held' = [s \in DOMAIN held \union {m.seq} |->
                             IF s = m.seq THEN m.data ELSE held[s]]
             /\ UNCHANGED cur
    <3>1. held' \in [DOMAIN held' -> Frame] /\ DOMAIN held' \subseteq Seqs
      BY <2>1, <2>3 DEF ClientTypes1
    <3> QED
      BY <2>1, <2>3, <3>1 DEF ClientTypes1
  <2>4. CASE /\ m.seq = NextSeq
             /\ LET d == Drain(Append(cur.data, m.data), held)
                IN /\ cur' = [cur EXCEPT !.data = d]
                   /\ held' = [s \in {t \in DOMAIN held : t >= Len(d)} |-> held[s]]
    <3> DEFINE d == Drain(Append(cur.data, m.data), held)
    <3>1. cur.data \in Seq(Frame) /\ cur.name \in 0..NFiles
      BY DEF ClientTypes1, ClientFile
    <3>2. Append(cur.data, m.data) \in Seq(Frame)
          /\ Len(Append(cur.data, m.data)) <= NFrames
      BY <2>1, <2>4, <3>1 DEF NextSeq, Seqs
    <3>3. d \in Seq(Frame) /\ Len(d) <= NFrames
      BY <3>2, DrainType DEF ClientTypes1
    <3>4. cur' = [cur EXCEPT !.data = d]
          /\ held' = [s \in {t \in DOMAIN held : t >= Len(d)} |-> held[s]]
      BY <2>4
    <3> HIDE DEF d
    <3>5. cur' \in ClientFile /\ Len(cur'.data) <= NFrames
      BY <3>1, <3>3, <3>4 DEF ClientTypes1, ClientFile
    <3>6. held' \in [DOMAIN held' -> Frame] /\ DOMAIN held' \subseteq Seqs
      BY <3>4 DEF ClientTypes1
    <3> QED
      BY <2>1, <3>5, <3>6 DEF ClientTypes1
  <2>5. m.seq \in Nat /\ NextSeq \in Nat
    BY <2>1 DEF ClientTypes1, ClientFile, NextSeq, Seqs
  <2>6. CASE cur.name = 0 \/ m.seq < NextSeq
    <3>1. UNCHANGED <<cur, held>>
      <4>1. ~(cur.name # 0 /\ m.seq > NextSeq)
        BY <2>5, <2>6
      <4> QED
        BY <1>2, <2>6, <4>1 DEF OnData
    <3> QED
      BY <2>2, <3>1
  <2>7. CASE cur.name # 0 /\ m.seq > NextSeq
    BY <1>2, <2>3, <2>5, <2>7 DEF OnData
  <2>8. CASE cur.name # 0 /\ m.seq = NextSeq
    BY <1>2, <2>4, <2>5, <2>8 DEF OnData
  <2> QED
    BY <2>5, <2>6, <2>7, <2>8
<1>3. CASE OnFileEndOk(m)
  <2>1. cur.name \in 1..NFiles /\ cur.data \in Seq(Frame)
    BY <1>3 DEF OnFileEndOk, Complete, ClientTypes1, ClientFile
  <2>2. cur \in [name : 1..NFiles, data : Seq(Frame)]
    BY <2>1 DEF ClientTypes1, ClientFile
  <2>3. writes' \in Seq([name : 1..NFiles, data : Seq(Frame)])
    BY <1>3, <2>2, AppendProperties DEF OnFileEndOk, ClientTypes1
  <2>4. received' \subseteq 1..NFiles
    BY <1>3, <2>1 DEF OnFileEndOk, ClientTypes1
  <2>5. nacks' \in [count : 0..MaxNacks, name : 0..NFiles] /\ nacks'.count < MaxNacks
    BY <1>3 DEF OnFileEndOk
  <2>6. toDevice' \in Seq(Acks)
    BY <1>3, EnqueueType, FrameTypes DEF OnFileEndOk, Answer
  <2>7. cur' \in ClientFile /\ Len(cur'.data) <= NFrames
    BY <1>3, NoFileType DEF OnFileEndOk
  <2>8. held' \in [DOMAIN held' -> Frame] /\ DOMAIN held' \subseteq Seqs
    BY <1>3, EmptyHeld DEF OnFileEndOk
  <2>9. UNCHANGED <<files, faults, result>>
    BY <1>3 DEF OnFileEndOk
  <2> QED
    BY <2>3, <2>4, <2>5, <2>6, <2>7, <2>8, <2>9 DEF ClientTypes1
<1>4. CASE OnFileEndBad(m)
  <2> DEFINE again == cur.name # 0 /\ cur.name = nacks.name
             count == IF again THEN nacks.count + 1 ELSE 1
  <2>1. nacks.count \in 0..MaxNacks /\ nacks.count < MaxNacks /\ cur.name \in 0..NFiles
    BY DEF ClientTypes1, ClientFile
  <2>2. count \in 0..MaxNacks
    BY <2>1
  <2>3. nacks' = [count |-> count, name |-> cur.name]
        /\ result' = IF count >= MaxNacks THEN "gave_up" ELSE result
    BY <1>4 DEF OnFileEndBad
  <2> HIDE DEF count
  <2>4. nacks' \in [count : 0..MaxNacks, name : 0..NFiles] /\ nacks'.count = count
    BY <2>1, <2>2, <2>3
  <2>5. /\ result' \in {"running", "done", "gave_up"}
        /\ result' = "running" => nacks'.count < MaxNacks
    BY <2>2, <2>3, <2>4
  <2>6. toDevice' \in Seq(Acks)
    BY <1>4, EnqueueType, FrameTypes DEF OnFileEndBad, Answer
  <2>7. cur' \in ClientFile /\ Len(cur'.data) <= NFrames
    BY <1>4, NoFileType DEF OnFileEndBad
  <2>8. held' \in [DOMAIN held' -> Frame] /\ DOMAIN held' \subseteq Seqs
    BY <1>4, EmptyHeld DEF OnFileEndBad
  <2>9. UNCHANGED <<writes, received, files, faults>>
    BY <1>4 DEF OnFileEndBad
  <2> QED
    BY <2>4, <2>5, <2>6, <2>7, <2>8, <2>9 DEF ClientTypes1
<1>5. CASE OnTransferDone(m)
  BY <1>5 DEF OnTransferDone, NoAnswer, ClientTypes1
<1> QED
  BY <1>1, <1>2, <1>3, <1>4, <1>5

\* The disk write takes one file off the chain
LEMMA WriteTypes ==
  ASSUME ClientTypes1, ClientWrite
  PROVE  ClientTypes1'
<1>1. /\ Head(writes) \in [name : 1..NFiles, data : Seq(Frame)]
      /\ Tail(writes) \in Seq([name : 1..NFiles, data : Seq(Frame)])
  BY HeadTailProperties DEF ClientTypes1, ClientWrite
<1>2. writes' = Tail(writes) /\ UNCHANGED <<cur, held, nacks, received, result>>
  BY DEF ClientWrite
<1>3. files' \in [1..NFiles -> Seq(Frame)] /\ faults' \in 0..MaxWriteFaults
  <2>1. CASE files' = [files EXCEPT ![Head(writes).name] = Head(writes).data]
             /\ UNCHANGED faults
    BY <1>1, <2>1 DEF ClientTypes1
  <2>2. CASE faults > 0 /\ faults' = faults - 1 /\ UNCHANGED files
    BY <2>2, UdpFlutterAssumption DEF ClientTypes1
  <2> QED
    BY <2>1, <2>2 DEF ClientWrite
<1> QED
  BY <1>1, <1>2, <1>3 DEF ClientTypes1

Types == LinkTypes /\ ClientTypes1

LEMMA TypesInit == Init => Types
  BY LinkTypesInit, ClientInit DEF Types, Init

LEMMA TypesStep == Types /\ [Next]_vars => Types'
<1> SUFFICES ASSUME Types, [Next]_vars PROVE Types'
  OBVIOUS
<1>0. down \in Seq(Frames) /\ toDevice \in Seq(Acks)
  BY DEF Types, LinkTypes, LinkTypeOK
<1>1. CASE (TransferThread \/ Network) /\ UNCHANGED client
  <2>1. ClientTypes1'
    BY <1>1 DEF Types, client, ClientTypes1
  <2> QED
    BY <1>1, <2>1, ThreadTypes, NetworkTypes DEF Types
<1>2. CASE ClientReceive
  <2>1. PICK i \in DOMAIN down :
           /\ down' = RemoveAt(down, i)
           /\ \/ result = "running" /\ ( OnFileStart(down[i]) \/ OnData(down[i])
                   \/ OnFileEndOk(down[i]) \/ OnFileEndBad(down[i])
                   \/ OnTransferDone(down[i]))
              \/ NoAnswer /\ UNCHANGED client
    BY <1>2 DEF ClientReceive, Take, Arrivals
  <2>2. down' \in Seq(Frames) /\ down[i] \in Frames
    BY <1>0, <2>1, RemoveAtType
  <2>3. ClientTypes1' /\ toDevice' \in Seq(Acks)
    <3>1. CASE NoAnswer /\ UNCHANGED client
      BY <1>0, <3>1 DEF NoAnswer, client, Types, ClientTypes1
    <3> QED
      BY <1>0, <2>1, <2>2, <3>1, HandleTypes DEF Types
  <2>4. UNCHANGED <<txThread, udpFile, ack, ready, budget>>
    BY <1>2 DEF ClientReceive
  <2> QED
    BY <2>2, <2>3, <2>4, ClientTypes DEF Types
<1>3. CASE ClientWrite
  <2>1. LinkTypes'
    BY <1>3 DEF Types, LinkTypes, LinkTypeOK, ClientWrite, linkVars, txThread, udpFile, net
  <2> QED
    BY <1>3, <2>1, WriteTypes DEF Types
<1>4. CASE UNCHANGED vars
  BY <1>4
     DEF vars, linkVars, txThread, udpFile, net, client, Types, LinkTypes, LinkTypeOK,
         ClientTypes1
<1> QED
  BY <1>1, <1>2, <1>3, <1>4 DEF Next

LEMMA TypesAreCode == Types => TypeOK
  BY DEF Types, LinkTypes, ClientTypes1, TypeOK, ClientFile, Frame

\* Every variable keeps to the values its code can give it, whatever the network
\* does
THEOREM FlutterTypes == Spec => []TypeOK
  BY TypesAreCode, TypesInit, TypesStep, PTL DEF Spec

-----------------------------------------------------------------------------
(* The CRC of FILE_END                                                      *)

\* This client's answers name no frames: the device always sends the whole file again
NoBitmap ==
    /\ ack.missing = {} /\ pc # "selective"
    /\ \A i \in 1..Len(toDevice) : toDevice[i].missing = {}

LEMMA BitmapInit == Init => NoBitmap
  BY DEF Init, LinkInit, NoBitmap

LEMMA BitmapStep ==
  ASSUME Types, NoBitmap, [Next]_vars
  PROVE  NoBitmap'
<1>1. /\ toDevice \in Seq(Acks) /\ ack \in [ok : BOOLEAN, missing : SUBSET Nat, sem : {0, 1}]
      /\ \A i \in 1..Len(toDevice) : toDevice[i].missing = {}
      /\ ack.missing = {} /\ pc # "selective"
  BY DEF Types, LinkTypes, LinkTypeOK, NoBitmap
<1>2. ASSUME NEW i \in DOMAIN toDevice, toDevice' = RemoveAt(toDevice, i)
      PROVE  \A j \in 1..Len(toDevice') : toDevice'[j].missing = {}
  <2>1. /\ Len(toDevice') = Len(toDevice) - 1 /\ Len(toDevice) \in Nat
        /\ \A j \in 1..(Len(toDevice) - 1) :
              toDevice'[j] = IF j < i THEN toDevice[j] ELSE toDevice[j + 1]
    BY <1>1, <1>2, RemoveAtType
  <2> QED
    BY <1>1, <2>1
<1>3. CASE TransferThread /\ UNCHANGED client
  <2>1. UNCHANGED toDevice
    BY <1>3 DEF TransferThread, SendFileStart, SendFileData, EndOfFile, SendFileEnd,
                ArmFileAck, FileAckTimeout, FileAckOk, FileAckNack, Repair, ResendMissing,
                RepairSent, GiveUp, SendTransferDone, net
  <2>2. /\ pc' # "selective"
        /\ \/ ack' = ack \/ ack' = [ack EXCEPT !.sem = 0]
           \/ ack' = [ack EXCEPT !.ok = FALSE, !.sem = 0]
           \/ ack' = [ok |-> FALSE, missing |-> {}, sem |-> 0]
    BY <1>1, <1>3 DEF TransferThread, SendFileStart, SendFileData, EndOfFile, SendFileEnd,
                ArmFileAck, FileAckTimeout, FileAckOk, FileAckNack, Repair, ResendMissing,
                RepairSent, GiveUp, SendTransferDone, ResetFileState
  <2>3. ack'.missing = {}
    <3>1. ack \in [ok : BOOLEAN, missing : SUBSET Nat, sem : {0, 1}] /\ ack.missing = {}
      BY <1>1
    <3>2. CASE ack' = ack
      BY <3>1, <3>2
    <3>3. CASE ack' = [ack EXCEPT !.sem = 0]
      BY ONLY <3>1, <3>3
    <3>4. CASE ack' = [ack EXCEPT !.ok = FALSE, !.sem = 0]
      BY ONLY <3>1, <3>4
    <3>5. CASE ack' = [ok |-> FALSE, missing |-> {}, sem |-> 0]
      BY ONLY <3>5
    <3> QED
      BY ONLY <2>2, <3>2, <3>3, <3>4, <3>5
  <2> QED
    BY <1>1, <2>1, <2>2, <2>3 DEF NoBitmap
<1>4. CASE Network /\ UNCHANGED client
  <2>1. CASE ReceivePacket
    <3>1. PICK i \in DOMAIN toDevice :
             /\ toDevice' = RemoveAt(toDevice, i)
             /\ ack' = [ok |-> toDevice[i].ok, missing |-> toDevice[i].missing, sem |-> 1]
      BY <2>1 DEF ReceivePacket, Arrivals
    <3>2. ack'.missing = {} /\ UNCHANGED pc
      BY <1>1, <2>1, <3>1 DEF ReceivePacket, txThread
    <3> QED
      BY <1>1, <1>2, <3>1, <3>2 DEF NoBitmap
  <2>2. CASE Lose
    <3>1. UNCHANGED <<pc, ack>>
      BY <2>2 DEF Lose, txThread
    <3>2. \A j \in 1..Len(toDevice') : toDevice'[j].missing = {}
      BY <1>1, <1>2, <2>2 DEF Lose
    <3> QED
      BY <1>1, <3>1, <3>2 DEF NoBitmap
  <2>3. CASE ReceiveHeartbeat \/ StaConnected
    <3>1. ack' \in {ack, [ack EXCEPT !.ok = FALSE, !.sem = 1]} /\ UNCHANGED toDevice
          /\ pc' # "selective"
      BY <1>1, <2>3 DEF ReceiveHeartbeat, StaConnected, Waiting, txThread, net
    <3>2. ack'.missing = {}
      BY <1>1, <3>1
    <3> QED
      BY <1>1, <3>1, <3>2 DEF NoBitmap
  <2> QED
    BY <1>4, <2>1, <2>2, <2>3 DEF Network
<1>5. CASE ClientReceive
  <2>1. UNCHANGED <<pc, ack>>
    BY <1>5 DEF ClientReceive, txThread
  <2>2. \/ UNCHANGED toDevice
        \/ \E a \in Acks : a.missing = {} /\ toDevice' = Enqueue(toDevice, a)
    <3>1. Ok \in Acks /\ Nack({}) \in Acks /\ Ok.missing = {} /\ Nack({}).missing = {}
      BY FrameTypes DEF Ok, Nack
    <3> QED
      BY <1>5, <3>1 DEF ClientReceive, OnFileStart, OnData, OnFileEndOk, OnFileEndBad,
                        OnTransferDone, NoAnswer, Answer
  <2>3. \A j \in 1..Len(toDevice') : toDevice'[j].missing = {}
    <3>1. CASE UNCHANGED toDevice
      BY <1>1, <3>1
    <3>2. ASSUME NEW a \in Acks, a.missing = {}, toDevice' = Append(toDevice, a)
          PROVE  \A j \in 1..Len(toDevice') : toDevice'[j].missing = {}
      <4>1. /\ Len(toDevice') = Len(toDevice) + 1 /\ Len(toDevice) \in Nat
            /\ toDevice'[Len(toDevice) + 1] = a
            /\ \A i \in 1..Len(toDevice) : toDevice'[i] = toDevice[i]
        BY <1>1, <3>2, AppendProperties
      <4>2. \A j \in 1..Len(toDevice') : j \in 1..Len(toDevice) \/ j = Len(toDevice) + 1
        BY <4>1
      <4> QED
        BY <1>1, <3>2, <4>1, <4>2
    <3> QED
      BY <2>2, <3>1, <3>2 DEF Enqueue
  <2> QED
    BY <1>1, <2>1, <2>3 DEF NoBitmap
<1>6. CASE ClientWrite \/ UNCHANGED vars
  BY <1>1, <1>6 DEF ClientWrite, vars, linkVars, txThread, net, NoBitmap
<1> QED
  BY <1>3, <1>4, <1>5, <1>6 DEF Next

LEMMA CrcStep ==
  ASSUME Types, NoBitmap, CrcInv, [Next]_vars
  PROVE  CrcInv'
<1>1. CASE (TransferThread \/ Network) /\ UNCHANGED client
  BY <1>1, CrcThread, CrcNetwork DEF Types, NoBitmap
<1>2. CASE UNCHANGED <<txThread, udpFile, ack, ready, budget>>
  BY <1>2, CrcClient
<1> QED
  BY <1>1, <1>2 DEF Next, ClientReceive, ClientWrite, vars, linkVars

LEMMA CrcIsExact == CrcInv => CrcCoversFile
  BY DEF CrcInv, Exact, CrcCoversFile

\* "CRC always covers the FULL file, independent of send success": FILE_END's is that
\* of the whole file, however often the station re-associates, unless one of these
\* came while the file was being read
THEOREM CrcIsFull == Spec => []CrcCoversFile
<1>1. Init => Types /\ NoBitmap /\ CrcInv
  BY TypesInit, BitmapInit, CrcInit DEF Init
<1>2. Types /\ NoBitmap /\ CrcInv /\ [Next]_vars => (Types /\ NoBitmap /\ CrcInv)'
  BY TypesStep, BitmapStep, CrcStep
<1> QED
  BY <1>1, <1>2, CrcIsExact, PTL DEF Spec

-----------------------------------------------------------------------------
(* What is in flight, and what the client made of it                        *)

\* There is one answer at most.  It is about the file being sent, and it comes when
\* there is nothing else in flight
AnswerInv ==
    /\ Len(toDevice) # 0 =>
         /\ Len(toDevice) = 1 /\ Len(down) = 0 /\ pc \in {"arm", "wait"}
         /\ cur = NoFile
         /\ toDevice[1].ok => file \in Received
         /\ pc = "wait" => ack.sem = 0
    /\ pc = "wait" /\ ack.sem = 1 =>
         /\ Quiet
         /\ ack.ok => cur = NoFile /\ file \in Received
    /\ pc \in {"start", "repair"} => Quiet
    /\ pc = "file_end" /\ tries > 0 => Quiet

\* The files before the one being sent are synced, and the client has them
CountInv ==
    /\ cur.name \in {0, file}
    /\ pc \notin {"done", "over"} => synced = file - 1
    /\ pc \in {"done", "over"} => synced \in {file - 1, file}
    /\ 1..synced \subseteq Received

\* What is written, or will be, is what the device has
DiskInv ==
    /\ \A i \in 1..Len(writes) :
          writes[i].name \in budget.torn \/ writes[i].data = Content(writes[i].name)
    /\ \A f \in 1..NFiles : f \in budget.torn \/ files[f] \in {<<>>, Content(f)}

OrderInv == FrameInv /\ AnswerInv /\ CountInv /\ DiskInv

\* The order holds until a re-association aborts a wait: from then on an answer may
\* be taken for the next file's
IInv == Types /\ NoBitmap /\ CrcInv /\ (budget.late \/ OrderInv)

LEMMA OrderInit == Init => OrderInv
<1> SUFFICES ASSUME Init PROVE OrderInv
  OBVIOUS
<1>1. Len(down) = 0 /\ Len(toDevice) = 0 /\ Len(writes) = 0
  BY DEF Init, LinkInit
<1>2. FrameInv /\ AnswerInv
  BY <1>1 DEF Init, LinkInit, FrameInv, AnswerInv, Quiet
<1>3. CountInv
  BY DEF Init, LinkInit, CountInv, NoFile
<1>4. DiskInv
  BY <1>1 DEF Init, DiskInv
<1> QED
  BY <1>2, <1>3, <1>4 DEF OrderInv

\* The transfer thread leaves the client alone
LEMMA ThreadOrder ==
  ASSUME Timely = TRUE, IInv, ~budget.late, TransferThread, UNCHANGED client
  PROVE  OrderInv'
<1> USE UdpLinkAssumption
<1>1. /\ FrameInv /\ AnswerInv /\ CountInv /\ DiskInv /\ Types /\ CrcInv /\ NoBitmap
      /\ UNCHANGED <<cur, received, writes, files, budget>> /\ Received' = Received
  BY ThreadBudget DEF IInv, OrderInv, client, Received
<1>2. /\ down \in Seq(Frames) /\ toDevice \in Seq(Acks)
      /\ Len(down) \in Nat /\ Len(toDevice) \in Nat
      /\ file \in 1..NFiles /\ synced \in 0..NFiles /\ tries \in Nat
      /\ ack \in [ok : BOOLEAN, missing : SUBSET Nat, sem : {0, 1}]
  BY <1>1 DEF Types, LinkTypes, LinkTypeOK
<1>3. DiskInv'
  BY <1>1 DEF DiskInv
<1> USE <1>1, <1>2 DEF udpFile, net
<1>4. ASSUME FrameInv', AnswerInv', CountInv'
      PROVE  OrderInv'
  BY <1>3, <1>4 DEF OrderInv
<1>5. ASSUME UNCHANGED <<file, synced, cur>>,
             pc \notin {"done", "over"} => pc' \notin {"done", "over"}
                                           \/ synced \in {file - 1, file},
             pc \in {"done", "over"} => pc' \in {"done", "over"}
      PROVE  CountInv'
  BY <1>5 DEF CountInv
<1>6. ASSUME UNCHANGED <<down, file>>, pc \in {"arm", "wait"} => pc' \in {"arm", "wait"},
             pc # "over"
      PROVE  FrameInv'
  BY <1>6 DEF FrameInv, Exact
<1>7. ASSUME Len(down) = 0, UNCHANGED down
      PROVE  FrameInv'
  BY <1>7 DEF FrameInv
<1>10. CASE SendFileStart
  <2>1. /\ pc = "start" /\ pc' = "data" /\ UNCHANGED <<file, synced, toDevice>>
        /\ down' = Enqueue(down, Start(file)) \/ UNCHANGED down
    BY <1>10 DEF SendFileStart
  <2>2. FrameInv'
    <3>1. Start(file) \in Frames
      BY FrameTypes
    <3>2. Start(file).type = "FILE_START" /\ Start(file).file = file
      BY DEF Start
    <3> QED
      BY <1>6, <2>1, <3>1, <3>2, SentFrame DEF Types
  <2>3. AnswerInv'
    BY <2>1 DEF AnswerInv, Quiet
  <2>4. CountInv'
    BY <1>5, <2>1
  <2> QED
    BY <1>4, <2>2, <2>3, <2>4
<1>11. CASE SendFileData
  <2>1. /\ pc = "data" /\ UNCHANGED <<pc, file, synced, toDevice, ack, tries>>
        /\ down' = Enqueue(down, Data(nextSeq, <<file, pos>>))
        /\ nextSeq \in Seqs /\ <<file, pos>> \in Nat \X Nat
    BY <1>11 DEF SendFileData, Types, LinkTypes, LinkTypeOK, Seqs
  <2>2. FrameInv'
    <3>1. Data(nextSeq, <<file, pos>>) \in Frames
      BY <2>1, FrameTypes
    <3>2. Data(nextSeq, <<file, pos>>).type = "DATA"
      BY DEF Data
    <3> QED
      BY <2>1, <3>1, <3>2, SentFrame DEF Types
  <2>3. AnswerInv'
    BY <2>1 DEF AnswerInv, Quiet
  <2>4. CountInv'
    BY <1>5, <2>1
  <2> QED
    BY <1>4, <2>2, <2>3, <2>4
<1>12. CASE EndOfFile
  <2>1. /\ pc = "data" /\ pc' = "file_end" /\ tries' = 0
        /\ UNCHANGED <<file, synced, down, toDevice, ack>>
    BY <1>12 DEF EndOfFile
  <2>2. AnswerInv'
    BY <2>1 DEF AnswerInv, Quiet
  <2> QED
    BY <1>4, <1>5, <1>6, <2>1, <2>2
<1>13. CASE SendFileEnd
  <2>1. /\ pc = "file_end" /\ pc' = "arm" /\ UNCHANGED <<file, synced, toDevice, ack>>
        /\ down' = Enqueue(down, End(finalCrc'))
        /\ finalCrc' = IF tries = 0 THEN crc ELSE finalCrc
    BY <1>13 DEF SendFileEnd
  <2>2. Exact(finalCrc') /\ finalCrc' \in Seq(Nat \X Nat)
    <3>1. tries = 0 \/ tries > 0
      OBVIOUS
    <3> QED
      BY <2>1, <3>1 DEF CrcInv, Exact, Types, LinkTypes, LinkTypeOK
  <2>3. FrameInv'
    <3>1. End(finalCrc') \in Frames
      BY <2>2, FrameTypes
    <3>2. End(finalCrc').type = "FILE_END" /\ End(finalCrc').crc = finalCrc'
      BY DEF End
    <3> QED
      BY <2>1, <2>2, <3>1, <3>2, SentFrame DEF Types, Exact
  <2>4. Len(toDevice) = 0
    BY <2>1 DEF AnswerInv
  <2>5. AnswerInv'
    BY <2>1, <2>4 DEF AnswerInv, Quiet
  <2> QED
    BY <1>4, <1>5, <2>1, <2>3, <2>5
<1>14. CASE ArmFileAck
  <2>1. /\ pc = "arm" /\ pc' = "wait" /\ UNCHANGED <<file, synced, down, toDevice>>
        /\ ack' = [ok |-> FALSE, missing |-> {}, sem |-> 0]
    BY <1>14 DEF ArmFileAck
  <2>2. AnswerInv'
    BY <2>1 DEF AnswerInv, Quiet
  <2> QED
    BY <1>4, <1>5, <1>6, <2>1, <2>2
<1>15. CASE FileAckTimeout
  <2>1. /\ pc = "wait" /\ pc' = "file_end" /\ Len(down) = 0 /\ Len(toDevice) = 0
        /\ UNCHANGED <<file, synced, down, toDevice, ack>>
    BY <1>15, Timely = TRUE DEF FileAckTimeout
  <2>2. AnswerInv'
    BY <2>1 DEF AnswerInv, Quiet
  <2> QED
    BY <1>4, <1>5, <1>7, <2>1, <2>2
<1>16. CASE FileAckOk
  <2>1. /\ pc = "wait" /\ ack.sem = 1 /\ ack.ok /\ synced' = file
        /\ pc' \in {"start", "done"}
        /\ pc' = "start" => file' = file + 1
        /\ pc' = "done" => file' = file
        /\ ack' = [ack EXCEPT !.sem = 0] /\ UNCHANGED <<down, toDevice>>
    BY <1>16 DEF FileAckOk
  <2>2. Quiet /\ file \in Received /\ cur = NoFile
    BY <2>1 DEF AnswerInv
  <2>3. FrameInv'
    BY <1>7, <2>1, <2>2 DEF Quiet
  <2>4. AnswerInv'
    BY <2>1, <2>2 DEF AnswerInv, Quiet
  <2>5. synced = file - 1 /\ 1..synced \subseteq Received
    BY <2>1 DEF CountInv
  <2>6. 1..file \subseteq Received
    BY <2>2, <2>5
  <2>7. CountInv'
    BY <2>1, <2>2, <2>6 DEF CountInv, NoFile
  <2> QED
    BY <1>4, <2>3, <2>4, <2>7
<1>17. CASE FileAckNack
  <2>1. /\ pc = "wait" /\ ack.sem = 1 /\ pc' = "repair"
        /\ ack' = [ack EXCEPT !.sem = 0] /\ UNCHANGED <<file, synced, down, toDevice>>
    BY <1>17 DEF FileAckNack
  <2>2. Quiet
    BY <2>1 DEF AnswerInv
  <2>3. AnswerInv'
    BY <2>1, <2>2 DEF AnswerInv, Quiet
  <2> QED
    BY <1>4, <1>5, <1>7, <2>1, <2>2, <2>3 DEF Quiet
<1>18. CASE Repair
  <2>1. /\ pc = "repair" /\ ack.missing = {} /\ pc' = "start"
        /\ UNCHANGED <<file, synced, ack, down, toDevice>>
    BY <1>18 DEF Repair, NoBitmap
  <2>2. AnswerInv'
    BY <2>1 DEF AnswerInv, Quiet
  <2> QED
    BY <1>4, <1>5, <1>6, <2>1, <2>2
<1>19. CASE ResendMissing \/ RepairSent
  BY <1>19 DEF ResendMissing, RepairSent, NoBitmap
<1>20. CASE GiveUp
  <2>1. /\ pc \in {"data", "repair", "file_end"}
        /\ pc' = "done" /\ UNCHANGED <<file, synced, tries, ack, down, toDevice>>
    BY <1>20 DEF GiveUp, NoBitmap
  <2>2. AnswerInv' /\ FrameInv'
    BY <1>6, <2>1 DEF AnswerInv
  <2>3. synced = file - 1
    BY <2>1 DEF CountInv
  <2> QED
    BY <1>4, <1>5, <2>1, <2>2, <2>3
<1>21. CASE SendTransferDone
  <2>1. /\ pc = "done" /\ pc' = "over" /\ UNCHANGED <<file, synced, ack, toDevice>>
        /\ down' = Enqueue(down, Done(synced)) \/ UNCHANGED down
    BY <1>21 DEF SendTransferDone
  <2>2. FrameInv'
    <3>1. Done(synced) \in Frames
      BY FrameTypes
    <3>2. Done(synced).type = "TRANSFER_DONE"
      BY DEF Done
    <3> QED
      BY <1>6, <2>1, <3>1, <3>2, SentFrame DEF Types
  <2>3. Len(toDevice) = 0
    BY <2>1 DEF AnswerInv
  <2>4. AnswerInv'
    BY <2>1, <2>3 DEF AnswerInv, Quiet
  <2> QED
    BY <1>4, <1>5, <2>1, <2>2, <2>4
<1> QED
  BY <1>10, <1>11, <1>12, <1>13, <1>14, <1>15, <1>16, <1>17, <1>18, <1>19, <1>20, <1>21
     DEF TransferThread

\* An answer arrives, a datagram is lost, or the station re-associates while nobody
\* waits
LEMMA NetworkOrder ==
  ASSUME IInv, ~budget'.late, Network, UNCHANGED client
  PROVE  OrderInv'
<1>0. ~budget.late /\ budget.torn \subseteq budget'.torn
  BY HistoryStep DEF IInv, Types
<1>1. /\ FrameInv /\ AnswerInv /\ CountInv /\ DiskInv /\ Types
      /\ UNCHANGED <<cur, received, writes, files>> /\ Received \subseteq Received'
  BY <1>0 DEF IInv, OrderInv, client, Received
<1>2. /\ down \in Seq(Frames) /\ toDevice \in Seq(Acks)
      /\ Len(down) \in Nat /\ Len(toDevice) \in Nat
      /\ ack \in [ok : BOOLEAN, missing : SUBSET Nat, sem : {0, 1}]
  BY <1>1 DEF Types, LinkTypes, LinkTypeOK
<1> USE <1>1, <1>2
<1>3. ASSUME UNCHANGED txThread
      PROVE  CountInv' /\ DiskInv'
  BY <1>0, <1>3 DEF CountInv, DiskInv, txThread
<1>4. ASSUME NEW i \in DOMAIN toDevice, toDevice' = RemoveAt(toDevice, i)
      PROVE  /\ Len(toDevice) = 1 /\ i = 1 /\ Len(toDevice') = 0
             /\ Len(down) = 0 /\ pc \in {"arm", "wait"}
  <2>1. i \in 1..Len(toDevice) /\ Len(toDevice') = Len(toDevice) - 1
    BY <1>4, RemoveAtType
  <2>2. Len(toDevice) = 1 /\ Len(down) = 0 /\ pc \in {"arm", "wait"}
    BY <2>1 DEF AnswerInv
  <2> QED
    BY <2>1, <2>2
<1>5. CASE ReceivePacket
  <2>1. PICK i \in DOMAIN toDevice :
           /\ toDevice' = RemoveAt(toDevice, i)
           /\ ack' = [ok |-> toDevice[i].ok, missing |-> toDevice[i].missing, sem |-> 1]
    BY <1>5 DEF ReceivePacket, Arrivals
  <2>2. UNCHANGED <<txThread, down>>
    BY <1>5 DEF ReceivePacket
  <2>3. /\ Len(toDevice) = 1 /\ i = 1 /\ Len(toDevice') = 0
        /\ Len(down) = 0 /\ pc \in {"arm", "wait"}
    BY <1>4, <2>1
  <2>4. /\ ack'.ok = toDevice[1].ok
        /\ toDevice[1].ok => file \in Received
        /\ cur = NoFile
    BY <2>1, <2>3 DEF AnswerInv
  <2>5. FrameInv'
    BY <2>2, <2>3 DEF FrameInv, txThread
  <2>6. AnswerInv'
    BY <2>2, <2>3, <2>4 DEF AnswerInv, Quiet, txThread
  <2> QED
    BY <1>3, <2>2, <2>5, <2>6 DEF OrderInv
<1>6. CASE ReceiveHeartbeat
  <2>1. UNCHANGED <<txThread, ack, down, toDevice, budget>>
    BY <1>6 DEF ReceiveHeartbeat, net
  <2>2. FrameInv' /\ AnswerInv'
    BY <2>1 DEF FrameInv, Exact, AnswerInv, Quiet, txThread, Received
  <2> QED
    BY <1>3, <2>1, <2>2 DEF OrderInv
<1>8. CASE StaConnected
  <2>1. ~Waiting
    BY <1>8, Reassociated DEF Types
  <2>2. /\ UNCHANGED <<txThread, down, toDevice>>
        /\ ack' = [ack EXCEPT !.ok = FALSE, !.sem = 1]
    BY <1>8, <2>1 DEF StaConnected, txThread, net
  <2>3. FrameInv'
    BY <1>0, <2>2 DEF FrameInv, Exact, txThread
  <2>4. ack'.ok = FALSE /\ ack'.sem = 1 /\ (pc = "wait" => ack.sem = 1)
    BY <2>1, <2>2 DEF Waiting
  <2>5. AnswerInv'
    BY <2>2, <2>4 DEF AnswerInv, Quiet, txThread
  <2> QED
    BY <1>3, <2>2, <2>3, <2>5 DEF OrderInv
<1>7. CASE Lose
  <2>1. UNCHANGED <<txThread, ack>> /\ budget'.torn = budget.torn
    BY <1>7, BudgetTypes DEF Lose, Types, LinkTypes, LinkTypeOK
  <2>2. CASE \E i \in DOMAIN down : down' = RemoveAt(down, i) /\ UNCHANGED toDevice
    <3>1. PICK i \in DOMAIN down : down' = RemoveAt(down, i) /\ UNCHANGED toDevice
      BY <2>2
    <3>2. FrameInv' /\ Len(down') = Len(down) - 1 /\ Len(down) # 0
      BY <2>1, <3>1, GoneFrame DEF txThread, Types
    <3>3. Len(toDevice') = 0 /\ ~(pc = "wait" /\ ack.sem = 1)
          /\ pc \notin {"start", "repair"} /\ ~(pc = "file_end" /\ tries > 0)
      BY <3>1, <3>2 DEF AnswerInv, Quiet
    <3>4. AnswerInv'
      BY <2>1, <3>3 DEF AnswerInv, Quiet, txThread
    <3> QED
      BY <1>3, <2>1, <3>2, <3>4 DEF OrderInv
  <2>3. CASE \E i \in DOMAIN toDevice :
                toDevice' = RemoveAt(toDevice, i) /\ UNCHANGED down
    <3>1. Len(toDevice') = 0 /\ Len(down) = 0 /\ pc \in {"arm", "wait"} /\ UNCHANGED down
      BY <1>4, <2>3
    <3>2. FrameInv'
      BY <3>1 DEF FrameInv
    <3>3. AnswerInv'
      BY <2>1, <3>1 DEF AnswerInv, Quiet, txThread
    <3> QED
      BY <1>3, <2>1, <3>2, <3>3 DEF OrderInv
  <2> QED
    BY <1>7, <2>2, <2>3 DEF Lose
<1> QED
  BY <1>5, <1>6, <1>7, <1>8 DEF Network

\* A frame arrives: while there is one, no answer is in flight or taken
LEMMA ReceiveOrder ==
  ASSUME Fifo = TRUE, IInv, ~budget.late, ClientReceive
  PROVE  /\ OrderInv'
         /\ Received' = Received
              \/ (Received' = Received \union {file} /\ synced = file - 1)
<1>1. /\ FrameInv /\ AnswerInv /\ CountInv /\ DiskInv /\ Types
      /\ UNCHANGED <<txThread, ack, budget>>
  BY DEF IInv, OrderInv, ClientReceive
<1>2. /\ down \in Seq(Frames) /\ toDevice \in Seq(Acks)
      /\ Len(down) \in Nat /\ Len(toDevice) \in Nat
      /\ ack \in [ok : BOOLEAN, missing : SUBSET Nat, sem : {0, 1}]
      /\ file \in 1..NFiles
  BY <1>1 DEF Types, LinkTypes, LinkTypeOK
<1> DEFINE m == down[1]
<1>3. /\ down' = RemoveAt(down, 1) /\ 1 \in DOMAIN down
      /\ \/ result = "running" /\ ( OnFileStart(m) \/ OnData(m)
              \/ OnFileEndOk(m) \/ OnFileEndBad(m) \/ OnTransferDone(m))
         \/ NoAnswer /\ UNCHANGED client
  BY DEF ClientReceive, Take, Arrivals
<1>4. FrameInv' /\ Len(down') = Len(down) - 1 /\ Len(down) # 0
  BY <1>1, <1>3, GoneFrame DEF txThread, Types
<1> USE <1>1, <1>2
<1>5. /\ Len(toDevice) = 0 /\ ~(pc = "wait" /\ ack.sem = 1)
      /\ pc \notin {"start", "repair"} /\ ~(pc = "file_end" /\ tries > 0)
  BY <1>4 DEF AnswerInv, Quiet
<1>6. ASSUME NoAnswer, UNCHANGED <<received, writes, files>>, cur'.name \in {0, file}
      PROVE  OrderInv' /\ Received' = Received
  <2>1. Len(toDevice') = 0
    BY <1>5, <1>6 DEF NoAnswer
  <2>2. AnswerInv'
    BY <1>5, <2>1 DEF AnswerInv, Quiet, txThread
  <2>3. CountInv' /\ DiskInv'
    BY <1>6 DEF CountInv, DiskInv, txThread, Received
  <2> QED
    BY <1>4, <1>6, <2>2, <2>3 DEF OrderInv, Received
<1>7. CASE NoAnswer /\ UNCHANGED client
  BY <1>6, <1>7 DEF client, CountInv
<1>8. CASE OnFileStart(m)
  <2>1. cur'.name = file
    BY <1>3, <1>8 DEF OnFileStart, FrameInv
  <2> QED
    BY <1>6, <1>8, <2>1 DEF OnFileStart
<1>9. CASE OnData(m)
  <2>1. cur'.name = cur.name
    <3>1. cur \in ClientFile
      BY DEF Types, ClientTypes1
    <3>2. UNCHANGED cur \/ \E d : cur' = [cur EXCEPT !.data = d]
      BY <1>9 DEF OnData
    <3> QED
      BY <3>1, <3>2 DEF ClientFile
  <2> QED
    BY <1>6, <1>9, <2>1 DEF OnData, CountInv
<1>10. CASE OnTransferDone(m)
  BY <1>6, <1>10 DEF OnTransferDone, CountInv
<1>11. ASSUME m.type = "FILE_END"
       PROVE  /\ Exact(m.crc) /\ pc \in {"arm", "wait"}
              /\ Len(down') = 0 /\ synced = file - 1
  BY <1>3, <1>4, <1>11 DEF FrameInv, CountInv
\* The answer to FILE_END is the only datagram in flight
<1>12. ASSUME NEW a \in Acks, a.missing = {}, m.type = "FILE_END", Answer(a),
              cur' = NoFile, a.ok => file \in Received', UNCHANGED files,
              1..synced \subseteq Received',
              \A i \in 1..Len(writes') :
                  writes'[i].name \in budget.torn \/ writes'[i].data = Content(writes'[i].name)
       PROVE  OrderInv'
  <2>1. Len(toDevice') = 0 \/ (Len(toDevice') = 1 /\ toDevice'[1] = a)
    <3>1. toDevice' = toDevice \/ toDevice' = Append(toDevice, a)
      BY <1>12 DEF Answer, Enqueue
    <3>2. CASE toDevice' = Append(toDevice, a)
      <4>1. Len(toDevice') = Len(toDevice) + 1 /\ toDevice'[Len(toDevice) + 1] = a
        BY <3>2, AppendProperties
      <4> QED
        BY <1>5, <4>1
    <3> QED
      BY <1>5, <3>1, <3>2
  <2>2. pc \in {"arm", "wait"} /\ Len(down') = 0
    BY <1>11, <1>12
  <2>3. pc = "wait" => ack.sem = 0
    BY <1>5
  <2>4. AnswerInv'
    BY <1>5, <1>12, <2>1, <2>2, <2>3 DEF AnswerInv, Quiet, txThread
  <2>5. CountInv' /\ DiskInv'
    BY <1>12 DEF CountInv, DiskInv, txThread, NoFile
  <2> QED
    BY <1>4, <2>4, <2>5 DEF OrderInv
<1>13. CASE OnFileEndOk(m)
  <2>1. /\ m.type = "FILE_END" /\ cur.name = file
        /\ file \in budget.torn \/ cur.data = Content(file)
    BY <1>11, <1>13 DEF OnFileEndOk, Complete, CountInv, Exact
  <2>2. /\ received' \in {received, received \union {file}}
        /\ file \in budget.torn \/ received' = received \union {file}
    BY <1>13, <2>1 DEF OnFileEndOk
  <2>3. file \in Received' /\ Received' = Received \union {file}
    BY <2>2 DEF Received
  <2>4. \A i \in 1..Len(writes') :
           writes'[i].name \in budget.torn \/ writes'[i].data = Content(writes'[i].name)
    <3>1. writes \in Seq([name : 1..NFiles, data : Seq(Frame)])
      BY DEF Types, ClientTypes1
    <3>2. /\ Len(writes') = Len(writes) + 1 /\ writes'[Len(writes) + 1] = cur
          /\ \A i \in 1..Len(writes) : writes'[i] = writes[i]
      BY <1>13, <3>1, AppendProperties DEF OnFileEndOk
    <3>3. \A i \in 1..Len(writes') : i \in 1..Len(writes) \/ i = Len(writes) + 1
      BY <3>1, <3>2
    <3> QED
      BY <2>1, <3>2, <3>3 DEF DiskInv
  <2>5. Ok \in Acks /\ Ok.missing = {}
    BY FrameTypes DEF Ok
  <2>6. 1..synced \subseteq Received'
    BY <2>3 DEF CountInv
  <2>7. OrderInv'
    BY <1>12, <1>13, <2>1, <2>3, <2>4, <2>5, <2>6 DEF OnFileEndOk
  <2> QED
    BY <1>11, <2>1, <2>3, <2>7
<1>14. CASE OnFileEndBad(m)
  <2>1. Nack({}) \in Acks /\ Nack({}).missing = {} /\ Nack({}).ok = FALSE
    BY FrameTypes DEF Nack
  <2>2. 1..synced \subseteq Received'
    BY <1>14 DEF OnFileEndBad, CountInv, Received
  <2>3. \A i \in 1..Len(writes') :
           writes'[i].name \in budget.torn \/ writes'[i].data = Content(writes'[i].name)
    BY <1>14 DEF OnFileEndBad, DiskInv
  <2>4. OrderInv'
    BY <1>12, <1>14, <2>1, <2>2, <2>3 DEF OnFileEndBad
  <2> QED
    BY <1>14, <2>4 DEF OnFileEndBad, Received
<1>15. OrderInv'
  BY <1>3, <1>7, <1>8, <1>9, <1>10, <1>13, <1>14
<1>16. ~OnFileEndOk(m) => Received' = Received
  BY <1>3 DEF Received, client, OnFileStart, OnData, OnFileEndBad, OnTransferDone
<1> QED
  BY <1>13, <1>15, <1>16

\* A write puts a file of the chain on the disk
LEMMA WriteOrder ==
  ASSUME IInv, ~budget.late, ClientWrite
  PROVE  OrderInv'
<1>1. /\ FrameInv /\ AnswerInv /\ CountInv /\ DiskInv /\ Types
      /\ UNCHANGED <<linkVars, cur, received>>
  BY DEF IInv, OrderInv, ClientWrite
<1> USE <1>1
<1>2. FrameInv' /\ AnswerInv' /\ CountInv'
  BY DEF FrameInv, Exact, AnswerInv, CountInv, Received, Quiet, linkVars, txThread, net
<1>3. /\ writes \in Seq([name : 1..NFiles, data : Seq(Frame)])
      /\ files \in [1..NFiles -> Seq(Frame)]
  BY DEF Types, ClientTypes1
<1>4. /\ Head(writes) = writes[1] /\ Len(writes) \in Nat \ {0}
      /\ writes' = Tail(writes) /\ Len(writes') = Len(writes) - 1
      /\ \A i \in 1..Len(writes') : writes'[i] = writes[i + 1]
  BY <1>3, HeadTailProperties, EmptySeq DEF ClientWrite
<1>5. \A i \in 1..Len(writes') : i + 1 \in 1..Len(writes)
  BY <1>4
<1>6. \A i \in 1..Len(writes') :
         writes'[i].name \in budget.torn \/ writes'[i].data = Content(writes'[i].name)
  BY <1>4, <1>5 DEF DiskInv
<1>7. /\ Head(writes).name \in 1..NFiles
      /\ Head(writes).name \in budget.torn \/ Head(writes).data = Content(Head(writes).name)
  <2>1. 1 \in 1..Len(writes)
    BY <1>4
  <2>2. writes[1] \in [name : 1..NFiles, data : Seq(Frame)]
    BY ONLY <1>3, <2>1, ElementOfSeq
  <2> QED
    BY <1>4, <2>1, <2>2 DEF DiskInv
<1>8. \A f \in 1..NFiles : f \in budget.torn \/ files'[f] \in {<<>>, Content(f)}
  <2>1. CASE files' = [files EXCEPT ![Head(writes).name] = Head(writes).data]
    <3>1. \A f \in 1..NFiles : files'[f] = files[f] \/ f \in budget.torn \/ files'[f] = Content(f)
      BY <1>3, <1>7, <2>1
    <3> QED
      BY <3>1 DEF DiskInv
  <2>2. CASE UNCHANGED files
    BY <2>2 DEF DiskInv
  <2> QED
    BY <2>1, <2>2 DEF ClientWrite
<1>9. UNCHANGED budget
  BY DEF linkVars
<1> QED
  BY <1>2, <1>6, <1>8, <1>9 DEF OrderInv, DiskInv

-----------------------------------------------------------------------------
(* The theorems                                                             *)

\* What is asked of the network: datagrams keep their order, and an answer takes
\* less than the device waits for it.  Stations may re-associate at will
Orderly == Fifo = TRUE /\ Timely = TRUE

LEMMA IInvInit == Init => IInv
  BY TypesInit, BitmapInit, CrcInit, OrderInit DEF Init, IInv

LEMMA IInvStep == Orderly /\ IInv /\ [Next]_vars => IInv'
<1> SUFFICES ASSUME Orderly, IInv, [Next]_vars PROVE IInv'
  OBVIOUS
<1>1. Types' /\ NoBitmap' /\ CrcInv'
  BY TypesStep, BitmapStep, CrcStep DEF IInv
<1>2. ASSUME ~budget'.late
      PROVE  OrderInv'
  <2>1. ~budget.late
    BY <1>2, HistoryStep DEF IInv, Types, Next, ClientReceive, ClientWrite, vars, linkVars
  <2>2. CASE UNCHANGED vars
    <3>1. UNCHANGED <<pc, file, synced, tries, ack, down, toDevice, budget, client>>
      BY <2>2 DEF vars, linkVars, txThread, net
    <3>2. OrderInv
      BY <2>1 DEF IInv
    <3>3. FrameInv' /\ AnswerInv'
      BY <3>1, <3>2 DEF OrderInv, FrameInv, Exact, AnswerInv, Quiet, Received, client
    <3>4. CountInv' /\ DiskInv'
      BY <3>1, <3>2 DEF OrderInv, CountInv, DiskInv, Received, client
    <3> QED
      BY <3>3, <3>4 DEF OrderInv
  <2> QED
    BY <1>2, <2>1, <2>2, ThreadOrder, NetworkOrder, ReceiveOrder, WriteOrder
       DEF Orderly, Next
<1> QED
  BY <1>1, <1>2 DEF IInv

LEMMA IInvIntact == IInv => SavedIntact
  BY DEF IInv, OrderInv, DiskInv, SavedIntact

\* A file on the client's disk is the device's file, never a part or a mixture, but
\* for the files that a re-association interrupted, and until one aborts a wait.
\* Frames carry no file name, so it is the order of FILE_START, DATA, FILE_END and
\* its answer that keeps two files or two attempts apart
THEOREM FlutterFilesIntact ==
  ASSUME Orderly
  PROVE  Spec => []SavedIntact
<1>1. (Init => IInv) /\ (IInv /\ [Next]_vars => IInv')
  BY IInvInit, IInvStep
<1> QED
  BY <1>1, IInvIntact, PTL DEF Spec

\* The device counts as synced only files the client received complete, or as far as
\* a re-association left them, until one aborts a wait.  FILE_ACK does not say which
\* file it is about: an answer is never taken for another file's
THEOREM CountIsReceived ==
  ASSUME Orderly
  PROVE  Spec => []SyncedIsReceived
<1>1. IInv => SyncedIsReceived
  BY DEF IInv, OrderInv, CountInv, SyncedIsReceived
<1>2. (Init => IInv) /\ (IInv /\ [Next]_vars => IInv')
  BY IInvInit, IInvStep
<1> QED
  BY <1>1, <1>2, PTL DEF Spec

\* Only FileAckOk counts a file
LEMMA ThreadCounts ==
  ASSUME TransferThread \/ Network, synced' # synced
  PROVE  FileAckOk
  BY DEF TransferThread, SendFileStart, SendFileData, EndOfFile, SendFileEnd, ArmFileAck,
         FileAckTimeout, FileAckNack, Repair, ResendMissing, RepairSent, GiveUp,
         SendTransferDone, Network, ReceivePacket, ReceiveHeartbeat, StaConnected, Lose,
         txThread

LEMMA PromiseInit == Init => Promise!Init
  BY DEF Init, LinkInit, Promise!Init, Received

LEMMA PromiseStep ==
  ASSUME Orderly, IInv, [Next]_vars
  PROVE  [budget'.late \/ Promise!Next]_<<Received, synced>>
<1> SUFFICES ASSUME ~budget'.late PROVE [Promise!Next]_<<Received, synced>>
  OBVIOUS
<1>1. /\ FrameInv /\ AnswerInv /\ CountInv /\ DiskInv /\ Types /\ ~budget.late
      /\ file \in 1..NFiles /\ synced \in 0..NFiles
  <2>1. ~budget.late
    BY HistoryStep DEF IInv, Types, Next, ClientReceive, ClientWrite, vars, linkVars
  <2> QED
    BY <2>1 DEF IInv, OrderInv, Types, LinkTypes, LinkTypeOK
<1>2. CASE (TransferThread \/ Network) /\ UNCHANGED client /\ ~StaConnected
  <2>1. UNCHANGED Received
    BY <1>1, <1>2, HistoryStep DEF client, Received, Types
  <2>2. CASE FileAckOk
    <3>1. pc = "wait" /\ ack.sem = 1 /\ ack.ok /\ synced' = file
      BY <2>2 DEF FileAckOk
    <3>2. file \in Received /\ synced = file - 1
      BY <1>1, <3>1 DEF AnswerInv, CountInv
    <3>3. synced + 1 = file
      BY <1>1, <3>2
    <3> QED
      BY <2>1, <3>1, <3>2, <3>3 DEF Promise!Next, Promise!Confirm
  <2> QED
    BY <1>2, <2>1, <2>2, ThreadCounts
\* The file that a re-association interrupts is the one after the synced ones
<1>3. CASE StaConnected /\ UNCHANGED client
  <2>1. UNCHANGED synced
    BY <1>3 DEF StaConnected
  <2>2. Received' = Received \union {f \in {file} : Streaming}
    BY <1>1, <1>3, Reassociated DEF client, Received, Types
  <2>3. Streaming => synced < NFiles /\ synced + 1 = file
    BY <1>1, UdpLinkAssumption DEF Streaming, CountInv
  <2> QED
    BY <2>1, <2>2, <2>3 DEF Promise!Next, Promise!Save
<1>4. CASE ClientReceive
  <2>1. UNCHANGED synced
    BY <1>4 DEF ClientReceive, txThread
  <2>2. \/ Received' = Received
        \/ Received' = Received \union {file} /\ synced = file - 1
    BY <1>1, <1>4, ReceiveOrder DEF Orderly
  <2>3. synced = file - 1 => synced < NFiles /\ synced + 1 = file
    BY <1>1, UdpLinkAssumption
  <2> QED
    BY <2>1, <2>2, <2>3 DEF Promise!Next, Promise!Save
<1>5. CASE ClientWrite \/ UNCHANGED vars
  BY <1>5 DEF ClientWrite, vars, client, linkVars, txThread, Received
<1> QED
  BY <1>2, <1>3, <1>4, <1>5 DEF Next

\* Until a re-association aborts a wait, the session transfer does what FileSync
\* allows, step by step: the client completes the file after the synced ones, or a
\* re-association interrupts it, then the device counts it
THEOREM FlutterKeepsPromise ==
  ASSUME Orderly
  PROVE  Spec => KeepsPromise
<1>1. /\ Init => Promise!Init /\ IInv
      /\ IInv /\ [Next]_vars => IInv'
  BY IInvInit, IInvStep, PromiseInit
<1>2. ASSUME IInv, [Next]_vars
      PROVE  [budget'.late \/ Promise!Next]_<<Received, synced>>
  BY <1>2, PromiseStep
<1> QED
  BY <1>1, <1>2, PTL DEF Spec, KeepsPromise

-----------------------------------------------------------------------------
(* The run over the three clients.  The other two are taken with constants   *)
(* of their own, which satisfy the assumption on them                       *)

LEMMA OthersFit == Python!UdpLinkAssumption /\ Selective!UdpLinkAssumption
  BY UdpLinkAssumption DEF Python!UdpLinkAssumption, Selective!UdpLinkAssumption

\* Each client runs as in its own module, and the clients are never exchanged
LEMMA AnyStep ==
  ASSUME [AnyNext]_allVars
  PROVE  /\ who' = who
         /\ who = "flutter" => [Next]_vars
         /\ who = "python" => [Python!Next]_(Python!vars)
         /\ who = "selective" => [Selective!Next]_(Selective!vars)
<1>1. CASE UNCHANGED allVars
  <2>1. UNCHANGED vars /\ who' = who /\ UNCHANGED others
    BY <1>1 DEF allVars
  <2>2. UNCHANGED Python!vars
    BY <2>1 DEF vars, client, others, linkVars, udpFile, txThread, net, Python!vars,
                Python!client, Python!linkVars, Python!udpFile, Python!txThread,
                Python!net
  <2>3. UNCHANGED Selective!vars
    BY <2>1 DEF vars, client, others, linkVars, udpFile, txThread, net, Selective!vars,
                Selective!client, Selective!linkVars, Selective!udpFile,
                Selective!txThread, Selective!net
  <2> QED
    BY <2>1, <2>2, <2>3
<1>2. CASE IsFlutter /\ Next
  BY <1>2 DEF IsFlutter
<1>3. CASE IsPython /\ Python!Next
  BY <1>3 DEF IsPython
<1>4. CASE IsSelective /\ Selective!Next
  BY <1>4 DEF IsSelective
<1> QED
  BY <1>1, <1>2, <1>3, <1>4 DEF AnyNext

AnyTypes == /\ who = "flutter" => Types
            /\ who = "python" => Python!Types
            /\ who = "selective" => Selective!Types

LEMMA AnyTypesInit == AnyInit => AnyTypes
<1>1. Python!Init => Python!Types
  BY OthersFit, Python!TypesInit
<1>2. Selective!Init => Selective!Types
  BY OthersFit, Selective!TypesInit
<1> QED
  BY <1>1, <1>2, TypesInit DEF AnyInit, AnyTypes

LEMMA AnyTypesStep == AnyTypes /\ [AnyNext]_allVars => AnyTypes'
<1> SUFFICES ASSUME AnyTypes, [AnyNext]_allVars PROVE AnyTypes'
  OBVIOUS
<1>1. Python!Types /\ [Python!Next]_(Python!vars) => Python!Types'
  BY OthersFit, Python!TypesStep
<1>2. Selective!Types /\ [Selective!Next]_(Selective!vars) => Selective!Types'
  BY OthersFit, Selective!TypesStep
<1> QED
  BY <1>1, <1>2, TypesStep, AnyStep DEF AnyTypes

\* Whoever the client is, every variable keeps to the values its code can give it
THEOREM AnyClientTypes == AnySpec => []AnyTypeOK
<1>1. (Python!Types => Python!TypeOK) /\ (Selective!Types => Selective!TypeOK)
  BY OthersFit, Python!TypesAreCode, Selective!TypesAreCode
<1>2. AnyTypes => AnyTypeOK
  BY <1>1, TypesAreCode DEF AnyTypes, AnyTypeOK
<1> QED
  BY <1>2, AnyTypesInit, AnyTypesStep, PTL DEF AnySpec

AnyCrc == AnyTypes /\ (who = "flutter" => NoBitmap /\ CrcInv)

\* transport_udp.c: the CRC of FILE_END covers the full file whatever the sends
\* returned and however often the station re-associates, but for a file that a
\* re-association interrupts
THEOREM AnyCrcIsFull == AnySpec => []FullCrc
<1>1. AnyInit => AnyCrc
  BY AnyTypesInit, BitmapInit, CrcInit DEF AnyInit, AnyCrc, Init
<1>2. AnyCrc /\ [AnyNext]_allVars => AnyCrc'
  BY AnyTypesStep, AnyStep, BitmapStep, CrcStep DEF AnyCrc, AnyTypes
<1>3. AnyCrc => FullCrc
  BY CrcIsExact DEF AnyCrc, FullCrc
<1> QED
  BY <1>1, <1>2, <1>3, PTL DEF AnySpec

AnyIInv == /\ who = "flutter" => IInv
           /\ who = "python" => Python!IInv
           /\ who = "selective" => Selective!IInv

LEMMA OthersOrderly == Orderly => Selective!Orderly
  BY DEF Orderly, Selective!Orderly

LEMMA AnyIInvInit == AnyInit => AnyIInv
<1>1. Python!Init => Python!IInv
  BY OthersFit, Python!IInvInit
<1>2. Selective!Init => Selective!IInv
  BY OthersFit, Selective!IInvInit
<1> QED
  BY <1>1, <1>2, IInvInit DEF AnyInit, AnyIInv

LEMMA AnyIInvStep == Orderly /\ AnyIInv /\ [AnyNext]_allVars => AnyIInv'
<1> SUFFICES ASSUME Orderly, AnyIInv, [AnyNext]_allVars PROVE AnyIInv'
  OBVIOUS
<1>1. Python!IInv /\ [Python!Next]_(Python!vars) => Python!IInv'
  BY OthersFit, Python!IInvStep DEF Orderly
<1>2. Selective!IInv /\ [Selective!Next]_(Selective!vars) => Selective!IInv'
  BY OthersFit, OthersOrderly, Selective!IInvStep
<1> QED
  BY <1>1, <1>2, IInvStep, AnyStep DEF AnyIInv

\* What either client has at a file's final path is the device's file: the Python
\* client's always, the Flutter client's but for the files that a re-association
\* interrupted, and until one aborts a wait
THEOREM AnyFilesIntact ==
  ASSUME Orderly
  PROVE  AnySpec => []AnySavedIntact
<1>1. Python!IInv => Python!SavedIntact
  BY OthersFit, Python!IInvIntact
<1>2. AnyIInv => AnySavedIntact
  BY <1>1, IInvIntact DEF AnyIInv, AnySavedIntact
<1>3. (AnyInit => AnyIInv) /\ (AnyIInv /\ [AnyNext]_allVars => AnyIInv')
  BY AnyIInvInit, AnyIInvStep
<1> QED
  BY <1>2, <1>3, PTL DEF AnySpec

\* What the client has, as each client's module says it
LEMMA AnySavedPython ==
  who = "python" /\ Python!Types =>
    AnySaved = {f \in 1..2 : files[f] = Python!Content(f)} /\ synced \in 0..2
  BY OthersFit, Python!Named DEF AnySaved

LEMMA AnySavedSelective ==
  who = "selective" /\ Selective!Types =>
    AnySaved = {f \in 1..2 : files[f] = Selective!Content(f)} /\ synced \in 0..2
  BY OthersFit, Selective!Named DEF AnySaved

LEMMA AnyPromiseInit == AnyInit => AnyPromise!Init
<1> SUFFICES ASSUME AnyInit PROVE AnyPromise!Init
  OBVIOUS
<1>1. CASE who = "flutter"
  BY <1>1, PromiseInit DEF AnyInit, AnySaved, AnyPromise!Init, Promise!Init
<1>2. CASE who = "python"
  <2>1. Python!Init
    BY <1>2 DEF AnyInit
  <2>2. Python!Types /\ Python!Promise!Init
    BY <2>1, OthersFit, Python!TypesInit, Python!PromiseInit
  <2> QED
    BY <1>2, <2>2, AnySavedPython DEF AnyPromise!Init, Python!Promise!Init
<1>3. CASE who = "selective"
  <2>1. Selective!Init
    BY <1>3 DEF AnyInit
  <2>2. Selective!Types /\ Selective!Promise!Init
    BY <2>1, OthersFit, Selective!TypesInit, Selective!PromiseInit
  <2> QED
    BY <1>3, <2>2, AnySavedSelective
       DEF AnyPromise!Init, Selective!Promise!Init, Selective!Saved
<1> QED
  BY <1>1, <1>2, <1>3 DEF AnyInit

LEMMA AnyPromiseStep ==
  ASSUME Orderly, NFiles >= 2, AnyIInv, [AnyNext]_allVars
  PROVE  [AnyBroken' \/ AnyPromise!Next]_<<AnySaved, synced>>
<1> SUFFICES ASSUME ~AnyBroken' PROVE [AnyPromise!Next]_<<AnySaved, synced>>
  OBVIOUS
<1> USE DEF AnyPromise!Next
<1>1. who' = who /\ AnyIInv'
  BY AnyStep, AnyIInvStep
<1>2. CASE who = "flutter"
  <2>1. [budget'.late \/ Promise!Next]_<<Received, synced>>
    BY <1>2, AnyStep, PromiseStep DEF AnyIInv
  <2>2. AnySaved = Received /\ AnySaved' = Received' /\ ~budget'.late
    BY <1>1, <1>2 DEF AnySaved, AnyBroken
  <2> QED
    BY <2>1, <2>2 DEF AnyPromise!Save, AnyPromise!Confirm, Promise!Next, Promise!Save,
                      Promise!Confirm
<1>3. CASE who = "python"
  <2> DEFINE saved == {f \in 1..2 : files[f] = Python!Content(f)}
  <2>1. Python!IInv /\ Python!IInv' /\ [Python!Next]_(Python!vars) /\ Fifo = TRUE
    BY <1>1, <1>3, AnyStep DEF AnyIInv, Orderly
  <2>2. [Python!Promise!Next]_<<saved, synced>>
    BY <2>1, OthersFit, Python!PromiseStep
  <2>3. Python!Types /\ Python!Types'
    BY <2>1 DEF Python!IInv
  <2>4. /\ AnySaved = saved /\ synced \in 0..2
        /\ (who = "python" /\ Python!Types => AnySaved = saved /\ synced \in 0..2)'
    BY <1>3, <2>3, AnySavedPython, PTL
  <2>5. AnySaved' = saved'
    BY <1>1, <1>3, <2>3, <2>4
  <2> QED
    BY <2>2, <2>4, <2>5, UdpLinkAssumption
       DEF AnyPromise!Save, AnyPromise!Confirm, Python!Promise!Next, Python!Promise!Save,
           Python!Promise!Confirm
<1>4. CASE who = "selective"
  <2> DEFINE saved == {f \in 1..2 : files[f] = Selective!Content(f)}
  <2>1. Selective!IInv /\ Selective!IInv' /\ [Selective!Next]_(Selective!vars)
    BY <1>1, <1>4, AnyStep DEF AnyIInv
  <2>2. [Selective!Associated' => Selective!Promise!Next]_<<Selective!Saved, synced>>
    BY <2>1, OthersFit, OthersOrderly, Selective!PromiseStep
  <2>3. Selective!Types /\ Selective!Types'
    BY <2>1 DEF Selective!IInv
  <2>4. /\ AnySaved = saved /\ synced \in 0..2
        /\ (who = "selective" /\ Selective!Types => AnySaved = saved /\ synced \in 0..2)'
    BY <1>4, <2>3, AnySavedSelective, PTL
  <2>5. AnySaved' = saved' /\ Selective!Associated'
    BY <1>1, <1>4, <2>3, <2>4 DEF AnyBroken, Associated, Selective!Associated
  <2>6. Selective!Saved = saved /\ Selective!Saved' = saved'
    BY DEF Selective!Saved
  <2> QED
    BY <2>2, <2>4, <2>5, <2>6, UdpLinkAssumption
       DEF AnyPromise!Save, AnyPromise!Confirm, Selective!Promise!Next,
           Selective!Promise!Save, Selective!Promise!Confirm
<1>5. CASE who \notin {"flutter", "python", "selective"}
  BY <1>5 DEF AnyNext, allVars, IsFlutter, IsPython, IsSelective, AnySaved, vars, client,
              linkVars, txThread, others
<1> QED
  BY <1>2, <1>3, <1>4, <1>5

\* Whoever the client is, the session transfer keeps the promise of FileSync as long
\* as AnyBroken says: the device counts a file only after the client has it, in order
THEOREM AnyClientKeepsPromise ==
  ASSUME Orderly, NFiles >= 2
  PROVE  AnySpec => AnyKeepsPromise
<1>1. /\ AnyInit => AnyPromise!Init /\ AnyIInv
      /\ AnyIInv /\ [AnyNext]_allVars => AnyIInv'
  BY AnyIInvInit, AnyIInvStep, AnyPromiseInit
<1>2. ASSUME AnyIInv, [AnyNext]_allVars
      PROVE  [AnyBroken' \/ AnyPromise!Next]_<<AnySaved, synced>>
  BY <1>2, AnyPromiseStep
<1> QED
  BY <1>1, <1>2, PTL DEF AnySpec, AnyKeepsPromise

================================================================================
