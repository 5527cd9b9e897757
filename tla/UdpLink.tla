------------------------------ MODULE UdpLink -------------------------------
(***************************************************************************)
(* One session sent over UDP, seen from the device: the send loop of        *)
(* transfer_thread_main (applications/clip/src/transfer.c) over the         *)
(* operations of transport_udp.c, the receive thread of wifi_udp.c, and the *)
(* network between them and a client.  The clients are in the modules that  *)
(* extend this one: UdpFlutter, UdpPython and UdpSelective.                 *)
(*                                                                         *)
(* A chunk file f is the sequence of its frames <<f, 0>>, <<f, 1>>, ...     *)
(* A CRC over a run of frames is that run itself: equal CRCs mean equal     *)
(* contents.  Requests, cancels and the missing files of a session are in   *)
(* module Transfer; here the transfer has started and nobody cancels it.    *)
(***************************************************************************)
EXTENDS Integers, Sequences, SequencesExt

CONSTANTS
    NFiles,        \* files of the session
    NFrames,       \* DATA frames of a file
    FileEndTries,  \* FILE_END_RETRIES
    MaxRounds,     \* TRANSFER_MAX_FILE_RETRIES
    Window,        \* bound: datagrams in flight each way; more are dropped
    MaxLoss,       \* bound: datagrams lost, answers forgotten
    MaxResets,     \* bound: station re-associations
    Fifo,          \* BOOLEAN: datagrams arrive in the order sent
    Timely         \* BOOLEAN: an answer takes less than FILE_ACK_TIMEOUT

ASSUME UdpLinkAssumption ==
    /\ NFiles \in Nat \ {0} /\ NFrames \in Nat \ {0}
    /\ FileEndTries \in Nat \ {0} /\ MaxRounds \in Nat
    /\ Window \in Nat /\ MaxLoss \in Nat /\ MaxResets \in Nat
    /\ Fifo \in BOOLEAN /\ Timely \in BOOLEAN

VARIABLES
    pc,        \* where the transfer thread is
    file,      \* current_transfer.file_index (1-based while a file is open)
    pos,       \* read position in transfer_file, in frames
    synced,    \* current_transfer.synced_files
    tries,     \* retry of udp_send_file_end_impl
    finalCrc,  \* its final_crc
    rounds,    \* file_retry of transfer_thread_main
    nextSeq,   \* next_seq
    crc,       \* current_file_crc
    ack,       \* file_ack_result, nack_bitmap and file_ack_sem
    ready,     \* udp_ready
    down, toDevice,   \* datagrams in flight to the client and to the device
    budget     \* what is left of MaxLoss and MaxResets; history of the
               \* re-associations: torn, the files that one found between FILE_START
               \* and FILE_END, and late, that one found the device waiting

txThread == <<pc, file, pos, synced, tries, finalCrc, rounds>>
udpFile  == <<nextSeq, crc>>
net      == <<down, toDevice>>
linkVars == <<txThread, udpFile, ack, ready, net, budget>>

Content(f) == [i \in 1..NFrames |-> <<f, i - 1>>]
Seqs       == 0..(NFrames - 1)

Start(f)      == [type |-> "FILE_START", file |-> f]
Data(s, d)    == [type |-> "DATA", seq |-> s, data |-> d]
End(c)        == [type |-> "FILE_END", crc |-> c]
Done(n)       == [type |-> "TRANSFER_DONE", count |-> n]
Ok            == [type |-> "FILE_ACK", ok |-> TRUE, missing |-> {}]
Nack(missing) == [type |-> "FILE_ACK", ok |-> FALSE, missing |-> missing]

\* What a full queue does to one more datagram
Enqueue(ch, m) == IF Len(ch) < Window THEN Append(ch, m) ELSE ch

LinkInit ==
    /\ pc = "start" /\ file = 1 /\ pos = 0 /\ synced = 0
    /\ tries = 0 /\ finalCrc = <<>> /\ rounds = 0
    /\ nextSeq = 0 /\ crc = <<>>
    /\ ack = [ok |-> FALSE, missing |-> {}, sem |-> 0]
    /\ ready = TRUE
    /\ down = <<>> /\ toDevice = <<>>
    /\ budget = [loss |-> MaxLoss, reset |-> MaxResets, torn |-> {}, late |-> FALSE]

-----------------------------------------------------------------------------
(* The transfer thread                                                      *)

\* Mutants: the sequence number, or the CRC, is not reset
ResetKeepsSeq == crc' = <<>> /\ ack' = [ack EXCEPT !.ok = FALSE, !.sem = 0]
                 /\ UNCHANGED nextSeq
ResetKeepsCrc == nextSeq' = 0 /\ ack' = [ack EXCEPT !.ok = FALSE, !.sem = 0]
                 /\ UNCHANGED crc

\* transport_udp_reset_file_state
ResetFileState ==
    /\ nextSeq' = 0 /\ crc' = <<>>
    /\ ack' = [ack EXCEPT !.ok = FALSE, !.sem = 0]

\* send_file_ready_event: what udp_send_file_start_impl returns is ignored
SendFileStart ==
    /\ pc = "start"
    /\ IF ready THEN ResetFileState /\ down' = Enqueue(down, Start(file))
                ELSE UNCHANGED <<udpFile, ack, down>>
    /\ pos' = 0 /\ pc' = "data"
    /\ UNCHANGED <<file, synced, tries, finalCrc, rounds, ready, toDevice, budget>>

\* transfer_send_chunk, one frame to a chunk
SendFileData ==
    /\ pc = "data" /\ ready /\ pos < NFrames
    /\ crc' = Append(crc, <<file, pos>>)
    /\ down' = Enqueue(down, Data(nextSeq, <<file, pos>>))
    /\ nextSeq' = nextSeq + 1
    /\ pos' = pos + 1
    /\ UNCHANGED <<pc, file, synced, tries, finalCrc, rounds, ack, ready, toDevice,
                   budget>>

EndOfFile ==
    /\ pc = "data" /\ pos = NFrames
    /\ pc' = "file_end" /\ tries' = 0 /\ finalCrc' = <<>>
    /\ UNCHANGED <<file, pos, synced, rounds, udpFile, ack, ready, net, budget>>

\* One pass of the retry loop of udp_send_file_end_impl.  The link is looked at
\* and the frame built before the first one only ...
SendFileEnd ==
    /\ pc = "file_end" /\ (tries = 0 => ready) /\ tries < FileEndTries
    /\ finalCrc' = IF tries = 0 THEN crc ELSE finalCrc
    /\ down' = Enqueue(down, End(finalCrc'))
    /\ tries' = tries + 1
    /\ pc' = "arm"
    /\ UNCHANGED <<file, pos, synced, rounds, udpFile, ack, ready, toDevice, budget>>

\* ... then wait_for_file_ack, which forgets what arrived since the send
ArmFileAck ==
    /\ pc = "arm"
    /\ ack' = [ok |-> FALSE, missing |-> {}, sem |-> 0]
    /\ pc' = "wait"
    /\ UNCHANGED <<file, pos, synced, tries, finalCrc, rounds, udpFile, ready, net,
                   budget>>

FileAckTimeout ==
    /\ pc = "wait" /\ ack.sem = 0
    /\ Timely => down = <<>> /\ toDevice = <<>>
    /\ pc' = "file_end"
    /\ UNCHANGED <<file, pos, synced, tries, finalCrc, rounds, udpFile, ack, ready,
                   net, budget>>

\* CRC OK: the file is synced; the next one is opened, or the session is done
FileAckOk ==
    /\ pc = "wait" /\ ack.sem = 1 /\ ack.ok
    /\ ack' = [ack EXCEPT !.sem = 0]
    /\ synced' = file
    /\ IF file < NFiles THEN file' = file + 1 /\ pc' = "start"
                        ELSE UNCHANGED file /\ pc' = "done"
    /\ rounds' = 0
    /\ UNCHANGED <<pos, tries, finalCrc, udpFile, ready, net, budget>>

\* Mutant: any answer is taken for OK
FileAckAny ==
    /\ pc = "wait" /\ ack.sem = 1
    /\ ack' = [ack EXCEPT !.sem = 0]
    /\ synced' = file
    /\ pc' = IF file < NFiles THEN "start" ELSE "done"
    /\ file' = IF file < NFiles THEN file + 1 ELSE file
    /\ UNCHANGED <<pos, tries, finalCrc, rounds, udpFile, ready, net, budget>>

FileAckNack ==
    /\ pc = "wait" /\ ack.sem = 1 /\ ~ack.ok
    /\ ack' = [ack EXCEPT !.sem = 0]
    /\ pc' = "repair"
    /\ UNCHANGED <<file, pos, synced, tries, finalCrc, rounds, udpFile, ready, net,
                   budget>>

\* A repair round: the frames of the bitmap, or the whole file without one
Repair ==
    /\ pc = "repair" /\ ready /\ rounds < MaxRounds
    /\ rounds' = rounds + 1
    /\ pos' = 0
    /\ pc' = IF ack.missing = {} THEN "start" ELSE "selective"
    /\ UNCHANGED <<file, synced, tries, finalCrc, udpFile, ack, ready, net, budget>>

\* udp_repair_missing.  The receive thread may overwrite the bitmap meanwhile
ToResend == {s \in ack.missing \cap Seqs : s >= pos}

\* Mutant: the frame after the missing one is read
ResendNext ==
    /\ pc = "selective" /\ ready
    /\ \E s \in ToResend :
         /\ \A r \in ToResend : s <= r
         /\ down' = Enqueue(down, Data(s, <<file, s + 1>>))
         /\ pos' = s + 1
    /\ UNCHANGED <<pc, file, synced, tries, finalCrc, rounds, udpFile, ack, ready,
                   toDevice, budget>>

ResendMissing ==
    /\ pc = "selective" /\ ready
    /\ \E s \in ToResend :
         /\ \A r \in ToResend : s <= r
         /\ down' = Enqueue(down, Data(s, <<file, s>>))
         /\ pos' = s + 1
    /\ UNCHANGED <<pc, file, synced, tries, finalCrc, rounds, udpFile, ack, ready,
                   toDevice, budget>>

\* Nothing resent at all: the caller falls back to the whole file
RepairSent ==
    /\ pc = "selective" /\ ToResend = {}
    /\ pc' = IF pos = 0 THEN "start" ELSE "file_end"
    /\ tries' = 0 /\ finalCrc' = <<>>
    /\ UNCHANGED <<file, pos, synced, rounds, udpFile, ack, ready, net, budget>>

\* Transport gone, no answer to FileEndTries FILE_ENDs, or no rounds left
GiveUp ==
    /\ \/ pc \in {"data", "repair", "selective"} /\ ~ready
       \/ pc = "file_end" /\ tries = 0 /\ ~ready
       \/ pc = "file_end" /\ tries = FileEndTries
       \/ pc = "repair" /\ rounds = MaxRounds
    /\ pc' = "done"
    /\ UNCHANGED <<file, pos, synced, tries, finalCrc, rounds, udpFile, ack, ready,
                   net, budget>>

\* send_transfer_complete_once
SendTransferDone ==
    /\ pc = "done"
    /\ down' = IF ready THEN Enqueue(down, Done(synced)) ELSE down
    /\ pc' = "over"
    /\ UNCHANGED <<file, pos, synced, tries, finalCrc, rounds, udpFile, ack, ready,
                   toDevice, budget>>

TransferThread ==
    \/ SendFileStart \/ SendFileData \/ EndOfFile \/ SendFileEnd \/ ArmFileAck
    \/ FileAckTimeout \/ FileAckOk \/ FileAckNack
    \/ Repair \/ ResendMissing \/ RepairSent \/ GiveUp \/ SendTransferDone

-----------------------------------------------------------------------------
(* The network and the receive thread                                       *)

Arrivals(ch) == IF Fifo THEN {1} \cap DOMAIN ch ELSE DOMAIN ch

\* handle_packet: any datagram makes the link ready again; a FILE_ACK, whatever
\* file it answers, becomes the result the transfer thread waits for.  One that
\* comes before ArmFileAck will be forgotten: it counts against MaxLoss
ReceivePacket ==
    /\ pc = "arm" => budget.loss > 0
    /\ budget' = [budget EXCEPT !.loss = IF pc = "arm" THEN @ - 1 ELSE @]
    /\ \E i \in Arrivals(toDevice) :
         LET m == toDevice[i]
         IN /\ toDevice' = RemoveAt(toDevice, i)
            /\ ack' = [ok |-> m.ok, missing |-> m.missing, sem |-> 1]
    /\ ready' = TRUE
    /\ UNCHANGED <<txThread, udpFile, down>>

\* A heartbeat of the client arrives
ReceiveHeartbeat ==
    /\ ~ready
    /\ ready' = TRUE
    /\ UNCHANGED <<txThread, udpFile, ack, net, budget>>

\* The station has not re-associated yet
Associated == budget.reset = MaxResets

\* A file is being sent, and its CRC computed
Streaming == pc \in {"data", "selective"} \/ (pc = "file_end" /\ tries = 0)

Waiting == pc = "wait" /\ ack.sem = 0

\* NET_EVENT_WIFI_AP_STA_CONNECTED: transport_udp_update_active(false), at any
\* point of the transfer.  The reset of the semaphore aborts a wait, as if timed
\* out; a waiter already woken reads the reset result, as a NACK
StaConnected ==
    /\ budget.reset > 0
    /\ budget' = [budget EXCEPT !.reset = @ - 1,
                                !.torn = @ \union {f \in {file} : Streaming},
                                !.late = @ \/ Waiting]
    /\ ready' = FALSE
    /\ nextSeq' = 0 /\ crc' = <<>>
    /\ pc' = IF Waiting THEN "file_end" ELSE pc
    /\ ack' = [ack EXCEPT !.ok = FALSE, !.sem = 1]
    /\ UNCHANGED <<file, pos, synced, tries, finalCrc, rounds, net>>

Lose ==
    /\ budget.loss > 0
    /\ budget' = [budget EXCEPT !.loss = @ - 1]
    /\ \/ \E i \in DOMAIN down : down' = RemoveAt(down, i) /\ UNCHANGED toDevice
       \/ \E i \in DOMAIN toDevice : toDevice' = RemoveAt(toDevice, i) /\ UNCHANGED down
    /\ UNCHANGED <<txThread, udpFile, ack, ready>>

Network == ReceivePacket \/ ReceiveHeartbeat \/ StaConnected \/ Lose

-----------------------------------------------------------------------------
Messages ==
    [type : {"FILE_START"}, file : Nat]
    \union [type : {"DATA"}, seq : Nat, data : Nat \X Nat]
    \union [type : {"FILE_END"}, crc : Seq(Nat \X Nat)]
    \union [type : {"TRANSFER_DONE"}, count : Nat]

Acks == [type : {"FILE_ACK"}, ok : BOOLEAN, missing : SUBSET Nat]

Budgets ==
    [loss : Nat, reset : 0..MaxResets, torn : SUBSET (1..NFiles), late : BOOLEAN]

LinkTypeOK ==
    /\ pc \in {"start", "data", "file_end", "arm", "wait", "repair", "selective",
               "done", "over"}
    /\ file \in 1..NFiles /\ pos \in 0..NFrames /\ synced \in 0..NFiles
    /\ tries \in 0..FileEndTries /\ rounds \in 0..MaxRounds
    /\ nextSeq \in 0..NFrames /\ crc \in Seq(Nat \X Nat) /\ finalCrc \in Seq(Nat \X Nat)
    /\ ack \in [ok : BOOLEAN, missing : SUBSET Nat, sem : {0, 1}]
    /\ ready \in BOOLEAN
    /\ down \in Seq(Messages) /\ toDevice \in Seq(Acks)
    /\ budget \in Budgets
=============================================================================
