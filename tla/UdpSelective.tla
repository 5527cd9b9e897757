----------------------------- MODULE UdpSelective -----------------------------
(***************************************************************************)
(* The device of UdpLink with a client that uses the selective-repeat half  *)
(* of the protocol.  No client under src/ does ("the bitmap path exists in  *)
(* the firmware for future/alternate clients", docs/udp_protocol.md), so    *)
(* this one is what udp_repair_missing and the frame layout ask of it: it   *)
(* keeps frames by sequence number, reports those it misses, and saves a    *)
(* file before it answers OK.                                               *)
(***************************************************************************)
EXTENDS UdpLink

VARIABLES
    cur,    \* the file announced last, 0 for none
    got,    \* its frames received: sequence number to contents
    files,  \* what is on the client's disk: chunk name to contents
    over    \* TRANSFER_DONE has come

client == <<cur, got, files, over>>
vars   == <<linkVars, client>>

Init == LinkInit /\ cur = 0 /\ got = <<>> /\ over = FALSE
                 /\ files = [f \in 1..NFiles |-> <<>>]

\* The frames that FILE_START's size lets the client expect and it has not got
Missing == Seqs \ DOMAIN got

Assembled == IF Missing = {} THEN [i \in 1..NFrames |-> got[i - 1]] ELSE <<>>

\* A file announced again keeps the frames it has
OnFileStart(m) ==
    /\ m.type = "FILE_START"
    /\ cur' = m.file
    /\ got' = IF m.file = cur THEN got ELSE <<>>
    /\ UNCHANGED <<files, over, toDevice>>

\* Only a frame that is missing is kept
OnData(m) ==
    /\ m.type = "DATA"
    /\ got' = IF cur = 0 \/ m.seq \in DOMAIN got THEN got
              ELSE [s \in DOMAIN got \union {m.seq} |->
                       IF s = m.seq THEN m.data ELSE got[s]]
    /\ UNCHANGED <<cur, files, over, toDevice>>

\* FILE_END of a file already saved is answered again
OnFileEnd(m) ==
    /\ m.type = "FILE_END"
    /\ IF cur # 0 /\ Missing = {} /\ Assembled = m.crc
       THEN /\ files' = [files EXCEPT ![cur] = Assembled]
            /\ toDevice' = Enqueue(toDevice, Ok)
       ELSE /\ toDevice' = Enqueue(toDevice, Nack(IF cur = 0 THEN {} ELSE Missing))
            /\ UNCHANGED files
    /\ UNCHANGED <<cur, got, over>>

OnTransferDone(m) ==
    /\ m.type = "TRANSFER_DONE"
    /\ over' = TRUE
    /\ UNCHANGED <<cur, got, files, toDevice>>

ClientReceive ==
    /\ \E i \in Arrivals(down) :
         LET m == down[i]
         IN /\ down' = RemoveAt(down, i)
            /\ \/ OnFileStart(m) \/ OnData(m) \/ OnFileEnd(m) \/ OnTransferDone(m)
    /\ UNCHANGED <<txThread, udpFile, ack, ready, budget>>

Next == \/ (TransferThread \/ Network) /\ UNCHANGED client
        \/ ClientReceive

Spec == /\ Init /\ [][Next]_vars
        /\ WF_vars(TransferThread /\ UNCHANGED client)
        /\ WF_vars(ReceivePacket /\ UNCHANGED client)
        /\ WF_vars(ClientReceive)

-----------------------------------------------------------------------------
(* Properties                                                               *)

\* Every variable keeps to the values its code can give it
TypeOK ==
    /\ LinkTypeOK
    /\ cur \in 0..NFiles
    /\ DOMAIN got \subseteq Seqs
    /\ files \in [1..NFiles -> Seq(Nat \X Nat)]
    /\ over \in BOOLEAN

\* The session transfer keeps the promise of FileSync while the station stays
\* associated
Saved == {f \in 1..NFiles : files[f] = Content(f)}
Promise == INSTANCE FileSync WITH saved <- Saved
KeepsPromise == Promise!Init /\ [][Associated' => Promise!Next]_<<Saved, synced>>

\* docs/udp_protocol.md: selective repair converges "even when each round loses
\* different frames": losses within the bound are repaired
LossIsRepaired ==
    []Associated => <>(pc = "over" /\ synced = NFiles /\ Saved = 1..NFiles)
=============================================================================
