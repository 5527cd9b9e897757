----------------------------- MODULE UdpFlutter -----------------------------
(***************************************************************************)
(* The device of UdpLink with the Flutter SDK's client, downloadSession of  *)
(* mobile/sdk/flutter/lib/src/wifi/udp_sync_client.dart: it reassembles a   *)
(* file by sequence number and answers FILE_END with a bare OK or NACK.     *)
(***************************************************************************)
EXTENDS UdpLink, FiniteSets

CONSTANT
    MaxNacks,        \* maxConsecutiveFileNacks
    MaxWriteFaults   \* bound: writes that fail

ASSUME UdpFlutterAssumption == MaxNacks \in Nat \ {0} /\ MaxWriteFaults \in Nat

VARIABLES
    cur,     \* currentName, 0 when null; with currentData (whose CRC is fileCrc)
    held,    \* pendingDataBySeq
    nacks,   \* consecutiveFileNacks, and lastNackFile
    writes,  \* diskWriteChain: files confirmed but not written yet
    received, \* history: the files confirmed whose contents were the device's
    files,   \* what is on its disk: chunk name to contents
    faults,  \* how many writes may still fail
    result   \* "running", "done" after TRANSFER_DONE, "gave_up" after AT+CANCEL

client == <<cur, held, nacks, writes, received, files, faults, result>>
vars   == <<linkVars, client>>

NoFile == [name |-> 0, data |-> <<>>]

Init ==
    /\ LinkInit
    /\ cur = NoFile /\ held = <<>>
    /\ nacks = [count |-> 0, name |-> 0]
    /\ writes = <<>> /\ faults = MaxWriteFaults /\ received = {}
    /\ files = [f \in 1..NFiles |-> <<>>]
    /\ result = "running"

\* nextExpectedSeq counts the frames appended so far
NextSeq == Len(cur.data)

\* d with the frames that follow it in sequence among those held: every number
\* from Len(d) up to the first that is missing
Drain(d, h) ==
    LET next == CHOOSE n \in Len(d)..NFrames :
                    n \notin DOMAIN h /\ Len(d)..(n - 1) \subseteq DOMAIN h
    IN [i \in 1..next |-> IF i <= Len(d) THEN d[i] ELSE h[i - 1]]

\* One datagram is taken off the channel and handled
Take(i)    == down' = RemoveAt(down, i)
Answer(a)  == toDevice' = Enqueue(toDevice, a)
NoAnswer   == UNCHANGED toDevice

OnFileStart(m) ==
    /\ m.type = "FILE_START"
    /\ cur' = [name |-> m.file, data |-> <<>>]
    /\ held' = <<>>
    /\ NoAnswer
    /\ UNCHANGED <<nacks, writes, received, files, faults, result>>

\* ingestDataFrame: discarded without a FILE_START, skipped when already there,
\* held when early, appended with what it completes when expected
OnData(m) ==
    /\ m.type = "DATA"
    /\ CASE cur.name = 0 \/ m.seq < NextSeq -> UNCHANGED <<cur, held>>
         [] cur.name # 0 /\ m.seq > NextSeq ->
              /\ held' = [s \in DOMAIN held \union {m.seq} |->
                              IF s = m.seq THEN m.data ELSE held[s]]
              /\ UNCHANGED cur
         [] OTHER ->
              LET d == Drain(Append(cur.data, m.data), held)
              IN /\ cur' = [cur EXCEPT !.data = d]
                 /\ held' = [s \in {t \in DOMAIN held : t >= Len(d)} |-> held[s]]
    /\ NoAnswer
    /\ UNCHANGED <<nacks, writes, received, files, faults, result>>

\* Mutant: the CRC is not compared
CompleteAnyCrc(m) == cur.name # 0 /\ cur.data # <<>>

\* FILE_END: crcOk, a name and some data.  The size declared by FILE_START is
\* only logged
Complete(m) == cur.name # 0 /\ cur.data # <<>> /\ cur.data = m.crc

OnFileEndOk(m) ==
    /\ m.type = "FILE_END" /\ Complete(m)
    /\ writes' = Append(writes, cur)
    /\ received' = received \union {f \in {cur.name} : cur.data = Content(f)}
    /\ nacks' = [count |-> 0, name |-> 0]
    /\ cur' = NoFile /\ held' = <<>>
    /\ Answer(Ok)
    /\ UNCHANGED <<files, faults, result>>

OnFileEndBad(m) ==
    /\ m.type = "FILE_END" /\ ~Complete(m)
    /\ LET again == cur.name # 0 /\ cur.name = nacks.name
           count == IF again THEN nacks.count + 1 ELSE 1
       IN /\ nacks' = [count |-> count, name |-> cur.name]
          /\ result' = IF count >= MaxNacks THEN "gave_up" ELSE result
    /\ cur' = NoFile /\ held' = <<>>
    /\ Answer(Nack({}))
    /\ UNCHANGED <<writes, received, files, faults>>

OnTransferDone(m) ==
    /\ m.type = "TRANSFER_DONE"
    /\ result' = "done"
    /\ NoAnswer
    /\ UNCHANGED <<cur, held, nacks, writes, received, files, faults>>

\* A datagram arrives; once the download returned, nobody reads the socket
ClientReceive ==
    /\ \E i \in Arrivals(down) :
         /\ Take(i)
         /\ IF result = "running"
            THEN LET m == down[i]
                 IN \/ OnFileStart(m) \/ OnData(m)
                    \/ OnFileEndOk(m) \/ OnFileEndBad(m)
                    \/ OnTransferDone(m)
            ELSE NoAnswer /\ UNCHANGED client
    /\ UNCHANGED <<txThread, udpFile, ack, ready, budget>>

\* diskWriteChain runs on its own; a write that fails is only logged
ClientWrite ==
    /\ writes # <<>>
    /\ \/ /\ files' = [files EXCEPT ![Head(writes).name] = Head(writes).data]
          /\ UNCHANGED faults
       \/ /\ faults > 0
          /\ faults' = faults - 1
          /\ UNCHANGED files
    /\ writes' = Tail(writes)
    /\ UNCHANGED <<linkVars, cur, held, nacks, received, result>>

Next == \/ (TransferThread \/ Network) /\ UNCHANGED client
        \/ ClientReceive
        \/ ClientWrite

\* The device's threads and the client's receive loop run; a datagram that is
\* not lost arrives
Spec == /\ Init /\ [][Next]_vars
        /\ WF_vars(TransferThread /\ UNCHANGED client)
        /\ WF_vars(ReceivePacket /\ UNCHANGED client)
        /\ WF_vars(ClientReceive)
        /\ WF_vars(ClientWrite)

-----------------------------------------------------------------------------
(* Properties                                                               *)

\* Every variable keeps to the values its code can give it
TypeOK ==
    /\ LinkTypeOK
    /\ cur \in [name : 0..NFiles, data : Seq(Nat \X Nat)]
    /\ nacks \in [count : 0..MaxNacks, name : 0..NFiles]
    /\ files \in [1..NFiles -> Seq(Nat \X Nat)]
    /\ received \subseteq 1..NFiles /\ faults \in 0..MaxWriteFaults
    /\ result \in {"running", "done", "gave_up"}

\* A file on the client's disk is the device's file, never a part or a mixture.
\* What a station's re-association may leave behind is the rest of the file it
\* interrupted, and anything after one that aborts a wait
SavedIntact ==
    \A f \in 1..NFiles :
        budget.late \/ f \in budget.torn \/ files[f] \in {<<>>, Content(f)}

\* The files the client confirmed: complete, or interrupted by a re-association
Received == received \union budget.torn

\* The device counts as synced only those, unless a wait was aborted
SyncedIsReceived == budget.late \/ 1..synced \subseteq Received

\* The session transfer keeps the promise of FileSync until a re-association
\* aborts a wait
Promise == INSTANCE FileSync WITH saved <- Received
KeepsPromise == Promise!Init /\ [][budget'.late \/ Promise!Next]_<<Received, synced>>

\* transport_udp.c: "CRC always covers the FULL file, independent of send
\* success, so FILE_END's CRC matches the complete file the client reassembles",
\* whatever re-associates, but for the files interrupted
CrcCoversFile == pc = "arm" => file \in budget.torn \/ finalCrc = Content(file)

\* Losses within the bound are repaired when the station stays associated: the
\* whole session arrives, is counted, and is written but for the writes that failed
Written == {f \in 1..NFiles : files[f] = Content(f)}

LossIsRepaired ==
    []Associated =>
        <>[](/\ pc = "over" /\ synced = NFiles
             /\ Cardinality(Written) >= NFiles - (MaxWriteFaults - faults))
=============================================================================
