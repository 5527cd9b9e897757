------------------------------ MODULE UdpPython ------------------------------
(***************************************************************************)
(* The device of UdpLink with the Python SDK's client, FileReceiver of      *)
(* sdk/src/clip/transfer.py: it appends frames in the order they come, and  *)
(* a frame that does not fit its state ends the download.  The AT+CANCEL    *)
(* that follows a failed download is in module Transfer.                    *)
(***************************************************************************)
EXTENDS UdpLink

VARIABLES
    handle,  \* the open .part file and what is known of it; NoFile when None
    files,   \* what is at the final paths: chunk name to contents
    result   \* "running", "done" (done set), "failed" (error set)

client == <<handle, files, result>>
vars   == <<linkVars, client>>

NoFile == [name |-> 0, data |-> <<>>, expected |-> 0, invalid |-> FALSE]

Init == LinkInit /\ handle = NoFile /\ files = [f \in 1..NFiles |-> <<>>]
                 /\ result = "running"

Open == handle # NoFile

NoAnswer == UNCHANGED toDevice

\* _fail: the .part file is removed and the download raises
Fail == handle' = NoFile /\ result' = "failed" /\ NoAnswer /\ UNCHANGED files

\* _on_file_start
OnFileStart(m) ==
    /\ m.type = "FILE_START" /\ ~Open
    /\ handle' = [NoFile EXCEPT !.name = m.file]
    /\ NoAnswer
    /\ UNCHANGED <<files, result>>

\* _on_data: a frame out of sequence is written too, and spoils the file
OnData(m) ==
    /\ m.type = "DATA" /\ Open
    /\ handle' = [handle EXCEPT !.data = Append(@, m.data),
                                !.expected = m.seq + 1,
                                !.invalid = @ \/ m.seq # handle.expected]
    /\ NoAnswer
    /\ UNCHANGED <<files, result>>

\* What FILE_END verifies: sequence, declared size and CRC
Success(m) == /\ ~handle.invalid
              /\ Len(handle.data) = NFrames
              /\ handle.data = m.crc

\* _on_file_end: fsync and os.replace come before the answer
OnFileEndOk(m) ==
    /\ m.type = "FILE_END" /\ Open /\ Success(m)
    /\ files' = [files EXCEPT ![handle.name] = handle.data]
    /\ handle' = NoFile
    /\ toDevice' = Enqueue(toDevice, Ok)
    /\ UNCHANGED result

OnFileEndBad(m) ==
    /\ m.type = "FILE_END" /\ Open /\ ~Success(m)
    /\ handle' = NoFile
    /\ toDevice' = Enqueue(toDevice, Nack({}))
    /\ UNCHANGED <<files, result>>

\* _on_transfer_done
OnTransferDone(m) ==
    /\ m.type = "TRANSFER_DONE" /\ ~Open
    /\ result' = "done"
    /\ NoAnswer
    /\ UNCHANGED <<handle, files>>

\* A frame its state does not allow
OnMisplaced(m) ==
    /\ \/ m.type \in {"FILE_START", "TRANSFER_DONE"} /\ Open
       \/ m.type \in {"DATA", "FILE_END"} /\ ~Open
    /\ Fail

\* feed ignores everything once the download is over
ClientReceive ==
    /\ \E i \in Arrivals(down) :
         /\ down' = RemoveAt(down, i)
         /\ IF result = "running"
            THEN LET m == down[i]
                 IN \/ OnFileStart(m) \/ OnData(m)
                    \/ OnFileEndOk(m) \/ OnFileEndBad(m)
                    \/ OnTransferDone(m) \/ OnMisplaced(m)
            ELSE NoAnswer /\ UNCHANGED client
    /\ UNCHANGED <<txThread, udpFile, ack, ready, budget>>

\* wait: longer than the session takes, when it is Timely
WaitTimeout ==
    /\ result = "running"
    /\ Timely => pc = "over" /\ down = <<>>
    /\ handle' = NoFile /\ result' = "failed"
    /\ UNCHANGED <<linkVars, files>>

Next == \/ (TransferThread \/ Network) /\ UNCHANGED client
        \/ ClientReceive
        \/ WaitTimeout

Spec == /\ Init /\ [][Next]_vars
        /\ WF_vars(TransferThread /\ UNCHANGED client)
        /\ WF_vars(ReceivePacket /\ UNCHANGED client)
        /\ WF_vars(ClientReceive)

-----------------------------------------------------------------------------
(* Properties                                                               *)

\* Every variable keeps to the values its code can give it
TypeOK ==
    /\ LinkTypeOK
    /\ handle \in [name : 0..NFiles, data : Seq(Nat \X Nat), expected : Nat,
                   invalid : BOOLEAN]
    /\ files \in [1..NFiles -> Seq(Nat \X Nat)]
    /\ result \in {"running", "done", "failed"}

\* FileReceiver: "A successful file is never exposed at its final path until the
\* total byte count and FILE_END CRC32 both match" - what is there is the
\* device's file of that name
SavedIntact == \A f \in 1..NFiles : files[f] \in {<<>>, Content(f)}

\* The session transfer keeps the promise of FileSync
Promise == INSTANCE FileSync WITH saved <- {f \in 1..NFiles : files[f] = Content(f)}
KeepsPromise == Promise!Spec
=============================================================================
