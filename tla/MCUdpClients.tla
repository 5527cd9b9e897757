---------------------------- MODULE MCUdpClients ----------------------------
(***************************************************************************)
(* One run over the three clients: Init picks the client that downloads.   *)
(* The constants of the configuration are the Flutter client's; those of    *)
(* the two others are given here.  The other clients are taken with their   *)
(* lemmas, so that what is proved of each can be proved of the run's AnySpec *)
(* (at the end of UdpFlutter_proofs).                                        *)
(***************************************************************************)
EXTENDS UdpFlutter

VARIABLES
    who,      \* "flutter", "python" or "selective"
    handle,   \* of UdpPython
    chosen, got, over   \* of UdpSelective; chosen is its cur

Python == INSTANCE UdpPython_proofs WITH
    NFiles <- 2, NFrames <- 2, FileEndTries <- 2, MaxRounds <- 2, Window <- 6,
    MaxResets <- 1, Timely <- FALSE

Selective == INSTANCE UdpSelective_proofs WITH NFiles <- 2, cur <- chosen

flutterOnly == <<cur, held, nacks, writes, received, faults>>
others      == <<handle, chosen, got, over>>
allVars     == <<vars, who, others>>

NoFlutter == /\ cur = NoFile /\ held = <<>> /\ nacks = [count |-> 0, name |-> 0]
             /\ writes = <<>> /\ received = {} /\ faults = 0

AnyInit ==
    \/ /\ who = "flutter" /\ Init
       /\ handle = Python!NoFile /\ chosen = 0 /\ got = <<>> /\ over = FALSE
    \/ /\ who = "python" /\ Python!Init /\ NoFlutter
       /\ chosen = 0 /\ got = <<>> /\ over = FALSE
    \/ /\ who = "selective" /\ Selective!Init /\ NoFlutter
       /\ handle = Python!NoFile /\ result = "running"

IsFlutter   == who = "flutter" /\ UNCHANGED <<who, others>>
IsPython    == who = "python" /\ UNCHANGED <<who, flutterOnly, chosen, got, over>>
IsSelective == who = "selective" /\ UNCHANGED <<who, flutterOnly, result, handle>>

AnyNext == \/ IsFlutter /\ Next
           \/ IsPython /\ Python!Next
           \/ IsSelective /\ Selective!Next

\* The fairness of each client's Spec
AnyTransferThread ==
    \/ IsFlutter /\ TransferThread /\ UNCHANGED client
    \/ IsPython /\ Python!TransferThread /\ UNCHANGED <<handle, files, result>>
    \/ IsSelective /\ Selective!TransferThread /\ UNCHANGED <<chosen, got, files, over>>

AnyReceivePacket ==
    \/ IsFlutter /\ ReceivePacket /\ UNCHANGED client
    \/ IsPython /\ Python!ReceivePacket /\ UNCHANGED <<handle, files, result>>
    \/ IsSelective /\ Selective!ReceivePacket /\ UNCHANGED <<chosen, got, files, over>>

AnyClientReceive ==
    \/ IsFlutter /\ ClientReceive
    \/ IsPython /\ Python!ClientReceive
    \/ IsSelective /\ Selective!ClientReceive

AnySpec == /\ AnyInit /\ [][AnyNext]_allVars
           /\ WF_allVars(AnyTransferThread)
           /\ WF_allVars(AnyReceivePacket)
           /\ WF_allVars(AnyClientReceive)
           /\ WF_allVars(IsFlutter /\ ClientWrite)

-----------------------------------------------------------------------------
(* The clients' properties                                                  *)

\* Every variable keeps to the values its code can give it
AnyTypeOK == /\ who = "flutter" => TypeOK
             /\ who = "python" => Python!TypeOK
             /\ who = "selective" => Selective!TypeOK

\* What a client has at a file's final path is the device's file; the Flutter
\* client does not notice when a re-association cut a file short
AnySavedIntact == /\ who = "flutter" => SavedIntact
                  /\ who = "python" => Python!SavedIntact

\* transport_udp.c: the CRC of FILE_END covers the full file whatever the sends
\* returned, but for a file that a re-association interrupts
FullCrc == who = "flutter" => CrcCoversFile

\* The files the client has complete
AnySaved == IF who = "flutter" THEN Received
            ELSE {f \in DOMAIN files : files[f] = IF who = "python"
                                                  THEN Python!Content(f)
                                                  ELSE Selective!Content(f)}

\* Where the promise ends: for Flutter with the re-association that aborts a wait,
\* for the client that repairs frames with the first one, for Python never
AnyBroken == \/ who = "flutter" /\ budget.late
             \/ who = "selective" /\ ~Associated

\* Whoever the client is, the session transfer keeps the promise of FileSync:
\* the device counts a file only after the client has it, in order
AnyPromise == INSTANCE FileSync WITH saved <- AnySaved
AnyKeepsPromise ==
    AnyPromise!Init /\ [][AnyBroken' \/ AnyPromise!Next]_<<AnySaved, synced>>

\* While the station stays associated, losses within the bound are repaired, file by file or frame by frame
AnyLossIsRepaired == /\ who = "flutter" => LossIsRepaired
                     /\ who = "selective" => Selective!LossIsRepaired
=============================================================================
