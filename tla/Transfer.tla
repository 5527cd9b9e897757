------------------------------ MODULE Transfer ------------------------------
(***************************************************************************)
(* The file transfer service of the firmware:                              *)
(* applications/clip/src/transfer.c, driven by the AT+DOWNLOAD and          *)
(* AT+CANCEL handlers of at_commands.c and by the cancel work items of      *)
(* ble.c and wifi.c.                                                        *)
(*                                                                         *)
(* Four threads touch the transfer:                                        *)
(*   - the transfer thread (priority 5), parked on transfer_trigger_sem     *)
(*     between transfers: variable tpc and the actions named Th...;         *)
(*   - the AT thread (priority 7, so the transfer thread preempts it):      *)
(*     variable apc and the actions named At...;                            *)
(*   - the system work queue (cooperative), whose cancel is one step;       *)
(*   - the shutdown thread (priority 1), whose cancel is one step.          *)
(* The bytes of a file are abstracted: sending it ends in one of the        *)
(* results the transport's operations return.  UdpLink models that level.   *)
(***************************************************************************)
EXTENDS Integers

CONSTANTS
    Transports,      \* the links a transfer can run over (UDP, BLE)
    Requesters,      \* the links AT+DOWNLOAD arrives on in this instance
    Starts,          \* 0: AT+DOWNLOAD=<sid>; n > 0: AT+DOWNLOAD=<sid>:<n>.opus
    MaxFile,         \* highest chunk number on the card
    MaxFileRetries,  \* TRANSFER_MAX_FILE_RETRIES
    MaxFileErrors,   \* consecutive open errors before the transfer aborts
    MissingSlack,    \* how far past the file count missing files are skipped
    MaxLinkChanges,  \* bound: how often a link goes up or down
    MaxAtCancels,    \* bound: how many AT+CANCEL are issued
    MaxFaults        \* bound: how often a second session.json read fails

ASSUME TransferAssumption ==
    /\ Requesters \subseteq Transports
    /\ MaxFile \in Nat \ {0}
    /\ Starts \subseteq 0..(MaxFile + 1)
    /\ MaxFileRetries \in Nat
    /\ MaxFileErrors \in Nat
    /\ MissingSlack \in Nat
    /\ MaxLinkChanges \in Nat
    /\ MaxAtCancels \in Nat
    /\ MaxFaults \in Nat

VARIABLES
    xfer,       \* current_transfer
    fileOpen,   \* transfer_file_open
    curTp,      \* current_transport
    cancelReq,  \* transfer_cancel_requested
    doneSent,   \* transfer_complete_sent
    idleSem, triggerSem,
    boost,      \* what this file adds to g_boost_refcnt
    tpc,        \* where the transfer thread is
    tries,      \* consecutive_file_errors, and file_retry while resending
    apc,        \* where the AT thread is
    req,        \* the AT+DOWNLOAD it is serving
    up,         \* the transports that are ready and connected
    cancelWork, \* a cancel work item is queued
    budget,     \* what is left of the three bounds above
    disk,       \* the session's chunk files
    fileCount,  \* file_count of its session.json
    recorder,   \* what audio.c is at: see RecorderStates
    synced,     \* "synced" in its session.json
    hist        \* history of this transfer, for the properties only

ctl  == <<cancelReq, doneSent, idleSem, triggerSem, boost>>
at   == <<apc, req>>
env  == <<up, cancelWork, budget>>
card == <<disk, fileCount, recorder>>
vars == <<xfer, fileOpen, curTp, ctl, tpc, tries, at, env, card, synced, hist>>

Files      == 1..MaxFile
States     == {"IDLE", "TRANSMITTING", "COMPLETED", "ERROR"}
FileStates == {"absent", "empty", "writing", "ok"}
\* "this" session is being recorded; it is the "last" one recorded, whose id
\* current_session_id keeps when the recording ends; an "other" one has been
\* started since, and may be recording or not whenever one looks
RecorderStates == {"this", "last", "other"}
NoFile     == 0
NoTp       == "none"

\* struct transfer_info as transfer_cleanup leaves it; named = session_id is set
Blank == [state |-> "IDLE", named |-> FALSE, file |-> NoFile,
          index |-> 0, total |-> 0, synced |-> 0, cont |-> FALSE]

NoHist == [armed |-> FALSE, acked |-> {}, from |-> 1, dones |-> 0, lost |-> FALSE]

Exists(n)   == n \in Files /\ disk[n] # "absent"
Active      == xfer.state = "TRANSMITTING"    \* transfer_is_active
Connected   == up # {}                        \* transport_is_connected
SameId      == recorder # "other"             \* audio_get_session_id is its id

-----------------------------------------------------------------------------
(* Initial states: transfer_init has run, the thread is parked, idle_sem    *)
(* given back.  A finished session, or one still being recorded.            *)

Init ==
    /\ xfer = Blank /\ fileOpen = FALSE /\ curTp = NoTp
    /\ cancelReq = FALSE /\ doneSent = FALSE
    /\ idleSem = 1 /\ triggerSem = 0 /\ boost = 0
    /\ tpc = "parked" /\ tries = 0
    /\ apc = "ready" /\ req = [tp |-> NoTp, from |-> 0]
    /\ up \in SUBSET Transports /\ cancelWork = FALSE
    /\ budget = [link |-> MaxLinkChanges, cancel |-> MaxAtCancels, fault |-> MaxFaults]
    /\ fileCount \in Files
    /\ recorder \in RecorderStates
    /\ disk \in [Files -> FileStates]
    /\ \A n \in Files :
         IF recorder = "this" THEN disk[n] = (CASE n < fileCount -> "ok"
                                        [] n = fileCount -> "writing"
                                        [] OTHER -> "absent")
                      ELSE disk[n] # "writing"
    /\ synced = 0
    /\ hist = NoHist

-----------------------------------------------------------------------------
(* Shared helpers of transfer.c                                             *)

\* transfer_thread_wait_idle up to the take of transfer_trigger_sem
Park == /\ tpc' = "parked"
        /\ idleSem' = 1

\* Mutants: the state, or the cancel flag, is left as it was
CleanupKeepsState ==
    /\ boost' = boost - 1 /\ fileOpen' = FALSE /\ cancelReq' = FALSE
    /\ xfer' = [Blank EXCEPT !.cont = xfer.cont, !.state = xfer.state]
    /\ doneSent' = FALSE
CleanupKeepsCancel ==
    /\ boost' = boost - 1 /\ fileOpen' = FALSE /\ doneSent' = FALSE
    /\ xfer' = [Blank EXCEPT !.cont = xfer.cont]
    /\ UNCHANGED cancelReq

\* transfer_cleanup
Cleanup ==
    /\ boost' = boost - 1
    /\ fileOpen' = FALSE
    /\ xfer' = [Blank EXCEPT !.cont = xfer.cont]
    /\ cancelReq' = FALSE
    /\ doneSent' = FALSE

\* send_transfer_complete_once
SendDoneOnce ==
    IF ~doneSent /\ xfer.named
    THEN /\ doneSent' = TRUE
         /\ synced' = IF xfer.synced > 0 THEN xfer.synced ELSE synced
         /\ hist' = [hist EXCEPT !.dones = @ + 1]
    ELSE UNCHANGED <<doneSent, synced, hist>>

\* Mutant: a failure is not reported
FinishSilent(s, pc) ==
    /\ fileOpen' = FALSE
    /\ xfer' = [xfer EXCEPT !.state = s]
    /\ tpc' = pc
    /\ UNCHANGED <<curTp, ctl, at, env, card, synced, hist>>

\* The three lines every failure of the send loop runs: close the file, state
\* becomes s, report; transfer_cleanup follows at pc (a step of its own: the
\* report writes session.json and a datagram, both of which can block)
Finish(s, pc) ==
    /\ fileOpen' = FALSE
    /\ xfer' = [xfer EXCEPT !.state = s]
    /\ SendDoneOnce
    /\ tpc' = pc
    /\ UNCHANGED <<curTp, cancelReq, idleSem, triggerSem, boost, at, env, card>>

\* transfer_cancel by a thread the transfer thread cannot preempt
CancelNow ==
    /\ cancelReq' = TRUE
    /\ xfer' = [xfer EXCEPT !.state = "ERROR"]

-----------------------------------------------------------------------------
(* The AT thread: transfer_start and transfer_resume_from                   *)

AtGoto(pc) == apc' = pc /\ UNCHANGED req

\* The command is answered: with 0, -EBUSY, -ETIMEDOUT, or what refused it
AtAnswer == AtGoto("ready")

\* Validation done by the handler; the transport is stored and the boost taken
\* before anything is checked
AtDownload ==
    /\ apc = "ready"
    /\ \E t \in Requesters, n \in Starts :
         /\ req' = [tp |-> t, from |-> n]
         /\ curTp' = t
    /\ boost' = boost + 1
    /\ apc' = "check_busy"
    /\ UNCHANGED <<xfer, fileOpen, cancelReq, doneSent, idleSem, triggerSem,
                   tpc, tries, env, card, synced, hist>>

AtCheckBusy ==
    /\ apc = "check_busy"
    /\ IF Active /\ fileOpen
       THEN boost' = boost - 1 /\ AtAnswer
       ELSE AtGoto("take_idle") /\ UNCHANGED boost
    /\ UNCHANGED <<xfer, fileOpen, curTp, cancelReq, doneSent, idleSem,
                   triggerSem, tpc, tries, env, card, synced, hist>>

\* Mutant: transfer_idle_sem is not waited for
AtTakeIdleBlind ==
    /\ apc = "take_idle"
    /\ AtGoto("check_session")
    /\ UNCHANGED <<xfer, fileOpen, curTp, ctl, tpc, tries, env, card, synced, hist>>

AtTakeIdle ==
    /\ apc = "take_idle" /\ idleSem = 1
    /\ idleSem' = 0
    /\ AtGoto("check_session")
    /\ UNCHANGED <<xfer, fileOpen, curTp, cancelReq, doneSent, triggerSem, boost,
                   tpc, tries, env, card, synced, hist>>

\* Mutant: the boost is not released
AtIdleTimeoutKeepsBoost ==
    /\ apc = "take_idle" /\ idleSem = 0
    /\ AtAnswer
    /\ UNCHANGED <<xfer, fileOpen, curTp, ctl, tpc, tries, env, card, synced, hist>>

\* 3 s without the thread parking
AtIdleTimeout ==
    /\ apc = "take_idle" /\ idleSem = 0
    /\ boost' = boost - 1
    /\ AtAnswer
    /\ UNCHANGED <<xfer, fileOpen, curTp, cancelReq, doneSent, idleSem,
                   triggerSem, tpc, tries, env, card, synced, hist>>

\* The label fail: release the boost, wake the thread, answer
AtFail ==
    /\ boost' = boost - 1
    /\ triggerSem' = 1
    /\ AtAnswer
    /\ UNCHANGED <<xfer, fileOpen, curTp, cancelReq, doneSent, idleSem,
                   tpc, tries, up, cancelWork, card, synced, hist>>

\* Card not mounted, session missing or empty; a resume re-checks for a transfer
AtRefuse ==
    /\ apc = "check_session"
    /\ AtFail
    /\ UNCHANGED budget

AtArm ==
    /\ apc = "check_session"
    /\ ~(req.from > 0 /\ Active)
    /\ doneSent' = FALSE /\ cancelReq' = FALSE
    /\ fileOpen' = FALSE
    /\ xfer' = [Blank EXCEPT !.state = "TRANSMITTING", !.named = TRUE]
    /\ tries' = 0
    /\ hist' = [NoHist EXCEPT !.armed = TRUE, !.lost = ~Connected]
    /\ AtGoto("read_info")
    /\ UNCHANGED <<curTp, idleSem, triggerSem, boost, tpc, env, card, synced>>

\* The second storage_get_session_info fails, with state already TRANSMITTING
AtInfoFault ==
    /\ apc = "read_info" /\ budget.fault > 0
    /\ budget' = [budget EXCEPT !.fault = @ - 1]
    /\ AtFail

\* Mutant: 0 taken for a file number
StartIndexNoZero(from, total) == IF from <= total THEN from - 1 ELSE total - 1

\* file_index as transfer_resume_from computes it from the requested file
StartIndex(from, total) ==
    IF from = 0 THEN 0 ELSE IF from <= total THEN from - 1 ELSE total - 1

\* The session is taken for one being recorded when its id is the recorder's,
\* which the last one recorded has too
AtTrigger ==
    /\ apc = "read_info"
    /\ LET ix == StartIndex(req.from, fileCount)
       IN /\ xfer' = [xfer EXCEPT !.index = ix,
                                  !.total = IF SameId /\ req.from = 0
                                            THEN 0 ELSE fileCount,
                                  !.cont = SameId]
          /\ hist' = [hist EXCEPT !.from = IF req.from = 0 THEN 1 ELSE req.from]
    /\ triggerSem' = 1
    /\ AtAnswer
    /\ UNCHANGED <<fileOpen, curTp, cancelReq, doneSent, idleSem, boost,
                   tpc, tries, env, card, synced>>

-----------------------------------------------------------------------------
(* transfer_cancel.  The AT thread can lose the processor to the transfer    *)
(* thread between any two of its steps; the other callers cannot.           *)

AtCancel ==
    /\ apc = "ready" /\ Active /\ budget.cancel > 0
    /\ budget' = [budget EXCEPT !.cancel = @ - 1]
    /\ AtGoto("set_cancel")
    /\ UNCHANGED <<xfer, fileOpen, curTp, ctl, tpc, tries, up, cancelWork, card,
                   synced, hist>>

AtCancelFlag ==
    /\ apc = "set_cancel"
    /\ cancelReq' = TRUE
    /\ AtGoto("set_error")
    /\ UNCHANGED <<xfer, fileOpen, curTp, doneSent, idleSem, triggerSem, boost,
                   tpc, tries, env, card, synced, hist>>

AtCancelState ==
    /\ apc = "set_error"
    /\ xfer' = [xfer EXCEPT !.state = "ERROR"]
    /\ AtGoto("ready")
    /\ UNCHANGED <<fileOpen, curTp, ctl, tpc, tries, env, card, synced, hist>>

\* wifi_transfer_cancel_work_handler and ble.c's transfer_cancel_work_handler
CancelWork ==
    /\ cancelWork
    /\ cancelWork' = FALSE
    /\ IF Active THEN CancelNow ELSE UNCHANGED <<xfer, cancelReq>>
    /\ UNCHANGED <<fileOpen, curTp, doneSent, idleSem, triggerSem, boost, tpc,
                   tries, at, up, budget, card, synced, hist>>

\* shutdown_thread_fn; the power-off that follows can fail and be undone
ShutdownCancel ==
    /\ Active
    /\ CancelNow
    /\ UNCHANGED <<fileOpen, curTp, doneSent, idleSem, triggerSem, boost, tpc,
                   tries, at, env, card, synced, hist>>

-----------------------------------------------------------------------------
(* The transfer thread: transfer_thread_main                                *)

ThGoto(pc) == tpc' = pc /\ UNCHANGED <<idleSem, triggerSem, boost, curTp>>

\* transfer_thread_wait_idle returns
ThWake ==
    /\ tpc = "parked" /\ triggerSem = 1
    /\ triggerSem' = 0
    /\ tpc' = "loop"
    /\ UNCHANGED <<xfer, fileOpen, curTp, cancelReq, doneSent, idleSem, boost,
                   tries, at, env, card, synced, hist>>

\* process_next_file: the cancel flag is read first
ThNoCancel ==
    /\ tpc = "loop" /\ ~cancelReq
    /\ ThGoto("check_state")
    /\ UNCHANGED <<xfer, fileOpen, cancelReq, doneSent, tries, at, env, card,
                   synced, hist>>

ThCancel ==
    /\ tpc = "loop" /\ cancelReq
    /\ Finish(xfer.state, "cleanup_park")
    /\ UNCHANGED tries

\* transfer_cleanup, then either transfer_thread_wait_idle or the loop again
ThCleanupPark ==
    /\ tpc = "cleanup_park"
    /\ Cleanup /\ Park
    /\ UNCHANGED <<curTp, triggerSem, tries, at, env, card, synced, hist>>

ThCleanupLoop ==
    /\ tpc = "cleanup_loop"
    /\ Cleanup
    /\ tpc' = "loop"
    /\ UNCHANGED <<curTp, idleSem, triggerSem, tries, at, env, card, synced, hist>>

ThIdle ==
    /\ tpc = "check_state" /\ xfer.state = "IDLE"
    /\ Park
    /\ UNCHANGED <<xfer, fileOpen, curTp, cancelReq, doneSent, triggerSem, boost,
                   tries, at, env, card, synced, hist>>

\* COMPLETED or ERROR: k_sleep(100 ms), then the top of the loop
ThSleep ==
    /\ \/ /\ tpc = "check_state" /\ xfer.state \in {"COMPLETED", "ERROR"}
          /\ ThGoto("sleep")
       \/ /\ tpc = "sleep"
          /\ ThGoto("loop")
    /\ UNCHANGED <<xfer, fileOpen, cancelReq, doneSent, tries, at, env, card,
                   synced, hist>>

\* The link check looks at every transport, not at the transfer's own
ThProceed ==
    /\ tpc = "check_state" /\ Active
    /\ IF ~Connected THEN ThGoto("cleanup_park")
       ELSE ThGoto(IF fileOpen THEN "chunks" ELSE "next")
    /\ UNCHANGED <<xfer, fileOpen, cancelReq, doneSent, tries, at, env, card,
                   synced, hist>>

-----------------------------------------------------------------------------
(* transfer_next_file                                                       *)

\* Where its results send the thread
NextStays(x, pc) ==
    /\ xfer' = x
    /\ ThGoto(pc)
    /\ UNCHANGED <<fileOpen, cancelReq, doneSent, tries, at, env, card, synced, hist>>

\* Mutant: file_index does not move past the missing file
SkipStays(n) ==
    /\ tries' = 0
    /\ xfer' = [xfer EXCEPT !.file = NoFile]
    /\ ThGoto("loop")
    /\ UNCHANGED <<fileOpen, cancelReq, doneSent, at, env, card, synced, hist>>

\* -EAGAIN: a missing file was skipped
Skip(n) ==
    /\ tries' = 0
    /\ xfer' = [xfer EXCEPT !.index = n, !.file = NoFile]
    /\ ThGoto("loop")
    /\ UNCHANGED <<fileOpen, cancelReq, doneSent, at, env, card, synced, hist>>

\* -ENOENT: no more files
NoMore(x) ==
    /\ xfer' = [x EXCEPT !.state = "COMPLETED"]
    /\ SendDoneOnce
    /\ tpc' = "cleanup_park"
    /\ UNCHANGED <<fileOpen, curTp, cancelReq, idleSem, triggerSem, boost, tries,
                   at, env, recorder, fileCount>>

\* Any other error: retried, MaxFileErrors times
NextError(file) ==
    IF tries < MaxFileErrors
    THEN /\ tries' = tries + 1
         /\ xfer' = [xfer EXCEPT !.file = file]
         /\ ThGoto("loop")
         /\ UNCHANGED <<fileOpen, cancelReq, doneSent, at, env, card, synced, hist>>
    ELSE /\ tries' = 0
         /\ xfer' = [xfer EXCEPT !.file = file, !.state = "ERROR"]
         /\ SendDoneOnce
         /\ tpc' = "cleanup_park"
         /\ UNCHANGED <<fileOpen, curTp, cancelReq, idleSem, triggerSem, boost,
                        at, env, card>>

\* current_file is still set (a previous attempt left it): open it again
ThNextPreset ==
    /\ tpc = "next" /\ xfer.file # NoFile
    /\ NextStays(xfer, "open")

ThNextNormal ==
    /\ tpc = "next" /\ xfer.file = NoFile /\ ~xfer.cont
    /\ LET n    == xfer.index + 1
           past == xfer.total > 0 /\ n > xfer.total
       IN CASE past -> NoMore([xfer EXCEPT !.file = n]) /\ UNCHANGED disk
            [] ~past /\ Exists(n) -> NextStays([xfer EXCEPT !.file = n], "open")
            [] OTHER -> IF n > xfer.total + MissingSlack
                        THEN NoMore([xfer EXCEPT !.index = n]) /\ UNCHANGED disk
                        ELSE Skip(n)

ThNextContinuous ==
    /\ tpc = "next" /\ xfer.file = NoFile /\ xfer.cont
    /\ LET n == xfer.index + 1
       IN NextStays([xfer EXCEPT !.file = n], IF Exists(n) THEN "wait_write" ELSE "await")

\* Mutant: a file that has appeared is opened without waiting for its writer
ThAwaitFoundHasty ==
    /\ tpc = "await" /\ Exists(xfer.file)
    /\ NextStays(xfer, "open")

\* The wait for the recorder's next file: one action per way out.  It looks
\* whether anything is being recorded, not whether this session is
ThAwaitFound ==
    /\ tpc = "await" /\ Exists(xfer.file)
    /\ NextStays(xfer, "wait_write")

ThAwaitStopped ==
    /\ tpc = "await" /\ ~Exists(xfer.file) /\ recorder # "this"
    /\ IF Exists(xfer.file + 1) THEN Skip(xfer.file)
                                ELSE NoMore(xfer) /\ UNCHANGED disk

ThAwaitError ==
    /\ tpc = "await" /\ ~Exists(xfer.file)
    /\ ~Connected \/ ~Active
    /\ NextError(xfer.file)

\* 600 waits of 500 ms
ThAwaitTimeout ==
    /\ tpc = "await" /\ ~Exists(xfer.file) /\ recorder # "last"
    /\ NoMore(xfer) /\ UNCHANGED disk

Writing == xfer.file \in Files /\ disk[xfer.file] = "writing"

ThWaitWrite ==
    /\ tpc = "wait_write"
    /\ \/ ~Writing /\ NextStays(xfer, "open")
       \/ Writing /\ ~Connected /\ NextError(NoFile)
       \/ Writing /\ Connected /\ cancelReq /\ NextError(xfer.file)

\* open_file: the index moves and FILE_START goes out whatever its result.  The
\* directory shows size 0 for a chunk that was never written or that is still
\* open, which outlasts the ten waits of 100 ms
ShowsEmpty(n) == disk[n] \in {"empty", "writing"}

ThOpen ==
    /\ tpc = "open" /\ Exists(xfer.file) /\ ~ShowsEmpty(xfer.file)
    /\ fileOpen' = TRUE
    /\ xfer' = [xfer EXCEPT !.index = @ + 1]
    /\ tries' = 0
    /\ ThGoto("chunks")
    /\ UNCHANGED <<cancelReq, doneSent, at, env, card, synced, hist>>

ThOpenError ==
    /\ tpc = "open" /\ Exists(xfer.file)
    /\ NextError(NoFile)

\* The file is gone, or has size 0 and is unlinked
ThOpenNothing ==
    /\ tpc = "open"
    /\ \/ /\ ~Exists(xfer.file)
          /\ NoMore([xfer EXCEPT !.file = NoFile])
          /\ UNCHANGED disk
       \/ /\ Exists(xfer.file) /\ ShowsEmpty(xfer.file)
          /\ NoMore([xfer EXCEPT !.file = NoFile])
          /\ disk' = [disk EXCEPT ![xfer.file] = "absent"]

-----------------------------------------------------------------------------
(* The send loop.  Reading and sending one chunk after another is one step  *)
(* that ends with the file sent, or failed                                  *)

CloseAndLoop ==
    /\ fileOpen' = FALSE
    /\ ThGoto("loop")
    /\ UNCHANGED <<cancelReq, doneSent, at, env, card, synced>>

ThChunksLeave ==
    /\ tpc = "chunks" /\ (~Active \/ cancelReq)
    /\ ThGoto("loop")
    /\ UNCHANGED <<xfer, fileOpen, cancelReq, doneSent, tries, at, env, card,
                   synced, hist>>

\* Transport disconnected during send: current_file and file_index stay
ThChunksLost ==
    /\ tpc = "chunks" /\ Active /\ ~cancelReq /\ ~Connected
    /\ CloseAndLoop
    /\ UNCHANGED <<xfer, tries, hist>>

ThChunksSent ==
    /\ tpc = "chunks" /\ Active /\ ~cancelReq /\ Connected
    /\ fileOpen /\ curTp \in up
    /\ ThGoto("file_end")
    /\ UNCHANGED <<xfer, fileOpen, cancelReq, doneSent, tries, at, env, card,
                   synced, hist>>

ThChunksError ==
    /\ tpc = "chunks" /\ Active /\ ~cancelReq /\ Connected
    /\ Finish("ERROR", "cleanup_loop")
    /\ UNCHANGED tries

\* Mutant: file_index taken for 0-based
FileAckedZeroBased ==
    /\ tries' = 0
    /\ xfer' = [xfer EXCEPT !.synced = xfer.index + 1, !.file = NoFile]
    /\ hist' = [hist EXCEPT !.acked = @ \union {xfer.file}]
    /\ CloseAndLoop

\* FILE_END confirmed: file_index (1-based by now) becomes synced_files
FileAcked ==
    /\ tries' = 0
    /\ xfer' = [xfer EXCEPT !.synced = xfer.index, !.file = NoFile]
    /\ hist' = [hist EXCEPT !.acked = @ \union {xfer.file}]
    /\ CloseAndLoop

\* send_file_complete_event: confirmed, refused (-EAGAIN), or failed
ThFileEnd ==
    /\ tpc \in {"file_end", "file_end_again"}
    /\ \/ curTp \in up /\ FileAcked
       \/ /\ ThGoto("resend")
          /\ UNCHANGED <<xfer, fileOpen, cancelReq, doneSent, tries, at, env,
                         card, synced, hist>>
       \/ Finish("ERROR", "cleanup_loop") /\ tries' = 0

\* One repair round, while the transfer is still wanted and rounds are left:
\* backoff, the missing frames or the whole file, then FILE_END again
ThResend ==
    /\ tpc = "resend" /\ Active /\ tries < MaxFileRetries
    /\ \/ /\ curTp \in up
          /\ tries' = tries + 1
          /\ ThGoto("file_end_again")
          /\ UNCHANGED <<xfer, fileOpen, cancelReq, doneSent, at, env, card,
                         synced, hist>>
       \/ Finish("ERROR", "cleanup_loop") /\ tries' = 0

ThResendGiveUp ==
    /\ tpc = "resend" /\ (~Active \/ tries = MaxFileRetries)
    /\ Finish("ERROR", "cleanup_loop")
    /\ tries' = 0

-----------------------------------------------------------------------------
(* What happens around the transfer: links and recorder                     *)

LinkChange(links) ==
    /\ budget.link > 0
    /\ budget' = [budget EXCEPT !.link = @ - 1]
    /\ up' = links
    /\ hist' = [hist EXCEPT !.lost = @ \/ links = {}]
    /\ UNCHANGED <<xfer, fileOpen, curTp, ctl, tpc, tries, at, card, synced>>

LinkUp ==
    /\ \E t \in Transports \ up : LinkChange(up \union {t})
    /\ UNCHANGED cancelWork

\* A station or central disconnects: the handler queues the cancel work item
LinkDisconnected ==
    /\ \E t \in up : LinkChange(up \ {t})
    /\ cancelWork' = TRUE

\* UDP silent for its timeout, BLE notifications turned off: no work item
LinkSilent ==
    /\ \E t \in up : LinkChange(up \ {t})
    /\ UNCHANGED cancelWork

RecordStep(d) ==
    /\ disk' = d
    /\ UNCHANGED <<xfer, fileOpen, curTp, ctl, tpc, tries, at, env, synced, hist>>

\* The recorder closes the chunk it writes, also after recording_active is cleared
RecordClose ==
    /\ \E n \in Files : disk[n] = "writing" /\ RecordStep([disk EXCEPT ![n] = "ok"])
    /\ UNCHANGED <<recorder, fileCount>>

RecordOpen ==
    /\ recorder = "this" /\ fileCount < MaxFile
    /\ \A n \in Files : disk[n] # "writing"
    /\ fileCount' = fileCount + 1
    /\ RecordStep([disk EXCEPT ![fileCount + 1] = "writing"])
    /\ UNCHANGED recorder

\* The recording ends; another start is accepted and renames current_session_id
RecordChange ==
    /\ recorder # "other"
    /\ recorder' = IF recorder = "this" THEN "last" ELSE "other"
    /\ RecordStep(disk)
    /\ UNCHANGED fileCount

-----------------------------------------------------------------------------
AtThread ==
    \/ AtDownload \/ AtCheckBusy \/ AtTakeIdle \/ AtIdleTimeout \/ AtRefuse
    \/ AtArm \/ AtInfoFault \/ AtTrigger
    \/ AtCancel \/ AtCancelFlag \/ AtCancelState

TransferThread ==
    \/ ThWake \/ ThNoCancel \/ ThCancel \/ ThCleanupPark \/ ThCleanupLoop
    \/ ThIdle \/ ThSleep \/ ThProceed
    \/ ThNextPreset \/ ThNextNormal \/ ThNextContinuous
    \/ ThAwaitFound \/ ThAwaitStopped \/ ThAwaitError \/ ThAwaitTimeout
    \/ ThWaitWrite \/ ThOpen \/ ThOpenError \/ ThOpenNothing
    \/ ThChunksLeave \/ ThChunksLost \/ ThChunksSent \/ ThChunksError
    \/ ThFileEnd \/ ThResend \/ ThResendGiveUp

Environment ==
    \/ CancelWork \/ ShutdownCancel
    \/ LinkUp \/ LinkDisconnected \/ LinkSilent
    \/ RecordClose \/ RecordOpen \/ RecordChange

Next == AtThread \/ TransferThread \/ Environment

\* The scheduler runs a runnable transfer thread; nothing is assumed of the
\* hosts, the links, the recorder or the user
Spec == Init /\ [][Next]_vars /\ WF_vars(TransferThread)

-----------------------------------------------------------------------------
(* Properties                                                               *)

AtPcs == {"ready", "check_busy", "take_idle", "check_session", "read_info",
          "set_cancel", "set_error"}
ThPcs == {"parked", "loop", "check_state", "sleep", "next", "await", "wait_write",
          "open", "chunks", "file_end", "resend", "file_end_again",
          "cleanup_park", "cleanup_loop"}

TransferInfo == [state : States, named : BOOLEAN, file : Nat, index : Nat,
                 total : Nat, synced : Nat, cont : BOOLEAN]
Request      == [tp : Transports \union {NoTp}, from : Nat]
Budget       == [link : Nat, cancel : Nat, fault : Nat]
History      == [armed : BOOLEAN, acked : SUBSET Nat, from : Nat, dones : Nat,
                 lost : BOOLEAN]

\* Every variable keeps to its C type, or to the outcomes modelled
TypeOK ==
    /\ xfer \in TransferInfo
    /\ fileOpen \in BOOLEAN /\ curTp \in Transports \union {NoTp}
    /\ cancelReq \in BOOLEAN /\ doneSent \in BOOLEAN
    /\ idleSem \in {0, 1} /\ triggerSem \in {0, 1}
    /\ boost \in Int /\ tries \in Nat
    /\ tpc \in ThPcs /\ apc \in AtPcs
    /\ req \in Request
    /\ up \subseteq Transports /\ cancelWork \in BOOLEAN
    /\ budget \in Budget
    /\ disk \in [Files -> FileStates] /\ fileCount \in Files
    /\ recorder \in RecorderStates /\ synced \in Nat
    /\ hist \in History

\* While the AT thread rewrites current_transfer the transfer thread is parked
\* and cannot be woken: transfer_idle_sem and transfer_trigger_sem are a lock
StartOwnsTransfer ==
    apc \in {"check_session", "read_info"} => tpc = "parked" /\ triggerSem = 0

\* Nothing is left of a transfer once the thread is parked for good: no state,
\* no open handle, no cancel that would hit the next transfer
Settled == tpc = "parked" /\ triggerSem = 0 /\ apc # "read_info"
NothingLeft ==
    Settled => xfer.state = "IDLE" /\ ~xfer.named /\ ~fileOpen /\ ~cancelReq

\* The host is told exactly once how a transfer ended, unless every link was
\* lost meanwhile
ToldOnce ==
    /\ hist.dones <= 1
    /\ Settled /\ hist.armed /\ ~hist.lost => hist.dones = 1

\* A file counts as synced only once its FILE_END was confirmed: every chunk
\* from the requested one to synced_files that is on the card was
SyncedIsConfirmed ==
    \A n \in Files : hist.from <= n /\ n <= xfer.synced /\ disk[n] # "absent"
                        => n \in hist.acked

\* The transfer holds one CPU boost from AT+DOWNLOAD to transfer_cleanup
BoostBalanced ==
    boost = (IF apc \in {"check_busy", "take_idle", "check_session", "read_info"}
             THEN 1 ELSE 0)
          + (IF xfer.state # "IDLE" /\ apc # "read_info" THEN 1 ELSE 0)

\* storage.c: "Transfer thread waits for files to finish writing before
\* transferring" - whatever the transfer unlinks as empty, it is never a chunk
\* open for writing of a session it takes for one being recorded, or that is
\* (left out: the last chunk while it is closed, once a start has renamed
\* current_session_id meanwhile)
RecordedKept ==
    [][\A n \in Files : disk[n] = "writing" /\ (recorder = "this" \/ xfer.cont)
                          => disk'[n] # "absent"]_vars

\* A cancelled transfer winds down: the thread parks again
CancelEnds == (cancelReq \/ xfer.state = "ERROR") ~> tpc = "parked"

\* A transfer of a session whose recording is over ends, whatever the links do
\* and whether or not another one is being recorded.  The last session recorded
\* is downloaded as if it still were
RecordingOver == recorder # "this" /\ \A n \in Files : disk[n] # "writing"
TransferEnds == (tpc # "parked" /\ RecordingOver) ~> tpc = "parked"
=============================================================================
