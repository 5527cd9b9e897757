------------------------------ MODULE Recorder ------------------------------
(***************************************************************************)
(* The recorder: the audio thread of applications/clip/src/audio.c          *)
(* (audio_recording_thread), the calls other threads make into it           *)
(* (audio_start_recording, audio_stop_recording, ...), and what it leaves   *)
(* on the card through storage.c: session.json and the chunk files.         *)
(*                                                                         *)
(* The thread and its callers share plain flags; audio_state_mutex covers   *)
(* the callers' accesses but not the thread's.  Samples, encoding and the   *)
(* contents of a chunk are abstracted; so is bookkeeping of time.           *)
(***************************************************************************)
EXTENDS Integers

CONSTANTS
    MaxSessions,  \* bound: recordings started
    MaxChunks,    \* bound: chunk files of a recording
    MaxFaults,    \* bound: failures of the microphone, the encoder or the card
    SlowCard      \* BOOLEAN: closing a file may outlast the 5 s a stop waits

ASSUME RecorderAssumption ==
    /\ MaxSessions \in Nat /\ MaxChunks \in Nat \ {0} /\ MaxFaults \in Nat
    /\ SlowCard \in BOOLEAN

VARIABLES
    active,     \* recording_active
    paused,     \* is_paused
    stopReq,    \* stop_requested
    pauseReq,   \* pause_requested
    startSem, stopDone,   \* audio_start_sem, stop_done_sem
    sid,        \* current_session_id: 0 when never set, then 1, 2, ...
    rpc,        \* where the audio thread is
    out,        \* current_storage_file, NoFile when it is not open
    chunk,      \* current_file_index
    power,      \* the microphone's supply, and the CPU boosts held
    card,       \* what is on the card: session.json and the chunks of each session
    faults,     \* what is left of MaxFaults
    unclosed    \* history: sessions whose close a start overtook or the card refused

flags   == <<active, paused, stopReq, pauseReq>>
sems    == <<startSem, stopDone>>
recVars == <<flags, sems, sid, rpc, out, chunk, power, card, faults, unclosed>>

Sessions == 1..MaxSessions
NoFile   == [sid |-> 0, chunk |-> 0]
Empty    == [json |-> "none", files |-> 0, chunks |-> {}]

RecInit ==
    /\ active = FALSE /\ paused = FALSE /\ stopReq = FALSE /\ pauseReq = FALSE
    /\ startSem = 0 /\ stopDone = 0
    /\ sid = 0 /\ rpc = "wait" /\ out = NoFile /\ chunk = 0
    /\ power = [mic |-> FALSE, boost |-> 0]
    /\ card = [s \in Sessions |-> Empty]
    /\ faults = MaxFaults
    /\ unclosed = {}

-----------------------------------------------------------------------------
(* The calls other threads make                                             *)

\* Where a recording is being wound up: recording_active is FALSE already
Closing == {"close_file", "close_session", "done"}

\* Mutant: a start is not refused while a recording runs
AudioStartAnyTime ==
    /\ sid < MaxSessions
    /\ sid' = sid + 1
    /\ stopReq' = FALSE /\ stopDone' = 0 /\ startSem' = 1
    /\ UNCHANGED <<active, paused, pauseReq, rpc, out, chunk, power, card, faults,
                   unclosed>>

\* audio_start_recording, when it does not return -EBUSY
AudioStart ==
    /\ ~active /\ sid < MaxSessions
    /\ sid' = sid + 1
    /\ stopReq' = FALSE /\ stopDone' = 0 /\ startSem' = 1
    /\ unclosed' = IF rpc \in Closing THEN unclosed \union {sid} ELSE unclosed
    /\ UNCHANGED <<active, paused, pauseReq, rpc, out, chunk, power, card, faults>>

\* audio_stop_recording up to its wait, which it skips when nothing is active
AudioStop ==
    /\ stopReq' = TRUE
    /\ UNCHANGED <<active, paused, pauseReq, sems, sid, rpc, out, chunk, power, card,
                   faults, unclosed>>

\* Its wait for stop_done_sem ends ...
AudioStopped ==
    /\ stopDone = 1
    /\ stopDone' = 0
    /\ UNCHANGED <<flags, startSem, sid, rpc, out, chunk, power, card, faults,
                   unclosed>>

\* ... or gives up after 5 s: the card is slow, another waiter took the only
\* token, or a start reset the semaphore
AudioStopTimeout ==
    /\ stopDone = 0
    /\ SlowCard \/ rpc = "wait" \/ startSem = 1
    /\ UNCHANGED recVars

\* audio_pause_recording and audio_resume_recording do nothing when the flags
\* say there is nothing to do
AudioPause ==
    /\ pauseReq' = (pauseReq \/ (active /\ ~paused))
    /\ UNCHANGED <<active, paused, stopReq, sems, sid, rpc, out, chunk, power, card,
                   faults, unclosed>>

AudioResume ==
    /\ paused' = (paused /\ ~active)
    /\ UNCHANGED <<active, stopReq, pauseReq, sems, sid, rpc, out, chunk, power, card,
                   faults, unclosed>>

-----------------------------------------------------------------------------
(* The audio thread                                                         *)

RecGoto(pc) == rpc' = pc /\ UNCHANGED <<sems, sid, unclosed>>

Fault == faults > 0 /\ faults' = faults - 1

\* storage_create_file: the chunk exists and is open
CreateFile(n) ==
    /\ out' = [sid |-> sid, chunk |-> n]
    /\ card' = [card EXCEPT ![sid].chunks = @ \union {n}]

\* A start is taken, or skipped when a stop came in between
RecWake ==
    /\ rpc = "wait" /\ startSem = 1
    /\ startSem' = 0
    /\ stopReq' = FALSE
    /\ rpc' = IF stopReq THEN "wait" ELSE "init"
    /\ UNCHANGED <<active, paused, pauseReq, stopDone, sid, out, chunk, power, card,
                   faults, unclosed>>

\* audio_start_recording_internal: boost, microphone, encoder, DMIC ...
RecInitAudio ==
    /\ rpc = "init"
    /\ chunk' = 1
    /\ power' = [mic |-> TRUE, boost |-> power.boost + 1]
    /\ RecGoto("create")
    /\ UNCHANGED <<flags, out, card, faults>>

\* Mutant: the boost is not released
RecInitFailKeepsBoost ==
    /\ rpc = "init" /\ Fault
    /\ chunk' = 1
    /\ power' = [power EXCEPT !.boost = @ + 1]
    /\ RecGoto("wait")
    /\ UNCHANGED <<flags, out, card>>

\* ... any of which can fail, undoing the others
RecInitFail ==
    /\ rpc = "init" /\ Fault
    /\ chunk' = 1
    /\ RecGoto("wait")
    /\ UNCHANGED <<flags, out, power, card>>

\* storage_create_session; a failure is only logged
RecCreateSession ==
    /\ rpc = "create"
    /\ \/ card' = [card EXCEPT ![sid].json = "recording"] /\ UNCHANGED faults
       \/ Fault /\ UNCHANGED card
    /\ RecGoto("create_file")
    /\ UNCHANGED <<flags, out, chunk, power>>

\* The first chunk (a failure is only logged); recording_active is set
RecCreateFile ==
    /\ rpc = "create_file"
    /\ \/ CreateFile(1) /\ UNCHANGED faults
       \/ Fault /\ UNCHANGED <<out, card>>
    /\ active' = TRUE /\ paused' = FALSE
    /\ RecGoto("record")
    /\ UNCHANGED <<stopReq, pauseReq, chunk, power>>

\* The recording loop: a stop is seen first ...
RecStopSeen ==
    /\ rpc = "record" /\ stopReq
    /\ RecGoto("stop")
    /\ UNCHANGED <<flags, out, chunk, power, card, faults>>

\* ... then a pause: the file is closed, then microphone and is_paused change
RecPauseSeen ==
    /\ rpc = "record" /\ ~stopReq /\ pauseReq
    /\ pauseReq' = FALSE
    /\ out' = NoFile
    /\ RecGoto("pausing")
    /\ UNCHANGED <<active, paused, stopReq, chunk, power, card, faults>>

\* Mutant: pausing gives the boost back, as stopping will do again
RecPausedFreesBoost ==
    /\ rpc = "pausing"
    /\ power' = [mic |-> FALSE, boost |-> power.boost - 1]
    /\ paused' = TRUE
    /\ RecGoto("paused")
    /\ UNCHANGED <<active, stopReq, pauseReq, out, chunk, card, faults>>

RecPaused ==
    /\ rpc = "pausing"
    /\ power' = [power EXCEPT !.mic = FALSE]
    /\ paused' = TRUE
    /\ RecGoto("paused")
    /\ UNCHANGED <<active, stopReq, pauseReq, out, chunk, card, faults>>

\* Mutant: the pause loop waits for a resume only
RecStopPausedNever ==
    /\ rpc = "paused" /\ stopReq /\ ~paused
    /\ RecGoto("stop")
    /\ UNCHANGED <<flags, out, chunk, power, card, faults>>

\* The pause loop ends with a stop ...
RecStopPaused ==
    /\ rpc = "paused" /\ stopReq
    /\ RecGoto("stop")
    /\ UNCHANGED <<flags, out, chunk, power, card, faults>>

\* ... or a resume: a new chunk, and the recording ends when it cannot be
\* created or the DMIC does not start again
RecResume ==
    /\ rpc = "paused" /\ ~stopReq /\ ~paused
    /\ \/ /\ chunk < MaxChunks
          /\ chunk' = chunk + 1 /\ CreateFile(chunk + 1)
          /\ power' = [power EXCEPT !.mic = TRUE]
          /\ \/ RecGoto("record") /\ UNCHANGED faults
             \/ RecGoto("stop") /\ Fault
       \/ /\ Fault
          /\ RecGoto("stop")
          /\ UNCHANGED <<chunk, out, power, card>>
    /\ UNCHANGED flags

\* The chunk is long enough: the next one.  Without it, recording goes on
RecSegment ==
    /\ rpc = "record" /\ ~stopReq /\ ~pauseReq /\ chunk < MaxChunks
    /\ \/ chunk' = chunk + 1 /\ CreateFile(chunk + 1) /\ UNCHANGED faults
       \/ Fault /\ out' = NoFile /\ UNCHANGED <<chunk, card>>
    /\ RecGoto("record")
    /\ UNCHANGED <<flags, power>>

\* The card does not take a frame: the thread asks itself to stop
RecWriteError ==
    /\ rpc = "record" /\ ~stopReq /\ ~pauseReq /\ out # NoFile /\ Fault
    /\ out' = NoFile
    /\ stopReq' = TRUE
    /\ RecGoto("record")
    /\ UNCHANGED <<active, paused, pauseReq, chunk, power, card>>

\* dmic_read fails, other than by timing out
RecDmicError ==
    /\ rpc = "record" /\ ~stopReq /\ ~pauseReq /\ Fault
    /\ RecGoto("stop")
    /\ UNCHANGED <<flags, out, chunk, power, card>>

\* audio_stop_recording_internal, at its writes to the card
RecInactive ==
    /\ rpc = "stop"
    /\ active' = FALSE /\ paused' = FALSE
    /\ RecGoto("close_file")
    /\ UNCHANGED <<stopReq, pauseReq, out, chunk, power, card, faults>>

RecCloseFile ==
    /\ rpc = "close_file"
    /\ out' = NoFile
    /\ RecGoto("close_session")
    /\ UNCHANGED <<flags, chunk, power, card, faults>>

\* Mutant: the number of the last chunk is taken for 0-based
RecCloseSessionShort ==
    /\ rpc = "close_session"
    /\ card' = [card EXCEPT ![sid] = [@ EXCEPT !.json = "final", !.files = chunk - 1]]
    /\ power' = [mic |-> FALSE, boost |-> power.boost - 1]
    /\ RecGoto("done")
    /\ UNCHANGED <<flags, out, chunk, faults>>

\* storage_close_session of whatever current_session_id is by now: its rewrite of
\* session.json can fail - without a directory it does - and that is ignored
RecCloseSession ==
    /\ rpc = "close_session"
    /\ \/ /\ card[sid] = Empty
          /\ UNCHANGED <<card, faults, unclosed>>
       \/ /\ card[sid] # Empty
          /\ card' = [card EXCEPT ![sid] = [@ EXCEPT !.json = "final", !.files = chunk]]
          /\ UNCHANGED <<faults, unclosed>>
       \/ /\ card[sid] # Empty /\ Fault
          /\ unclosed' = unclosed \union {sid}
          /\ UNCHANGED card
    /\ power' = [mic |-> FALSE, boost |-> power.boost - 1]
    /\ rpc' = "done"
    /\ UNCHANGED <<flags, sems, sid, out, chunk>>

RecDone ==
    /\ rpc = "done"
    /\ stopReq' = FALSE /\ pauseReq' = FALSE
    /\ stopDone' = 1
    /\ rpc' = "wait"
    /\ UNCHANGED <<active, paused, startSem, sid, out, chunk, power, card, faults,
                   unclosed>>

AudioThread ==
    \/ RecWake \/ RecInitAudio \/ RecInitFail \/ RecCreateSession \/ RecCreateFile
    \/ RecStopSeen \/ RecPauseSeen \/ RecPaused \/ RecStopPaused \/ RecResume
    \/ RecSegment \/ RecWriteError \/ RecDmicError
    \/ RecInactive \/ RecCloseFile \/ RecCloseSession \/ RecDone

-----------------------------------------------------------------------------
RecPcs == {"wait", "init", "create", "create_file", "record", "pausing", "paused",
           "stop", "close_file", "close_session", "done"}

RecTypeOK ==
    /\ active \in BOOLEAN /\ paused \in BOOLEAN
    /\ stopReq \in BOOLEAN /\ pauseReq \in BOOLEAN
    /\ startSem \in {0, 1} /\ stopDone \in {0, 1}
    /\ sid \in 0..MaxSessions /\ rpc \in RecPcs
    /\ out \in [sid : 0..MaxSessions, chunk : 0..MaxChunks]
    /\ chunk \in 0..MaxChunks
    /\ power \in [mic : BOOLEAN, boost : {0, 1}]
    /\ card \in [Sessions -> [json : {"none", "recording", "final"},
                              files : 0..MaxChunks, chunks : SUBSET (1..MaxChunks)]]
    /\ faults \in 0..MaxFaults
    /\ unclosed \subseteq Sessions
=============================================================================
