------------------------------ MODULE ClipEvent ------------------------------
(***************************************************************************)
(* The device's state machine, applications/clip/src/clip_event.c, driving  *)
(* the recorder of module Recorder.                                         *)
(*                                                                         *)
(* The main thread takes events off a queue and runs their transitions; the *)
(* AT thread posts an event and waits for its result (at_commands.c); the   *)
(* button and the WiFi timer post and go on; the shutdown thread bypasses   *)
(* the queue.  TRANSMITTING, ERROR and OTA appear in the transition table   *)
(* but no transition of the code leads to them; MARK, STATUS_SHOW and the   *)
(* events that only change the display are left out.                        *)
(***************************************************************************)
EXTENDS Recorder, Sequences

CONSTANTS
    QueueSize,   \* EVENT_QUEUE_SIZE
    AtCommands,  \* the events AT commands post in this instance
    MaxPosts     \* bound: commands, presses, timeouts and power-offs

ASSUME ClipEventAssumption ==
    /\ QueueSize \in Nat \ {0} /\ MaxPosts \in Nat
    /\ AtCommands \subseteq {"START", "STOP", "PAUSE", "RESUME", "WIFI_ON", "WIFI_OFF"}

VARIABLES
    state,   \* g_state
    queue,   \* clip_ev_msgq: [ev, wait], wait when the AT thread waits for it
    mpc,     \* where the main thread is
    cur,     \* the event it is executing
    tpc,     \* where the AT thread is
    cmd,     \* the event of its command, and the result of it
    spc,     \* where the shutdown thread is
    ap,      \* ap_running
    posts    \* what is left of MaxPosts

main == <<state, mpc, cur, ap>>
atTh == <<tpc, cmd>>
vars == <<recVars, main, queue, atTh, spc, posts>>

Events  == {"START", "STOP", "PAUSE", "RESUME", "WIFI_ON", "WIFI_OFF"}
States  == {"IDLE", "RECORDING", "PAUSED", "WIFI_SYNC"}
Results == {"none", "OK", "BUSY", "INVALID", "ERROR"}
NoEvent == [ev |-> "none", wait |-> FALSE]

\* transition_table, where it is not TRANS_INVALID
Transitions ==
    { <<"IDLE", "START", "RECORDING">>,  <<"IDLE", "WIFI_ON", "WIFI_SYNC">>,
      <<"RECORDING", "STOP", "IDLE">>,   <<"RECORDING", "PAUSE", "PAUSED">>,
      <<"PAUSED", "STOP", "IDLE">>,      <<"PAUSED", "RESUME", "RECORDING">>,
      <<"PAUSED", "WIFI_ON", "WIFI_SYNC">>,
      <<"WIFI_SYNC", "WIFI_ON", "WIFI_SYNC">>, <<"WIFI_SYNC", "WIFI_OFF", "IDLE">> }

Valid(s, e) == \E n \in States : <<s, e, n>> \in Transitions

Init ==
    /\ RecInit
    /\ state = "IDLE" /\ queue = <<>>
    /\ mpc = "take" /\ cur = NoEvent
    /\ tpc = "ready" /\ cmd = [ev |-> "none", result |-> "none"]
    /\ spc = "ready" /\ ap = FALSE
    /\ posts = MaxPosts

-----------------------------------------------------------------------------
(* The main thread: clip_event_process and execute_transition               *)

\* Mutant: the waiter is not woken on the early exits
AnswerOk(e, r) ==
    IF e.wait /\ r = "OK" THEN tpc' = "answered" /\ cmd' = [cmd EXCEPT !.result = r]
                          ELSE UNCHANGED atTh

\* item.result and item.done_sem
Answer(e, r) ==
    IF e.wait THEN tpc' = "answered" /\ cmd' = [cmd EXCEPT !.result = r]
              ELSE UNCHANGED atTh

MainGoto(pc) == mpc' = pc /\ UNCHANGED <<state, cur, queue, atTh, spc, posts>>

\* The event ends without a transition
Finish(r) ==
    /\ Answer(cur, r)
    /\ mpc' = "take" /\ cur' = NoEvent
    /\ UNCHANGED <<state, queue, spc, posts>>

MainTake ==
    /\ mpc = "take" /\ queue # <<>>
    /\ queue' = Tail(queue)
    /\ LET e == Head(queue)
       IN IF Valid(state, e.ev)
          THEN mpc' = "exec" /\ cur' = e /\ UNCHANGED atTh
          ELSE Answer(e, "INVALID") /\ UNCHANGED <<mpc, cur>>
    /\ UNCHANGED <<recVars, state, ap, spc, posts>>

Executing(ev) == mpc = "exec" /\ cur.ev = ev

\* The card cannot be mounted or is full
StartRefused ==
    /\ Executing("START")
    /\ Finish("ERROR")
    /\ UNCHANGED <<recVars, ap>>

StartBusy ==
    /\ Executing("START") /\ active
    /\ Finish("BUSY")
    /\ UNCHANGED <<recVars, ap>>

StartRecording ==
    /\ Executing("START")
    /\ AudioStart
    /\ MainGoto("commit") /\ UNCHANGED ap

\* CLIP_EVENT_STOP and CLIP_EVENT_PAUSE look at audio_is_recording first
NotRecording ==
    /\ Executing("STOP") \/ Executing("PAUSE")
    /\ ~active
    /\ Finish("INVALID")
    /\ UNCHANGED <<recVars, ap>>

StopLook ==
    /\ Executing("STOP") /\ active
    /\ MainGoto("stop")
    /\ UNCHANGED <<recVars, ap>>

StopCall ==
    /\ mpc = "stop"
    /\ AudioStop
    /\ MainGoto(IF active THEN "stop_wait" ELSE "commit") /\ UNCHANGED ap

\* -ETIMEDOUT is taken for success
StopEnds ==
    /\ mpc = "stop_wait"
    /\ AudioStopped \/ AudioStopTimeout
    /\ MainGoto("commit") /\ UNCHANGED ap

PauseRecording ==
    /\ Executing("PAUSE") /\ active
    /\ AudioPause
    /\ MainGoto("commit") /\ UNCHANGED ap

ResumeRecording ==
    /\ Executing("RESUME")
    /\ AudioResume
    /\ MainGoto("commit") /\ UNCHANGED ap

WifiOn ==
    /\ Executing("WIFI_ON")
    /\ \/ ap' = TRUE /\ MainGoto("commit")
       \/ ~ap /\ UNCHANGED ap /\ Finish("ERROR")
    /\ UNCHANGED recVars

WifiOff ==
    /\ Executing("WIFI_OFF")
    /\ ap' = FALSE
    /\ MainGoto("commit")
    /\ UNCHANGED recVars

\* Mutant: the state is not committed
CommitKeepsState ==
    /\ mpc = "commit"
    /\ Answer(cur, "OK")
    /\ mpc' = "take" /\ cur' = NoEvent
    /\ UNCHANGED <<recVars, state, ap, queue, spc, posts>>

\* CLIP_EVENT_OK: g_state takes the table's value
Commit ==
    /\ mpc = "commit"
    /\ \E next \in States : <<state, cur.ev, next>> \in Transitions /\ state' = next
    /\ Answer(cur, "OK")
    /\ mpc' = "take" /\ cur' = NoEvent
    /\ UNCHANGED <<recVars, ap, queue, spc, posts>>

MainThread ==
    \/ MainTake
    \/ StartRefused \/ StartBusy \/ StartRecording
    \/ NotRecording \/ StopLook \/ StopCall \/ StopEnds
    \/ PauseRecording \/ ResumeRecording \/ WifiOn \/ WifiOff
    \/ Commit

-----------------------------------------------------------------------------
(* Those that post events                                                   *)

CanPost == posts > 0 /\ posts' = posts - 1

\* k_msgq_put with K_NO_WAIT: on a full queue the event is dropped
Post(ev, wait) ==
    queue' = IF Len(queue) < QueueSize THEN Append(queue, [ev |-> ev, wait |-> wait])
                                       ELSE queue

\* An AT command posts and waits; on a full queue it has its answer at once.
\* AT+STOP asks for a session id first
AtPost ==
    /\ tpc = "ready" /\ CanPost
    /\ \E ev \in AtCommands :
         /\ ev = "STOP" => sid # 0
         /\ ev = "START" => sid < MaxSessions
         /\ Post(ev, TRUE)
         /\ IF Len(queue) < QueueSize
            THEN tpc' = "posted" /\ cmd' = [ev |-> ev, result |-> "none"]
            ELSE tpc' = "answered" /\ cmd' = [ev |-> ev, result |-> "BUSY"]
    /\ UNCHANGED <<recVars, main, spc>>

\* cmd_stop_handler: when the event was invalid but audio records, stop it
AtAnswered ==
    /\ tpc = "answered"
    /\ tpc' = IF cmd.ev = "STOP" /\ cmd.result = "INVALID" /\ active
              THEN "force" ELSE "ready"
    /\ UNCHANGED <<recVars, main, queue, cmd, spc, posts>>

AtForceStop ==
    /\ tpc = "force"
    /\ AudioStop
    /\ tpc' = IF active THEN "force_wait" ELSE "ready"
    /\ UNCHANGED <<main, queue, cmd, spc, posts>>

AtForceEnds ==
    /\ tpc = "force_wait"
    /\ AudioStopped \/ AudioStopTimeout
    /\ tpc' = "ready"
    /\ UNCHANGED <<main, queue, cmd, spc, posts>>

AtThread == AtAnswered \/ AtForceStop \/ AtForceEnds

\* button_event_callback: what a press means depends on g_state when it comes;
\* locked out while the device shuts down
ButtonPress ==
    /\ spc = "ready" /\ CanPost
    /\ \/ state = "RECORDING" /\ Post("STOP", FALSE)
       \/ state \in {"IDLE", "WIFI_SYNC"} /\ sid < MaxSessions /\ Post("START", FALSE)
    /\ UNCHANGED <<recVars, main, atTh, spc>>

\* wifi_timeout_handler
WifiTimeout ==
    /\ ap /\ CanPost
    /\ Post("WIFI_OFF", FALSE)
    /\ UNCHANGED <<recVars, main, atTh, spc>>

\* clip_request_shutdown; here the power-off that ends shutdown_thread_fn fails
ShutdownRequest ==
    /\ spc = "ready" /\ CanPost
    /\ spc' = "look"
    /\ UNCHANGED <<recVars, main, queue, atTh>>

ShutdownLook ==
    /\ spc = "look"
    /\ spc' = IF active THEN "stop" ELSE "ready"
    /\ UNCHANGED <<recVars, main, queue, atTh, posts>>

ShutdownStop ==
    /\ spc = "stop"
    /\ AudioStop
    /\ spc' = IF active THEN "stop_wait" ELSE "ready"
    /\ UNCHANGED <<main, queue, atTh, posts>>

ShutdownEnds ==
    /\ spc = "stop_wait"
    /\ AudioStopped \/ AudioStopTimeout
    /\ spc' = "ready"
    /\ UNCHANGED <<main, queue, atTh, posts>>

ShutdownThread == ShutdownLook \/ ShutdownStop \/ ShutdownEnds

Recording == AudioThread /\ UNCHANGED <<main, queue, atTh, spc, posts>>

Next ==
    \/ MainThread \/ Recording \/ AtThread \/ ShutdownThread
    \/ AtPost \/ ButtonPress \/ WifiTimeout \/ ShutdownRequest

\* The threads of the device run; nothing is assumed of the user or the host
Spec ==
    /\ Init /\ [][Next]_vars
    /\ WF_vars(MainThread) /\ WF_vars(Recording)
    /\ WF_vars(AtThread) /\ WF_vars(ShutdownThread)

-----------------------------------------------------------------------------
(* Properties                                                               *)

\* Every variable keeps to its C type, or to the outcomes modelled
TypeOK ==
    /\ RecTypeOK
    /\ state \in States /\ ap \in BOOLEAN
    /\ queue \in Seq([ev : Events, wait : BOOLEAN]) /\ Len(queue) <= QueueSize
    /\ mpc \in {"take", "exec", "stop", "stop_wait", "commit"}
    /\ cur \in [ev : Events \union {"none"}, wait : BOOLEAN]
    /\ tpc \in {"ready", "posted", "answered", "force", "force_wait"}
    /\ cmd \in [ev : Events \union {"none"}, result : Results]
    /\ spc \in {"ready", "look", "stop", "stop_wait"}
    /\ posts \in 0..MaxPosts

\* Audio is captured only while the device says RECORDING, is about to say it,
\* or has asked the recorder to pause or stop: the microphone is never on behind
\* the back of a device that shows IDLE, PAUSED or WIFI_SYNC
CapturesOnlyWhenShown ==
    rpc = "record" /\ ~stopReq /\ ~pauseReq
        => state = "RECORDING" \/ mpc = "commit"

\* A parked recorder holds no file, no microphone and no CPU boost
ParkedIsQuiet ==
    rpc = "wait" => out = NoFile /\ ~power.mic /\ power.boost = 0 /\ ~active

\* Once the recorder is parked every session on the card has been finished, its
\* file count covering its chunks.  One whose close a start overtook, or the card
\* refused, is left with a count of 0 at worst, so that readers scan its directory
SessionsFinished ==
    rpc = "wait" =>
        \A s \in Sessions :
            \/ /\ card[s].json # "recording"
               /\ card[s].chunks \subseteq 1..card[s].files
               /\ faults = MaxFaults => card[s].chunks = 1..card[s].files
            \/ s \in unclosed /\ card[s].files = 0

\* What the card shows of a closed recording is not written again: neither by the
\* next recording nor by the close of one whose id the next has taken
FinishedStays ==
    [][\A s \in Sessions : card[s].json = "final" => card'[s] = card[s]]_vars

\* A stop asked of a recording that runs or is being set up is not taken back before
\* that recording is wound up, whoever starts, pauses or resumes meanwhile; one asked
\* of a START the parked thread has yet to take is kept or makes it skip that START.
\* Not so for a START that overtook a close: the close clears the stop (audio.c:940)
StopIsKept ==
    [][stopReq /\ rpc \notin Closing /\ (rpc = "wait" => startSem = 1)
         => stopReq' \/ (rpc' = "wait" /\ startSem' = 0)]_vars

\* protocol.md: "files: Total number of audio files in session (0 while
\* recording)" - no session keeps that 0 once its recording is over
NoneLeftRecording ==
    rpc = "wait" /\ startSem = 0 => \A s \in Sessions : card[s].json # "recording"

\* protocol.md: "RECORDING: Actively recording audio", and a comment of
\* clip_event.c: "so the state machine never deadlocks in RECORDING" - no
\* RECORDING with the recorder parked and no start on its way to it
NeverStuckRecording ==
    state = "RECORDING" /\ mpc = "take" => rpc # "wait" \/ startSem = 1

\* A stop that was asked for is carried out
StopsEventually == (stopReq /\ rpc # "wait") ~> rpc = "wait"

\* Every AT command is answered
AnsweredEventually == tpc # "ready" ~> tpc = "ready"
=============================================================================
