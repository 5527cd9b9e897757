-------------------------- MODULE ClipEvent_proofs --------------------------
(***************************************************************************)
(* Theorems about ClipEvent and the Recorder it drives, for all bounds.      *)
(*                                                                         *)
(* The inductive invariant has four groups: DeviceInv (what the audio       *)
(* thread holds at each of its places), TableInv (the event in execution    *)
(* fits the transition table), ShownInv (the recorder and g_state agree)    *)
(* and CardInv (what the card shows of each session).                       *)
(***************************************************************************)
EXTENDS ClipEvent, TLAPS

-----------------------------------------------------------------------------
(* What a step may do to the recorder                                       *)

\* Whoever takes a step, the recorder sees its own thread or one of the calls
RecStep ==
    \/ AudioThread
    \/ AudioStart \/ AudioStop \/ AudioStopped \/ AudioPause \/ AudioResume
    \/ UNCHANGED recVars

LEMMA StepsOfTheRecorder ==
  ASSUME [Next]_vars PROVE RecStep
<1>1. ASSUME MainThread PROVE RecStep
  BY <1>1
     DEF MainThread, MainTake, StartRefused, StartBusy, StartRecording, NotRecording,
         StopLook, StopCall, StopEnds, PauseRecording, ResumeRecording, WifiOn, WifiOff,
         Commit, AudioStopTimeout, RecStep
<1>2. ASSUME AtThread \/ ShutdownThread PROVE RecStep
  BY <1>2
     DEF AtThread, AtAnswered, AtForceStop, AtForceEnds, ShutdownThread, ShutdownLook,
         ShutdownStop, ShutdownEnds, AudioStopTimeout, RecStep
<1>3. ASSUME AtPost \/ ButtonPress \/ WifiTimeout \/ ShutdownRequest PROVE RecStep
  BY <1>3 DEF AtPost, ButtonPress, WifiTimeout, ShutdownRequest, RecStep
<1>4. ASSUME Recording PROVE RecStep
  BY <1>4 DEF Recording, RecStep
<1>5. ASSUME UNCHANGED vars PROVE RecStep
  BY <1>5 DEF vars, RecStep
<1> QED
  BY <1>1, <1>2, <1>3, <1>4, <1>5 DEF Next

-----------------------------------------------------------------------------
(* Types, and what the audio thread holds at each of its places             *)

\* Where recording_active is TRUE, and where a start is being carried out
Live     == {"record", "pausing", "paused", "stop"}
Starting == {"init", "create", "create_file"}

\* recording_active, the supply, the boost, the open file and is_paused follow from
\* where the thread is; it only runs for a session that has an id
DeviceInv ==
    /\ active <=> rpc \in Live
    /\ power.boost = IF rpc \in {"wait", "init", "done"} THEN 0 ELSE 1
    /\ rpc \in {"wait", "init", "done"} => ~power.mic
    /\ out # NoFile => rpc \in {"record", "stop", "close_file"}
    /\ rpc \in {"record", "pausing"} => ~paused
    /\ startSem = 1 \/ rpc # "wait" => sid > 0

LEMMA DeviceInit == ASSUME RecInit PROVE RecTypeOK /\ DeviceInv
<1>1. /\ active \in BOOLEAN /\ paused \in BOOLEAN
      /\ stopReq \in BOOLEAN /\ pauseReq \in BOOLEAN
  BY DEF RecInit
<1>2. out \in [sid : 0..MaxSessions, chunk : 0..MaxChunks]
  BY RecorderAssumption DEF RecInit, NoFile
<1>3. card \in [Sessions -> [json : {"none", "recording", "final"},
                            files : 0..MaxChunks, chunks : SUBSET (1..MaxChunks)]]
  BY RecorderAssumption DEF RecInit, Empty
<1>4. power \in [mic : BOOLEAN, boost : {0, 1}] /\ ~power.mic /\ power.boost = 0
  BY DEF RecInit
<1>5. RecTypeOK
  BY <1>1, <1>2, <1>3, <1>4, RecorderAssumption DEF RecInit, RecTypeOK, RecPcs
<1>6. DeviceInv
  BY <1>4 DEF RecInit, DeviceInv, Live
<1> QED
  BY <1>5, <1>6

\* What the helpers keep
LEMMA FaultType == ASSUME RecTypeOK, Fault PROVE faults' \in 0..MaxFaults /\ faults' # MaxFaults
  BY RecorderAssumption DEF RecTypeOK, Fault

LEMMA CreateFileType ==
  ASSUME RecTypeOK, sid > 0, NEW n \in 1..MaxChunks, CreateFile(n)
  PROVE  /\ out' \in [sid : 0..MaxSessions, chunk : 0..MaxChunks]
         /\ card' \in [Sessions -> [json : {"none", "recording", "final"},
                                    files : 0..MaxChunks, chunks : SUBSET (1..MaxChunks)]]
<1>1. sid \in Sessions
  BY RecorderAssumption DEF RecTypeOK, Sessions
<1>2. out' \in [sid : 0..MaxSessions, chunk : 0..MaxChunks]
  BY RecorderAssumption DEF RecTypeOK, CreateFile
<1>3. [card[sid] EXCEPT !.chunks = @ \union {n}]
        \in [json : {"none", "recording", "final"},
             files : 0..MaxChunks, chunks : SUBSET (1..MaxChunks)]
  BY <1>1 DEF RecTypeOK
<1> QED
  BY <1>1, <1>2, <1>3 DEF RecTypeOK, CreateFile

LEMMA DeviceCalls ==
  ASSUME RecTypeOK, DeviceInv,
         AudioStart \/ AudioStop \/ AudioStopped \/ AudioPause \/ AudioResume
           \/ UNCHANGED recVars
  PROVE  RecTypeOK' /\ DeviceInv'
<1>1. CASE AudioStart
  <2>1. unclosed' \subseteq Sessions
    BY <1>1, RecorderAssumption DEF AudioStart, RecTypeOK, DeviceInv, Sessions, Closing
  <2>2. stopReq' \in BOOLEAN
    BY <1>1 DEF AudioStart
  <2> QED
    BY <1>1, <2>1, <2>2, RecorderAssumption DEF AudioStart, RecTypeOK, DeviceInv, NoFile
<1>2. CASE AudioStop
  <2>1. stopReq' \in BOOLEAN
    BY <1>2 DEF AudioStop
  <2> QED
    BY <1>2, <2>1 DEF AudioStop, RecTypeOK, DeviceInv, NoFile, sems
<1>3. CASE AudioStopped
  BY <1>3 DEF AudioStopped, RecTypeOK, DeviceInv, NoFile, flags
<1>4. CASE AudioPause
  <2>1. pauseReq' \in BOOLEAN
    BY <1>4, Zenon DEF AudioPause
  <2> QED
    BY <1>4, <2>1 DEF AudioPause, RecTypeOK, DeviceInv, NoFile, sems
<1>5. CASE AudioResume
  <2>1. paused' \in BOOLEAN
    BY <1>5, Zenon DEF AudioResume
  <2> QED
    BY <1>5, <2>1 DEF AudioResume, RecTypeOK, DeviceInv, NoFile, sems
<1>6. CASE UNCHANGED recVars
  BY <1>6 DEF recVars, flags, sems, RecTypeOK, DeviceInv, NoFile
<1> QED
  BY <1>1, <1>2, <1>3, <1>4, <1>5, <1>6

LEMMA DeviceThread ==
  ASSUME RecTypeOK, DeviceInv, AudioThread PROVE RecTypeOK' /\ DeviceInv'
<1> USE RecorderAssumption DEF RecGoto, RecPcs, Live, Starting, NoFile
<1>1. CASE RecWake
  BY <1>1 DEF RecWake, RecTypeOK, DeviceInv, flags, sems
<1>2. CASE RecInitAudio
  BY <1>2 DEF RecInitAudio, RecTypeOK, DeviceInv, flags, sems
<1>3. CASE RecInitFail
  BY <1>3, FaultType DEF RecInitFail, RecTypeOK, DeviceInv, flags, sems
<1>4. CASE RecCreateSession
  BY <1>4, FaultType DEF RecCreateSession, RecTypeOK, DeviceInv, flags, sems
<1>5. CASE RecCreateFile
  <2>1. active' \in BOOLEAN /\ paused' \in BOOLEAN /\ active'
    BY <1>5 DEF RecCreateFile
  <2>2. /\ out' \in [sid : 0..MaxSessions, chunk : 0..MaxChunks]
        /\ card' \in [Sessions -> [json : {"none", "recording", "final"},
                                   files : 0..MaxChunks, chunks : SUBSET (1..MaxChunks)]]
        /\ faults' \in 0..MaxFaults
    <3>1. sid > 0 /\ 1 \in 1..MaxChunks
      BY <1>5 DEF RecCreateFile, DeviceInv
    <3> QED
      BY <1>5, <3>1, FaultType, CreateFileType DEF RecCreateFile, RecTypeOK
  <2> QED
    BY <1>5, <2>1, <2>2 DEF RecCreateFile, RecTypeOK, DeviceInv, sems
<1>6. CASE RecStopSeen
  BY <1>6 DEF RecStopSeen, RecTypeOK, DeviceInv, flags, sems
<1>7. CASE RecPauseSeen
  <2>1. pauseReq' \in BOOLEAN
    BY <1>7 DEF RecPauseSeen
  <2>2. out' \in [sid : 0..MaxSessions, chunk : 0..MaxChunks]
    BY <1>7 DEF RecPauseSeen, RecTypeOK
  <2> QED
    BY <1>7, <2>1, <2>2 DEF RecPauseSeen, RecTypeOK, DeviceInv, sems
<1>8. CASE RecPaused
  BY <1>8 DEF RecPaused, RecTypeOK, DeviceInv, flags, sems
<1>9. CASE RecStopPaused
  BY <1>9 DEF RecStopPaused, RecTypeOK, DeviceInv, flags, sems
<1>10. CASE RecResume
  <2>1. sid > 0 /\ chunk + 1 \in Nat /\ chunk + 1 > 0
    BY <1>10 DEF RecResume, DeviceInv, RecTypeOK
  <2>2. /\ out' \in [sid : 0..MaxSessions, chunk : 0..MaxChunks]
        /\ card' \in [Sessions -> [json : {"none", "recording", "final"},
                                   files : 0..MaxChunks, chunks : SUBSET (1..MaxChunks)]]
        /\ chunk' \in 0..MaxChunks
    BY <1>10, <2>1, CreateFileType DEF RecResume, RecTypeOK
  <2>3. faults' \in 0..MaxFaults
    BY <1>10, FaultType DEF RecResume, RecTypeOK
  <2>4. /\ power' \in [mic : BOOLEAN, boost : {0, 1}] /\ power'.boost = power.boost
        /\ rpc' \in {"record", "stop"}
    BY <1>10 DEF RecResume, RecTypeOK
  <2>5. RecTypeOK'
    BY <1>10, <2>2, <2>3, <2>4 DEF RecResume, RecTypeOK, flags, sems
  <2>6. DeviceInv'
    BY <1>10, <2>1, <2>4 DEF RecResume, DeviceInv, RecTypeOK, flags, sems
  <2> QED
    BY <2>5, <2>6
<1>11. CASE RecSegment
  BY <1>11, FaultType, CreateFileType DEF RecSegment, RecTypeOK, DeviceInv, flags, sems
<1>12. CASE RecWriteError
  BY <1>12, FaultType DEF RecWriteError, RecTypeOK, DeviceInv, flags, sems
<1>13. CASE RecDmicError
  BY <1>13, FaultType DEF RecDmicError, RecTypeOK, DeviceInv, flags, sems
<1>14. CASE RecInactive
  BY <1>14 DEF RecInactive, RecTypeOK, DeviceInv, flags, sems
<1>15. CASE RecCloseFile
  BY <1>15 DEF RecCloseFile, RecTypeOK, DeviceInv, flags, sems
<1>16. CASE RecCloseSession
  <2>1. sid \in Sessions
    BY <1>16 DEF RecCloseSession, DeviceInv, RecTypeOK, Sessions
  <2>2. card' \in [Sessions -> [json : {"none", "recording", "final"},
                               files : 0..MaxChunks, chunks : SUBSET (1..MaxChunks)]]
    <3> DEFINE Entry == [json : {"none", "recording", "final"},
                         files : 0..MaxChunks, chunks : SUBSET (1..MaxChunks)]
    <3>1. \A c \in Entry, n \in 0..MaxChunks :
            [c EXCEPT !.json = "final", !.files = n] \in Entry
      OBVIOUS
    <3>2. card \in [Sessions -> Entry] /\ chunk \in 0..MaxChunks
      BY DEF RecTypeOK
    <3> HIDE DEF Entry
    <3>3. \/ card' = card
          \/ card' = [card EXCEPT ![sid] = [@ EXCEPT !.json = "final", !.files = chunk]]
      BY <1>16 DEF RecCloseSession
    <3>4. card[sid] \in Entry /\ [card[sid] EXCEPT !.json = "final", !.files = chunk] \in Entry
      BY <2>1, <3>1, <3>2
    <3>5. card' \in [Sessions -> Entry]
      BY <2>1, <3>2, <3>3, <3>4
    <3> QED
      BY <3>5 DEF Entry
  <2>3. power.boost = 1
    BY <1>16 DEF RecCloseSession, DeviceInv
  <2>4. power' \in [mic : BOOLEAN, boost : {0, 1}] /\ power'.boost = 0 /\ ~power'.mic
    BY <1>16, <2>3 DEF RecCloseSession
  <2>5. faults' \in 0..MaxFaults /\ unclosed' \subseteq Sessions
    BY <1>16, <2>1, FaultType DEF RecCloseSession, RecTypeOK
  <2>6. rpc' = "done" /\ UNCHANGED <<flags, sems, sid, out, chunk>>
    BY <1>16 DEF RecCloseSession
  <2>7. RecTypeOK'
    BY <2>2, <2>4, <2>5, <2>6 DEF RecTypeOK, flags, sems
  <2>8. DeviceInv'
    BY <1>16, <2>4, <2>6 DEF RecCloseSession, DeviceInv, flags, sems
  <2> QED
    BY <2>7, <2>8
<1>17. CASE RecDone
  BY <1>17 DEF RecDone, RecTypeOK, DeviceInv, flags, sems
<1> QED
  BY <1>1, <1>2, <1>3, <1>4, <1>5, <1>6, <1>7, <1>8, <1>9, <1>10, <1>11, <1>12, <1>13, <1>14, <1>15, <1>16, <1>17
     DEF AudioThread

LEMMA DeviceStep ==
  ASSUME RecTypeOK, DeviceInv, [Next]_vars PROVE RecTypeOK' /\ DeviceInv'
  BY StepsOfTheRecorder, DeviceCalls, DeviceThread DEF RecStep

-----------------------------------------------------------------------------
(* Types of the state machine                                               *)

\* The variables of ClipEvent itself
MachineTypeOK ==
    /\ state \in States /\ ap \in BOOLEAN
    /\ queue \in Seq([ev : Events, wait : BOOLEAN]) /\ Len(queue) <= QueueSize
    /\ mpc \in {"take", "exec", "stop", "stop_wait", "commit"}
    /\ cur \in [ev : Events \union {"none"}, wait : BOOLEAN]
    /\ tpc \in {"ready", "posted", "answered", "force", "force_wait"}
    /\ cmd \in [ev : Events \union {"none"}, result : Results]
    /\ spc \in {"ready", "look", "stop", "stop_wait"}
    /\ posts \in 0..MaxPosts

LEMMA AnswerType ==
  ASSUME MachineTypeOK, NEW e, NEW r \in Results, Answer(e, r)
  PROVE  /\ tpc' \in {"ready", "posted", "answered", "force", "force_wait"}
         /\ cmd' \in [ev : Events \union {"none"}, result : Results]
  BY DEF Answer, atTh, MachineTypeOK

LEMMA FinishType ==
  ASSUME MachineTypeOK, NEW r \in Results, Finish(r), ap' \in BOOLEAN
  PROVE  MachineTypeOK'
<1>1. cur' \in [ev : Events \union {"none"}, wait : BOOLEAN]
  BY DEF Finish, NoEvent
<1> QED
  BY <1>1, AnswerType DEF Finish, MachineTypeOK

LEMMA PostType ==
  ASSUME MachineTypeOK, NEW ev \in Events, NEW wait \in BOOLEAN, Post(ev, wait)
  PROVE  queue' \in Seq([ev : Events, wait : BOOLEAN]) /\ Len(queue') <= QueueSize
<1> DEFINE Queued == [ev : Events, wait : BOOLEAN]
<1>1. [ev |-> ev, wait |-> wait] \in Queued
  OBVIOUS
<1>2. queue \in Seq(Queued) /\ Len(queue) <= QueueSize
  BY DEF MachineTypeOK
<1> HIDE DEF Queued
<1>3. queue' \in Seq(Queued) /\ Len(queue') <= QueueSize
  BY <1>1, <1>2, ClipEventAssumption DEF Post
<1> QED
  BY <1>3 DEF Queued

LEMMA MachineStep ==
  ASSUME MachineTypeOK, [Next]_vars PROVE MachineTypeOK'
<1> USE ClipEventAssumption
<1>1. ASSUME MainTake PROVE MachineTypeOK'
  <2>1. /\ Head(queue) \in [ev : Events, wait : BOOLEAN]
        /\ queue' \in Seq([ev : Events, wait : BOOLEAN]) /\ Len(queue') <= QueueSize
    <3> DEFINE Queued == [ev : Events, wait : BOOLEAN]
    <3>1. queue \in Seq(Queued) /\ Len(queue) <= QueueSize
      BY DEF MachineTypeOK
    <3> HIDE DEF Queued
    <3>2. Head(queue) \in Queued /\ queue' \in Seq(Queued) /\ Len(queue') <= QueueSize
      BY <1>1, <3>1 DEF MainTake
    <3> QED
      BY <3>2 DEF Queued
  <2>2. /\ cur' \in [ev : Events \union {"none"}, wait : BOOLEAN]
        /\ mpc' \in {"take", "exec"}
        /\ tpc' \in {"ready", "posted", "answered", "force", "force_wait"}
        /\ cmd' \in [ev : Events \union {"none"}, result : Results]
    BY <1>1, <2>1, AnswerType DEF MainTake, MachineTypeOK, Results, atTh
  <2> QED
    BY <1>1, <2>1, <2>2 DEF MainTake, MachineTypeOK
<1>2. ASSUME StartRefused \/ StartBusy \/ NotRecording PROVE MachineTypeOK'
  <2>1. /\ ap' \in BOOLEAN
        /\ Finish("ERROR") \/ Finish("BUSY") \/ Finish("INVALID")
    BY <1>2 DEF StartRefused, StartBusy, NotRecording, MachineTypeOK
  <2> QED
    BY <2>1, FinishType DEF Results
<1>3. ASSUME StartRecording \/ StopLook \/ StopCall \/ StopEnds \/ PauseRecording
               \/ ResumeRecording
      PROVE  MachineTypeOK'
  BY <1>3 DEF StartRecording, StopLook, StopCall, StopEnds, PauseRecording,
              ResumeRecording, MainGoto, MachineTypeOK, atTh
<1>4. ASSUME WifiOn \/ WifiOff PROVE MachineTypeOK'
  <2>1. ap' \in BOOLEAN
    BY <1>4 DEF WifiOn, WifiOff, MachineTypeOK
  <2>2. ASSUME MainGoto("commit") PROVE MachineTypeOK'
    BY <2>1, <2>2 DEF MainGoto, MachineTypeOK, atTh
  <2> QED
    BY <1>4, <2>1, <2>2, FinishType DEF WifiOn, WifiOff, Results
<1>5. ASSUME Commit PROVE MachineTypeOK'
  <2>1. cur' \in [ev : Events \union {"none"}, wait : BOOLEAN]
    BY <1>5 DEF Commit, NoEvent
  <2>2. Answer(cur, "OK") /\ "OK" \in Results /\ state' \in States
    BY <1>5 DEF Commit, Results
  <2> QED
    BY <1>5, <2>1, <2>2, AnswerType DEF Commit, MachineTypeOK
<1>6. ASSUME AtThread PROVE MachineTypeOK'
  BY <1>6 DEF AtThread, AtAnswered, AtForceStop, AtForceEnds, main, MachineTypeOK
<1>7. ASSUME ShutdownThread PROVE MachineTypeOK'
  BY <1>7 DEF ShutdownThread, ShutdownLook, ShutdownStop, ShutdownEnds, main, atTh,
              MachineTypeOK
<1>8. ASSUME AtPost PROVE MachineTypeOK'
  <2>1. PICK ev \in AtCommands :
          /\ Post(ev, TRUE)
          /\ IF Len(queue) < QueueSize
             THEN tpc' = "posted" /\ cmd' = [ev |-> ev, result |-> "none"]
             ELSE tpc' = "answered" /\ cmd' = [ev |-> ev, result |-> "BUSY"]
    BY <1>8 DEF AtPost
  <2>2. ev \in Events
    BY DEF Events
  <2>3. queue' \in Seq([ev : Events, wait : BOOLEAN]) /\ Len(queue') <= QueueSize
    BY <2>1, <2>2, PostType
  <2>4. /\ tpc' \in {"posted", "answered"}
        /\ cmd' \in [ev : Events \union {"none"}, result : Results]
    BY <2>1, <2>2 DEF Results
  <2> QED
    BY <1>8, <2>3, <2>4 DEF AtPost, CanPost, main, MachineTypeOK
<1>9. ASSUME ButtonPress \/ WifiTimeout PROVE MachineTypeOK'
  <2>1. Post("STOP", FALSE) \/ Post("START", FALSE) \/ Post("WIFI_OFF", FALSE)
    BY <1>9 DEF ButtonPress, WifiTimeout
  <2>2. queue' \in Seq([ev : Events, wait : BOOLEAN]) /\ Len(queue') <= QueueSize
    BY <2>1, PostType DEF Events
  <2>3. CanPost /\ UNCHANGED <<main, atTh, spc>>
    BY <1>9 DEF ButtonPress, WifiTimeout
  <2>4. posts' \in 0..MaxPosts
    BY <2>3 DEF CanPost, MachineTypeOK
  <2> QED
    BY <2>2, <2>3, <2>4 DEF main, atTh, MachineTypeOK
<1>10. ASSUME ShutdownRequest PROVE MachineTypeOK'
  BY <1>10 DEF ShutdownRequest, CanPost, main, atTh, MachineTypeOK
<1>11. ASSUME Recording \/ UNCHANGED vars PROVE MachineTypeOK'
  BY <1>11 DEF Recording, vars, main, atTh, MachineTypeOK
<1> QED
  BY <1>1, <1>2, <1>3, <1>4, <1>5, <1>6, <1>7, <1>8, <1>9, <1>10, <1>11
     DEF Next, MainThread

-----------------------------------------------------------------------------
(* The recorder and g_state agree                                           *)

\* The event in execution is one the transition table has for g_state: only its
\* Commit changes g_state
TableInv ==
    /\ mpc # "take" => Valid(state, cur.ev)
    /\ mpc \in {"stop", "stop_wait"} => cur.ev = "STOP"

\* No start is under way, a running recorder has been told to stop or pause, and
\* a paused one not to go on
Quiet ==
    /\ startSem = 0 /\ rpc \notin Starting
    /\ rpc = "record" => stopReq \/ pauseReq
    /\ rpc = "paused" => stopReq \/ pauseReq \/ paused

\* A start is pending only while the thread is parked or winds up the recording
\* before; outside RECORDING the recorder is quiet, except for the step between
\* the call into it and the commit of RECORDING
ShownInv ==
    /\ startSem = 1 => rpc \in {"wait"} \union Closing
    /\ state # "RECORDING" => Quiet \/ (mpc = "commit" /\ cur.ev \in {"START", "RESUME"})
    /\ mpc = "stop" => startSem = 0 /\ rpc \notin Starting
    /\ mpc = "stop_wait" \/ (mpc = "commit" /\ cur.ev \in {"STOP", "PAUSE"}) => Quiet

\* Rows of the transition table
LEMMA Table ==
  ASSUME NEW s \in States, NEW e
  PROVE  /\ Valid(s, "START") => s = "IDLE"
         /\ Valid(s, "STOP") => s \in {"RECORDING", "PAUSED"}
         /\ Valid(s, "PAUSE") => s = "RECORDING"
         /\ Valid(s, "RESUME") => s = "PAUSED"
         /\ \A n : <<s, e, n>> \in Transitions =>
              n = "RECORDING" <=> e \in {"START", "RESUME"}
         /\ \A n : <<s, e, n>> \in Transitions =>
              \/ e \in {"START", "RESUME", "STOP", "PAUSE"}
              \/ s # "RECORDING"
  BY DEF Valid, Transitions, States

\* What each side may do to the recorder while it is quiet
LEMMA QuietThread ==
  ASSUME Quiet, startSem \in {0, 1}, AudioThread PROVE Quiet'
  BY DEF Quiet, Starting, AudioThread, RecWake, RecInitAudio, RecInitFail,
         RecCreateSession, RecCreateFile, RecStopSeen, RecPauseSeen, RecPaused,
         RecStopPaused, RecResume, RecSegment, RecWriteError, RecDmicError, RecInactive,
         RecCloseFile, RecCloseSession, RecDone, RecGoto, flags, sems

LEMMA QuietCalls ==
  ASSUME Quiet, AudioStop \/ AudioStopped \/ AudioStopTimeout \/ AudioPause
                  \/ UNCHANGED recVars
  PROVE  Quiet'
  BY DEF Quiet, Starting, AudioStop, AudioStopped, AudioStopTimeout, AudioPause,
         recVars, flags, sems

\* Neither the audio thread nor the other threads' calls disturb the agreement
LEMMA ShownThread ==
  ASSUME ShownInv, startSem \in {0, 1}, AudioThread, UNCHANGED main PROVE ShownInv'
<1>1. startSem' = 1 => rpc' \in {"wait"} \union Closing
  BY DEF ShownInv, Closing, AudioThread, RecWake, RecInitAudio, RecInitFail,
         RecCreateSession, RecCreateFile, RecStopSeen, RecPauseSeen, RecPaused,
         RecStopPaused, RecResume, RecSegment, RecWriteError, RecDmicError, RecInactive,
         RecCloseFile, RecCloseSession, RecDone, RecGoto, flags, sems
<1>2. startSem = 0 /\ rpc \notin Starting => startSem' = 0 /\ rpc' \notin Starting
  BY DEF Starting, AudioThread, RecWake, RecInitAudio, RecInitFail,
         RecCreateSession, RecCreateFile, RecStopSeen, RecPauseSeen, RecPaused,
         RecStopPaused, RecResume, RecSegment, RecWriteError, RecDmicError, RecInactive,
         RecCloseFile, RecCloseSession, RecDone, RecGoto, flags, sems
<1>3. Quiet => Quiet'
  BY QuietThread
<1> QED
  BY <1>1, <1>2, <1>3 DEF ShownInv, main

LEMMA ShownCalls ==
  ASSUME ShownInv, UNCHANGED main,
         AudioStop \/ AudioStopped \/ AudioStopTimeout \/ UNCHANGED recVars
  PROVE  ShownInv'
<1>1. startSem' = startSem /\ rpc' = rpc
  BY DEF AudioStop, AudioStopped, AudioStopTimeout, recVars, sems
<1>2. Quiet => Quiet'
  BY QuietCalls
<1> QED
  BY <1>1, <1>2 DEF ShownInv, main, Starting, Closing

\* A start is carried out only when none is under way; a recording whose close it
\* finds unfinished is the one it overtakes
LEMMA StartsFromIdle ==
  ASSUME RecTypeOK, MachineTypeOK, DeviceInv, TableInv, ShownInv,
         Executing("START"), ~active
  PROVE  startSem = 0 /\ rpc \in {"wait"} \union Closing
<1>1. state = "IDLE" /\ Quiet
  BY Table DEF MachineTypeOK, TableInv, ShownInv, Executing
<1> QED
  BY <1>1 DEF Quiet, DeviceInv, Live, Starting, Closing, RecTypeOK, RecPcs

LEMMA ShownStep ==
  ASSUME RecTypeOK, MachineTypeOK, DeviceInv, TableInv, ShownInv, [Next]_vars
  PROVE  TableInv' /\ ShownInv'
<1> USE DEF Executing
<1>1. ASSUME MainTake PROVE TableInv' /\ ShownInv'
  <2>1. ShownInv'
    BY <1>1 DEF MainTake, ShownInv, Quiet, recVars, flags, sems
  <2>2. TableInv'
    BY <1>1 DEF MainTake, TableInv, Valid
  <2> QED
    BY <2>1, <2>2
<1>2. ASSUME StartRefused \/ StartBusy \/ NotRecording PROVE TableInv' /\ ShownInv'
  BY <1>2 DEF StartRefused, StartBusy, NotRecording, Finish, TableInv, ShownInv, Quiet,
              recVars, flags, sems
<1>3. ASSUME StartRecording PROVE TableInv' /\ ShownInv'
  <2>1. startSem = 0 /\ rpc \in {"wait"} \union Closing
    BY <1>3, StartsFromIdle DEF StartRecording, AudioStart
  <2> QED
    BY <1>3, <2>1 DEF StartRecording, AudioStart, MainGoto, TableInv, ShownInv, Valid,
                      Closing
<1>4. ASSUME StopLook PROVE TableInv' /\ ShownInv'
  <2>1. startSem = 0 /\ rpc \notin Starting
    BY <1>4 DEF StopLook, ShownInv, DeviceInv, RecTypeOK, Live, Starting, Closing
  <2> QED
    BY <1>4, <2>1 DEF StopLook, MainGoto, TableInv, ShownInv, Quiet, Valid, recVars,
                      flags, sems
<1>5. ASSUME StopCall PROVE TableInv' /\ ShownInv'
  <2>1. Quiet'
    BY <1>5 DEF StopCall, AudioStop, ShownInv, Quiet, Starting, sems
  <2> QED
    BY <1>5, <2>1 DEF StopCall, AudioStop, MainGoto, TableInv, ShownInv, Valid, sems,
                      Closing
<1>6. ASSUME StopEnds PROVE TableInv' /\ ShownInv'
  <2>1. Quiet'
    BY <1>6, QuietCalls DEF StopEnds, ShownInv
  <2>2. startSem' = startSem /\ rpc' = rpc
    BY <1>6 DEF StopEnds, AudioStopped, AudioStopTimeout, recVars, sems
  <2> QED
    BY <1>6, <2>1, <2>2 DEF StopEnds, MainGoto, TableInv, ShownInv, Valid, Closing
<1>7. ASSUME PauseRecording PROVE TableInv' /\ ShownInv'
  <2>1. startSem = 0 /\ rpc \notin Starting
    BY <1>7 DEF PauseRecording, ShownInv, DeviceInv, RecTypeOK, Live, Starting, Closing
  <2>2. Quiet'
    <3>1. rpc = "record" => pauseReq'
      BY <1>7, Zenon DEF PauseRecording, AudioPause, DeviceInv
    <3>2. rpc = "paused" => pauseReq' \/ paused'
      BY <1>7, Zenon DEF PauseRecording, AudioPause
    <3> QED
      BY <1>7, <2>1, <3>1, <3>2 DEF PauseRecording, AudioPause, Quiet, Starting, sems
  <2> QED
    BY <1>7, <2>1, <2>2 DEF PauseRecording, AudioPause, MainGoto, TableInv, ShownInv,
                            Valid, sems, Closing
<1>8. ASSUME ResumeRecording PROVE TableInv' /\ ShownInv'
  BY <1>8 DEF ResumeRecording, AudioResume, MainGoto, TableInv, ShownInv, Valid, sems,
              Closing
<1>9. ASSUME WifiOn \/ WifiOff PROVE TableInv' /\ ShownInv'
  BY <1>9 DEF WifiOn, WifiOff, MainGoto, Finish, TableInv, ShownInv, Valid, Quiet,
              recVars, flags, sems
<1>10. ASSUME Commit PROVE TableInv' /\ ShownInv'
  <2>1. Quiet' <=> Quiet
    BY <1>10 DEF Commit, Quiet, recVars, flags, sems
  <2>2. state' # "RECORDING" => Quiet
    BY <1>10, Table DEF Commit, ShownInv, MachineTypeOK
  <2> QED
    BY <1>10, <2>1, <2>2 DEF Commit, TableInv, ShownInv, recVars, sems
<1>11. ASSUME Recording PROVE TableInv' /\ ShownInv'
  BY <1>11, ShownThread DEF Recording, main, TableInv, Valid, RecTypeOK
<1>12. ASSUME AtThread \/ ShutdownThread \/ AtPost \/ ButtonPress \/ WifiTimeout
                \/ ShutdownRequest \/ UNCHANGED vars
       PROVE  TableInv' /\ ShownInv'
  <2>1. /\ UNCHANGED main
        /\ AudioStop \/ AudioStopped \/ AudioStopTimeout \/ UNCHANGED recVars
    BY <1>12 DEF AtThread, AtAnswered, AtForceStop, AtForceEnds, ShutdownThread,
                 ShutdownLook, ShutdownStop, ShutdownEnds, AtPost, ButtonPress,
                 WifiTimeout, ShutdownRequest, vars
  <2> QED
    BY <2>1, ShownCalls DEF main, TableInv, Valid
<1> QED
  BY <1>1, <1>2, <1>3, <1>4, <1>5, <1>6, <1>7, <1>8, <1>9, <1>10, <1>11, <1>12
     DEF Next, MainThread

-----------------------------------------------------------------------------
(* What the card shows of each session                                      *)

Finished(s) ==
    \/ /\ card[s].json # "recording"
       /\ card[s].chunks \subseteq 1..card[s].files
       /\ faults = MaxFaults => card[s].chunks = 1..card[s].files
    \/ s \in unclosed /\ card[s].files = 0

\* The session being recorded: not closed, its chunks among those counted so far
Growing(s) ==
    /\ card[s].json # "final" /\ card[s].files = 0
    /\ card[s].chunks \subseteq 1..chunk
    /\ faults = MaxFaults => card[s].chunks = 1..chunk

\* Ids not given out are not on the card; an id given out for a start under way is
\* not there either; the one being recorded grows; all others are finished, or were
\* left unclosed
CardInv ==
    /\ \A s \in Sessions : s > sid => card[s] = Empty
    /\ startSem = 1 \/ rpc \in {"init", "create"} => card[sid] = Empty
    /\ rpc \notin {"wait", "init"} => chunk > 0
    /\ rpc \in {"create", "create_file"} => chunk = 1
    /\ rpc = "create_file" => /\ card[sid].json # "final" /\ card[sid].files = 0
                              /\ card[sid].chunks = {}
                              /\ faults = MaxFaults => card[sid].json = "recording"
    /\ rpc \in Live \union {"close_file", "close_session"} /\ startSem = 0 => Growing(sid)
    /\ \A s \in Sessions :
         s # sid \/ startSem = 1 \/ rpc \in {"wait", "done"} => Finished(s)

LEMMA EmptyIsFinished ==
  ASSUME NEW s, card[s] = Empty PROVE Finished(s)
  BY DEF Finished, Empty

LEMMA CardInit == ASSUME RecInit PROVE CardInv
<1>1. \A s \in Sessions : card[s] = Empty
  BY DEF RecInit
<1> QED
  BY <1>1, EmptyIsFinished DEF RecInit, CardInv, Live

\* With no change to the card, only the way out of "wait", and the ends of a start
\* and of a close, need an argument
LEMMA CardCalls ==
  ASSUME RecTypeOK, DeviceInv, CardInv,
         AudioStart => startSem = 0 /\ rpc \in {"wait"} \union Closing,
         AudioStart \/ AudioStop \/ AudioStopped \/ AudioPause \/ AudioResume
           \/ UNCHANGED recVars
  PROVE  CardInv'
<1>1. CASE AudioStart
  <2>1. sid' \in Sessions /\ sid' = sid + 1 /\ sid \in 0..MaxSessions
    BY <1>1, RecorderAssumption DEF AudioStart, RecTypeOK, Sessions
  <2>2. /\ card' = card /\ rpc' = rpc /\ chunk' = chunk /\ faults' = faults
        /\ startSem' = 1 /\ rpc \in {"wait"} \union Closing
    BY <1>1 DEF AudioStart
  <2>3. card[sid'] = Empty
    BY <2>1, RecorderAssumption DEF CardInv, Sessions
  <2>4. unclosed \subseteq unclosed' /\ (rpc \in Closing => sid \in unclosed')
    BY <1>1 DEF AudioStart
  <2>5. \A s : Finished(s) => Finished(s)'
    BY <2>2, <2>4 DEF Finished
  <2>6. ASSUME NEW s \in Sessions PROVE Finished(s)'
    <3>1. CASE s = sid'
      BY <3>1, <2>3, <2>5, EmptyIsFinished
    <3>2. CASE s # sid' /\ (s # sid \/ rpc \in {"wait", "done"})
      BY <3>2, <2>5 DEF CardInv
    <3>3. CASE s = sid /\ rpc \in {"close_file", "close_session"}
      <4>1. startSem = 0 /\ Growing(sid)
        BY <1>1, <3>3 DEF CardInv, AudioStart
      <4> QED
        BY <2>2, <2>4, <3>3, <4>1 DEF Finished, Growing, Closing
    <3> QED
      BY <2>2, <3>1, <3>2, <3>3 DEF Closing
  <2> QED
    BY <2>1, <2>2, <2>3, <2>6 DEF CardInv, Closing, Sessions
<1>2. ASSUME /\ card' = card /\ rpc' = rpc /\ chunk' = chunk /\ faults' = faults
             /\ startSem' = startSem /\ sid' = sid /\ unclosed' = unclosed
      PROVE  CardInv'
  BY <1>2 DEF CardInv, Finished, Growing
<1> QED
  BY <1>1, <1>2 DEF AudioStop, AudioStopped, AudioPause, AudioResume, recVars, flags, sems

\* A step of the audio thread that neither opens nor closes anything on the card
LEMMA CardThreadSame ==
  ASSUME RecTypeOK, DeviceInv, CardInv, startSem = 1 => rpc \in {"wait"} \union Closing,
         UNCHANGED <<card, sid, unclosed, startSem>>, chunk' = chunk \/ chunk' = 1,
         faults' = faults \/ faults' # MaxFaults,
         \/ rpc = "init" /\ rpc' \in {"create", "wait"} /\ chunk' = 1
         \/ rpc \in Live /\ rpc' \in Live \union {"close_file"} /\ chunk' = chunk
         \/ rpc = "close_file" /\ rpc' = "close_session" /\ chunk' = chunk
         \/ rpc = "done" /\ rpc' = "wait" /\ chunk' = chunk
  PROVE  CardInv'
<1>1. \A s : Finished(s) => Finished(s)'
  BY DEF Finished
<1>2. chunk' = chunk => (Growing(sid) => Growing(sid)')
  BY DEF Growing
<1>3. card[sid] = Empty => Finished(sid)
  BY EmptyIsFinished
<1> QED
  BY <1>1, <1>2, <1>3 DEF CardInv, Live, Closing, Sessions, RecTypeOK

LEMMA CardThread ==
  ASSUME RecTypeOK, DeviceInv, CardInv, startSem = 1 => rpc \in {"wait"} \union Closing,
         AudioThread
  PROVE  CardInv'
<1> USE DEF RecGoto
<1>1. CASE RecWake
  <2>1. card' = card /\ sid' = sid /\ unclosed' = unclosed /\ chunk' = chunk
        /\ faults' = faults /\ rpc = "wait" /\ startSem = 1 /\ startSem' = 0
        /\ rpc' \in {"wait", "init"}
    BY <1>1 DEF RecWake
  <2>2. \A s : Finished(s)' <=> Finished(s)
    BY <2>1 DEF Finished
  <2> QED
    BY <2>1, <2>2 DEF CardInv, Live
<1>2. CASE RecInitAudio \/ RecInitFail
  BY <1>2, CardThreadSame, FaultType DEF RecInitAudio, RecInitFail, sems
<1>3. CASE RecStopSeen \/ RecPauseSeen \/ RecPaused \/ RecStopPaused \/ RecWriteError
             \/ RecDmicError
  BY <1>3, CardThreadSame, FaultType
     DEF RecStopSeen, RecPauseSeen, RecPaused, RecStopPaused, RecWriteError, RecDmicError,
         Live, sems
<1>4. CASE RecInactive \/ RecCloseFile \/ RecDone
  BY <1>4, CardThreadSame DEF RecInactive, RecCloseFile, RecDone, Live, sems
<1>5. CASE RecCreateSession
  <2>1. /\ startSem = 0 /\ startSem' = 0 /\ rpc' = "create_file" /\ chunk = 1
        /\ UNCHANGED <<sid, unclosed, chunk>>
    BY <1>5 DEF RecCreateSession, CardInv, RecTypeOK, Closing, sems
  <2>2. sid \in Sessions /\ card[sid] = Empty
    BY <1>5, RecorderAssumption
       DEF RecCreateSession, CardInv, DeviceInv, RecTypeOK, Sessions
  <2>3. /\ card'[sid].json # "final" /\ card'[sid].files = 0 /\ card'[sid].chunks = {}
        /\ faults' = MaxFaults => card'[sid].json = "recording"
    BY <1>5, <2>2, FaultType DEF RecCreateSession, Empty, RecTypeOK
  <2>4. \A s \in Sessions \ {sid} : card'[s] = card[s]
    BY <1>5 DEF RecCreateSession, RecTypeOK
  <2>5. \A s \in Sessions \ {sid} : Finished(s) => Finished(s)'
    BY <1>5, <2>4, FaultType DEF RecCreateSession, Finished
  <2> QED
    BY <1>5, <2>1, <2>2, <2>3, <2>4, <2>5 DEF RecCreateSession, CardInv, Live, Sessions, RecTypeOK
<1>6. CASE RecCreateFile
  <2>1. /\ rpc = "create_file" /\ rpc' = "record" /\ chunk = 1
        /\ startSem = 0 /\ startSem' = 0 /\ UNCHANGED <<sid, unclosed, chunk>>
    BY <1>6 DEF RecCreateFile, CardInv, RecTypeOK, Closing, sems
  <2>2. sid \in Sessions
    BY <2>1, RecorderAssumption DEF DeviceInv, RecTypeOK, Sessions
  <2>3. Growing(sid)'
    BY <1>6, <2>1, <2>2, FaultType DEF RecCreateFile, CreateFile, CardInv, Growing, RecTypeOK
  <2>4. \A s \in Sessions \ {sid} : card'[s] = card[s]
    BY <1>6 DEF RecCreateFile, CreateFile, RecTypeOK
  <2>5. \A s \in Sessions \ {sid} : Finished(s) => Finished(s)'
    BY <1>6, <2>4, FaultType DEF RecCreateFile, Finished
  <2> QED
    BY <2>1, <2>2, <2>3, <2>4, <2>5 DEF CardInv, Live, Sessions, RecTypeOK
<1>7. CASE RecResume \/ RecSegment
  <2>1. /\ rpc \in Live /\ rpc' \in Live /\ Growing(sid) /\ chunk > 0
        /\ startSem = 0 /\ startSem' = 0 /\ UNCHANGED <<sid, unclosed>>
    BY <1>7 DEF RecResume, RecSegment, CardInv, RecTypeOK, Live, Closing, sems
  <2>2. sid \in Sessions
    BY <2>1, RecorderAssumption DEF DeviceInv, RecTypeOK, Sessions, Live
  <2>3. \/ chunk' = chunk + 1 /\ CreateFile(chunk + 1)
        \/ chunk' = chunk /\ card' = card
    BY <1>7 DEF RecResume, RecSegment
  <2>4. faults' = faults \/ faults' # MaxFaults
    BY <1>7, FaultType DEF RecResume, RecSegment
  <2>5. chunk' # chunk => faults' = faults \/ faults' # MaxFaults
    BY <2>4
  <2>6. \A s \in Sessions \ {sid} : card'[s] = card[s]
    BY <2>3 DEF CreateFile, RecTypeOK
  <2>7. \A s \in Sessions \ {sid} : Finished(s) => Finished(s)'
    BY <2>1, <2>4, <2>6 DEF Finished
  <2>8. chunk' > 0
    BY <2>1, <2>3 DEF RecTypeOK
  <2>9. Growing(sid)'
    <3>1. CASE chunk' = chunk /\ card' = card
      BY <2>1, <2>4, <3>1 DEF Growing, RecTypeOK
    <3>2. CASE chunk' = chunk + 1 /\ CreateFile(chunk + 1)
      <4>1. /\ card'[sid].json = card[sid].json /\ card'[sid].files = card[sid].files
            /\ card'[sid].chunks = card[sid].chunks \union {chunk + 1}
        BY <2>2, <3>2 DEF CreateFile, RecTypeOK
      <4>2. 1..(chunk + 1) = (1..chunk) \union {chunk + 1}
        BY DEF RecTypeOK
      <4> QED
        BY <2>1, <2>4, <3>2, <4>1, <4>2 DEF Growing
    <3> QED
      BY <2>3, <3>1, <3>2
  <2> QED
    BY <2>1, <2>2, <2>6, <2>7, <2>8, <2>9 DEF CardInv, Live, Sessions, RecTypeOK
<1>8. CASE RecCloseSession
  <2>1. /\ rpc = "close_session" /\ rpc' = "done" /\ chunk > 0
        /\ UNCHANGED <<sid, chunk, startSem>>
        /\ unclosed \subseteq unclosed'
        /\ faults' = faults \/ faults' # MaxFaults
    BY <1>8, FaultType DEF RecCloseSession, CardInv, sems
  <2>2. sid \in Sessions
    BY <2>1, RecorderAssumption DEF DeviceInv, RecTypeOK, Sessions
  <2>3. \A s \in Sessions \ {sid} : card'[s] = card[s]
    BY <1>8 DEF RecCloseSession, RecTypeOK
  <2>4. \A s \in Sessions \ {sid} : Finished(s) => Finished(s)'
    BY <2>1, <2>3 DEF Finished
  <2>5. CASE card[sid] = Empty
    <3>1. UNCHANGED <<card, faults, unclosed>>
      BY <1>8, <2>5 DEF RecCloseSession
    <3>2. Finished(sid)'
      BY <2>1, <2>5, <3>1, EmptyIsFinished DEF Finished
    <3> QED
      BY <2>1, <2>2, <2>4, <2>5, <3>1, <3>2 DEF CardInv, Live, Sessions, RecTypeOK
  <2>6. CASE card[sid] # Empty
    <3>1. startSem = 0 /\ startSem' = 0 /\ Growing(sid)
      BY <2>1, <2>6 DEF CardInv, RecTypeOK
    <3>2. Finished(sid)'
      <4>1. CASE card' = [card EXCEPT ![sid] = [@ EXCEPT !.json = "final", !.files = chunk]]
                   /\ UNCHANGED <<faults, unclosed>>
        BY <2>1, <2>2, <3>1, <4>1 DEF Finished, Growing, RecTypeOK
      <4>2. CASE card' = card /\ unclosed' = unclosed \union {sid}
        BY <2>1, <3>1, <4>2 DEF Finished, Growing
      <4> QED
        BY <1>8, <2>6, <4>1, <4>2 DEF RecCloseSession
    <3> QED
      BY <2>1, <2>2, <2>3, <2>4, <3>1, <3>2 DEF CardInv, Live, Sessions, RecTypeOK
  <2> QED
    BY <2>5, <2>6
<1> QED
  BY <1>1, <1>2, <1>3, <1>4, <1>5, <1>6, <1>7, <1>8 DEF AudioThread

\* Only a session that is starting or growing is written
LEMMA FinalIsLeft ==
  ASSUME RecTypeOK, DeviceInv, CardInv, startSem = 1 => rpc \in {"wait"} \union Closing,
         AudioThread, NEW s \in Sessions, card[s].json = "final"
  PROVE  card'[s] = card[s]
<1>1. CASE card' = card
  BY <1>1
<1>2. CASE RecCreateSession
  <2>1. card[sid].json # "final"
    BY <1>2 DEF RecCreateSession, CardInv, Empty
  <2> QED
    BY <1>2, <2>1 DEF RecCreateSession, RecTypeOK
<1>3. CASE RecCreateFile
  <2>1. card[sid].json # "final"
    BY <1>3 DEF RecCreateFile, CardInv
  <2> QED
    BY <1>3, <2>1 DEF RecCreateFile, CreateFile, RecTypeOK
<1>4. CASE RecResume \/ RecSegment
  <2>1. card[sid].json # "final"
    BY <1>4 DEF RecResume, RecSegment, CardInv, Growing, RecTypeOK, Live, Closing
  <2> QED
    BY <1>4, <2>1 DEF RecResume, RecSegment, CreateFile, RecTypeOK
<1>5. CASE RecCloseSession
  <2>1. card[sid] = Empty \/ card[sid].json # "final"
    BY <1>5 DEF RecCloseSession, CardInv, Growing, RecTypeOK
  <2> QED
    BY <1>5, <2>1 DEF RecCloseSession, RecTypeOK
<1> QED
  BY <1>1, <1>2, <1>3, <1>4, <1>5
     DEF AudioThread, RecWake, RecInitAudio, RecInitFail, RecStopSeen, RecPauseSeen,
         RecPaused, RecStopPaused, RecWriteError, RecDmicError, RecInactive,
         RecCloseFile, RecDone

-----------------------------------------------------------------------------
(* The theorems                                                             *)

IInv == RecTypeOK /\ MachineTypeOK /\ DeviceInv /\ TableInv /\ ShownInv /\ CardInv

\* A start in a step is one the main thread takes from IDLE
LEMMA StartSteps ==
  ASSUME IInv, [Next]_vars, AudioStart
  PROVE  startSem = 0 /\ rpc \in {"wait"} \union Closing
<1>1. sid' # sid
  BY DEF AudioStart, IInv, RecTypeOK
<1>2. ~AudioThread
  BY <1>1
     DEF AudioThread, RecWake, RecInitAudio, RecInitFail, RecCreateSession,
         RecCreateFile, RecStopSeen, RecPauseSeen, RecPaused, RecStopPaused, RecResume,
         RecSegment, RecWriteError, RecDmicError, RecInactive, RecCloseFile,
         RecCloseSession, RecDone, RecGoto
<1>3. ~(AtThread \/ ShutdownThread \/ AtPost \/ ButtonPress \/ WifiTimeout
          \/ ShutdownRequest \/ UNCHANGED vars)
  BY <1>1
     DEF AtThread, AtAnswered, AtForceStop, AtForceEnds, ShutdownThread, ShutdownLook,
         ShutdownStop, ShutdownEnds, AtPost, ButtonPress, WifiTimeout, ShutdownRequest,
         AudioStop, AudioStopped, AudioStopTimeout, vars, recVars
<1>4. Executing("START")
  BY <1>1, <1>2, <1>3
     DEF Next, Recording, MainThread, MainTake, StartRefused, StartBusy, StartRecording,
         NotRecording, StopLook, StopCall, StopEnds, PauseRecording, ResumeRecording,
         WifiOn, WifiOff, Commit, AudioStop, AudioStopped, AudioStopTimeout, AudioPause,
         AudioResume, recVars
<1> QED
  BY <1>4, StartsFromIdle DEF AudioStart, IInv

LEMMA IInvInit == Init => IInv
<1> SUFFICES ASSUME Init PROVE IInv
  OBVIOUS
<1>1. RecInit
  BY DEF Init
<1>2. MachineTypeOK
  <2>1. queue \in Seq([ev : Events, wait : BOOLEAN]) /\ Len(queue) = 0
    BY DEF Init
  <2>2. ap \in BOOLEAN /\ cur \in [ev : Events \union {"none"}, wait : BOOLEAN]
    BY DEF Init, NoEvent
  <2> QED
    BY <2>1, <2>2, ClipEventAssumption DEF Init, MachineTypeOK, States, Results
<1>3. TableInv /\ ShownInv
  BY <1>1 DEF Init, RecInit, TableInv, ShownInv, Quiet, Starting
<1> QED
  BY <1>1, <1>2, <1>3, DeviceInit, CardInit DEF IInv

LEMMA IInvStep == IInv /\ [Next]_vars => IInv'
<1> SUFFICES ASSUME IInv, [Next]_vars PROVE IInv'
  OBVIOUS
<1>1. RecTypeOK' /\ DeviceInv'
  BY DeviceStep DEF IInv
<1>2. MachineTypeOK'
  BY MachineStep DEF IInv
<1>3. TableInv' /\ ShownInv'
  BY ShownStep DEF IInv
<1>4. startSem = 1 => rpc \in {"wait"} \union Closing
  BY DEF IInv, ShownInv
<1>5. CardInv'
  BY <1>4, StepsOfTheRecorder, StartSteps, CardCalls, CardThread DEF IInv, RecStep
<1> QED
  BY <1>1, <1>2, <1>3, <1>5 DEF IInv

\* Every variable of the state machine and of the recorder keeps to its type: no
\* second boost is taken and no chunk or session beyond those counted
THEOREM TypesHold == Spec => []TypeOK
<1>1. IInv => TypeOK
  BY DEF IInv, MachineTypeOK, TypeOK
<1> QED
  BY <1>1, IInvInit, IInvStep, PTL DEF Spec

\* A parked recorder holds no file, no microphone and no CPU boost
THEOREM ParkedHoldsNothing == Spec => []ParkedIsQuiet
<1>1. IInv => ParkedIsQuiet
  BY DEF IInv, DeviceInv, Live, ParkedIsQuiet, RecTypeOK
<1> QED
  BY <1>1, IInvInit, IInvStep, PTL DEF Spec

\* The microphone records only for a device that says RECORDING or is about to, or
\* that has asked it to stop or pause
THEOREM NoHiddenCapture == Spec => []CapturesOnlyWhenShown
<1>1. IInv => CapturesOnlyWhenShown
  BY DEF IInv, ShownInv, Quiet, CapturesOnlyWhenShown
<1> QED
  BY <1>1, IInvInit, IInvStep, PTL DEF Spec

\* Once the recorder is parked, every session that closed under its own id is finished, its
\* count covering its chunks
THEOREM SessionsAreFinished == Spec => []SessionsFinished
<1>1. IInv => SessionsFinished
  BY DEF IInv, CardInv, Finished, SessionsFinished
<1> QED
  BY <1>1, IInvInit, IInvStep, PTL DEF Spec

\* A closed recording is never written again
THEOREM ClosedRecordingIsLeft == Spec => FinishedStays
<1>1. IInv /\ [Next]_vars
        => [\A s \in Sessions : card[s].json = "final" => card'[s] = card[s]]_vars
  <2> SUFFICES ASSUME IInv, [Next]_vars, NEW s \in Sessions, card[s].json = "final"
               PROVE  card'[s] = card[s]
    OBVIOUS
  <2>1. CASE AudioThread
    BY <2>1, FinalIsLeft DEF IInv, ShownInv
  <2>2. CASE ~AudioThread
    BY <2>2, StepsOfTheRecorder
       DEF RecStep, AudioStart, AudioStop, AudioStopped, AudioPause, AudioResume, recVars
  <2> QED
    BY <2>1, <2>2
<1> QED
  BY <1>1, IInvInit, IInvStep, PTL DEF Spec, FinishedStays

\* A stop asked of a recording holds until that recording is wound up, and one asked
\* of a start the parked thread has yet to take holds or drops that start; a start
\* that overtook a close is the exception
THEOREM StopHolds == Spec => StopIsKept
<1>1. IInv /\ [Next]_vars
        => [stopReq /\ rpc \notin Closing /\ (rpc = "wait" => startSem = 1)
              => stopReq' \/ (rpc' = "wait" /\ startSem' = 0)]_vars
  <2> SUFFICES ASSUME IInv, [Next]_vars, stopReq, rpc \notin Closing,
                      rpc = "wait" => startSem = 1
               PROVE  stopReq' \/ (rpc' = "wait" /\ startSem' = 0)
    OBVIOUS
  <2>1. ~AudioStart
    BY StartSteps
  <2>2. CASE AudioThread
    BY <2>2
       DEF Closing, AudioThread, RecWake, RecInitAudio, RecInitFail, RecCreateSession,
           RecCreateFile, RecStopSeen, RecPauseSeen, RecPaused, RecStopPaused, RecResume,
           RecSegment, RecWriteError, RecDmicError, RecInactive, RecCloseFile,
           RecCloseSession, RecDone, flags
  <2>3. CASE ~AudioThread
    BY <2>1, <2>3, StepsOfTheRecorder
       DEF RecStep, AudioStop, AudioStopped, AudioPause, AudioResume, recVars, flags
  <2> QED
    BY <2>2, <2>3
<1> QED
  BY <1>1, IInvInit, IInvStep, PTL DEF Spec, StopIsKept
=============================================================================
