----------------------------- MODULE CardPower -----------------------------
(***************************************************************************)
(* Who may use the SD card and when its power goes: storage.c's lifecycle     *)
(* (resume, idle power-off, remount, format), clip_event.c's busy callback    *)
(* and timer, and usb_cdc.c, which hands the card to a USB host.              *)
(*   "main": the state machine's thread, which starts and stops recordings;  *)
(*   "at":   the AT thread, one command after another;                       *)
(*   "usb":  the USB stack's thread, which notices that the cable is gone;   *)
(*   the audio thread and the transfer thread, which use the card that the    *)
(*   first two brought up; and the system work queue, which runs the          *)
(*   power-off every 45 s.                                                    *)
(* The FS log backend and an OTA only make the card busy and are left out.   *)
(***************************************************************************)
EXTENDS Integers

CONSTANTS
    Allowances,  \* bounds, one is chosen: recordings, AT+LIST (and the commands
                 \* like it), AT+DOWNLOAD, AT+FORMAT, AT+USB=on, failures
    LateTick     \* the work queue may be late: the 45 s are over while a resume is
                 \* under way, or it is busy with other work when they are

Allowance == [starts : Nat, lists : Nat, downloads : Nat, formats : Nat,
              usbs : Nat, faults : Nat]

ASSUME CardPowerAssumption ==
    Allowances \subseteq Allowance /\ LateTick \in BOOLEAN

VARIABLES
    refs,      \* the regulator's count of regulator_enable: LDO2 is on above 0
    powered, mounted,  \* sd_powered; sd_mounted, and that FAT is mounted
    mutex,     \* who holds sd_lifecycle_mutex
    pc, op,    \* where each thread is, and in which command
    work,      \* sd_idle_poweroff_work: its timer runs, it waits for the mutex, it cuts
    armed,     \* its timer is scheduled
    state,     \* g_state
    asked,     \* audio_start_sem is given
    audio,     \* where the audio thread is
    open,      \* writing_file: a chunk is open
    xfer,      \* transfer_is_active
    sending,   \* the transfer thread is not back in its wait
    usb,       \* usb_active
    allowed    \* what is left of the bounds

rail      == <<refs, powered, mounted, mutex>>
recorder  == <<asked, audio, open>>
sender    == <<xfer, sending>>
users     == <<state, recorder, sender, usb>>
threads   == <<pc, op>>
tick      == <<work, armed>>
powerVars == <<rail, users, threads, tick, allowed>>

Threads == {"main", "at", "usb"}

\* storage_init has run
PowerInit ==
    /\ refs = 1 /\ powered = TRUE /\ mounted = TRUE /\ mutex = "free"
    /\ pc = [t \in Threads |-> "ready"] /\ op = [t \in Threads |-> "none"]
    /\ work = "waiting" /\ armed = TRUE
    /\ state = "IDLE" /\ asked = FALSE /\ audio = "parked" /\ open = FALSE
    /\ xfer = FALSE /\ sending = FALSE /\ usb = FALSE
    /\ allowed \in Allowances

Goto(t, p)   == pc' = [pc EXCEPT ![t] = p]
At(t, o, p)  == pc[t] = p /\ op[t] = o
Do(t, o)     == pc' = [pc EXCEPT ![t] = "resume"] /\ op' = [op EXCEPT ![t] = o]
Return(t)    == pc' = [pc EXCEPT ![t] = "ready"] /\ op' = [op EXCEPT ![t] = "none"]
Spend(b)     == allowed[b] > 0 /\ allowed' = [allowed EXCEPT ![b] = @ - 1]

-----------------------------------------------------------------------------
(* storage_ensure_mounted, on any thread                                    *)

\* storage_resume: idempotent, else the rail comes up and the card is started
ResumeBegin(t) ==
    /\ pc[t] = "resume" /\ mutex = "free"
    /\ LateTick \/ work # "due"
    /\ IF mounted /\ powered
       THEN Goto(t, "resumed") /\ UNCHANGED rail
       ELSE /\ mutex' = t /\ refs' = refs + 1
            /\ Goto(t, "starting") /\ UNCHANGED <<powered, mounted>>
    /\ UNCHANGED <<users, op, tick, allowed>>

ResumeEnd(t) ==
    /\ pc[t] = "starting"
    /\ mutex' = "free"
    /\ \/ mounted' = TRUE /\ powered' = TRUE /\ Goto(t, "resumed")
          /\ UNCHANGED <<op, allowed>>
       \/ Spend("faults") /\ Return(t) /\ UNCHANGED <<mounted, powered>>
    /\ UNCHANGED <<refs, users, tick>>

\* The activity callback puts the power-off off by another 45 s
Activity(t) ==
    /\ pc[t] = "resumed"
    /\ armed' = TRUE
    /\ Goto(t, "use")
    /\ UNCHANGED <<rail, users, op, work, allowed>>

-----------------------------------------------------------------------------
(* The state machine's thread and the audio thread                          *)

\* recording_active
Active == audio \in {"recording", "stopping"}

\* CLIP_EVENT_START: "recording blocked while USB MSC active"
Start ==
    /\ pc["main"] = "ready" /\ state = "IDLE" /\ ~usb
    /\ Spend("starts") /\ Do("main", "start")
    /\ UNCHANGED <<rail, users, tick>>

\* audio_start_recording; refused when a recording is active or the card is full
StartAsk ==
    /\ At("main", "start", "use")
    /\ \/ ~Active /\ asked' = TRUE /\ Goto("main", "commit") /\ UNCHANGED op
       \/ Return("main") /\ UNCHANGED asked
    /\ UNCHANGED <<rail, state, audio, open, sender, usb, tick, allowed>>

StartCommit ==
    /\ At("main", "start", "commit")
    /\ state' = "RECORDING"
    /\ Return("main")
    /\ UNCHANGED <<rail, recorder, sender, usb, tick, allowed>>

\* CLIP_EVENT_STOP asks the audio thread ...
Stop ==
    /\ pc["main"] = "ready" /\ state = "RECORDING" /\ audio = "recording"
    /\ audio' = "stopping"
    /\ Goto("main", "stop")
    /\ UNCHANGED <<rail, state, asked, open, sender, usb, op, tick, allowed>>

\* ... and commits IDLE, when the audio thread is done or after 5 s
StopCommit ==
    /\ pc["main"] = "stop"
    /\ state' = "IDLE"
    /\ Return("main")
    /\ UNCHANGED <<rail, recorder, sender, usb, tick, allowed>>

\* The audio thread takes the start; the microphone may fail
AudioBegin ==
    /\ audio = "parked" /\ asked /\ asked' = FALSE
    /\ \/ audio' = "creating" /\ UNCHANGED allowed
       \/ Spend("faults") /\ UNCHANGED audio
    /\ UNCHANGED <<rail, state, open, sender, usb, threads, tick>>

\* session.json and the first chunk, which need the card
AudioCreate ==
    /\ audio = "creating" /\ audio' = "recording"
    /\ open' = mounted
    /\ UNCHANGED <<rail, state, asked, sender, usb, threads, tick, allowed>>

\* A segment ends, or the recording is paused or resumed
AudioChunk ==
    /\ audio = "recording"
    /\ open' \in {FALSE, mounted}
    /\ UNCHANGED <<rail, state, asked, audio, sender, usb, threads, tick, allowed>>

\* A stop, or a resume whose chunk fails, ends the recording ...
AudioEnds ==
    /\ \/ audio = "stopping" /\ UNCHANGED allowed
       \/ audio = "recording" /\ Spend("faults")
    /\ audio' = "closing"
    /\ UNCHANGED <<rail, state, asked, open, sender, usb, threads, tick>>

\* ... the last chunk is closed ...
AudioCloseFile ==
    /\ audio = "closing" /\ audio' = "finishing"
    /\ open' = FALSE
    /\ UNCHANGED <<rail, state, asked, sender, usb, threads, tick, allowed>>

\* ... and storage_close_session has rewritten session.json
AudioDone ==
    /\ audio = "finishing" /\ audio' = "parked"
    /\ UNCHANGED <<rail, state, asked, open, sender, usb, threads, tick, allowed>>

Recording   == Start \/ StartAsk \/ StartCommit \/ Stop \/ StopCommit
AudioSteps == \/ AudioBegin \/ AudioCreate \/ AudioChunk \/ AudioEnds
              \/ AudioCloseFile \/ AudioDone

-----------------------------------------------------------------------------
(* The AT thread, the transfer thread                                       *)

AtReady == pc["at"] = "ready"

\* AT+LIST, AT+DELETE, AT+LOG: the card is up, then it is used
AtAccess == AtReady /\ Spend("lists") /\ Do("at", "list") /\ UNCHANGED <<rail, users, tick>>

AtAccessEnd ==
    /\ At("at", "list", "use")
    /\ Return("at")
    /\ UNCHANGED <<rail, users, tick, allowed>>

\* AT+DOWNLOAD brings the card up, and transfer_start does so again
AtDownload ==
    AtReady /\ Spend("downloads") /\ Do("at", "download") /\ UNCHANGED <<rail, users, tick>>

\* transfer_start waits 3 s for the thread of the last transfer
AtTransferStart ==
    /\ At("at", "download", "use")
    /\ IF sending THEN Return("at") ELSE Do("at", "transfer")
    /\ UNCHANGED <<rail, users, tick, allowed>>

AtTransferArm ==
    /\ At("at", "transfer", "use")
    /\ \/ xfer' = TRUE /\ sending' = TRUE
       \/ UNCHANGED sender
    /\ Return("at")
    /\ UNCHANGED <<rail, state, recorder, usb, tick, allowed>>

\* Cancelled by any thread, failed or complete: transfer_is_active is over ...
TransferOver ==
    /\ xfer /\ xfer' = FALSE
    /\ UNCHANGED <<rail, state, recorder, sending, usb, threads, tick, allowed>>

\* ... then the thread has closed its chunk and stored the synced count
TransferEnd ==
    /\ sending /\ ~xfer /\ sending' = FALSE
    /\ UNCHANGED <<rail, state, recorder, xfer, usb, threads, tick, allowed>>

\* AT+STOP of a recording that the state machine did not know to be active
AtForceStop ==
    /\ AtReady /\ audio = "recording"
    /\ audio' = "stopping"
    /\ UNCHANGED <<rail, state, asked, open, sender, usb, threads, tick, allowed>>

\* AT+FORMAT: "Cannot format while recording"; storage_format_card resumes again
AtFormat ==
    AtReady /\ Spend("formats") /\ Do("at", "format") /\ UNCHANGED <<rail, users, tick>>

AtFormatCard ==
    /\ At("at", "format", "use")
    /\ IF Active THEN Return("at") ELSE Do("at", "mkfs")
    /\ UNCHANGED <<rail, users, tick, allowed>>

\* Without the mutex: unmount, f_mkfs, mount
AtFormatBegin ==
    /\ At("at", "mkfs", "use")
    /\ mounted' = FALSE
    /\ Goto("at", "format")
    /\ UNCHANGED <<refs, powered, mutex, users, op, tick, allowed>>

AtFormatEnd ==
    /\ pc["at"] = "format"
    /\ \/ mounted' = TRUE /\ UNCHANGED allowed
       \/ Spend("faults") /\ UNCHANGED mounted
    /\ Return("at")
    /\ UNCHANGED <<refs, powered, mutex, users, tick>>

AtCommands == \/ AtAccess \/ AtAccessEnd \/ AtDownload \/ AtTransferStart \/ AtTransferArm
              \/ AtFormat \/ AtFormatCard \/ AtFormatBegin \/ AtFormatEnd \/ AtForceStop

-----------------------------------------------------------------------------
(* USB                                                                      *)

\* usb_cdc_enable, without the mutex: the checks ...
UsbOn ==
    /\ AtReady /\ ~usb /\ ~Active /\ ~xfer
    /\ Spend("usbs") /\ Goto("at", "cleanup")
    /\ UNCHANGED <<rail, users, op, tick>>

\* ... storage_cleanup ...
UsbCleanup ==
    /\ pc["at"] = "cleanup"
    /\ mounted' = FALSE
    /\ Goto("at", "enable")
    /\ UNCHANGED <<refs, powered, mutex, users, op, tick, allowed>>

\* ... and usbd_enable; when it fails storage_remount, which needs the rail
UsbEnable ==
    /\ pc["at"] = "enable"
    /\ \/ usb' = TRUE /\ UNCHANGED <<mounted, allowed>>
       \/ Spend("faults") /\ mounted' = (mounted \/ refs > 0) /\ UNCHANGED usb
    /\ Return("at")
    /\ UNCHANGED <<refs, powered, mutex, state, recorder, sender, tick>>

\* usb_cdc_disable: AT+USB=off, or the cable is gone, or never came
UsbOff(t) ==
    /\ t \in {"at", "usb"} /\ pc[t] = "ready" /\ usb
    /\ usb' = FALSE
    /\ Do(t, "usb_off")
    /\ UNCHANGED <<rail, state, recorder, sender, tick, allowed>>

UsbOffEnd(t) ==
    /\ At(t, "usb_off", "use")
    /\ Return(t)
    /\ UNCHANGED <<rail, users, tick, allowed>>

Usb == UsbOn \/ UsbCleanup \/ UsbEnable \/ \E t \in Threads : UsbOff(t) \/ UsbOffEnd(t)

-----------------------------------------------------------------------------
(* The idle power-off                                                       *)

\* clip_sd_busy, and storage_idle_poweroff's look at the file being written
Busy == open \/ state # "IDLE" \/ xfer \/ Active \/ usb

\* An access is shorter than the 45 s that begin with it
ShortUse(t) == pc[t] \in {"use", "commit", "format"}
InSecondResume(t) == pc[t] # "ready" /\ op[t] \in {"transfer", "mkfs"}
TickOver ==
    /\ work = "waiting" /\ armed
    /\ \A t \in Threads : ~ShortUse(t) /\ ~InSecondResume(t)
    /\ LateTick \/ \A t \in Threads : pc[t] \notin {"starting", "resumed"}
    /\ work' = "due" /\ armed' = FALSE
    /\ UNCHANGED <<rail, users, threads, allowed>>

\* Mutants: the mutex is not taken; a card in use is not looked at again; a card
\* without power is switched off again
PoweroffCheckUnlocked ==
    /\ work = "due"
    /\ IF ~powered \/ Busy THEN work' = "waiting" /\ armed' = TRUE
                           ELSE work' = "cut" /\ UNCHANGED armed
    /\ UNCHANGED <<rail, users, threads, allowed>>
PoweroffCheckOnce ==
    /\ work = "due" /\ mutex = "free"
    /\ IF ~powered \/ Busy THEN work' = "waiting" /\ UNCHANGED <<mutex, armed>>
                           ELSE work' = "cut" /\ mutex' = "work" /\ UNCHANGED armed
    /\ UNCHANGED <<refs, powered, mounted, users, threads, allowed>>
PoweroffCheckAgain ==
    /\ work = "due" /\ mutex = "free"
    /\ IF Busy THEN work' = "waiting" /\ armed' = TRUE /\ UNCHANGED mutex
               ELSE work' = "cut" /\ mutex' = "work" /\ UNCHANGED armed
    /\ UNCHANGED <<refs, powered, mounted, users, threads, allowed>>

\* storage_idle_poweroff: all is looked at under the mutex
PoweroffCheck ==
    /\ work = "due" /\ mutex = "free"
    /\ IF ~powered \/ Busy THEN work' = "waiting" /\ armed' = TRUE /\ UNCHANGED mutex
                           ELSE work' = "cut" /\ mutex' = "work" /\ UNCHANGED armed
    /\ UNCHANGED <<refs, powered, mounted, users, threads, allowed>>

\* Mutant: FAT stays mounted
PoweroffCutBare ==
    /\ work = "cut"
    /\ powered' = FALSE /\ refs' = refs - 1
    /\ mutex' = "free" /\ work' = "waiting" /\ armed' = TRUE
    /\ UNCHANGED <<mounted, users, threads, allowed>>

\* Unmount, cut the rail; "keep re-arming"
PoweroffCut ==
    /\ work = "cut"
    /\ mounted' = FALSE /\ powered' = FALSE /\ refs' = refs - 1
    /\ mutex' = "free" /\ work' = "waiting" /\ armed' = TRUE
    /\ UNCHANGED <<users, threads, allowed>>

WorkQueue == TickOver \/ PoweroffCheck \/ PoweroffCut

PowerNext ==
    \/ \E t \in Threads : ResumeBegin(t) \/ ResumeEnd(t) \/ Activity(t)
    \/ Recording \/ AudioSteps \/ AtCommands \/ TransferOver \/ TransferEnd
    \/ Usb \/ WorkQueue

\* The work queue and a thread that holds the mutex go on
PowerSpec ==
    /\ PowerInit /\ [][PowerNext]_powerVars
    /\ WF_powerVars(WorkQueue)
    /\ \A t \in Threads : WF_powerVars(ResumeEnd(t))

-----------------------------------------------------------------------------
(* Properties                                                               *)

PowerPcs == {"ready", "resume", "starting", "resumed", "use", "commit",
             "stop", "format", "cleanup", "enable"}
PowerOps == {"none", "start", "list", "download", "transfer", "format", "mkfs",
             "usb_off"}
AudioPcs == {"parked", "creating", "recording", "stopping", "closing", "finishing"}

\* Every variable keeps to its C type; the regulator is not disabled more often
\* than it was enabled
PowerTypeOK ==
    /\ refs \in Nat /\ powered \in BOOLEAN /\ mounted \in BOOLEAN
    /\ mutex \in {"free", "work"} \union Threads
    /\ pc \in [Threads -> PowerPcs] /\ op \in [Threads -> PowerOps]
    /\ work \in {"waiting", "due", "cut"} /\ armed \in BOOLEAN
    /\ state \in {"IDLE", "RECORDING"}
    /\ asked \in BOOLEAN /\ audio \in AudioPcs /\ open \in BOOLEAN
    /\ xfer \in BOOLEAN /\ sending \in BOOLEAN /\ usb \in BOOLEAN
    /\ allowed \in Allowance

\* storage.c: "a recording/transfer/AT that starts between the work handler's
\* unlocked tick and here must not have its FAT FS unmounted and rail cut
\* underneath it" - the card is mounted from storage_ensure_mounted to the end of
\* the command; from a START that is taken until the last chunk is closed; while
\* session.json is finished, unless IDLE was committed before that; and while
\* transfer_is_active.  Not said, because the code does not look: what the
\* transfer thread writes after transfer_is_active has ended (TransferEnd), and
\* the session.json of a stop that took longer than 5 s (AudioDone in IDLE).
UsesCard(t) == pc[t] \in {"resumed", "use", "commit"} /\ op[t] # "usb_off"
RecorderUses ==
    \/ asked \/ open \/ audio \in {"creating", "recording", "stopping"}
    \/ audio = "finishing" /\ state # "IDLE"
CardStaysUp == RecorderUses \/ xfer \/ (\E t \in Threads : UsesCard(t)) => mounted

\* FAT is never mounted on a card without power, as seen by the firmware or by
\* the regulator
MountedHasPower == mounted => powered /\ refs > 0

\* A device that nobody uses switches its card off, however often it was found
\* busy before
InUse == Busy \/ \E t \in Threads : pc[t] # "ready"
IdleSwitchesOff == []<>(~powered \/ InUse)

\* clip_nrf5340_cpuapp.dts: "each runtime regulator_enable() has exactly one
\* matching regulator_disable()" - the card has power when the firmware says so,
\* and none when it says not
RailBalanced == mutex = "free" => refs = (IF powered THEN 1 ELSE 0)
=============================================================================
