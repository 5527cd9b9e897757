---------------------------- MODULE SessionClock ----------------------------
(***************************************************************************)
(* Where session ids come from: the device's clock, clip_get_current_time of  *)
(* main.c, AT+TIME, config_sync_time of config.c, and audio_start_recording,  *)
(* which names a session after the time it starts at.  There is no clock that *)
(* runs while the device is off.                                             *)
(*                                                                         *)
(* Time is counted in minutes: the seconds are carried into them exactly.    *)
(* The device's time is never ahead of the host's, and a recording lasts and  *)
(* a boot takes at least one of them.                                        *)
(***************************************************************************)
EXTENDS Integers

CONSTANTS
    PerHour, \* minutes of an hour (60)
    Width,   \* values of the uint8_t the minutes are counted in (256)
    Epoch    \* the behaviours run from minute Epoch to 2 * Epoch - 1: a time is
             \* never as small as an uptime

ASSUME SessionClockAssumption ==
    /\ PerHour \in Nat \ {0} /\ Width \in Nat \ {0} /\ PerHour <= Width
    /\ Epoch \in Nat \ {0}

VARIABLES
    now,     \* the true time
    boot,    \* when the device was switched on
    time,    \* time.year to time.min, the time at ...
    since,   \* ... time.base_uptime_ms
    stored,  \* SETTING_TIME_UNIX
    session, \* the id of the session being recorded
    last,    \* history: the largest id so far
    sure     \* history: nothing happened that lets the clock go back

clockVars == <<now, boot, time, since, stored, session, last, sure>>

NoTime == -1
LaterThan(t) == {n \in Epoch..(2 * Epoch - 1) : n > t}

ClockInit ==
    /\ now = Epoch /\ boot = Epoch
    /\ time = NoTime /\ since = Epoch /\ stored = NoTime
    /\ session = NoTime /\ last = NoTime /\ sure = TRUE

\* What a clock with this time and so many minutes since shows
Minutes(elapsed) == (time % PerHour) + elapsed

\* clip_get_current_time: `min` is a uint8_t, counted up before it is carried
Shown == (time \div PerHour) * PerHour + (Minutes(now - since) % Width)

\* config_get_time goes over mktime and carries everything
Reckoned == time + (now - since)

Minute ==
    /\ \E t \in LaterThan(now) : t = now + 1 /\ now' = t
    /\ UNCHANGED <<boot, time, since, stored, session, last, sure>>

\* AT+TIME=: the host's time is stored and counted from
AtTime ==
    /\ time' = now /\ since' = now /\ stored' = now
    /\ sure' = TRUE
    /\ UNCHANGED <<now, boot, session, last>>

NewId == IF time = NoTime THEN now - boot ELSE Shown
Newest(i) == IF i > last THEN i ELSE last

\* audio_start_recording; without a time the id is the uptime
NameSession ==
    /\ session = NoTime
    /\ session' = NewId /\ last' = Newest(NewId)
    /\ UNCHANGED <<now, boot, time, since, stored, sure>>

\* Mutant: config_sync_time does not store the time
SyncTimeUnstored ==
    IF time = NoTime THEN UNCHANGED <<time, since, stored>>
    ELSE time' = Reckoned /\ since' = now /\ UNCHANGED stored

\* config_sync_time: "Sync time baseline so reboot doesn't lose accumulated uptime"
SyncTime ==
    IF time = NoTime THEN UNCHANGED <<time, since, stored>>
    ELSE time' = Reckoned /\ since' = now /\ stored' = Reckoned

\* audio_stop_recording_internal
EndSession ==
    /\ session # NoTime /\ session < (IF time = NoTime THEN now - boot ELSE Reckoned)
    /\ SyncTime
    /\ session' = NoTime
    /\ UNCHANGED <<now, boot, last, sure>>

\* Off for a while; time_settings_set loads what was stored.  A recording that is
\* cut off has not stored its end, and an uptime starts again
OffAndOn ==
    /\ \E t \in LaterThan(now) : now' = t /\ boot' = t /\ since' = t
    /\ time' = stored
    /\ session' = NoTime
    /\ sure' = (sure /\ session = NoTime /\ stored # NoTime)
    /\ UNCHANGED <<stored, last>>

ClockNext == Minute \/ AtTime \/ NameSession \/ EndSession \/ OffAndOn

ClockSpec == ClockInit /\ [][ClockNext]_clockVars

-----------------------------------------------------------------------------
(* Properties                                                               *)

\* docs/protocol.md: "sorted newest-first (descending by session ID, which is a
\* timestamp)", the files of a new session are opened without truncation, and
\* SessionStore's RecCreateDirs takes ids that grow: a new id is larger than all
\* before it, through clean reboots, hours off and corrections of the time -
\* unless power went in a recording, or before the time was ever set, and the
\* host has not set it since, or the minutes since the last sync outgrew a byte
Fits == time # NoTime => Minutes(now - since) < Width
IdsGrow ==
    [][session = NoTime /\ session' # NoTime /\ sure /\ Fits => session' > last]_clockVars
=============================================================================
