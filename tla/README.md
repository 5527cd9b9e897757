# Formal models of the reSpeaker Clip firmware and its transfer clients

reSpeaker Clip is a wearable recorder (nRF5340 with an nRF7002, Zephyr). The
firmware in `applications/clip/src` records Opus chunks to an SD card, takes AT
commands over BLE, UDP and USB, and sends recorded sessions to a phone or a
computer over BLE or over its own WiFi access point. The clients are in
`sdk/` (Python) and `mobile/sdk/` (Flutter, Android, iOS). This directory holds
TLA+ models of the parts whose correctness depends on interleavings, lost
messages and failures, TLC runs over them, and TLAPS proofs.

Paths below are relative to the repository. "AT thread" and so on are the
threads the firmware creates.

## 1. Inventory

| Component | State it keeps | Operations | Talks to |
|---|---|---|---|
| Transfer (`transfer.c`, `transport.c`) | `current_transfer`, open file, transport, cancel flag, two semaphores, CPU boost reference | start, resume, cancel, the transfer thread's loop | storage (chunks, `file_closed_sem`, `synced`), transports, AT thread, shutdown thread, WiFi and BLE work items |
| UDP transport (`transport_udp.c`, `wifi_udp.c`) | sequence number, running CRC, last FILE_ACK with bitmap, `udp_ready`, client address | FILE_START, DATA, FILE_END with retries, repair from a bitmap, reset on re-association | transfer thread, WiFi event thread, the network |
| Flutter client (`udp_sync_client.dart`) | file being assembled, frames held, nack counts, write chain | per frame type | the network, its disk |
| Python client (`transfer.py`, `transports/udp.py`) | open `.part` file, expected sequence, invalid flag | per frame type | the network, its disk |
| Recorder (`audio.c`) | `recording_active`, `is_paused`, request flags, two semaphores, session id, open chunk, microphone and boost | start, stop, pause, resume; the audio thread | storage, state machine, shutdown thread, AT fallback |
| State machine (`clip_event.c`) | `g_state`, event queue, boost count, OTA flags | `clip_event_process`, `execute_transition`, shutdown thread | everything that posts events |
| Storage (`storage.c`) | mounted/powered, write buffer, `writing_file`, session.json, marks, `sd_full` | sessions, chunks, marks, deletion, idle power-off, format | recorder, transfer, USB, AT |
| AT server and commands (`at_server.c`, `at_commands.c`) | command queue, response routing | 60-odd commands | all of the above |
| WiFi (`wifi.c`), BLE (`ble.c`, `transport_ble.c`), USB (`usb_cdc.c`) | AP and station state, connection, MSC enabled | on/off, connect/disconnect, enable/disable | transports, storage, state machine |
| Button (`button.c`, `gpio_button.c`) | gesture timers, power-off screen latch | gestures to events | state machine, shutdown thread |
| Battery, configuration, display, haptics | measurements, settings, frames | - | - |

What is hard in it:

- **Priorities and unlocked flags.** The transfer thread (priority 5) preempts
  the AT thread (7); the recorder shares plain flags with its callers, and
  `audio_state_mutex` covers the callers only.
- **Two notions of state.** `g_state` is committed by the main thread while the
  recorder starts, fails, pauses or ends in its own thread, without posting an
  event back.
- **A link that comes and goes.** Any ready transport counts as "connected";
  a station's re-association resets the file state in mid-file.
- **UDP with answers that name no file.** FILE_ACK is two bytes; retries of
  FILE_END produce several of them.
- **Card shared by recorder, transfer, USB and the idle power-off**, with checks
  and unmounts that are not one step.
- **Waits**: 5 s for a stop, 3 s for an idle transfer thread, 100 ms polls.

What makes each part correct: a transfer owns its state while it is armed, ends
once, cleans up, reports once, and `synced` never exceeds what the client has;
a client never exposes a file that is not the device's; the recorder captures
only when the device shows it, gives back microphone and boost, and finishes its
sessions; every stop and every command comes to an end; storage never unmounts
under a user, and survives a power cut with sessions that can be told apart.
`PROJECT.json` lists the hazards line by line with the properties that cover them.

## 2. Modules

| Module | Models |
|---|---|
| `Transfer` | `transfer.c` with the AT handlers and work items that drive it |
| `MCTransfer` | instances of it |
| `Transfer_proofs` | theorems about it |
| `FileSync` | abstract specification of a session transfer: what the device counts, the client has |
| `UdpLink` | send loop, UDP transport, receive thread and network |
| `UdpLink_proofs` | lemmas about the link that the proofs about each client use |
| `UdpFlutter`, `UdpPython`, `UdpSelective` | `UdpLink` composed with the Flutter client, the Python client, and a client that sends the bitmap the device understands |
| `UdpFlutter_proofs`, `UdpPython_proofs`, `UdpSelective_proofs` | theorems about each; the first also has those about `MCUdpClients` |
| `MCUdpClients` | the three clients in one instance; each behaviour has one of them |
| `Recorder` | `audio.c`, with what it leaves on the card |
| `ClipEvent` | `clip_event.c` composed with `Recorder`, the AT thread, the button, the WiFi timer and the shutdown thread |
| `ClipEvent_proofs` | theorems about it |
| `MCClipEvent` | instances of it |
| `SessionStore` | the sessions on the card (`storage.c`): recorder, transfer and AT thread on one card, power cuts |
| `SessionStore_proofs` | theorems about it |
| `ListSync` | `SessionStore` composed with a host that pages through AT+LIST: the mobile app or the Python SDK |
| `CardPower` | who may use the card and when its power goes: mount, regulator, lifecycle mutex, idle power-off, USB, format |
| `SessionClock` | where session ids come from: the device's clock, AT+TIME, reboots |
| `Card_proofs` | theorems about `CardPower`, `SessionClock` and `ListSync` |
| `MCListSync`, `MCCardPower`, `MCCard` | instances of `ListSync`, of `CardPower`, and of these and `SessionClock` |

### Transfer

Variables are named after the code's (`xfer` is `current_transfer`, `idleSem`
and `triggerSem` are the two semaphores, `curTp` is `current_transport`); `tpc`
and `apc` are the program points of the transfer thread and of the AT thread,
placed where another thread's step can fall in between. `Th...` actions are the
passes of `transfer_thread_main`, `At...` actions the handlers; a cancel from
the AT thread is two steps (flag, then state), one from the system work queue or
the shutdown thread is one because those threads are not preempted by the
transfer thread. The card is a function from chunk numbers to
absent/empty/writing/ok, and the recorder closes and opens chunks beside the
transfer. `recorder` says what the session is to it: being recorded ("this"), the last
one recorded ("last", whose id `audio_get_session_id` still returns, so that it is
downloaded in continuous mode, with `total_files` 0), or an older one ("other").
Sending a file is one of the outcomes of the transport operations. `hist` is
a history variable: what was asked for, confirmed and reported.

### UdpLink and the clients

A file is a sequence of frames, a CRC is the run of frames it covers, a
datagram is a record, the network two bounded sequences. FILE_END and its
retries, `wait_for_file_ack` (which forgets what arrived before it), whole-file
and bitmap repair, give-up and the re-association reset are actions; the clients
handle one datagram per step. The
Flutter client writes its files later, from its chain, and a write may fail.
`UdpSelective` is the peer `udp_repair_missing` is written for; no client in
the repository sends a bitmap, so it is marked external.

`StaConnected` is the re-association: it zeroes sequence number and CRC at any point of
the transfer and aborts a wait for an answer. Two things it does to the other side are
kept as history: `budget.torn`, the files that one found between FILE_START and FILE_END,
and `budget.late`, that one aborted a wait. What the clients then do is not left out: the
Flutter client takes the rest of such a file for the whole.

### Recorder and ClipEvent

The audio thread has one step per place where a flag is read or written or the card is
touched; in particular `recording_active` is cleared before the file and the session
are closed, and a start stays invisible (`active` FALSE) until microphone, encoder,
session and first chunk are there. `Fault` spends a bounded number of failures, among
them the rewrite of session.json when a recording is closed, whose result
`storage_close_session` drops (`storage.c:630`): the session stays unfinished, and
`unclosed` remembers it, as it does those whose close a start overtook. The main thread takes an event and executes it in steps around its calls into the
recorder; `Commit` writes `g_state`. AT commands post and wait, AT+STOP has its
fallback (`AtForceStop`), the button posts by the state it sees, the shutdown thread
stops the recorder directly. The shutdown modelled is the one whose power-off fails
and returns ("power-off failed, recovering"); the one that succeeds ends every
behaviour. TRANSMITTING, ERROR and OTA are in the transition table but no transition
leads there. Sessions get fresh numbers: two starts in one second, which get the same
id in the code, are not modelled.

### SessionStore and ListSync

A session is a directory (`dir`), its `session.json` (`json`: the fields the
code reads back) and its chunks, each absent, of size 0 (open: FatFs updates a
directory entry when a file is synced or closed), short of its end, or whole. The
RAM is `current` (`current_session_id`), `writing` (`writing_file`) and `lock`
(`session_json_mutex`). `rec`, `tx` and `at` are the three threads with their
local copies: a rewrite of session.json is a step that reads and a step that
writes. `PowerCut` clears the RAM at any point and keeps the card, less perhaps
the directory entry of the chunk being written. A deletion goes file by file, as
`delete_dir_contents` does, after a check of `current_session_id` and none whether there
is such a session: AT+DELETE takes any id, also one whose directory is there and whose
session.json is not yet. A transfer waits for the writer of the next chunk, except on
the two paths that do not (`TxHasty`: a file name kept over a lost link, and a session
whose id a start has renamed while its last chunk is closed); a chunk that shows size 0
is opened in one step and unlinked in a later one. `Fault` spends a bounded number of failing writes
and remembers the session. The properties leave out what the code does wrong, by name:
`hist.bad` are the sessions with a failed write and those AT+DELETE took before they were
`current_session_id`, `hist.taken` the chunks a transfer found with size 0 while they were
written.

`storage_create_session` writes session.json and sets `current_session_id` in
one step, because the audio thread has the highest priority of the three and
waits for nothing in between. Before and after it, everybody else can run.

`ListSync` adds a host. Its page is a set of sessions computed from what is on
the card when the command runs; entries are then taken one at a time, while
sessions come and go. `Room` is what fits the reply buffer (1024 bytes,
Kconfig:181, some 64 bytes an entry). When the first entry of a page is empty
and auto-deleted, the comma logic of `at_commands.c:1092` makes the reply no JSON
(`Garbled`), and the client does what it does with no reply.

### CardPower

`mounted`, `powered`, the mutex and the regulator's reference count (external,
as the driver's) on one side; on the other the threads that bring the card up
and use it: state machine, AT thread, USB thread, each going through
`storage_ensure_mounted` (`ResumeBegin`, `ResumeEnd`, `Activity`) into its use, and the
two threads that go on using it: the audio thread (`audio`, from the start it takes
through session.json and chunks to the session.json it finishes) and the transfer thread
(`sending`, which outlasts `xfer`, that is `transfer_is_active`). A STOP commits IDLE when
the audio thread is done or 5 s later, whatever it is doing then. The work queue's item is due, waits for the mutex, looks, cuts. The unmount and
the flag it clears are one step. `LateTick` says whether the 45 s may run out
while a resume is under way or the queue be late; without it the item is
punctual. The FS log backend and an OTA only make the card busy and are left
out.

### SessionClock

The device has no clock that runs while it is off: it keeps a time and the
uptime it belongs to (`time`, `since`), stores the time on AT+TIME and when a
recording stops (`stored`), and loads it at boot. `Shown` is what
`clip_get_current_time` makes of it, with the minutes counted in a byte before they are
carried; `Reckoned` is what `config_get_time` makes of it. The unit is the
minute; a recording and a boot take at least one.

## 3. Runs

| Run | Result | What it shows |
|---|---|---|
| `transfer_disconnect` | pass | One link change at any point, a session being recorded, the last one recorded or an older one, missing, empty and unreadable chunks, shutdown cancel: the lock (`StartOwnsTransfer`), no remains (`NothingLeft`), one TRANSFER_DONE (`ToldOnce`), the meaning of `synced` (`SyncedIsConfirmed`), the boost (`BoostBalanced`), no chunk unlinked that is open for writing (`RecordedKept`), that a cancel ends, and every transfer once the recording is over (`TransferEnds`) |
| `transfer_at_cancel` | pass | AT+CANCEL split between its two writes, a link that changes twice, resumes from the last file, a failing second info read: the lock holds and the host is told once |
| `transfer_cancel_lost` | violation | AT+CANCEL loses its race: `CancelEnds` |
| `transfer_link_flap` | violation | Two link changes: a chunk is opened without waiting for its writer, shows size 0 and is unlinked: `RecordedKept` |
| `udp_clients` | pass | Three clients under two losses, a failed write and a re-association at any point: nothing wrong on disk (`AnySavedIntact`), the CRC covers the file (`FullCrc`), each keeps `FileSync`'s promise (`AnyKeepsPromise`), but for what the re-association tears (see below), and without one the repair rounds end with everything received (`AnyLossIsRepaired`) |
| `flutter_late_ack` | violation | Answers slower than FILE_ACK_TIMEOUT: `SyncedIsReceived` |
| `recorder` | pass | No capture behind the display, a parked recorder holds nothing, sessions are finished and counted right unless a start overtook their close or the card refused it (`SessionsFinished`), finished ones are not written again (`FinishedStays`), a stop is kept until its recording is wound up (`StopIsKept`), stops and commands end |
| `recorder_stuck` | violation | RECORDING with nobody recording: `NeverStuckRecording` |
| `recorder_overtaken` | violation | A start renames the session being closed: `NoneLeftRecording` |
| `sd_card` | pass | The card's three parts. Its sessions, with a power cut, a failing write, a deletion of any id, a download that may not wait for the writer and a listing host; but for what `hist.bad` and `hist.taken` name, closed chunks survive, a recording keeps its files, neither writer of session.json undoes the other, nothing recorded is unreachable, deleted stays deleted, an undisturbed listing is complete and every listing ends. Its power: who uses the card and is seen by the busy test keeps it, a mounted card has power, an unused one goes off. Its clock: new ids are larger than old ones |
| `card_cut` | violation | A late tick of the idle power-off: `CardStaysUp` |
| `sdk_list` | violation | A page larger than the reply: `CalmSyncIsComplete` |

The violation runs are the findings of `PROJECT.json`, each with the line that
bites and the sentence of the documentation or comment it contradicts.

`AnyKeepsPromise` is refinement: `UdpFlutter`, `UdpPython` and `UdpSelective` each
implement `FileSync` under the mapping of `saved` to the files the client has
(their `KeepsPromise`).

`sd_card` explores the three parts of the card in one state space without
multiplying them: `part` says which one works, and the others rest in one
state. The parts share no variable. What couples them in the code, a card that
is gone while a session is written, is what `CardStaysUp` excludes and what
`SessionStore` sees as a failing write or a power cut; and `SessionStore` takes its
ids from `IdsGrow`. A liveness property of one part is stated for the behaviours in
which it works.

### Divergences no run is spent on

The models contain the behaviours below, or were limited because of them.

- The transition table lets PAUSED go to WIFI_SYNC (`clip_event.c:70`) where
  `docs/requirements.md` 4.2 has "-" and `docs/protocol.md` says "Only IDLE state
  can transition to RECORDING or WIFI_SYNC"; `ClipEvent` follows the code.
- A resume that comes before the audio thread has taken the pause request is a
  no-op (`audio.c:361`): the recorder then pauses under a device that shows
  RECORDING.
- A start refused with EBUSY has already stored its own transport
  (`transfer.c:185`) and so redirects the running transfer.
- With two link changes `file_index` can also run ahead of the files confirmed
  (`transfer.c:754`): `SyncedIsConfirmed` fails in the configuration of
  `transfer_link_flap`.
- The wait for the writer is part of the continuous mode only. A START accepted while
  the last chunk of a recording is being closed renames `current_session_id`; a download
  of that session asked for now is not continuous, finds the chunk with size 0 and
  unlinks it. `RecordedKept` leaves out this case, `SessionStore` has it (`TxHasty`).
- "Set stop_requested so the audio thread skips the pending start" (`audio.c:315-316`): not
  when that start overtook a close. The stop sets `stop_requested`, the audio thread,
  still closing the last session, clears it (`audio.c:940`), and the pending start
  records. `StopIsKept` is about the stops of all other recordings.
- `storage_close_session` drops the result of `update_session_json` (`storage.c:630`):
  when the card refuses the rewrite the session keeps `"recording": true` and 0 files for
  ever and its file count is what a scan of the directory finds. `SessionsFinished`
  allows it for exactly the sessions in `unclosed`.
- AT+DELETE of a session that is being created: the audio thread makes its directories
  (`storage.c:583`) and sets `current_session_id` at `:609`; AT+START has returned the id
  before that (`at_commands.c:906`). A deletion that passes the check at `:1530` in
  between goes through, is answered `deleted: true`, and may take session.json and chunks
  of the running recording or leave chunks without session.json. "Don't delete current
  recording session" (`storage.c:1529`) is what it contradicts.
- A re-association in mid-file (`transport_udp.c:565`) with the frames before it lost:
  the rest arrives with sequence numbers from 0 and a CRC that matches it. The Python
  client refuses the file, by its size. The Flutter client logs the wrong size
  (`udp_sync_client.dart:644`), saves it and acknowledges it. And a re-association
  that aborts the wait for an answer has the effect of a late answer.
- "True only when genuinely idle" (`clip_event.c:327`) does not hold of the busy test in
  two windows. `transfer_cancel` and the error paths (`transfer.c:450`, `:909`, `:921`) end
  `transfer_is_active` while the transfer thread has a chunk open and `synced_files` to
  store. And a stop that takes longer than 5 s commits IDLE while the recorder has its
  session.json to finish (`storage.c:616`); at that point neither `recording_active` nor
  `writing_file` is set. An idle power-off, or AT+USB=on, takes the card from under them.
  With either use added to `CardStaysUp` TLC finds it violated by a punctual tick.
- The mobile app's clean-up wants "the **complete** device session set"
  (`device_controller.dart:6921`), but is called (`:7037`) after a short page, a
  failed page or 200 ids as well. `CalmSyncIsComplete` says when the set is
  complete: no empty session, no deletion, no loss.
- `storage.c` compares `strncmp(p + 12, "true", 4)` after `"recording":` where
  the text has a space: a session cut off by a power loss is never recognised as
  "recording", and the rule that resets its synced count never applies.
  `SessionStore` follows the code: the flag is written and never acted on.
- The board's device tree says of LDO2 "each runtime regulator_enable() has
  exactly one matching regulator_disable()". AT+USB=on unmounts
  (`storage_cleanup`) and leaves the rail on; the resume after it enables it
  again (`storage.c:444`); the idle power-off disables it once, and the rail stays
  on until a reboot. Failed resumes and a failed format do the same.
  `RailBalanced` states the comment; it is proved without these
  (`RailIsBalanced`), false with them, and checked by no run.
- "Unmount SD card so host has exclusive access" (`usb_cdc.c:232`): AT+LIST and
  every other command that brings the card up mount it again under the host.
  And AT+USB=on after an idle power-off hands out a card without power.
- `usb_cdc_enable` checks and unmounts without the mutex (`usb_cdc.c:222`), and so
  does FORMAT: a START or a download that has passed its own check loses the card.
  This is why the allowances of `MCCardPower` and the theorem `CardStays` keep
  these apart.
- Session ids are times: "Sessions are sorted newest-first (descending by session
  ID, which is a timestamp)" (`docs/protocol.md`). They go back in three cases,
  which `IdsGrow` names and leaves out. `clip_get_current_time` (`main.c:74`) carries
  the minutes since the last sync through a `uint8_t`: some four hours after it
  (197 to 256 minutes) the minutes wrap at 256 and a recording gets the time of
  4 h 16 min earlier, until `config_sync_time` counts correctly again when it stops
  (set to 08:00, the clock shows 08:44 at 13:00). The time is stored when a
  recording stops, so that after a power loss in one the device lives its time
  again. And without any time the id is the uptime (`audio.c:291`), which starts again at every
  boot. If an id repeats to the second, the new session's files are opened on the
  old one's without truncation. After a power cut in a recording `SessionStore`'s
  fresh ids therefore stand for a host that sets the time, as the app does when it
  connects.

### Bounds, and why they are enough

- **Transfer**: two chunks, one retry and one tolerated error each, both
  transports. Every branch of the loop is about "this file, the next one, or
  none"; two files reach each of them, and a chunk can be missing before, between
  and after. `MissingSlack` is 1 where the code has a larger constant; it only
  repeats a skip. One link change reaches up or down
  at each step of the thread; two (`transfer_link_flap`, `transfer_at_cancel`) reach
  a link that returns. `recorder` starts in each of its three states and goes
  through the others. `transfer_at_cancel` has one transport only, to stay small.
- **UDP**: two or three files of two frames, two losses, one re-association, two or
  three FILE_ENDs, two repair rounds, up to eight datagrams in flight. Three files let an
  answer be two files late; with two frames a gap is at either end, and a re-association
  falls before, between and after them. Every client has the re-association.
  Sequence numbers do not wrap at this size.
- **SessionStore, ListSync**: three sessions, two of them from before (finished, or
  cut off by a power loss before its first chunk, in it, or in the second), one
  recorded in the run with up to two chunks; one power cut, failing write, deletion and
  download each, in any order, or a deletion and a download that once does not wait for
  the writer (`Hasty`); one listing and one lost reply. Pages of one and two
  entries, a reply with room for two and at most three ids collected: a page
  shifts under the host, the last page is short or full. `sdk_list` has a reply
  with room for one. The
  listing host and the disturbances of the card are in different behaviours
  (`StoreStart`), which keeps the instance small; within the listing ones
  the recorder records and empty sessions are purged.
- **SessionClock**: hours of two minutes and a byte of five values, eight minutes:
  the wrap comes after three or four minutes, twice as early as the run ends, and
  two recordings and two reboots fit. The theorem has no such bounds.
- **CardPower**: two of each command, one failure, three allowances (recordings with
  downloads and lists; USB with downloads and lists; formats with lists). Two
  tell apart a card that is up from one that has been off in between, and a second
  start or download can meet the first one's thread at its last writes.
- **ClipEvent**: two sessions (one to overtake another), two chunks, one
  failure, a queue of two so that it fills, four commands or presses. The chain
  START, PAUSE, RESUME, STOP fits, and so does START, STOP, START, STOP.

`CHECK_DEADLOCK FALSE` stands in the UDP, ClipEvent and card configurations, where
the session, or the budget of commands, comes to an end.

### Assumptions

- **Fairness.** Weak fairness of each thread of the device as a whole (the scheduler
  runs a ready thread; waits have timeouts), of the client's receive loop, and of the
  delivery of a datagram that is not lost. No fairness of the user, of commands,
  links, failures or losses. In `ListSync` the AT thread serves its queue and the host
  reads its replies; in `CardPower` the work queue runs and who holds the mutex gives
  it back; recorder and transfer owe nothing. `TransferThread` alone is fair in
  `Transfer`: its properties depend on nobody else.
- **Order.** The network loses datagrams but does not reorder them (`Fifo`): device and
  client are one WiFi hop apart. The assumption matters: with `Fifo = FALSE` the
  Python instance violates `SavedIntact`, because a whole earlier attempt of one
  file can arrive behind the FILE_START of the next and then fits it in
  sequence, size and CRC.
- **Timely.** Where a run sets it, an answer takes less than FILE_ACK_TIMEOUT;
  `flutter_late_ack` and the Python client of `udp_clients` do not have it.
- **CRC.** Equal CRCs mean equal contents.
- **FatFs.** What `unlink` and `mkdir` did is on the card when they return; a
  directory entry shows a file's size once it is synced or closed; session.json
  is smaller than a sector, so that its rewrite leaves the old text or the new
  one (a shorter text over a longer one keeps the old tail, which the parser,
  looking for the first match of each key, does not see).
- **Session ids** are fresh and grow; `SessionClock` says when. The host's time
  is true and the device's never ahead of it.
- **45 s** are longer than any access to the card that begins with a resume
  (`TickOver`); recordings and transfers last longer and are what the busy callback
  is for. `LateTick = FALSE` adds that the tick does not fall into a resume; `card_cut`
  is what happens when it does.

## 4. Proofs

`Transfer_proofs` proves, for every number of files, transports, retries and
bounds:

- `TypeCorrect`: `Spec => []TypeOK`.
- `StartOwns`: `Spec => []StartOwnsTransfer`. The invariant is not inductive:
  it needs `LockInv`, which says who holds each of the two semaphores. At most
  one of "idle token", "trigger token", "AT thread between take and
  trigger" and "transfer thread running" holds.
- `NothingIsLeft`: with `MaxAtCancels = 0`, `[]NothingLeft`. The strengthening
  `CleanInv` relates state, name, open file and cancel flag at each program point.
  The hypothesis is needed: `transfer_cancel_lost` is the counterexample.
- `BoostIsBalanced`: with `MaxAtCancels = 0` and `MaxFaults = 0`,
  `[]BoostBalanced`, on top of the two invariants above. Without the second
  hypothesis the failure path after the first info read can leave the state set.
- `ToldExactlyOnce`: `Spec => []ToldOnce`, without a hypothesis: AT+CANCEL may lose
  its race, links may come and go. `ToldInv` ties the reports counted to
  `transfer_complete_sent` and the session's name: a transfer that has not reported
  keeps both until it has, and its cleanup comes after.
- `SyncedWasConfirmed` and `RecordedIsKept`: with `MaxFaults = 0` and at most one link
  change, `[]SyncedIsConfirmed` and `RecordedKept`. `FileInv` relates `file_index`,
  `current_file` and the open handle to what the host confirmed; it needs to know what
  a transfer believes of the recorder (`DiskInv`: a session it takes to be recorded is that
  or the last one, until another start), that a
  request being refused has nothing to send (`FreshInv`), and how many link changes
  are left wherever every link is down (`LinkInv`). `MaxFaults = 0` because that belief
  is what the second read of session.json brings.
- `SyncedUnlessLost` and `RecordedKeptUnlessLost`: the same with any number of link
  changes, for as long as the transfer has not lost every link. They delimit
  `transfer_link_flap` and the divergence at `transfer.c:754`: neither needs anything
  but that loss.

Each step lemma (`LockStep`, `CleanStep`, `BoostStep`, `ToldStep`, `FileStep`, ...) has
one case per action. The assumptions are `TransferAssumption` only.

`ClipEvent_proofs` proves the four invariants and the two action properties of
`ClipEvent` without a hypothesis, for any number of sessions, chunks, failures, presses
and commands and any length of the event queue (`TypesHold`, `ParkedHoldsNothing`,
`NoHiddenCapture`, `SessionsAreFinished`, `ClosedRecordingIsLeft`, `StopHolds`). The
inductive invariant has, beside the types,

- `DeviceInv`: `recording_active`, microphone, boost, open file and `is_paused` follow
  from where the audio thread is;
- `TableInv`: what the main thread executes is an event the table has for the present
  `g_state`, which only its `Commit` changes;
- `ShownInv`: a start is pending only while the thread is parked or still closing, and
  outside RECORDING the recorder is quiet (told to stop or pause, or parked) but for
  the step between the call into it and the commit of RECORDING;
- `CardInv`: which session ids are on the card and in what state, and that one without
  its count is in `unclosed`.

`SessionsAreFinished` and `StopHolds` carry the exceptions of their properties: the
sessions in `unclosed`, and the stop of a start that overtook a close.

`NoHiddenCapture` is what makes the two findings of these modules one-sided: the
device may say RECORDING with nobody recording, never record while it says IDLE.

`UdpLink_proofs` has the lemmas about what the three clients share: sequences that grow
and lose elements anywhere, the running CRC, and what a send, a loss or a delivery does
to the frames under way (`FrameInv`). On them:

- `UdpPython_proofs`: `PythonFilesIntact` and `PythonKeepsPromise` (the refinement of
  `FileSync`) need `Fifo = TRUE` and nothing else: any number of losses, answers later
  than FILE_ACK_TIMEOUT, and re-associations that reset the CRC in mid-file. The
  argument is one token: a FILE_START under way, the open file, its answer under way,
  the answer taken; there is one of these at most (`TokenInv`), because this client
  fails on a FILE_START while a file is open, and answers only when it closes one.
  `WholeInv` is what remains of the CRC after a reset: one as long as a file is that
  file's.
- `UdpFlutter_proofs`: `FlutterFilesIntact`, `CountIsReceived` and `FlutterKeepsPromise`
  under `Orderly`, which is `Fifo` and `Timely`, for any number of losses, failing writes
  and re-associations. What these break is in the properties themselves: a file in
  `torn` may be on the disk without its beginning and counts as received, and after one
  in `late` an answer may be another file's. This client answers whatever FILE_END comes, with two
  bytes that name no file; that an answer is about the file waited for follows from
  what else can be in flight (`AnswerInv`, `FrameInv`), not from the answer. `Timely`
  is needed: `flutter_late_ack` violates `SyncedIsReceived`, the conclusion of
  `CountIsReceived`. `CrcIsFull` needs no hypothesis.
- `UdpSelective_proofs`: `SelectiveKeepsPromise` under `Orderly`, until the station first
  re-associates. The client keeps the
  frames of a file between repair rounds; `CurInv` says that before it has seen the next
  FILE_START it can only have the whole file before that, whose frames and CRC then do
  not pass for the new one's.
- `FlutterTypes`, `PythonTypes`, `SelectiveTypes`: type correctness, without a hypothesis.
- At the end of `UdpFlutter_proofs`, the properties of the run `udp_clients` as theorems
  of its own `AnySpec`: `AnyClientTypes`, `AnyCrcIsFull`, `AnyFilesIntact` and
  `AnyClientKeepsPromise`. `MCUdpClients` takes the other two clients with their lemmas
  (`INSTANCE UdpPython_proofs`), so that `AnyStep`, which says that each client runs as
  in its own module, is all that is added. `NFiles >= 2` is a hypothesis of the last
  because the two others are given two files there.

How far `Drain` gets (the first frame the client does not hold) is written with CHOOSE;
`Least` derives the least-number principle for it from the library's well-founded
induction (`WFMin`), which takes a set and no operator.

`SessionStore_proofs` proves the six invariants of `SessionStore` for every
number of sessions, chunks, cuts, faults, deletions and downloads, every page
size and every room in the reply. None of them is inductive without knowing which
thread is where. The invariant `StoreInv` is `StoreTypeOK` with

- `NewInv`: ids above the clock are blank on the card, and nobody has them;
- `LockInv`: who holds `session_json_mutex` is between its read and its write;
- `ReadyInv`: a chunk is announced once it is closed, and the open one is
  `writing_file`;
- `UnlinkInv`: a chunk that is about to be unlinked was taken while it was written, or is
  behind the recorder and not announced, or its session is being deleted;
- `LiveInv`: the recorder's session is `current` from session.json on, nobody deletes
  it, its chunks but the open one are announced or taken (`Known`), and the synced count
  the recorder has read is the one stored last;
- `TxInv`: what the transfer thread has read of session.json is what it replaces;
- `AtInv`: what is being deleted was given up before, and from its group directory on
  nothing is left of it or comes back;

and the properties, of which `RecordingKept` follows. There is one lemma per action
and per part it can disturb. The argument behind `RecordingKept` is the order of two
unlocked variables: `current_session_id` is set before the first chunk exists and
cleared after session.json is finished, and `writing_file` covers the one chunk that
shows size 0. It holds for the sessions outside `hist.bad` and the chunks outside
`hist.taken`, which are where that order is broken.

`Card_proofs` proves of `CardPower`: `PowerTypeCorrect` for all bounds; `CardStays`
(`[]CardStaysUp`) with a punctual work queue, for allowances without USB and FORMAT,
or without starts and FORMAT, or without starts and downloads; `MountedPower`
(`[]MountedHasPower`) with a punctual work queue, where an allowance has no USB or no
failures; and `RailIsBalanced` without USB, FORMAT and failures, work queue late or
not. Each hypothesis is needed: see `card_cut` and the divergences above. The
invariants are `MutexInv` (who is starting the card or cutting it holds the mutex),
`ThreadsInv` (which thread runs which command), `TickInv` (while the item is due or
cutting, nobody starts or uses the card), `StartInv` (a start is taken in IDLE, and the
audio thread at work on it has RECORDING committed or about to be), `StaysInv`
(the property, with a card mounted all through RECORDING) and one predicate per bound that is 0
(`NoUsb`, `NoFormat`, ...).

Of `SessionClock` it proves `NewIdsGrow` (`ClockSpec => IdsGrow`). The invariant
`ClockInv` says that the stored time is the device's, that the device's time is not
ahead of the true one, and that every id is behind both, or is that of the running
recording; `ShownIsReckoned` is the arithmetic of the byte.

Of `ListSync` it proves `SyncKeepsStore` (`SyncSpec => Spec`: `SessionStore`'s theorems
hold while hosts list) and `CalmSyncsAreComplete` (`SyncSpec => []CalmSyncIsComplete`),
for any number of sessions, under the one hypothesis `PerPages \subseteq 1..Room`: a page
fits the reply. `sdk_list` violates the property without it. The argument is about ranks:
`Rank(Listed, s)` is how many listed sessions are newer than `s`, and `AT+LIST?page&per`
shows the ranks from `(page - 1) * per` to `page * per - 1` (`PageSize`, which needs that
no rank is left out, `RankFound`). What happens between two pages in a calm sync only adds
sessions, so a rank only grows (`Grows`, `RankGrows`). `CalmInv` says that a session not
seen yet is still at or behind the page to come, that the page under way has `per` entries
when there is more behind it, and that no more entries were counted than the pages had
room for: so neither the total nor a short page ends the sync too early. In between,
`WaitInv` follows the entries one by one through `AtEntry`.

Model-checked only: liveness (`TransferEnds`, `CancelEnds`,
`StopsEventually`, `AnsweredEventually`, `AnyLossIsRepaired`, `SyncEnds`,
`CardSwitchesOff`), which depends on fairness and is out of TLAPS's reach. No module
has a recursive operator.

## 5. Plan

1. Done: `Transfer`, `UdpLink` with three clients, `FileSync`, `Recorder`,
   `ClipEvent`, `SessionStore` with its listing hosts, `CardPower`, `SessionClock`;
   proofs of `Transfer`, `ClipEvent`, the three UDP clients, `SessionStore`, `ListSync`,
   `CardPower` and `SessionClock`.
2. The sequence wrap of the NACK bitmap with a reduced modulus; the day and month
   ends of `clip_get_current_time`.
3. `AtServer`: the command queue and the routing of replies to the transport that
   asked, and the BLE connection with its notification credits; `Button`: gestures,
   release and the power-off latch (`button.c:132`).
4. Bookmarks (`marks.bin`) and statistics in `SessionStore`; more than one group
   directory, where the directory order decides what a deletion takes first.

## 6. Not modelled

Of the sources listed in `PROJECT.json` some are left out for good: battery filtering
(floating point), display and haptics (output only), drivers (register access),
settings other than the time (records replaced one by one by an external subsystem),
MCUboot and MCUmgr, the cloud and user interface of the mobile app, samples and board
files. Most of the repository's lines are vendored libraries (Opus with its tables and
neural-network code, Lua, Speex): signal processing and an interpreter that the
firmware calls as functions and that share no state with it. The project covers the
firmware's own logic and its clients, and is a small share of the whole tree for this
reason.
