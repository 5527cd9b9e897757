---------------------------- MODULE SessionStore ----------------------------
(***************************************************************************)
(* The sessions on the SD card, applications/clip/src/storage.c, and the     *)
(* three threads that work on them:                                          *)
(*   - the audio thread, which creates a session, writes one chunk after     *)
(*     another and finishes the session (actions Rec...);                    *)
(*   - the transfer thread, which reads closed chunks and stores the synced  *)
(*     count in session.json (actions Tx...);                                *)
(*   - the AT thread, which lists and deletes sessions (actions At...).      *)
(* A power cut leaves the card and clears the RAM.                           *)
(*                                                                         *)
(* FatFs is external: a directory entry shows size 0 until its file is       *)
(* synced or closed, and what unlink and mkdir did is on the card when they  *)
(* return.  session.json fits one sector: its rewrite is the old or the new. *)
(***************************************************************************)
EXTENDS Integers, FiniteSets

CONSTANTS
    MaxSession,  \* session ids are 1..MaxSession: time stamps, newer is larger
    OldSessions, \* those with an id up to this were recorded earlier
    MaxChunk,    \* chunks of a session, at most one group directory
    MaxIds,      \* how many ids a listing collects (200)
    PerPages,    \* numbers of entries hosts ask for in a page of AT+LIST
    Room,        \* entries that fit a reply (1024 bytes: about 14)
    Budgets      \* bounds, one is chosen: power cuts, failing writes, AT+DELETE
                 \* and AT+DOWNLOAD commands, chunks whose writer is not waited for

Budget == [cuts : Nat, faults : Nat, deletes : Nat, downloads : Nat, hasty : Nat]

ASSUME SessionStoreAssumption ==
    /\ MaxSession \in Nat /\ OldSessions \in 0..MaxSession
    /\ MaxChunk \in Nat \ {0} /\ MaxIds \in Nat /\ PerPages \subseteq Nat
    /\ Room \in Nat
    /\ Budgets \subseteq Budget

VARIABLES
    dir,      \* the session's directory is on the card
    json,     \* its session.json
    chunk,    \* its chunk files
    current,  \* current_session_id
    writing,  \* writing_session and writing_filename
    lock,     \* who holds session_json_mutex
    clock,    \* the id of the last session: a new one is larger
    rec,      \* audio thread: where it is, its session, chunk, session.json read
    tx,       \* transfer thread: where it is, its session, file_index,
              \* synced_files, session.json read, it does not wait for the writer
    at,       \* AT thread: where it is, the session it deletes, the rest of the
              \* page, the entries so far, total, empty sessions are deleted
    left,     \* what is left of the bounds
    hist      \* history, for the properties only

card == <<dir, json, chunk>>
ram  == <<current, writing, lock>>
vars == <<card, ram, clock, rec, tx, at, left, hist>>

Sessions == 1..MaxSession
Chunks   == 1..MaxChunk
None     == 0
Ids      == Sessions \union {None}

\* "empty" has size 0, "short" lacks its end, "whole" has all that was recorded
ChunkStates == {"none", "empty", "short", "whole"}

Json   == [there : BOOLEAN, files : Nat, synced : Nat, rec : BOOLEAN]
NoJson == [there |-> FALSE, files |-> 0, synced |-> 0, rec |-> FALSE]
Blank  == [NoJson EXCEPT !.there = TRUE]
Fresh  == [Blank EXCEPT !.rec = TRUE]

NotWriting == [s |-> None, n |-> 0]
RecIdle == [pc |-> "idle", s |-> None, n |-> 0, read |-> NoJson]
TxIdle  == [pc |-> "idle", s |-> None, i |-> 0, ok |-> 0, read |-> NoJson,
            hasty |-> FALSE]
AtIdle  == [pc |-> "ready", s |-> None, todo |-> {}, out |-> {}, total |-> 0,
            purge |-> FALSE]

On(s)  == {n \in Chunks : chunk[s][n] # "none"}
Listed == {s \in Sessions : json[s].there}

\* storage_get_session_info: session.json is trusted when it counts files, else
\* the directory is scanned
FileCount(s) == IF json[s].files > 0 THEN json[s].files ELSE Cardinality(On(s))

\* What an earlier session may be: finished with one chunk, or cut off by a
\* loss of power before its first chunk, in the first one, or in the second
OldStates == {"finished", "no_chunk", "first_chunk", "second_chunk"}

\* storage_init has run
Init ==
    /\ \E old \in [1..OldSessions -> OldStates] :
         LET was(s, o) == s \in DOMAIN old /\ old[s] = o
         IN  /\ dir  = [s \in Sessions |-> s \in DOMAIN old]
             /\ json = [s \in Sessions |->
                          IF was(s, "finished") THEN [Blank EXCEPT !.files = 1]
                          ELSE IF s \in DOMAIN old THEN Fresh ELSE NoJson]
             /\ chunk = [s \in Sessions |-> [n \in Chunks |->
                          IF n = 1 /\ was(s, "first_chunk") THEN "empty"
                          ELSE IF n = 1 /\ (was(s, "finished") \/ was(s, "second_chunk"))
                          THEN "whole" ELSE "none"]]
             /\ hist = [ready |-> {}, saved |-> [s \in Sessions |-> 0],
                        fin |-> [s \in Sessions |-> IF was(s, "finished") THEN 1 ELSE 0],
                        doomed |-> {}, gone |-> {}, bad |-> {}, taken |-> {}]
    /\ current = None /\ writing = NotWriting /\ lock = "free"
    /\ clock = OldSessions
    /\ rec = RecIdle /\ tx = TxIdle /\ at = AtIdle
    /\ left \in Budgets

SetChunk(s, n, c) == chunk' = [chunk EXCEPT ![s][n] = c]
SetJson(s, j)     == json' = [json EXCEPT ![s] = j]

\* A write on session s fails
Fault(s) ==
    /\ left.faults > 0
    /\ left' = [left EXCEPT !.faults = @ - 1]
    /\ hist' = [hist EXCEPT !.bad = @ \union {s}]

NoFault == UNCHANGED <<left, hist>>

-----------------------------------------------------------------------------
(* The audio thread                                                         *)

RecGoto(pc) == rec' = [rec EXCEPT !.pc = pc]

\* storage_create_session up to the directories; the id is the time
RecCreateDirs ==
    /\ rec.pc = "idle" /\ clock < MaxSession
    /\ clock' = clock + 1
    /\ dir' = [dir EXCEPT ![clock + 1] = TRUE]
    /\ rec' = [RecIdle EXCEPT !.pc = "json", !.s = clock + 1, !.n = 1]
    /\ UNCHANGED <<json, chunk, ram, tx, at, left, hist>>

\* marks.bin, session.json, then current_session_id: the audio thread has the
\* highest priority and waits for nothing between the last two.  A failure - the
\* directory may have been deleted - is logged and the recording goes on
RecCreateJson ==
    /\ rec.pc = "json"
    /\ \/ dir[rec.s] /\ SetJson(rec.s, Fresh) /\ current' = rec.s /\ NoFault
       \/ \E j \in {NoJson, Blank} : dir[rec.s] /\ SetJson(rec.s, j) /\ UNCHANGED current
          /\ Fault(rec.s)
       \/ ~dir[rec.s] /\ UNCHANGED <<json, current>> /\ NoFault
    /\ RecGoto("file")
    /\ UNCHANGED <<dir, chunk, writing, lock, clock, tx, at>>

\* Mutant: a first chunk that fails is counted off as a later one is
RecCreateFileBelowOne ==
    /\ rec.pc = "file"
    /\ \/ /\ dir[rec.s] /\ SetChunk(rec.s, rec.n, "empty")
          /\ writing' = [s |-> rec.s, n |-> rec.n]
          /\ RecGoto("record") /\ NoFault
       \/ /\ rec' = [rec EXCEPT !.pc = "closed", !.n = @ - 1]
          /\ IF dir[rec.s] THEN Fault(rec.s) ELSE NoFault
          /\ UNCHANGED <<chunk, writing>>
    /\ UNCHANGED <<dir, json, current, lock, clock, tx, at>>

\* storage_create_file; when it fails the recording goes on without a file
RecCreateFile ==
    /\ rec.pc = "file"
    /\ \/ /\ dir[rec.s] /\ SetChunk(rec.s, rec.n, "empty")
          /\ writing' = [s |-> rec.s, n |-> rec.n]
          /\ RecGoto("record") /\ NoFault
       \/ /\ rec' = [rec EXCEPT !.pc = "closed", !.n = IF @ = 1 THEN 1 ELSE @ - 1]
          /\ IF dir[rec.s] THEN Fault(rec.s) ELSE NoFault
          /\ UNCHANGED <<chunk, writing>>
    /\ UNCHANGED <<dir, json, current, lock, clock, tx, at>>

\* Mutant: the chunk is announced before it is on the card
RecCloseFileEarly ==
    /\ rec.pc = "record"
    /\ writing' = NotWriting
    /\ hist' = [hist EXCEPT !.ready = @ \union {writing}]
    /\ RecGoto("flush")
    /\ UNCHANGED <<card, current, lock, clock, tx, at, left>>

\* storage_close_file: flush, sync and close, then a sleep of 50 ms.  A chunk that
\* was unlinked meanwhile has no directory entry any more
RecCloseFile ==
    /\ rec.pc = "record"
    /\ \/ chunk[rec.s][rec.n] # "none" /\ SetChunk(rec.s, rec.n, "whole") /\ NoFault
       \/ chunk[rec.s][rec.n] # "none" /\ SetChunk(rec.s, rec.n, "short") /\ Fault(rec.s)
       \/ chunk[rec.s][rec.n] = "none" /\ UNCHANGED chunk /\ NoFault
    /\ RecGoto("flush")
    /\ UNCHANGED <<dir, json, ram, clock, tx, at>>

\* ... then writing_file is cleared and file_closed_sem given
RecAnnounce ==
    /\ rec.pc = "flush"
    /\ writing' = NotWriting
    /\ hist' = IF chunk[rec.s][rec.n] = "whole"
               THEN [hist EXCEPT !.ready = @ \union {[s |-> rec.s, n |-> rec.n]}]
               ELSE hist
    /\ RecGoto("closed")
    /\ UNCHANGED <<card, current, lock, clock, tx, at, left>>

\* The next segment, at once or after a pause
RecNextFile ==
    /\ rec.pc = "closed" /\ rec.n < MaxChunk
    /\ rec' = [rec EXCEPT !.pc = "file", !.n = @ + 1]
    /\ UNCHANGED <<card, ram, clock, tx, at, left, hist>>

\* storage_close_session, update_session_json: the old text is read ...
RecFinishRead ==
    /\ rec.pc = "closed" /\ lock = "free"
    /\ lock' = "rec"
    /\ rec' = [rec EXCEPT !.pc = "finish", !.read = json[rec.s]]
    /\ UNCHANGED <<card, current, writing, clock, tx, at, left, hist>>

\* ... and the new one written, which creates the file if need be
RecFinishWrite ==
    /\ rec.pc = "finish"
    /\ \/ /\ dir[rec.s]
          /\ SetJson(rec.s, [there |-> TRUE, files |-> rec.n,
                             synced |-> rec.read.synced, rec |-> FALSE])
          /\ hist' = [hist EXCEPT !.fin[rec.s] = rec.n] /\ UNCHANGED left
       \/ /\ IF dir[rec.s] THEN Fault(rec.s) ELSE NoFault
          /\ UNCHANGED json
    /\ current' = IF current = rec.s THEN None ELSE current
    /\ lock' = "free"
    /\ rec' = RecIdle
    /\ UNCHANGED <<dir, chunk, writing, clock, tx, at>>

AudioThread ==
    \/ RecCreateDirs \/ RecCreateJson \/ RecCreateFile \/ RecCloseFile
    \/ RecAnnounce \/ RecNextFile \/ RecFinishRead \/ RecFinishWrite

-----------------------------------------------------------------------------
(* The transfer thread, as the card sees it; module Transfer has its control *)

\* AT+DOWNLOAD: from the first file, or from a later one
TxStart ==
    /\ tx.pc = "idle" /\ left.downloads > 0
    /\ left' = [left EXCEPT !.downloads = @ - 1]
    /\ \E s \in Sessions :
         /\ dir[s] /\ FileCount(s) > 0
         /\ \E i \in 0..(FileCount(s) - 1) :
              tx' = [TxIdle EXCEPT !.pc = "send", !.s = s, !.i = i]
    /\ UNCHANGED <<card, ram, clock, rec, at, hist>>

Following(n) == n = tx.i + 1

\* The next chunk is opened without the wait for its writer: its name was kept when
\* the link was lost, and it came back (transfer.c:946), or a START has renamed
\* current_session_id while this chunk is closed, so that the session is not taken
\* to be the one recorded
TxHasty ==
    /\ tx.pc = "send" /\ ~tx.hasty /\ left.hasty > 0
    /\ left' = [left EXCEPT !.hasty = @ - 1]
    /\ tx' = [tx EXCEPT !.hasty = TRUE]
    /\ UNCHANGED <<card, ram, clock, rec, at, hist>>

Awaited(n) == tx.hasty \/ writing # [s |-> tx.s, n |-> n]

\* A closed file that has data is sent and confirmed
TxSend ==
    /\ tx.pc = "send"
    /\ \E n \in Chunks :
         /\ Following(n) /\ Awaited(n)
         /\ chunk[tx.s][n] \in {"short", "whole"}
         /\ tx' = [tx EXCEPT !.i = n, !.ok = n, !.hasty = FALSE]
    /\ UNCHANGED <<card, ram, clock, rec, at, left, hist>>

\* A missing file is skipped
TxSkip ==
    /\ tx.pc = "send"
    /\ \E n \in Chunks :
         /\ Following(n) /\ chunk[tx.s][n] = "none"
         /\ tx' = [tx EXCEPT !.i = n]
    /\ UNCHANGED <<card, ram, clock, rec, at, left, hist>>

\* One of size 0 - a chunk that is still written shows that, too - is opened ...
TxEmpty ==
    /\ tx.pc = "send"
    /\ \E n \in Chunks :
         /\ Following(n) /\ Awaited(n) /\ chunk[tx.s][n] = "empty"
         /\ hist' = IF writing = [s |-> tx.s, n |-> n]
                    THEN [hist EXCEPT !.taken = @ \union {writing}] ELSE hist
    /\ tx' = [tx EXCEPT !.pc = "unlink"]
    /\ UNCHANGED <<card, ram, clock, rec, at, left>>

\* ... and unlinked, whatever became of it, which ends the transfer
TxUnlink ==
    /\ tx.pc = "unlink"
    /\ \E n \in Chunks : Following(n) /\ SetChunk(tx.s, n, "none")
    /\ tx' = [tx EXCEPT !.pc = "save"]
    /\ UNCHANGED <<dir, json, ram, clock, rec, at, left, hist>>

\* No more files, a cancel, a failure
TxEnd ==
    /\ tx.pc = "send"
    /\ tx' = IF tx.ok > 0 THEN [tx EXCEPT !.pc = "save"] ELSE TxIdle
    /\ UNCHANGED <<card, ram, clock, rec, at, left, hist>>

\* Mutant: session_json_mutex is not taken
TxSaveReadUnlocked ==
    /\ tx.pc = "save"
    /\ IF json[tx.s].there THEN tx' = [tx EXCEPT !.pc = "write", !.read = json[tx.s]]
                           ELSE tx' = TxIdle
    /\ UNCHANGED <<card, ram, clock, rec, at, left, hist>>

\* transfer_set_synced_files: the old text, if there is one, is read ...
TxSaveRead ==
    /\ tx.pc = "save"
    /\ IF tx.ok > 0 /\ json[tx.s].there
       THEN /\ lock = "free" /\ lock' = "tx"
            /\ tx' = [tx EXCEPT !.pc = "write", !.read = json[tx.s]]
       ELSE tx' = TxIdle /\ UNCHANGED lock
    /\ UNCHANGED <<card, current, writing, clock, rec, at, left, hist>>

\* Mutant: session.json is opened with FS_O_CREATE
TxSaveCreates ==
    /\ tx.pc = "write"
    /\ IF dir[tx.s]
       THEN /\ SetJson(tx.s, [tx.read EXCEPT !.synced = tx.ok])
            /\ hist' = [hist EXCEPT !.saved[tx.s] = tx.ok]
       ELSE UNCHANGED <<json, hist>>
    /\ lock' = "free"
    /\ tx' = TxIdle
    /\ UNCHANGED <<dir, chunk, current, writing, clock, rec, at, left>>

\* ... and written back, unless the file is gone by now
TxSaveWrite ==
    /\ tx.pc = "write"
    /\ IF json[tx.s].there
       THEN /\ SetJson(tx.s, [tx.read EXCEPT !.synced = tx.ok])
            /\ hist' = [hist EXCEPT !.saved[tx.s] = tx.ok]
       ELSE UNCHANGED <<json, hist>>
    /\ lock' = "free"
    /\ tx' = TxIdle
    /\ UNCHANGED <<dir, chunk, current, writing, clock, rec, at, left>>

TransferThread ==
    \/ TxStart \/ TxHasty \/ TxSend \/ TxSkip \/ TxEmpty \/ TxUnlink \/ TxEnd
    \/ TxSaveRead \/ TxSaveWrite

-----------------------------------------------------------------------------
(* The AT thread                                                            *)

\* scan_session_ids stops once it has MaxIds; the directory holds older ones first
Collected == {s \in Listed : Cardinality({r \in Listed : r < s}) < MaxIds}

\* Entries (page - 1) * per and on, newest first
Page(ids, page, per) ==
    {s \in ids : LET newer == Cardinality({r \in ids : r > s})
                 IN  (page - 1) * per <= newer /\ newer < page * per}

\* AT+LIST, or AT+LIST?page which deletes the empty sessions it meets
AtList(page, per, purge) ==
    /\ at.pc = "ready"
    /\ at' = [AtIdle EXCEPT !.pc = "entry", !.todo = Page(Collected, page, per),
                            !.total = Cardinality(Collected), !.purge = purge]
    /\ UNCHANGED <<card, ram, clock, rec, tx, left, hist>>

\* What does not fit the reply is left out without a word
Full == Cardinality(at.out) >= Room

\* One entry of the page, newest first: reported when it has files
TakeEntry(s) ==
    /\ at.pc = "entry" /\ s \in at.todo /\ ~Full
    /\ \A r \in at.todo : r <= s

AtEntry ==
    /\ \E s \in Sessions :
         /\ TakeEntry(s)
         /\ \/ /\ dir[s] /\ FileCount(s) > 0
               /\ at' = [at EXCEPT !.todo = @ \ {s}, !.out = @ \union {s}]
            \/ /\ ~dir[s] \/ FileCount(s) = 0
               /\ ~(dir[s] /\ at.purge /\ current # s)
               /\ at' = [at EXCEPT !.todo = @ \ {s}]
    /\ UNCHANGED <<card, ram, clock, rec, tx, left, hist>>

\* Mutant: current_session_id is not looked at
DeleteStartsBlind(s, then) ==
    /\ at' = [then EXCEPT !.pc = "delete", !.s = s]
    /\ hist' = [hist EXCEPT !.doomed = @ \union {s}]

\* The ids whose session has been current_session_id, or failed to become it
Begun == {s \in 1..clock : ~(rec.pc = "json" /\ rec.s = s)}

\* storage_delete_session: -EBUSY for the current one, and no look whether there is
\* such a session
DeleteStarts(s, then) ==
    /\ s # current
    /\ at' = [then EXCEPT !.pc = "delete", !.s = s]
    /\ hist' = [hist EXCEPT !.doomed = @ \union {s}, !.bad = @ \union ({s} \ Begun)]

\* "Auto-delete empty sessions"
AtPurge ==
    /\ \E s \in Sessions :
         /\ TakeEntry(s)
         /\ at.purge /\ dir[s] /\ FileCount(s) = 0
         /\ DeleteStarts(s, [at EXCEPT !.todo = @ \ {s}])
    /\ UNCHANGED <<card, ram, clock, rec, tx, left>>

\* AT+DELETE, of any id
AtDelete ==
    /\ at.pc = "ready" /\ left.deletes > 0
    /\ left' = [left EXCEPT !.deletes = @ - 1]
    /\ \E s \in Sessions : DeleteStarts(s, AtIdle)
    /\ UNCHANGED <<card, ram, clock, rec, tx>>

\* delete_dir_contents: the group directory came first, so its chunks go first
AtDeleteChunk ==
    /\ at.pc = "delete"
    /\ \E n \in On(at.s) :
         /\ \A m \in On(at.s) : n <= m
         /\ SetChunk(at.s, n, "none")
    /\ UNCHANGED <<dir, json, ram, clock, rec, tx, at, left, hist>>

\* Mutant: session.json goes before the chunks
AtDeleteJsonFirst ==
    /\ at.pc = "delete" /\ json[at.s].there
    /\ SetJson(at.s, NoJson)
    /\ UNCHANGED <<dir, chunk, ram, clock, rec, tx, at, left, hist>>

\* The group directory is done with: a chunk that comes now stays
AtDeleteGroup ==
    /\ at.pc = "delete" /\ On(at.s) = {}
    /\ at' = [at EXCEPT !.pc = "delete_json"]
    /\ UNCHANGED <<card, ram, clock, rec, tx, left, hist>>

AtDeleteJson ==
    /\ at.pc = "delete_json"
    /\ SetJson(at.s, NoJson)
    /\ at' = [at EXCEPT !.pc = "delete_dir"]
    /\ UNCHANGED <<dir, chunk, ram, clock, rec, tx, left, hist>>

\* The directory itself; that something is in it again would only be logged
AtDeleteDir ==
    /\ at.pc = "delete_dir"
    /\ dir' = [dir EXCEPT ![at.s] = json[at.s].there \/ On(at.s) # {}]
    /\ hist' = [hist EXCEPT !.gone = @ \union {at.s}]
    /\ at' = IF at.purge THEN [at EXCEPT !.pc = "entry", !.s = None] ELSE AtIdle
    /\ UNCHANGED <<json, chunk, ram, clock, rec, tx, left>>

\* The answer goes out
AtDone ==
    /\ at.pc = "entry" /\ (at.todo = {} \/ Full)
    /\ at' = AtIdle
    /\ UNCHANGED <<card, ram, clock, rec, tx, left, hist>>

Deleting == \/ AtPurge \/ AtDelete
            \/ AtDeleteChunk \/ AtDeleteGroup \/ AtDeleteJson \/ AtDeleteDir

-----------------------------------------------------------------------------
(* Power                                                                    *)

\* RAM is lost; the directory entry of a chunk just created may be as well
PowerCut ==
    /\ left.cuts > 0
    /\ left' = [left EXCEPT !.cuts = @ - 1]
    /\ current' = None /\ writing' = NotWriting /\ lock' = "free"
    /\ rec' = RecIdle /\ tx' = TxIdle /\ at' = AtIdle
    /\ IF rec.pc = "record"
       THEN \E c \in {"none", chunk[rec.s][rec.n]} : SetChunk(rec.s, rec.n, c)
       ELSE UNCHANGED chunk
    /\ UNCHANGED <<dir, json, clock, hist>>

Next ==
    \/ AudioThread \/ TransferThread
    \/ \E page \in 1..(MaxSession + 1), per \in PerPages, purge \in BOOLEAN :
         AtList(page, per, purge)
    \/ AtEntry \/ AtDone \/ Deleting
    \/ PowerCut

Spec == Init /\ [][Next]_vars

-----------------------------------------------------------------------------
(* Properties                                                               *)

RecPcs == {"idle", "json", "file", "record", "flush", "closed", "finish"}
TxPcs  == {"idle", "send", "unlink", "save", "write"}
AtPcs  == {"ready", "entry", "delete", "delete_json", "delete_dir"}
DeletePcs == {"delete", "delete_json", "delete_dir"}

RecType == [pc : RecPcs, s : Ids, n : Nat, read : Json]
TxType  == [pc : TxPcs, s : Ids, i : Nat, ok : Nat, read : Json,
            hasty : BOOLEAN]
AtType  == [pc : AtPcs, s : Ids, todo : SUBSET Sessions, out : SUBSET Sessions,
            total : Nat, purge : BOOLEAN]
File    == [s : Ids, n : Nat]
History == [ready : SUBSET File, saved : [Sessions -> Nat], fin : [Sessions -> Nat],
            doomed : SUBSET Sessions, gone : SUBSET Sessions, bad : SUBSET Sessions,
            taken : SUBSET File]

\* Every variable keeps to its C type, or to the outcomes modelled, and a thread
\* that is past its start has a session and a chunk
StoreTypeOK ==
    /\ dir \in [Sessions -> BOOLEAN] /\ json \in [Sessions -> Json]
    /\ chunk \in [Sessions -> [Chunks -> ChunkStates]]
    /\ current \in Ids /\ writing \in File /\ lock \in {"free", "rec", "tx"}
    /\ clock \in 0..MaxSession
    /\ rec \in RecType /\ tx \in TxType /\ at \in AtType
    /\ rec.pc # "idle" => rec.s \in Sessions /\ rec.n \in Chunks
    /\ tx.pc # "idle" => tx.s \in Sessions
    /\ at.pc \in DeletePcs => at.s \in Sessions
    /\ left \in Budget /\ hist \in History

\* What the properties leave out, all of it things the code does:
\*   - hist.bad, sessions a write on which failed, and sessions that AT+DELETE took
\*     before they were current_session_id (storage.c:1530 passed before :609);
\*   - hist.taken, chunks a transfer found with size 0 while they were written, not
\*     having waited for the writer (TxHasty).

\* A chunk announced as closed is on the card with all that was recorded, and
\* stays so through power cuts, until somebody deletes its session
ClosedSurvive ==
    \A f \in hist.ready \ hist.taken :
        f.s \notin hist.doomed => chunk[f.s][f.n] = "whole"

\* "Don't delete current recording session": while a session is recorded, no
\* listing, AT+DELETE or transfer takes its directory, session.json or chunks
Opened(n) == n < rec.n \/ (n = rec.n /\ rec.pc \in {"record", "flush"})
RecordingKept ==
    rec.pc \notin {"idle", "json"} /\ rec.s \notin hist.bad =>
        /\ dir[rec.s] /\ json[rec.s].there
        /\ \A n \in Chunks : Opened(n) /\ [s |-> rec.s, n |-> n] \notin hist.taken
                            => chunk[rec.s][n] # "none"

\* The two threads that rewrite session.json lose neither's update: the synced
\* count stays what was stored last, a finished session stays finished
NoLostUpdate ==
    \A s \in Listed \ hist.bad :
        /\ json[s].synced = hist.saved[s]
        /\ hist.fin[s] > 0 => ~json[s].rec /\ json[s].files = hist.fin[s]

\* No recorded audio becomes unreachable: a session that has a chunk is listed,
\* and what its session.json counts covers the chunk, whenever power goes
ChunksReachable ==
    \A s \in Sessions \ hist.bad : On(s) # {} =>
        /\ json[s].there
        /\ json[s].files > 0 => On(s) \subseteq 1..json[s].files

\* A session deleted to the end stays deleted, whoever was about to write to it
DeletedStaysDeleted ==
    \A s \in hist.gone \ hist.bad : ~json[s].there /\ On(s) = {} /\ ~dir[s]
=============================================================================
