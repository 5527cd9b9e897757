------------------------------ MODULE ListSync ------------------------------
(***************************************************************************)
(* How a host learns which sessions are on the device: it pages through      *)
(* AT+LIST while the device records, transfers and deletes (SessionStore).    *)
(*   "app": syncDeviceFileIndex of the mobile app's device_controller.dart;   *)
(*   "sdk": list_all_sessions of the Python SDK's client.py.                  *)
(***************************************************************************)
EXTENDS SessionStore, FiniteSetsExt

CONSTANTS
    Clients,    \* those of "app" and "sdk" this instance looks at
    HostBudgets \* bounds, one is chosen: synchronisations, replies lost

ASSUME ListSyncAssumption ==
    Clients \subseteq {"app", "sdk"} /\ HostBudgets \subseteq [syncs : Nat, lost : Nat]

VARIABLES
    who,    \* the client
    host,   \* where it is, the page, its size and first entry, entries so far,
            \* their sessions, the first page's total
    held,   \* history: sessions with files on the card since the sync began
    calm,   \* history: no empty session, deletion, power cut or loss met since
    todo    \* what is left of the bounds

hostVars  == <<who, host, held, calm, todo>>
syncVars  == <<vars, hostVars>>

HostIdle == [pc |-> "idle", page |-> 1, per |-> 0, first |-> None, count |-> 0,
             seen |-> {}, total |-> 0]

WithFiles == {s \in Listed : FileCount(s) > 0}

SyncInit ==
    /\ Init
    /\ who \in Clients /\ host = HostIdle
    /\ held = {} /\ calm = FALSE
    /\ todo \in HostBudgets

SyncStart ==
    /\ host.pc = "idle" /\ todo.syncs > 0
    /\ todo' = [todo EXCEPT !.syncs = @ - 1]
    /\ \E per \in PerPages : host' = [HostIdle EXCEPT !.pc = "send", !.per = per]
    /\ held' = WithFiles
    /\ calm' = (Cardinality(Listed) <= MaxIds /\ at.pc = "ready")
    /\ UNCHANGED <<vars, who>>

\* Page 1 of ten is asked for as AT+LIST, which skips empty sessions; the other
\* forms delete them
SyncSend ==
    /\ host.pc = "send"
    /\ AtList(host.page, host.per, who = "sdk" \/ host.page > 1)
    /\ host' = [host EXCEPT !.pc = "wait", !.first = Max(at'.todo \union {None})]
    /\ UNCHANGED <<who, todo>>

\* The entries are counted as they come, a session met twice counts twice
Counted == host.count + Cardinality(at.out)

\* Mutants: the total of the first page is kept; only the total ends the paging
LastPageCached ==
    \/ at.out = {} \/ Counted >= (IF host.page = 1 THEN at.total ELSE host.total)
    \/ who = "app" /\ Cardinality(at.out) < host.per
LastPageTotal == Counted >= at.total

\* The page is empty, the total is reached, or (app) the page is short
LastPage ==
    \/ at.out = {} \/ Counted >= at.total
    \/ who = "app" /\ Cardinality(at.out) < host.per

\* No reply: the app goes on with what it has, the SDK gives up
GiveUp == host' = IF who = "app" THEN [host EXCEPT !.pc = "done"] ELSE HostIdle

\* A comma goes before every entry but the page's first: with that one deleted
\* the reply is no JSON
Garbled == at.purge /\ at.out # {} /\ host.first \notin at.out

SyncReply ==
    /\ host.pc = "wait"
    /\ AtDone
    /\ \/ Garbled /\ GiveUp
       \/ /\ ~Garbled
          /\ host' = [host EXCEPT !.pc = IF LastPage THEN "done" ELSE "send",
                                  !.page = IF @ <= MaxSession THEN @ + 1 ELSE @,
                                  !.count = IF @ <= MaxSession THEN Counted ELSE @,
                                  !.seen = @ \union at.out,
                                  !.total = IF host.page = 1 THEN at.total ELSE @]
    /\ UNCHANGED <<who, todo>>

\* A timeout or a lost link
SyncLost ==
    /\ host.pc \in {"send", "wait"} /\ todo.lost > 0
    /\ todo' = [todo EXCEPT !.lost = @ - 1]
    /\ GiveUp
    /\ UNCHANGED <<vars, who>>

\* The timeout of a command that went with the power
SyncTimeout ==
    /\ host.pc = "wait" /\ at.pc = "ready"
    /\ GiveUp
    /\ UNCHANGED <<vars, who, todo>>

\* The answer to a command nobody waits for any more
LateReply ==
    /\ host.pc # "wait"
    /\ AtDone
    /\ UNCHANGED <<who, host, todo>>

\* The host has its list; the app now takes what is not in it for deleted
SyncDone ==
    /\ host.pc = "done"
    /\ host' = HostIdle
    /\ UNCHANGED <<vars, who, held, calm, todo>>

\* What the device does meanwhile
Device ==
    /\ AudioThread \/ TransferThread \/ AtEntry \/ Deleting \/ PowerCut
    /\ UNCHANGED <<who, host, todo>>

\* The history follows the card
Follow ==
    /\ held' = held \intersect WithFiles'
    /\ calm' = /\ calm /\ host'.pc # "idle"
               /\ Cardinality(Listed') <= MaxIds
               /\ at'.pc \notin DeletePcs
               /\ left'.cuts = left.cuts /\ todo'.lost = todo.lost
               /\ at.pc = "entry" /\ at.todo # at'.todo => at.out # at'.out

SyncNext ==
    \/ SyncStart \/ SyncDone
    \/ SyncSend /\ Follow
    \/ SyncReply /\ Follow
    \/ SyncLost /\ Follow
    \/ SyncTimeout /\ Follow
    \/ LateReply /\ Follow
    \/ Device /\ Follow

\* The AT thread serves its queue and the host its replies; nothing is assumed
\* of the recorder, the transfer or the power
AtWorks  == /\ \/ AtEntry \/ AtPurge
               \/ AtDeleteChunk \/ AtDeleteGroup \/ AtDeleteJson \/ AtDeleteDir
            /\ UNCHANGED <<who, host, todo>> /\ Follow

SyncSpec ==
    /\ SyncInit /\ [][SyncNext]_syncVars
    /\ WF_syncVars(AtWorks)
    /\ WF_syncVars(SyncSend /\ Follow) /\ WF_syncVars(SyncReply /\ Follow)
    /\ WF_syncVars(LateReply /\ Follow) /\ WF_syncVars(SyncTimeout /\ Follow)
    /\ WF_syncVars(SyncDone)

-----------------------------------------------------------------------------
(* Properties                                                               *)

\* When nothing is deleted or empty and no reply is lost, a sync finds every
\* session that was there all along, though recordings that begin meanwhile
\* shift the pages under it
CalmSyncIsComplete == host.pc = "done" /\ calm => held \subseteq host.seen

\* Paging comes to an end, though total counts empty sessions no page shows
SyncEnds == host.pc # "idle" ~> host.pc = "idle"
=============================================================================
