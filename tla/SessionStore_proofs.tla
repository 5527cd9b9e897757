------------------------- MODULE SessionStore_proofs -------------------------
(***************************************************************************)
(* Theorems about SessionStore, for any number of sessions and chunks, any   *)
(* page size and any bounds.                                                 *)
(***************************************************************************)
EXTENDS SessionStore, FiniteSetTheorems, TLAPS

-----------------------------------------------------------------------------
(* Records and counts                                                       *)

LEMMA JsonTypes ==
  /\ NoJson \in Json /\ Blank \in Json /\ Fresh \in Json
  /\ \A j \in Json, k \in Nat :
        /\ [j EXCEPT !.synced = k] \in Json
        /\ [j EXCEPT !.synced = k].there = j.there
        /\ [j EXCEPT !.synced = k].files = j.files
        /\ [j EXCEPT !.synced = k].synced = k
        /\ [j EXCEPT !.synced = k].rec = j.rec
  /\ \A n, k \in Nat :
        [there |-> TRUE, files |-> n, synced |-> k, rec |-> FALSE] \in Json
  /\ \A j \in Json : j.files \in Nat /\ j.synced \in Nat
<1>1. NoJson \in Json /\ Blank \in Json /\ Fresh \in Json
  BY DEF NoJson, Blank, Fresh, Json
<1>2. ASSUME NEW j \in Json, NEW k \in Nat
      PROVE  /\ [j EXCEPT !.synced = k] \in Json
             /\ [j EXCEPT !.synced = k].there = j.there
             /\ [j EXCEPT !.synced = k].files = j.files
             /\ [j EXCEPT !.synced = k].synced = k
             /\ [j EXCEPT !.synced = k].rec = j.rec
  BY DEF Json
<1>3. \A n, k \in Nat :
        [there |-> TRUE, files |-> n, synced |-> k, rec |-> FALSE] \in Json
  BY DEF Json
<1>4. \A j \in Json : j.files \in Nat /\ j.synced \in Nat
  BY DEF Json
<1> QED
  BY <1>1, <1>2, <1>3, <1>4

LEMMA Counts ==
  ASSUME StoreTypeOK
  PROVE  /\ \A s \in Sessions : FileCount(s) \in Nat
         /\ \A s \in Sessions : (json[s].files = 0 /\ On(s) = {}) => FileCount(s) = 0
         /\ Cardinality(Collected) \in Nat
<1>1. IsFiniteSet(Sessions) /\ IsFiniteSet(Chunks)
  BY SessionStoreAssumption, FS_Interval DEF Sessions, Chunks
<1>2. Collected \subseteq Sessions
  BY DEF Collected, Listed
<1>3. Cardinality(Collected) \in Nat
  BY <1>1, <1>2, FS_Subset, FS_CardinalityType
<1>4. ASSUME NEW s \in Sessions PROVE Cardinality(On(s)) \in Nat
  <2>1. On(s) \subseteq Chunks
    BY DEF On
  <2> QED
    BY <1>1, <2>1, FS_Subset, FS_CardinalityType
<1>5. \A s \in Sessions : json[s].files \in Nat
  BY JsonTypes DEF StoreTypeOK
<1>6. Cardinality({}) = 0
  BY FS_EmptySet
<1> QED
  BY <1>3, <1>4, <1>5, <1>6 DEF FileCount

-----------------------------------------------------------------------------
(* Types                                                                    *)

LEMMA StoreTypeInit == Init => StoreTypeOK
<1> SUFFICES ASSUME Init PROVE StoreTypeOK
  OBVIOUS
<1> USE SessionStoreAssumption
<1>1. 1 \in Chunks /\ 0 \in Ids /\ Sessions \subseteq Ids
  BY DEF Chunks, Ids, None
<1>2. dir \in [Sessions -> BOOLEAN]
  BY DEF Init
<1>3. json \in [Sessions -> Json]
  <2>1. [Blank EXCEPT !.files = 1] \in Json
    BY DEF Blank, NoJson, Json
  <2> QED
    BY <2>1, JsonTypes DEF Init
<1>4. chunk \in [Sessions -> [Chunks -> ChunkStates]]
  BY DEF Init, ChunkStates
<1>5. hist \in History
  BY DEF Init, History
<1>6. rec \in RecType /\ tx \in TxType /\ at \in AtType
  BY <1>1, JsonTypes DEF Init, RecIdle, TxIdle, AtIdle, RecType, TxType, AtType, None,
                        RecPcs, TxPcs, AtPcs
<1>7. writing \in File /\ current \in Ids
  BY <1>1 DEF Init, NotWriting, File, None
<1>8. left \in Budget
  BY DEF Init
<1> QED
  BY <1>2, <1>3, <1>4, <1>5, <1>6, <1>7, <1>8
     DEF Init, StoreTypeOK, RecIdle, TxIdle, AtIdle, DeletePcs

\* What an update of a record or a function yields
LEMMA RecUpdates ==
  ASSUME NEW r \in RecType, NEW p \in RecPcs, NEW s \in Ids, NEW n \in Nat, NEW j \in Json
  PROVE  /\ [r EXCEPT !.pc = p] \in RecType
         /\ [r EXCEPT !.pc = p, !.n = n] \in RecType
         /\ [r EXCEPT !.pc = p, !.read = j] \in RecType
         /\ [r EXCEPT !.pc = p, !.s = s, !.n = n] \in RecType
  BY DEF RecType

LEMMA HistUpdates ==
  ASSUME NEW h \in History, NEW s \in Sessions, NEW k \in Nat, NEW f \in File
  PROVE  /\ [h EXCEPT !.ready = @ \union {f}] \in History
         /\ [h EXCEPT !.saved[s] = k] \in History
         /\ [h EXCEPT !.fin[s] = k] \in History
         /\ [h EXCEPT !.doomed = @ \union {s}] \in History
         /\ [h EXCEPT !.gone = @ \union {s}] \in History
         /\ [h EXCEPT !.bad = @ \union {s}] \in History
         /\ [h EXCEPT !.taken = @ \union {f}] \in History
  BY DEF History

LEMMA LeftUpdates ==
  ASSUME NEW b \in Budget
  PROVE  /\ b.cuts > 0 => [b EXCEPT !.cuts = @ - 1] \in Budget
         /\ b.faults > 0 => [b EXCEPT !.faults = @ - 1] \in Budget
         /\ b.deletes > 0 => [b EXCEPT !.deletes = @ - 1] \in Budget
         /\ b.downloads > 0 => [b EXCEPT !.downloads = @ - 1] \in Budget
         /\ b.hasty > 0 => [b EXCEPT !.hasty = @ - 1] \in Budget
  BY DEF Budget

LEMMA Put ==
  ASSUME NEW S, NEW T, NEW f \in [S -> T], NEW s \in S, NEW v \in T
  PROVE  /\ [f EXCEPT ![s] = v] \in [S -> T] /\ [f EXCEPT ![s] = v][s] = v
         /\ \A r \in S : r # s => [f EXCEPT ![s] = v][r] = f[r]
  OBVIOUS

LEMMA PutChunk ==
  ASSUME chunk \in [Sessions -> [Chunks -> ChunkStates]],
         NEW s \in Sessions, NEW n \in Chunks, NEW c \in ChunkStates, SetChunk(s, n, c)
  PROVE  /\ chunk' \in [Sessions -> [Chunks -> ChunkStates]] /\ chunk'[s][n] = c
         /\ \A r \in Sessions, m \in Chunks : r # s \/ m # n => chunk'[r][m] = chunk[r][m]
  BY DEF SetChunk

LEMMA PutJson ==
  ASSUME json \in [Sessions -> Json], NEW s \in Sessions, NEW j \in Json, SetJson(s, j)
  PROVE  /\ json' \in [Sessions -> Json] /\ json'[s] = j
         /\ \A r \in Sessions : r # s => json'[r] = json[r]
  BY DEF SetJson

LEMMA IdleTypes ==
  /\ RecIdle \in RecType /\ TxIdle \in TxType /\ AtIdle \in AtType
  /\ NotWriting \in File /\ None \in Ids /\ Sessions \subseteq Ids /\ Chunks \subseteq Nat
  BY JsonTypes, SessionStoreAssumption
     DEF RecIdle, TxIdle, AtIdle, RecType, TxType, AtType, RecPcs, TxPcs, AtPcs, NotWriting,
         File, Ids, None, Chunks, Sessions

LEMMA DirType ==
  ASSUME StoreTypeOK, [Next]_vars
  PROVE  dir' \in [Sessions -> BOOLEAN] /\ clock' \in 0..MaxSession
<1>1. CASE RecCreateDirs
  <2>1. clock + 1 \in Sessions /\ clock' = clock + 1
    BY <1>1, SessionStoreAssumption DEF RecCreateDirs, StoreTypeOK, Sessions
  <2>2. dir \in [Sessions -> BOOLEAN] /\ dir' = [dir EXCEPT ![clock + 1] = TRUE]
    BY <1>1 DEF RecCreateDirs, StoreTypeOK
  <2>3. dir' \in [Sessions -> BOOLEAN]
    BY <2>1, <2>2, Put, Zenon
  <2> QED
    BY <2>1, <2>3, SessionStoreAssumption DEF Sessions
<1>2. CASE AtDeleteDir
  BY <1>2 DEF AtDeleteDir, StoreTypeOK
<1>3. CASE UNCHANGED <<dir, clock>>
  BY <1>3 DEF StoreTypeOK
<1> QED
  BY <1>1, <1>2, <1>3
     DEF Next, AudioThread, TransferThread, Deleting, TxEmpty, TxHasty, RecCreateJson,
         RecCreateFile, RecCloseFile, RecAnnounce, RecNextFile, RecFinishRead,
         RecFinishWrite, TxStart, TxSend, TxSkip, TxUnlink, TxEnd, TxSaveRead,
         TxSaveWrite, AtEntry, AtPurge, AtDelete, AtDeleteChunk, AtDeleteJson, AtDone,
         PowerCut, AtList, AtDeleteGroup, vars, card

LEMMA JsonType ==
  ASSUME StoreTypeOK, [Next]_vars
  PROVE  json' \in [Sessions -> Json]
<1>1. CASE RecCreateJson
  BY <1>1, JsonTypes DEF RecCreateJson, SetJson, StoreTypeOK
<1>2. CASE RecFinishWrite
  <2>1. rec.s \in Sessions /\ rec.n \in Nat /\ rec.read.synced \in Nat
    BY <1>2, JsonTypes, IdleTypes DEF RecFinishWrite, StoreTypeOK, RecType
  <2> DEFINE j == [there |-> TRUE, files |-> rec.n, synced |-> rec.read.synced, rec |-> FALSE]
  <2>2. j \in Json
    BY <2>1, JsonTypes
  <2>3. SetJson(rec.s, j) \/ UNCHANGED json
    BY <1>2 DEF RecFinishWrite
  <2> HIDE DEF j
  <2> QED
    BY <2>1, <2>2, <2>3, PutJson DEF StoreTypeOK
<1>3. CASE TxSaveWrite
  BY <1>3, JsonTypes DEF TxSaveWrite, SetJson, StoreTypeOK, TxType
<1>4. CASE AtDeleteJson
  BY <1>4, JsonTypes DEF AtDeleteJson, SetJson, StoreTypeOK
<1>5. CASE UNCHANGED json
  BY <1>5 DEF StoreTypeOK
<1> QED
  BY <1>1, <1>2, <1>3, <1>4, <1>5
     DEF Next, AudioThread, TransferThread, Deleting, TxEmpty, TxHasty, RecCreateDirs,
         RecCreateFile, RecCloseFile, RecAnnounce, RecNextFile, RecFinishRead, TxStart,
         TxSend, TxSkip, TxUnlink, TxEnd, TxSaveRead, AtEntry, AtPurge, AtDelete,
         AtDeleteChunk, AtDeleteDir, AtDone, PowerCut, AtList, AtDeleteGroup, vars, card

LEMMA ChunkType ==
  ASSUME StoreTypeOK, [Next]_vars
  PROVE  chunk' \in [Sessions -> [Chunks -> ChunkStates]]
<1>1. CASE RecCreateFile
  BY <1>1, PutChunk DEF RecCreateFile, StoreTypeOK, ChunkStates
<1>2. CASE RecCloseFile
  BY <1>2, PutChunk DEF RecCloseFile, StoreTypeOK, ChunkStates
<1>3. CASE TxUnlink
  BY <1>3 DEF TxUnlink, SetChunk, StoreTypeOK, ChunkStates
<1>4. CASE AtDeleteChunk
  BY <1>4 DEF AtDeleteChunk, On, SetChunk, StoreTypeOK, ChunkStates, DeletePcs
<1>5. CASE PowerCut
  <2>1. CASE rec.pc = "record"
    <3>1. rec.s \in Sessions /\ rec.n \in Chunks
      BY <2>1 DEF StoreTypeOK
    <3>2. chunk \in [Sessions -> [Chunks -> ChunkStates]] /\ chunk[rec.s][rec.n] \in ChunkStates
      BY <3>1 DEF StoreTypeOK
    <3>3. PICK c \in {"none", chunk[rec.s][rec.n]} : SetChunk(rec.s, rec.n, c)
      BY <1>5, <2>1 DEF PowerCut
    <3> QED
      BY <3>1, <3>2, <3>3, PutChunk DEF ChunkStates
  <2> QED
    BY <1>5, <2>1 DEF PowerCut, StoreTypeOK
<1>6. CASE UNCHANGED chunk
  BY <1>6 DEF StoreTypeOK
<1> QED
  BY <1>1, <1>2, <1>3, <1>4, <1>5, <1>6
     DEF Next, AudioThread, TransferThread, Deleting, TxEmpty, TxHasty, RecCreateDirs,
         RecCreateJson, RecAnnounce, RecNextFile, RecFinishRead, RecFinishWrite,
         TxStart, TxSend, TxSkip, TxEnd, TxSaveRead, TxSaveWrite, AtEntry, AtPurge,
         AtDelete, AtDeleteJson, AtDeleteDir, AtDone, AtList, AtDeleteGroup, vars, card

LEMMA RamType ==
  ASSUME StoreTypeOK, [Next]_vars
  PROVE  current' \in Ids /\ writing' \in File /\ lock' \in {"free", "rec", "tx"}
<1>1. CASE RecCreateJson
  BY <1>1, IdleTypes DEF RecCreateJson, StoreTypeOK
<1>2. CASE RecCreateFile
  BY <1>2, IdleTypes DEF RecCreateFile, StoreTypeOK, File
<1>3. CASE RecAnnounce \/ RecFinishRead \/ RecFinishWrite \/ PowerCut
  BY <1>3, IdleTypes
     DEF RecAnnounce, RecFinishRead, RecFinishWrite, PowerCut, StoreTypeOK, ram
<1>4. CASE TxSaveRead \/ TxSaveWrite
  BY <1>4 DEF TxSaveRead, TxSaveWrite, StoreTypeOK
<1>5. CASE UNCHANGED ram
  BY <1>5 DEF StoreTypeOK, ram
<1> QED
  BY <1>1, <1>2, <1>3, <1>4, <1>5
     DEF Next, AudioThread, TransferThread, Deleting, TxEmpty, TxHasty, RecCreateDirs,
         RecCloseFile, RecNextFile, TxStart, TxSend, TxSkip, TxUnlink, TxEnd, AtEntry,
         AtPurge, AtDelete, AtDeleteChunk, AtDeleteJson, AtDeleteDir, AtDone, AtList,
         AtDeleteGroup, vars, ram

\* A thread past its start has a session and a chunk
RecOK == rec \in RecType /\ (rec.pc # "idle" => rec.s \in Sessions /\ rec.n \in Chunks)
TxOK  == tx \in TxType /\ (tx.pc # "idle" => tx.s \in Sessions)
AtOK  == at \in AtType /\ (at.pc \in DeletePcs => at.s \in Sessions)

LEMMA RecTypeStep ==
  ASSUME StoreTypeOK, [Next]_vars
  PROVE  RecOK'
<1>1. CASE RecCreateDirs
  <2>1. clock + 1 \in Sessions /\ 1 \in Chunks
    BY <1>1, SessionStoreAssumption DEF RecCreateDirs, StoreTypeOK, Sessions, Chunks
  <2>2. rec' = [RecIdle EXCEPT !.pc = "json", !.s = clock + 1, !.n = 1]
    BY <1>1 DEF RecCreateDirs
  <2>3. rec' \in RecType
    BY <2>1, <2>2, IdleTypes, RecUpdates, JsonTypes DEF RecPcs
  <2>4. rec'.s = clock + 1 /\ rec'.n = 1
    BY <2>2 DEF RecIdle
  <2> QED
    BY <2>1, <2>3, <2>4 DEF RecOK
<1>2. CASE RecCreateFile
  <2>1. rec \in RecType /\ rec.s \in Sessions /\ rec.n \in Chunks
    BY <1>2 DEF RecCreateFile, StoreTypeOK
  <2>2. CASE RecGoto("record")
    BY <2>1, <2>2 DEF RecGoto, RecOK, RecType, RecPcs
  <2>3. CASE rec' = [rec EXCEPT !.pc = "closed", !.n = IF @ = 1 THEN 1 ELSE @ - 1]
    <3> DEFINE n == IF rec.n = 1 THEN 1 ELSE rec.n - 1
    <3>1. n \in Chunks /\ n \in Nat
      BY <2>1, SessionStoreAssumption DEF Chunks
    <3>2. rec' = [rec EXCEPT !.pc = "closed", !.n = n]
      BY <2>3
    <3> HIDE DEF n
    <3> QED
      BY <2>1, <3>1, <3>2 DEF RecOK, RecType, RecPcs
  <2> QED
    BY <1>2, <2>2, <2>3 DEF RecCreateFile
<1>3. CASE RecCreateJson \/ RecCloseFile \/ RecAnnounce
  BY <1>3 DEF RecCreateJson, RecCloseFile, RecAnnounce, RecGoto, RecOK, StoreTypeOK, RecType, RecPcs
<1>4. CASE RecNextFile
  <2>1. rec \in RecType /\ rec.s \in Sessions /\ rec.n + 1 \in Chunks /\ rec.n + 1 \in Nat
    BY <1>4, SessionStoreAssumption DEF RecNextFile, StoreTypeOK, Chunks
  <2>2. rec' = [rec EXCEPT !.pc = "file", !.n = rec.n + 1]
    BY <1>4 DEF RecNextFile
  <2> QED
    BY <2>1, <2>2 DEF RecOK, RecType, RecPcs
<1>5. CASE RecFinishRead
  BY <1>5 DEF RecFinishRead, RecOK, StoreTypeOK, RecType, RecPcs
<1>6. CASE RecFinishWrite \/ PowerCut
  BY <1>6, IdleTypes DEF RecFinishWrite, PowerCut, RecOK, RecIdle
<1>7. CASE UNCHANGED rec
  BY <1>7 DEF RecOK, StoreTypeOK
<1> QED
  BY <1>1, <1>2, <1>3, <1>4, <1>5, <1>6, <1>7
     DEF Next, AudioThread, TransferThread, Deleting, TxEmpty, TxHasty, TxStart, TxSend,
         TxSkip, TxUnlink, TxEnd, TxSaveRead, TxSaveWrite, AtEntry, AtPurge, AtDelete,
         AtDeleteChunk, AtDeleteJson, AtDeleteDir, AtDone, AtList, AtDeleteGroup, vars

LEMMA TxTypeStep ==
  ASSUME StoreTypeOK, [Next]_vars
  PROVE  TxOK'
<1>1. CASE TxStart
  <2>1. PICK s \in Sessions : \E i \in 0..(FileCount(s) - 1) :
           tx' = [TxIdle EXCEPT !.pc = "send", !.s = s, !.i = i]
    BY <1>1 DEF TxStart
  <2>2. 0..(FileCount(s) - 1) \subseteq Nat
    BY Counts
  <2>3. PICK i \in 0..(FileCount(s) - 1) : tx' = [TxIdle EXCEPT !.pc = "send", !.s = s, !.i = i]
    BY <2>1
  <2>4. i \in Nat
    BY <2>2, <2>3
  <2> QED
    BY <2>3, <2>4, IdleTypes, JsonTypes DEF TxOK, TxIdle, TxType, TxPcs
<1>2. CASE TxSend \/ TxSkip \/ TxHasty
  BY <1>2, IdleTypes DEF TxSend, TxSkip, TxHasty, TxOK, StoreTypeOK, TxType
<1>3. CASE TxEmpty \/ TxUnlink \/ TxEnd \/ TxSaveRead \/ TxSaveWrite \/ PowerCut
  BY <1>3, IdleTypes
     DEF TxEmpty, TxUnlink, TxEnd, TxSaveRead, TxSaveWrite, PowerCut, TxOK, StoreTypeOK,
         TxType, TxPcs, TxIdle
<1>4. CASE UNCHANGED tx
  BY <1>4 DEF TxOK, StoreTypeOK
<1> QED
  BY <1>1, <1>2, <1>3, <1>4
     DEF Next, AudioThread, TransferThread, Deleting, TxEmpty, TxHasty, RecCreateDirs,
         RecCreateJson, RecCreateFile, RecCloseFile, RecAnnounce, RecNextFile,
         RecFinishRead, RecFinishWrite, AtEntry, AtPurge, AtDelete, AtDeleteChunk,
         AtDeleteJson, AtDeleteDir, AtDone, AtList, AtDeleteGroup, vars

LEMMA AtTypeStep ==
  ASSUME StoreTypeOK, [Next]_vars
  PROVE  AtOK'
<1>1. ASSUME NEW page \in 1..(MaxSession + 1), NEW per \in PerPages,
             NEW purge \in BOOLEAN, AtList(page, per, purge)
      PROVE  AtOK'
  BY <1>1, Counts, IdleTypes DEF AtList, Page, Collected, Listed, AtOK, AtType, AtPcs, AtIdle,
                               DeletePcs
<1>2. CASE AtEntry
  <2>1. at \in AtType /\ at.pc = "entry"
    BY <1>2 DEF AtEntry, TakeEntry, StoreTypeOK
  <2>2. PICK s \in Sessions : \/ at' = [at EXCEPT !.todo = @ \ {s}, !.out = @ \union {s}]
                              \/ at' = [at EXCEPT !.todo = @ \ {s}]
    BY <1>2 DEF AtEntry
  <2>3. at.todo \ {s} \in SUBSET Sessions /\ at.out \union {s} \in SUBSET Sessions
    BY <2>1 DEF AtType
  <2>4. at' \in AtType
    BY <2>1, <2>2, <2>3 DEF AtType
  <2>5. at'.pc = "entry"
    BY <2>1, <2>2 DEF AtType
  <2> QED
    BY <2>4, <2>5 DEF AtOK, DeletePcs
<1>3. CASE AtPurge \/ AtDelete
  <2>1. at \in AtType /\ AtIdle \in AtType
    BY IdleTypes DEF StoreTypeOK
  <2>2. PICK s \in Sessions : \/ DeleteStarts(s, [at EXCEPT !.todo = @ \ {s}])
                              \/ DeleteStarts(s, AtIdle)
    BY <1>3 DEF AtPurge, AtDelete, Listed
  <2>3. [at EXCEPT !.todo = @ \ {s}] \in AtType
    BY <2>1 DEF AtType
  <2>4. PICK a \in AtType : at' = [a EXCEPT !.pc = "delete", !.s = s]
    BY <2>1, <2>2, <2>3 DEF DeleteStarts
  <2> QED
    BY <2>4, IdleTypes DEF AtOK, AtType, AtPcs, DeletePcs
<1>4. CASE AtDeleteGroup \/ AtDeleteJson \/ AtDeleteDir
  <2>1. at \in AtType /\ at.s \in Sessions
    BY <1>4 DEF AtDeleteGroup, AtDeleteJson, AtDeleteDir, StoreTypeOK, DeletePcs
  <2>2. \/ at' = [at EXCEPT !.pc = "delete_json"]
        \/ at' = [at EXCEPT !.pc = "delete_dir"]
        \/ at' = [at EXCEPT !.pc = "entry", !.s = None]
        \/ at' = AtIdle
    BY <1>4 DEF AtDeleteGroup, AtDeleteJson, AtDeleteDir
  <2>3. AtIdle.pc = "ready"
    BY DEF AtIdle
  <2> QED
    BY <2>1, <2>2, <2>3, IdleTypes DEF AtOK, AtType, AtPcs, DeletePcs
<1>5. CASE AtDone \/ PowerCut
  <2>1. at' = AtIdle /\ AtIdle.pc = "ready"
    BY <1>5 DEF AtDone, PowerCut, AtIdle
  <2> QED
    BY <2>1, IdleTypes DEF AtOK, DeletePcs
<1>6. CASE UNCHANGED at
  BY <1>6 DEF AtOK, StoreTypeOK
<1> QED
  BY <1>1, <1>2, <1>3, <1>4, <1>5, <1>6
     DEF Next, AudioThread, TransferThread, Deleting, TxEmpty, TxHasty, RecCreateDirs,
         RecCreateJson, RecCreateFile, RecCloseFile, RecAnnounce, RecNextFile,
         RecFinishRead, RecFinishWrite, TxStart, TxSend, TxSkip, TxUnlink, TxEnd,
         TxSaveRead, TxSaveWrite, AtDeleteChunk, AtDeleteGroup, vars

LEMMA LeftType ==
  ASSUME StoreTypeOK, [Next]_vars
  PROVE  left' \in Budget
<1>1. CASE TxStart \/ TxHasty \/ AtDelete \/ PowerCut
  BY <1>1, LeftUpdates DEF TxStart, TxHasty, AtDelete, PowerCut, StoreTypeOK
<1>2. CASE RecCreateJson \/ RecCreateFile \/ RecCloseFile \/ RecFinishWrite
  BY <1>2 DEF RecCreateJson, RecCreateFile, RecCloseFile, RecFinishWrite, Fault, NoFault,
              StoreTypeOK, Budget
<1>3. CASE UNCHANGED left
  BY <1>3 DEF StoreTypeOK
<1> QED
  BY <1>1, <1>2, <1>3
     DEF Next, AudioThread, TransferThread, Deleting, TxEmpty, TxHasty, RecCreateDirs,
         RecAnnounce, RecNextFile, RecFinishRead, TxSend, TxSkip, TxUnlink, TxEnd,
         TxSaveRead, TxSaveWrite, AtEntry, AtPurge, AtDeleteChunk, AtDeleteJson,
         AtDeleteDir, AtDone, AtList, AtDeleteGroup, vars

LEMMA HistType ==
  ASSUME StoreTypeOK, [Next]_vars
  PROVE  hist' \in History
<1>1. CASE RecCreateJson \/ RecCreateFile \/ RecCloseFile
  BY <1>1, HistUpdates, IdleTypes
     DEF RecCreateJson, RecCreateFile, RecCloseFile, Fault, NoFault, StoreTypeOK
<1>2. CASE RecAnnounce
  <2>1. hist \in History /\ [s |-> rec.s, n |-> rec.n] \in File
    BY <1>2, IdleTypes DEF RecAnnounce, StoreTypeOK, File
  <2>2. \/ hist' = [hist EXCEPT !.ready = @ \union {[s |-> rec.s, n |-> rec.n]}]
        \/ hist' = hist
    BY <1>2 DEF RecAnnounce
  <2> QED
    BY <2>1, <2>2 DEF History
<1>3. CASE RecFinishWrite
  <2>1. hist \in History /\ rec.s \in Sessions /\ rec.n \in Nat
    BY <1>3, IdleTypes DEF RecFinishWrite, StoreTypeOK
  <2>2. \/ hist' = [hist EXCEPT !.fin[rec.s] = rec.n]
        \/ hist' = [hist EXCEPT !.bad = @ \union {rec.s}]
        \/ hist' = hist
    BY <1>3 DEF RecFinishWrite, Fault, NoFault
  <2> QED
    BY <2>1, <2>2 DEF History
<1>4. CASE TxSaveWrite
  <2>1. hist \in History /\ tx.s \in Sessions /\ tx.ok \in Nat
    BY <1>4 DEF TxSaveWrite, StoreTypeOK, TxType
  <2>2. hist' = [hist EXCEPT !.saved[tx.s] = tx.ok] \/ hist' = hist
    BY <1>4 DEF TxSaveWrite
  <2> QED
    BY <2>1, <2>2 DEF History
<1>5. CASE AtPurge \/ AtDelete
  <2>1. PICK s \in Sessions : hist' = [hist EXCEPT !.doomed = @ \union {s},
                                                  !.bad = @ \union ({s} \ Begun)]
    BY <1>5 DEF AtPurge, AtDelete, DeleteStarts
  <2>2. /\ hist.doomed \union {s} \in SUBSET Sessions /\ hist \in History
        /\ hist.bad \union ({s} \ Begun) \in SUBSET Sessions
    BY DEF StoreTypeOK, History
  <2> QED
    BY <2>1, <2>2 DEF History
<1>6. CASE AtDeleteDir
  BY <1>6 DEF AtDeleteDir, StoreTypeOK, History, DeletePcs
<1>7. CASE TxEmpty
  <2>1. hist \in History /\ writing \in File
    BY DEF StoreTypeOK
  <2>2. hist' = hist \/ hist' = [hist EXCEPT !.taken = @ \union {writing}]
    BY <1>7 DEF TxEmpty
  <2> QED
    BY <2>1, <2>2, IdleTypes DEF History
<1>8. CASE UNCHANGED hist
  BY <1>8 DEF StoreTypeOK
<1> QED
  BY <1>1, <1>2, <1>3, <1>4, <1>5, <1>6, <1>7, <1>8
     DEF Next, AudioThread, TransferThread, Deleting, TxEmpty, TxHasty, RecCreateDirs,
         RecNextFile, RecFinishRead, TxStart, TxSend, TxSkip, TxUnlink, TxEnd,
         TxSaveRead, AtEntry, AtDeleteChunk, AtDeleteJson, AtDone, PowerCut, AtList,
         AtDeleteGroup, vars

LEMMA StoreTypeStep ==
  ASSUME StoreTypeOK, [Next]_vars
  PROVE  StoreTypeOK'
  BY DirType, JsonType, ChunkType, RamType, RecTypeStep, TxTypeStep, AtTypeStep, LeftType,
     HistType DEF StoreTypeOK, RecOK, TxOK, AtOK

-----------------------------------------------------------------------------
(* The inductive invariant                                                  *)

\* Nothing refers to a session that has not been created, nor to one whose
\* session.json the audio thread is about to write, but an AT+DELETE that came
\* too early
Untouched(s) ==
    /\ json[s] = NoJson /\ \A n \in Chunks : chunk[s][n] = "none"
    /\ hist.saved[s] = 0 /\ hist.fin[s] = 0
    /\ s \in hist.doomed => s \in hist.bad
    /\ tx.pc # "idle" => tx.s # s
    /\ s \notin at.todo
    /\ \A f \in hist.ready : f.s # s

NewInv ==
    /\ \A s \in Sessions : s > clock => Untouched(s)
    /\ rec.pc = "json" => /\ Untouched(rec.s) /\ rec.n = 1
                          /\ dir[rec.s] \/ rec.s \in hist.bad
    /\ rec.pc # "idle" => rec.s <= clock

\* Who holds session_json_mutex
LockInv == (lock = "rec" <=> rec.pc = "finish") /\ (lock = "tx" <=> tx.pc = "write")

\* The recorder is done with a chunk
Past(f) ==
    f.s = rec.s /\ rec.pc # "idle" =>
        f.n < rec.n \/ (rec.pc \in {"closed", "finish"} /\ f.n = rec.n)

\* A chunk is announced once it is closed, the open one is writing_file, and no
\* later one is on the card
ReadyInv ==
    /\ \A f \in hist.ready : f.s \in Sessions /\ f.n \in Chunks /\ Past(f)
    /\ rec.pc \notin {"idle", "json"} => \A n \in Chunks :
          chunk[rec.s][n] # "none" => n < rec.n \/ (n = rec.n /\ rec.pc # "file")
    /\ rec.pc \in {"record", "flush"} => writing = [s |-> rec.s, n |-> rec.n]

\* A chunk that is about to be unlinked was taken while it was written, or is
\* past and not one of those announced for sure
UnlinkInv ==
    tx.pc = "unlink" => \A n \in Chunks : Following(n) =>
        LET f == [s |-> tx.s, n |-> n]
        IN  f \in hist.taken \/ ((f \notin hist.ready \/ tx.s \in hist.doomed) /\ Past(f))

\* The session being recorded is current_session_id, so nobody deletes it, and
\* all of its chunks but the open one are announced, or taken by a transfer
Known(n) == [s |-> rec.s, n |-> n] \in hist.ready \union hist.taken
Taken    == [s |-> rec.s, n |-> rec.n] \in hist.taken
Live     == rec.pc \notin {"idle", "json"} /\ rec.s \notin hist.bad
LiveInv ==
    Live =>
    /\ current = rec.s /\ rec.s \notin hist.doomed
    /\ dir[rec.s] /\ json[rec.s].there /\ json[rec.s].files = 0
    /\ \A n \in Chunks : n < rec.n => Known(n)
    /\ rec.pc \in {"closed", "finish"} => Known(rec.n)
    /\ rec.pc \in {"record", "flush"} => chunk[rec.s][rec.n] # "none" \/ Taken
    /\ rec.pc = "flush" => chunk[rec.s][rec.n] = "whole" \/ Taken
    /\ rec.pc = "finish" => rec.read.synced = hist.saved[rec.s]

\* What the transfer thread has read of session.json is what it replaces
TxInv ==
    tx.pc = "write" => tx.read.there /\ (json[tx.s].there => tx.read = json[tx.s])

\* What is being deleted was not in use, and nothing comes back into it
AtInv ==
    /\ hist.gone \subseteq hist.doomed
    /\ at.pc \in DeletePcs => at.s \in hist.doomed
    /\ at.pc \in {"delete_json", "delete_dir"} /\ at.s \notin hist.bad =>
          \A n \in Chunks : chunk[at.s][n] = "none"
    /\ at.pc = "delete_dir" /\ at.s \notin hist.bad => ~json[at.s].there

StoreInv ==
    /\ StoreTypeOK /\ NewInv /\ LockInv /\ ReadyInv /\ UnlinkInv /\ LiveInv /\ TxInv
    /\ AtInv /\ ClosedSurvive /\ NoLostUpdate /\ ChunksReachable /\ DeletedStaysDeleted

LEMMA IdleFields ==
  /\ TxIdle.pc = "idle" /\ AtIdle.pc = "ready" /\ AtIdle.todo = {} /\ RecIdle.pc = "idle"
  BY DEF TxIdle, AtIdle, RecIdle

\* The transfer thread keeps its session until it is idle again
LEMMA TxKeeps ==
  ASSUME StoreTypeOK, \/ TxHasty \/ TxSend \/ TxSkip \/ TxEmpty \/ TxUnlink \/ TxEnd
                      \/ TxSaveRead \/ TxSaveWrite
  PROVE  tx'.pc # "idle" => tx'.s = tx.s
<1>1. tx \in TxType
  BY DEF StoreTypeOK
<1>2. CASE \E n \in Chunks : tx' = [tx EXCEPT !.i = n, !.ok = n, !.hasty = FALSE]
  BY <1>1, <1>2 DEF TxType
<1>3. CASE \/ tx' = [tx EXCEPT !.hasty = TRUE]
           \/ \E n \in Chunks : tx' = [tx EXCEPT !.i = n]
  BY <1>1, <1>3 DEF TxType
<1>4. CASE tx' = [tx EXCEPT !.pc = "unlink"] \/ tx' = [tx EXCEPT !.pc = "save"]
  BY <1>1, <1>4 DEF TxType
<1>5. CASE tx' = TxIdle
  BY <1>5, IdleFields
<1>6. CASE tx' = [tx EXCEPT !.pc = "write", !.read = json[tx.s]]
  BY <1>1, <1>6 DEF TxType
<1> QED
  BY <1>2, <1>3, <1>4, <1>5, <1>6
     DEF TxHasty, TxSend, TxSkip, TxEmpty, TxUnlink, TxEnd, TxSaveRead, TxSaveWrite

\* The rest of a page only gets smaller
LEMMA TodoShrinks ==
  ASSUME StoreTypeOK, \/ AtEntry \/ AtPurge \/ AtDelete \/ AtDeleteGroup
                      \/ AtDeleteJson \/ AtDeleteDir \/ AtDone
  PROVE  at'.todo \subseteq at.todo
<1>1. at \in AtType
  BY DEF StoreTypeOK
<1>2. CASE \E s \in Sessions : at' = [at EXCEPT !.todo = @ \ {s}, !.out = @ \union {s}]
  BY <1>1, <1>2 DEF AtType
<1>3. CASE \E s \in Sessions : at' = [at EXCEPT !.todo = @ \ {s}]
  BY <1>1, <1>3 DEF AtType
<1>4. CASE \E s \in Sessions : at' = [[at EXCEPT !.todo = @ \ {s}] EXCEPT !.pc = "delete", !.s = s]
  BY <1>1, <1>4 DEF AtType
<1>5. CASE \E s \in Sessions : at' = [AtIdle EXCEPT !.pc = "delete", !.s = s]
  BY <1>5 DEF AtIdle
<1>6. CASE at' = [at EXCEPT !.pc = "delete_json"] \/ at' = [at EXCEPT !.pc = "delete_dir"]
  BY <1>1, <1>6 DEF AtType
<1>7. CASE at' = [at EXCEPT !.pc = "entry", !.s = None]
  BY <1>1, <1>7 DEF AtType
<1>8. CASE at' = AtIdle
  BY <1>8, IdleFields
<1>9. AtPurge => \E s \in Sessions :
         at' = [[at EXCEPT !.todo = @ \ {s}] EXCEPT !.pc = "delete", !.s = s]
  BY DEF AtPurge, DeleteStarts
<1>10. AtDelete => \E s \in Sessions : at' = [AtIdle EXCEPT !.pc = "delete", !.s = s]
  BY DEF AtDelete, DeleteStarts
<1> QED
  BY <1>2, <1>3, <1>4, <1>5, <1>6, <1>7, <1>8, <1>9, <1>10
     DEF AtEntry, AtDeleteGroup, AtDeleteJson, AtDeleteDir, AtDone

LEMMA CutChunk ==
  ASSUME StoreTypeOK, PowerCut
  PROVE  \A r \in Sessions, n \in Chunks :
           rec.pc # "record" \/ r # rec.s \/ n # rec.n => chunk'[r][n] = chunk[r][n]
<1>1. CASE rec.pc = "record"
  <2>1. rec.s \in Sessions /\ rec.n \in Chunks
    BY <1>1 DEF StoreTypeOK
  <2>2. chunk[rec.s][rec.n] \in ChunkStates /\ "none" \in ChunkStates
    BY <2>1 DEF StoreTypeOK, ChunkStates
  <2> QED
    BY <1>1, <2>1, <2>2, PutChunk DEF PowerCut, StoreTypeOK
<1> QED
  BY <1>1 DEF PowerCut

\* A failing write is noted and changes nothing else of the history
LEMMA FaultHist ==
  ASSUME hist \in History, NEW s \in Sessions
  PROVE  /\ Fault(s) \/ NoFault =>
              /\ hist'.ready = hist.ready /\ hist'.saved = hist.saved
              /\ hist'.fin = hist.fin /\ hist'.doomed = hist.doomed
              /\ hist'.gone = hist.gone /\ hist'.taken = hist.taken
              /\ hist.bad \subseteq hist'.bad
              /\ \A r \in Sessions : r # s /\ r \in hist'.bad => r \in hist.bad
         /\ Fault(s) => s \in hist'.bad
         /\ NoFault => hist' = hist
  BY DEF Fault, NoFault, History

LEMMA UntouchedStep ==
  ASSUME StoreTypeOK, AtInv, [Next]_vars, NEW s \in Sessions, Untouched(s),
         s > clock \/ (rec.pc = "json" /\ rec.s = s),
         rec.pc \notin {"idle", "json"} => rec.s # s,
         RecCreateJson => rec.s # s
  PROVE  Untouched(s)'
<1> USE DEF Untouched
<1>1. CASE RecCreateDirs \/ RecNextFile \/ RecFinishRead
  BY <1>1 DEF RecCreateDirs, RecNextFile, RecFinishRead, card, ram
<1>2. CASE RecCreateJson
  <2>1. rec.s \in Sessions /\ rec.s # s /\ hist \in History
    BY <1>2 DEF RecCreateJson, StoreTypeOK
  <2>2. json'[s] = json[s]
    BY <1>2, <2>1, PutJson, JsonTypes DEF RecCreateJson, StoreTypeOK
  <2>3. Fault(rec.s) \/ NoFault
    BY <1>2 DEF RecCreateJson
  <2> QED
    BY <1>2, <2>1, <2>2, <2>3, FaultHist DEF RecCreateJson
<1>3. CASE RecCreateFile \/ RecCloseFile
  <2>1. rec.s \in Sessions /\ rec.n \in Chunks /\ rec.s # s /\ hist \in History
    BY <1>3 DEF RecCreateFile, RecCloseFile, StoreTypeOK
  <2>2. \A n \in Chunks : chunk'[s][n] = chunk[s][n]
    BY <1>3, <2>1, PutChunk DEF RecCreateFile, RecCloseFile, StoreTypeOK, ChunkStates
  <2>3. Fault(rec.s) \/ NoFault
    BY <1>3 DEF RecCreateFile, RecCloseFile
  <2> QED
    BY <1>3, <2>1, <2>2, <2>3, FaultHist DEF RecCreateFile, RecCloseFile
<1>4. CASE RecAnnounce
  BY <1>4 DEF RecAnnounce, StoreTypeOK, History, card
<1>5. CASE RecFinishWrite
  <2>1. rec.s \in Sessions /\ rec.n \in Nat /\ rec.s # s /\ rec.read.synced \in Nat
    BY <1>5, IdleTypes, JsonTypes DEF RecFinishWrite, StoreTypeOK, RecType
  <2>2. json'[s] = json[s]
    BY <1>5, <2>1, PutJson, JsonTypes DEF RecFinishWrite, StoreTypeOK
  <2>3. \/ Fault(rec.s) \/ NoFault
        \/ hist' = [hist EXCEPT !.fin[rec.s] = rec.n]
    BY <1>5 DEF RecFinishWrite
  <2>4. CASE Fault(rec.s) \/ NoFault
    BY <1>5, <2>1, <2>2, <2>4, FaultHist DEF RecFinishWrite, StoreTypeOK
  <2>5. CASE hist' = [hist EXCEPT !.fin[rec.s] = rec.n]
    BY <1>5, <2>1, <2>2, <2>5 DEF RecFinishWrite, StoreTypeOK, History
  <2> QED
    BY <2>3, <2>4, <2>5
<1>6. CASE TxStart
  <2>1. FileCount(s) = 0
    BY Counts DEF StoreTypeOK, NoJson, On
  <2> QED
    BY <1>6, <2>1, IdleTypes DEF TxStart, TxIdle, TxType, card
<1>7. CASE TxHasty \/ TxSend \/ TxSkip \/ TxEmpty \/ TxEnd
  <2>1. tx'.pc # "idle" => tx'.s = tx.s
    BY <1>7, TxKeeps
  <2>2. /\ hist'.saved = hist.saved /\ hist'.fin = hist.fin /\ hist'.doomed = hist.doomed
        /\ hist'.bad = hist.bad /\ hist'.ready = hist.ready
    BY <1>7 DEF TxHasty, TxSend, TxSkip, TxEmpty, TxEnd, StoreTypeOK, History
  <2>3. tx.pc # "idle" /\ UNCHANGED <<json, chunk, at>>
    BY <1>7 DEF TxHasty, TxSend, TxSkip, TxEmpty, TxEnd, card
  <2> QED
    BY <2>1, <2>2, <2>3
<1>8. CASE TxUnlink
  BY <1>8, PutChunk DEF TxUnlink, StoreTypeOK, TxType, ChunkStates
<1>9. CASE TxSaveRead
  <2>1. tx'.pc # "idle" => tx'.s = tx.s
    BY <1>9, TxKeeps
  <2> QED
    BY <1>9, <2>1 DEF TxSaveRead, card
<1>10. CASE TxSaveWrite
  <2>1. tx.s \in Sessions /\ tx.s # s /\ [tx.read EXCEPT !.synced = tx.ok] \in Json
    BY <1>10, JsonTypes DEF TxSaveWrite, StoreTypeOK, TxType
  <2>2. json'[s] = json[s]
    BY <1>10, <2>1, PutJson DEF TxSaveWrite, StoreTypeOK
  <2>3. hist' = hist \/ hist' = [hist EXCEPT !.saved[tx.s] = tx.ok]
    BY <1>10 DEF TxSaveWrite
  <2>4. /\ hist'.saved[s] = hist.saved[s] /\ hist'.fin = hist.fin
        /\ hist'.doomed = hist.doomed /\ hist'.bad = hist.bad /\ hist'.ready = hist.ready
    BY <2>1, <2>3 DEF StoreTypeOK, History
  <2>5. tx'.pc = "idle"
    BY <1>10 DEF TxSaveWrite, TxIdle
  <2> QED
    BY <1>10, <2>2, <2>4, <2>5 DEF TxSaveWrite
<1>11. ASSUME NEW page \in 1..(MaxSession + 1), NEW per \in PerPages,
             NEW purge \in BOOLEAN, AtList(page, per, purge)
       PROVE Untouched(s)'
  BY <1>11 DEF AtList, Page, Collected, Listed, NoJson, AtIdle, card
<1>12. CASE AtEntry
  <2>1. at'.todo \subseteq at.todo
    BY <1>12, TodoShrinks
  <2> QED
    BY <1>12, <2>1 DEF AtEntry, card
<1>13. CASE AtPurge \/ AtDelete
  <2>1. PICK r \in Sessions : \/ DeleteStarts(r, [at EXCEPT !.todo = @ \ {r}])
                              \/ DeleteStarts(r, AtIdle)
    BY <1>13 DEF AtPurge, AtDelete
  <2>2. /\ hist'.doomed = hist.doomed \union {r}
        /\ hist'.bad = hist.bad \union ({r} \ Begun)
        /\ hist'.saved = hist.saved /\ hist'.fin = hist.fin /\ hist'.ready = hist.ready
    BY <2>1 DEF DeleteStarts, StoreTypeOK, History
  <2>3. s \notin Begun
    BY SessionStoreAssumption DEF Begun, StoreTypeOK, Sessions
  <2>4. s \in hist'.doomed => s \in hist'.bad
    BY <2>2, <2>3
  <2>5. s \notin at'.todo
    BY <1>13, TodoShrinks
  <2> QED
    BY <1>13, <2>2, <2>4, <2>5 DEF AtPurge, AtDelete, card
<1>14. CASE AtDeleteChunk
  BY <1>14, PutChunk DEF AtDeleteChunk, On, StoreTypeOK, ChunkStates, DeletePcs
<1>15. CASE AtDeleteJson
  <2>1. at.s \in Sessions
    BY <1>15 DEF AtDeleteJson, StoreTypeOK, DeletePcs
  <2>2. json'[s] = json[s] \/ json'[s] = NoJson
    BY <1>15, <2>1, PutJson, JsonTypes DEF AtDeleteJson, StoreTypeOK
  <2>3. s \notin at'.todo
    BY <1>15, TodoShrinks
  <2> QED
    BY <1>15, <2>2, <2>3 DEF AtDeleteJson
<1>16. CASE AtDeleteGroup \/ AtDeleteDir \/ AtDone
  <2>1. s \notin at'.todo
    BY <1>16, TodoShrinks
  <2> QED
    BY <1>16, <2>1 DEF AtDeleteGroup, AtDeleteDir, AtDone, StoreTypeOK, History, card
<1>17. CASE PowerCut
  <2>1. \A n \in Chunks : chunk'[s][n] = chunk[s][n]
    BY <1>17, CutChunk
  <2> QED
    BY <1>17, <2>1, IdleFields DEF PowerCut
<1>18. CASE UNCHANGED vars
  BY <1>18 DEF vars, card
<1> QED
  BY <1>1, <1>2, <1>3, <1>4, <1>5, <1>6, <1>7, <1>8, <1>9, <1>10, <1>11, <1>12, <1>13,
     <1>14, <1>15, <1>16, <1>17, <1>18 DEF Next, AudioThread, TransferThread, Deleting

-----------------------------------------------------------------------------
(* Where a step takes each thread                                           *)

LEMMA RecMoves ==
  ASSUME StoreTypeOK
  PROVE  /\ RecCreateDirs => rec'.pc = "json" /\ rec'.s = clock + 1 /\ rec'.n = 1
         /\ RecCreateJson => rec'.pc = "file" /\ rec'.s = rec.s /\ rec'.n = rec.n
         /\ RecCreateFile => /\ rec'.s = rec.s
                             /\ \/ rec'.pc = "record" /\ rec'.n = rec.n
                                \/ rec'.pc = "closed"
                                   /\ rec'.n = (IF rec.n = 1 THEN 1 ELSE rec.n - 1)
         /\ RecCloseFile => rec'.pc = "flush" /\ rec'.s = rec.s /\ rec'.n = rec.n
         /\ RecAnnounce => rec'.pc = "closed" /\ rec'.s = rec.s /\ rec'.n = rec.n
         /\ RecNextFile => rec'.pc = "file" /\ rec'.s = rec.s /\ rec'.n = rec.n + 1
         /\ RecFinishRead => /\ rec'.pc = "finish" /\ rec'.s = rec.s /\ rec'.n = rec.n
                             /\ rec'.read = json[rec.s]
         /\ RecFinishWrite \/ PowerCut => rec'.pc = "idle"
<1>1. rec \in RecType
  BY DEF StoreTypeOK
<1>2. \A q : RecGoto(q) => rec'.pc = q /\ rec'.s = rec.s /\ rec'.n = rec.n
  BY <1>1 DEF RecGoto, RecType
<1>3. RecCreateDirs => rec'.pc = "json" /\ rec'.s = clock + 1 /\ rec'.n = 1
  BY DEF RecCreateDirs, RecIdle
<1>4. ASSUME RecCreateFile
      PROVE  /\ rec'.s = rec.s
             /\ \/ rec'.pc = "record" /\ rec'.n = rec.n
                \/ rec'.pc = "closed" /\ rec'.n = (IF rec.n = 1 THEN 1 ELSE rec.n - 1)
  <2>1. CASE RecGoto("record")
    BY <1>2, <2>1
  <2>2. CASE rec' = [rec EXCEPT !.pc = "closed", !.n = IF @ = 1 THEN 1 ELSE @ - 1]
    BY <1>1, <2>2 DEF RecType
  <2> QED
    BY <1>4, <2>1, <2>2 DEF RecCreateFile
<1>5. RecNextFile => rec'.pc = "file" /\ rec'.s = rec.s /\ rec'.n = rec.n + 1
  BY <1>1 DEF RecNextFile, RecType
<1>6. RecFinishRead => /\ rec'.pc = "finish" /\ rec'.s = rec.s /\ rec'.n = rec.n
                       /\ rec'.read = json[rec.s]
  BY <1>1 DEF RecFinishRead, RecType
<1>7. RecFinishWrite \/ PowerCut => rec'.pc = "idle"
  BY IdleFields DEF RecFinishWrite, PowerCut
<1> QED
  BY <1>2, <1>3, <1>4, <1>5, <1>6, <1>7 DEF RecCreateJson, RecCloseFile, RecAnnounce

LEMMA TxMoves ==
  ASSUME StoreTypeOK
  PROVE  /\ TxStart => tx'.pc = "send"
         /\ TxHasty \/ TxSend \/ TxSkip => tx'.pc = "send"
         /\ TxEmpty => tx'.pc = "unlink" /\ tx'.s = tx.s /\ tx'.i = tx.i
         /\ TxUnlink \/ TxEnd => tx'.pc \in {"save", "idle"}
         /\ TxSaveRead => \/ tx'.pc = "idle" /\ UNCHANGED lock
                          \/ /\ tx'.pc = "write" /\ tx'.s = tx.s /\ tx'.read = json[tx.s]
                             /\ json[tx.s].there /\ lock = "free" /\ lock' = "tx"
         /\ TxSaveWrite \/ PowerCut => tx'.pc = "idle"
<1>1. tx \in TxType
  BY DEF StoreTypeOK
<1>2. TxStart => tx'.pc = "send"
  BY DEF TxStart, TxIdle
<1>3. ASSUME TxHasty \/ TxSend \/ TxSkip PROVE tx'.pc = "send"
  <2>1. tx.pc = "send"
    BY <1>3 DEF TxHasty, TxSend, TxSkip
  <2>2. CASE \E n \in Chunks : tx' = [tx EXCEPT !.i = n, !.ok = n, !.hasty = FALSE]
    BY <1>1, <2>1, <2>2 DEF TxType
  <2>3. CASE \/ tx' = [tx EXCEPT !.hasty = TRUE]
             \/ \E n \in Chunks : tx' = [tx EXCEPT !.i = n]
    BY <1>1, <2>1, <2>3 DEF TxType
  <2> QED
    BY <1>3, <2>2, <2>3 DEF TxHasty, TxSend, TxSkip
<1>7. TxEmpty => tx'.pc = "unlink" /\ tx'.s = tx.s /\ tx'.i = tx.i
  BY <1>1 DEF TxEmpty, TxType
<1>4. ASSUME TxUnlink \/ TxEnd PROVE tx'.pc \in {"save", "idle"}
  <2>1. CASE tx' = [tx EXCEPT !.pc = "save"]
    BY <1>1, <2>1 DEF TxType
  <2> QED
    BY <1>4, <2>1, IdleFields DEF TxUnlink, TxEnd
<1>5. ASSUME TxSaveRead
      PROVE  \/ tx'.pc = "idle" /\ UNCHANGED lock
             \/ /\ tx'.pc = "write" /\ tx'.s = tx.s /\ tx'.read = json[tx.s]
                /\ json[tx.s].there /\ lock = "free" /\ lock' = "tx"
  <2>1. CASE tx' = [tx EXCEPT !.pc = "write", !.read = json[tx.s]]
    <3>1. tx'.pc = "write" /\ tx'.s = tx.s /\ tx'.read = json[tx.s]
      BY <1>1, <2>1 DEF TxType
    <3>2. tx' # TxIdle
      BY <3>1, IdleFields
    <3> QED
      BY <1>5, <3>1, <3>2 DEF TxSaveRead
  <2> QED
    BY <1>5, <2>1, IdleFields DEF TxSaveRead
<1>6. TxSaveWrite \/ PowerCut => tx'.pc = "idle"
  BY IdleFields DEF TxSaveWrite, PowerCut
<1> QED
  BY <1>2, <1>3, <1>4, <1>5, <1>6, <1>7

LEMMA AtMoves ==
  ASSUME StoreTypeOK
  PROVE  /\ AtPurge \/ AtDelete => \E s \in Sessions :
              /\ at'.pc = "delete" /\ at'.s = s /\ s # current
              /\ hist' = [hist EXCEPT !.doomed = @ \union {s},
                                      !.bad = @ \union ({s} \ Begun)]
         /\ AtDeleteGroup => at'.pc = "delete_json" /\ at'.s = at.s
         /\ AtDeleteJson => at'.pc = "delete_dir" /\ at'.s = at.s
         /\ AtDeleteDir \/ AtDone \/ PowerCut => at'.pc \in {"entry", "ready"}
         /\ AtEntry => at'.pc = "entry"
         /\ \A page, per, purge : AtList(page, per, purge) => at'.pc = "entry"
<1>1. at \in AtType
  BY DEF StoreTypeOK
<1>2. ASSUME AtPurge
      PROVE  \E s \in Sessions :
              /\ at'.pc = "delete" /\ at'.s = s /\ s # current
              /\ hist' = [hist EXCEPT !.doomed = @ \union {s},
                                      !.bad = @ \union ({s} \ Begun)]
  <2>1. PICK s \in Sessions : DeleteStarts(s, [at EXCEPT !.todo = @ \ {s}])
    BY <1>2 DEF AtPurge
  <2>2. at' = [[at EXCEPT !.todo = @ \ {s}] EXCEPT !.pc = "delete", !.s = s]
    BY <2>1 DEF DeleteStarts
  <2>3. at'.pc = "delete" /\ at'.s = s
    BY <1>1, <2>2 DEF AtType
  <2> QED
    BY <2>1, <2>3 DEF DeleteStarts
<1>3. ASSUME AtDelete
      PROVE  \E s \in Sessions :
              /\ at'.pc = "delete" /\ at'.s = s /\ s # current
              /\ hist' = [hist EXCEPT !.doomed = @ \union {s},
                                      !.bad = @ \union ({s} \ Begun)]
  <2>1. PICK s \in Sessions : DeleteStarts(s, AtIdle)
    BY <1>3 DEF AtDelete
  <2>2. at'.pc = "delete" /\ at'.s = s
    BY <2>1 DEF DeleteStarts, AtIdle
  <2> QED
    BY <2>1, <2>2 DEF DeleteStarts
<1>4. /\ AtDeleteGroup => at'.pc = "delete_json" /\ at'.s = at.s
      /\ AtDeleteJson => at'.pc = "delete_dir" /\ at'.s = at.s
  BY <1>1 DEF AtDeleteGroup, AtDeleteJson, AtType
<1>5. ASSUME AtDeleteDir \/ AtDone \/ PowerCut PROVE at'.pc \in {"entry", "ready"}
  <2>1. CASE at' = [at EXCEPT !.pc = "entry", !.s = None]
    BY <1>1, <2>1 DEF AtType
  <2> QED
    BY <1>5, <2>1, IdleFields DEF AtDeleteDir, AtDone, PowerCut
<1>6. ASSUME AtEntry PROVE at'.pc = "entry"
  <2>1. CASE \E s \in Sessions : at' = [at EXCEPT !.todo = @ \ {s}, !.out = @ \union {s}]
    BY <1>1, <1>6, <2>1 DEF AtType, AtEntry, TakeEntry
  <2>2. CASE \E s \in Sessions : at' = [at EXCEPT !.todo = @ \ {s}]
    BY <1>1, <1>6, <2>2 DEF AtType, AtEntry, TakeEntry
  <2> QED
    BY <1>6, <2>1, <2>2 DEF AtEntry
<1>7. \A page, per, purge : AtList(page, per, purge) => at'.pc = "entry"
  BY DEF AtList, AtIdle
<1> QED
  BY <1>2, <1>3, <1>4, <1>5, <1>6, <1>7

\* What a step adds to the history
LEMMA HistMoves ==
  ASSUME StoreTypeOK
  PROVE  /\ RecAnnounce =>
              /\ hist'.ready = (IF chunk[rec.s][rec.n] = "whole"
                                THEN hist.ready \union {[s |-> rec.s, n |-> rec.n]}
                                ELSE hist.ready)
              /\ hist'.saved = hist.saved /\ hist'.fin = hist.fin
              /\ hist'.doomed = hist.doomed /\ hist'.gone = hist.gone /\ hist'.bad = hist.bad
              /\ hist'.taken = hist.taken
         /\ RecFinishWrite =>
              /\ hist'.ready = hist.ready /\ hist'.saved = hist.saved
              /\ hist'.doomed = hist.doomed /\ hist'.gone = hist.gone
              /\ hist'.taken = hist.taken
              /\ hist.bad \subseteq hist'.bad
              /\ \A r \in Sessions : r # rec.s => /\ r \in hist'.bad => r \in hist.bad
                                                  /\ hist'.fin[r] = hist.fin[r]
         /\ TxSaveWrite =>
              /\ hist'.ready = hist.ready /\ hist'.fin = hist.fin
              /\ hist'.doomed = hist.doomed /\ hist'.gone = hist.gone /\ hist'.bad = hist.bad
              /\ hist'.taken = hist.taken
              /\ \A r \in Sessions : r # tx.s => hist'.saved[r] = hist.saved[r]
         /\ TxEmpty =>
              /\ hist'.ready = hist.ready /\ hist'.saved = hist.saved
              /\ hist'.fin = hist.fin /\ hist'.doomed = hist.doomed
              /\ hist'.gone = hist.gone /\ hist'.bad = hist.bad
              /\ hist'.taken = hist.taken \/ hist'.taken = hist.taken \union {writing}
              /\ hist'.taken = hist.taken =>
                    \A n \in Chunks : Following(n) /\ writing = [s |-> tx.s, n |-> n] =>
                      writing \in hist.taken
         /\ AtPurge \/ AtDelete =>
              /\ hist'.ready = hist.ready /\ hist'.saved = hist.saved
              /\ hist'.fin = hist.fin /\ hist'.gone = hist.gone
              /\ hist.bad \subseteq hist'.bad /\ hist'.taken = hist.taken
              /\ \E s \in Sessions : /\ hist'.doomed = hist.doomed \union {s}
                                     /\ at'.s = s /\ s # current
         /\ AtDeleteDir =>
              /\ hist'.ready = hist.ready /\ hist'.saved = hist.saved
              /\ hist'.fin = hist.fin /\ hist'.doomed = hist.doomed /\ hist'.bad = hist.bad
              /\ hist'.taken = hist.taken
              /\ hist'.gone = hist.gone \union {at.s}
<1>1. hist \in History
  BY DEF StoreTypeOK
<1>2. ASSUME RecAnnounce
      PROVE  /\ hist'.ready = (IF chunk[rec.s][rec.n] = "whole"
                                THEN hist.ready \union {[s |-> rec.s, n |-> rec.n]}
                                ELSE hist.ready)
             /\ hist'.saved = hist.saved /\ hist'.fin = hist.fin
             /\ hist'.doomed = hist.doomed /\ hist'.gone = hist.gone /\ hist'.bad = hist.bad
             /\ hist'.taken = hist.taken
  BY <1>1, <1>2 DEF RecAnnounce, History
<1>3. ASSUME RecFinishWrite
      PROVE  /\ hist'.ready = hist.ready /\ hist'.saved = hist.saved
             /\ hist'.doomed = hist.doomed /\ hist'.gone = hist.gone
             /\ hist'.taken = hist.taken
             /\ hist.bad \subseteq hist'.bad
             /\ \A r \in Sessions : r # rec.s => /\ r \in hist'.bad => r \in hist.bad
                                                 /\ hist'.fin[r] = hist.fin[r]
  <2>1. rec.s \in Sessions
    BY <1>3 DEF RecFinishWrite, StoreTypeOK
  <2>2. CASE hist' = [hist EXCEPT !.fin[rec.s] = rec.n]
    BY <1>1, <2>1, <2>2 DEF History
  <2>3. CASE Fault(rec.s) \/ NoFault
    BY <1>1, <2>1, <2>3, FaultHist
  <2> QED
    BY <1>3, <2>2, <2>3 DEF RecFinishWrite
<1>4. ASSUME TxSaveWrite
      PROVE  /\ hist'.ready = hist.ready /\ hist'.fin = hist.fin
             /\ hist'.doomed = hist.doomed /\ hist'.gone = hist.gone /\ hist'.bad = hist.bad
             /\ hist'.taken = hist.taken
             /\ \A r \in Sessions : r # tx.s => hist'.saved[r] = hist.saved[r]
  <2>1. CASE hist' = [hist EXCEPT !.saved[tx.s] = tx.ok]
    BY <1>1, <2>1 DEF History
  <2> QED
    BY <1>4, <2>1 DEF TxSaveWrite
<1>5. ASSUME AtPurge \/ AtDelete
      PROVE  /\ hist'.ready = hist.ready /\ hist'.saved = hist.saved
             /\ hist'.fin = hist.fin /\ hist'.gone = hist.gone
             /\ hist.bad \subseteq hist'.bad /\ hist'.taken = hist.taken
             /\ \E s \in Sessions : /\ hist'.doomed = hist.doomed \union {s}
                                    /\ at'.s = s /\ s # current
  <2>1. PICK s \in Sessions : /\ at'.s = s /\ s # current
                              /\ hist' = [hist EXCEPT !.doomed = @ \union {s},
                                                      !.bad = @ \union ({s} \ Begun)]
    BY <1>5, AtMoves
  <2> QED
    BY <1>1, <2>1 DEF History
<1>6. ASSUME AtDeleteDir
      PROVE  /\ hist'.ready = hist.ready /\ hist'.saved = hist.saved
             /\ hist'.fin = hist.fin /\ hist'.doomed = hist.doomed /\ hist'.bad = hist.bad
             /\ hist'.taken = hist.taken
             /\ hist'.gone = hist.gone \union {at.s}
  BY <1>1, <1>6 DEF AtDeleteDir, History
<1>7. ASSUME TxEmpty
      PROVE  /\ hist'.ready = hist.ready /\ hist'.saved = hist.saved
             /\ hist'.fin = hist.fin /\ hist'.doomed = hist.doomed
             /\ hist'.gone = hist.gone /\ hist'.bad = hist.bad
             /\ hist'.taken = hist.taken \/ hist'.taken = hist.taken \union {writing}
             /\ hist'.taken = hist.taken =>
                   \A n \in Chunks : Following(n) /\ writing = [s |-> tx.s, n |-> n] =>
                     writing \in hist.taken
  <2>1. PICK n \in Chunks :
           /\ Following(n)
           /\ hist' = IF writing = [s |-> tx.s, n |-> n]
                      THEN [hist EXCEPT !.taken = @ \union {writing}] ELSE hist
    BY <1>7 DEF TxEmpty
  <2>2. \A m \in Chunks : Following(m) => m = n
    BY <2>1 DEF Following
  <2>3. CASE writing = [s |-> tx.s, n |-> n]
    BY <1>1, <2>1, <2>3 DEF History
  <2>4. CASE writing # [s |-> tx.s, n |-> n]
    BY <2>1, <2>2, <2>4
  <2> QED
    BY <2>3, <2>4
<1> QED
  BY <1>2, <1>3, <1>4, <1>5, <1>6, <1>7

-----------------------------------------------------------------------------
(* The invariant's parts, one by one                                        *)

\* The history but for the announced chunks: what grows, and by whom
LEMMA HistGrows ==
  ASSUME StoreTypeOK, [Next]_vars
  PROVE  /\ hist.doomed \subseteq hist'.doomed /\ hist.bad \subseteq hist'.bad
         /\ hist.taken \subseteq hist'.taken
         /\ ~AtDeleteDir => hist'.gone = hist.gone
<1>1. CASE RecCreateJson \/ RecCreateFile \/ RecCloseFile
  BY <1>1, FaultHist DEF RecCreateJson, RecCreateFile, RecCloseFile, StoreTypeOK
<1>2. CASE UNCHANGED hist
  BY <1>2
<1> QED
  BY <1>1, <1>2, HistMoves
     DEF Next, AudioThread, TransferThread, Deleting, TxEmpty, TxHasty, RecCreateDirs,
         RecNextFile, RecFinishRead, TxStart, TxSend, TxSkip, TxUnlink, TxEnd,
         TxSaveRead, AtList, AtEntry, AtDeleteChunk, AtDeleteJson, AtDone, PowerCut,
         AtDeleteGroup, vars

LEMMA NewStep ==
  ASSUME StoreTypeOK, NewInv, AtInv, [Next]_vars
  PROVE  NewInv'
<1>1. clock \in Nat /\ clock' \in Nat /\ clock <= clock'
  <2>1. clock \in Nat
    BY SessionStoreAssumption DEF StoreTypeOK
  <2>2. clock' = clock \/ clock' = clock + 1
    BY DEF Next, AudioThread, TransferThread, Deleting, TxEmpty, TxHasty, RecCreateDirs,
     RecCreateJson, RecCreateFile, RecCloseFile, RecAnnounce, RecNextFile,
     RecFinishRead, RecFinishWrite, TxStart, TxSend, TxSkip, TxUnlink, TxEnd,
     TxSaveRead, TxSaveWrite, AtList, AtEntry, AtPurge, AtDelete, AtDeleteChunk,
     AtDeleteJson, AtDeleteDir, AtDone, PowerCut, AtDeleteGroup, vars
  <2> QED
    BY <2>1, <2>2
<1>2. \/ rec.pc = "idle" /\ RecCreateDirs
      \/ rec'.pc # "idle" => rec.pc # "idle" /\ rec'.s = rec.s /\ (rec'.pc = "json" => rec' = rec)
  <2>1. CASE RecCreateDirs
    BY <2>1 DEF RecCreateDirs
  <2>2. CASE RecCreateJson \/ RecCreateFile
    BY <2>2, RecMoves DEF RecCreateJson, RecCreateFile
  <2>3. CASE RecCloseFile \/ RecAnnounce \/ RecNextFile
    BY <2>3, RecMoves DEF RecCloseFile, RecAnnounce, RecNextFile
  <2>4. CASE RecFinishRead \/ RecFinishWrite \/ PowerCut
    BY <2>4, RecMoves DEF RecFinishRead
  <2>5. CASE UNCHANGED rec
    BY <2>5
  <2> QED
    BY <2>1, <2>2, <2>3, <2>4, <2>5
       DEF Next, AudioThread, TransferThread, Deleting, TxEmpty, TxHasty, TxStart,
           TxSend, TxSkip, TxUnlink, TxEnd, TxSaveRead, TxSaveWrite, AtList, AtEntry,
           AtPurge, AtDelete, AtDeleteChunk, AtDeleteJson, AtDeleteDir, AtDone,
           AtDeleteGroup, vars
<1>3. rec.pc # "idle" => rec.s \in Sessions /\ rec.s \in Int
  BY SessionStoreAssumption DEF StoreTypeOK, Sessions
<1>4. \A s \in Sessions : s > clock => Untouched(s)'
  <2> SUFFICES ASSUME NEW s \in Sessions, s > clock PROVE Untouched(s)'
    OBVIOUS
  <2>1. rec.pc # "idle" => rec.s # s
    BY <1>1, <1>3 DEF NewInv
  <2>2. RecCreateJson => rec.pc # "idle"
    BY DEF RecCreateJson
  <2> QED
    BY <1>1, <2>1, <2>2, UntouchedStep DEF NewInv
<1>5. \A s \in Sessions : s > clock' => Untouched(s)'
  <2>1. \A s \in Sessions : s \in Int
    BY SessionStoreAssumption DEF Sessions
  <2> HIDE DEF Untouched
  <2> QED
    BY <1>1, <1>4, <2>1
<1>6. ASSUME rec'.pc = "json"
      PROVE  (Untouched(rec.s) /\ (dir[rec.s] \/ rec.s \in hist.bad) /\ rec.n = 1)'
  <2>1. CASE RecCreateDirs
    <3>1. clock + 1 \in Sessions
      BY <1>1, <2>1, SessionStoreAssumption DEF RecCreateDirs, Sessions
    <3>2. PICK s \in Sessions : s = clock + 1
      BY <3>1
    <3>3. rec'.s = s /\ rec'.n = 1
      BY <2>1, <3>2, RecMoves
    <3>4. dir'[s]
      BY <2>1, <3>2 DEF RecCreateDirs, StoreTypeOK
    <3>5. Untouched(s)'
      BY <1>1, <1>4, <3>2
    <3> QED
      BY <3>3, <3>4, <3>5 DEF Untouched
  <2>2. CASE rec' = rec /\ rec.pc = "json"
    <3>1. ~RecCreateJson /\ rec.s \in Sessions
      BY <2>2, <1>3, RecMoves
    <3>2. Untouched(rec.s)'
      BY <2>2, <3>1, UntouchedStep DEF NewInv
    <3>3. /\ dir[rec.s] \/ rec.s \in hist.bad
          /\ rec.s \in hist.doomed => rec.s \in hist.bad
          /\ rec.n = 1 /\ hist.bad \subseteq hist'.bad
      BY <2>2, HistGrows DEF NewInv, Untouched
    <3>4. CASE AtDeleteDir
      <4>1. at.s = rec.s => rec.s \in hist.bad
        BY <3>3, <3>4 DEF AtDeleteDir, AtInv, DeletePcs
      <4>2. at.s # rec.s => dir'[rec.s] = dir[rec.s]
        BY <3>1, <3>4 DEF AtDeleteDir, StoreTypeOK
      <4> QED
        BY <2>2, <3>2, <3>3, <4>1, <4>2
    <3>5. CASE UNCHANGED dir
      BY <2>2, <3>2, <3>3, <3>5
    <3>6. ~RecCreateDirs
      BY <2>2 DEF RecCreateDirs
    <3> QED
      BY <3>1, <3>4, <3>5, <3>6
         DEF Next, AudioThread, TransferThread, Deleting, TxEmpty, TxHasty,
             RecCreateFile, RecCloseFile, RecAnnounce, RecNextFile, RecFinishRead,
             RecFinishWrite, TxStart, TxSend, TxSkip, TxUnlink, TxEnd, TxSaveRead,
             TxSaveWrite, AtList, AtEntry, AtPurge, AtDelete, AtDeleteChunk,
             AtDeleteJson, AtDone, PowerCut, AtDeleteGroup, card, vars
  <2> QED
    BY <1>2, <1>6, <2>1, <2>2
<1>7. rec'.pc # "idle" => rec'.s <= clock'
  <2>1. CASE RecCreateDirs
    BY <1>1, <2>1, RecMoves DEF RecCreateDirs
  <2>2. CASE rec'.pc # "idle" => rec.pc # "idle" /\ rec'.s = rec.s
    BY <1>1, <1>3, <2>2 DEF NewInv
  <2> QED
    BY <1>2, <2>1, <2>2
<1> QED
  BY <1>5, <1>6, <1>7 DEF NewInv

LEMMA LockStep ==
  ASSUME StoreTypeOK, LockInv, [Next]_vars
  PROVE  LockInv'
<1> USE DEF LockInv
<1>1. CASE RecCreateDirs \/ RecCreateJson \/ RecCreateFile \/ RecCloseFile \/ RecAnnounce
           \/ RecNextFile
  BY <1>1, RecMoves DEF RecCreateDirs, RecCreateJson, RecCreateFile, RecCloseFile,
                        RecAnnounce, RecNextFile, ram
<1>2. CASE RecFinishRead \/ RecFinishWrite
  BY <1>2, RecMoves DEF RecFinishRead, RecFinishWrite
<1>3. CASE TxStart \/ TxHasty \/ TxSend \/ TxSkip \/ TxEmpty \/ TxUnlink \/ TxEnd
  BY <1>3, TxMoves DEF TxStart, TxHasty, TxSend, TxSkip, TxEmpty, TxUnlink, TxEnd, ram
<1>4. CASE TxSaveRead \/ TxSaveWrite
  BY <1>4, TxMoves DEF TxSaveRead, TxSaveWrite
<1>5. CASE PowerCut
  BY <1>5, RecMoves, TxMoves DEF PowerCut
<1>6. CASE UNCHANGED <<lock, rec, tx>>
  BY <1>6
<1> QED
  BY <1>1, <1>2, <1>3, <1>4, <1>5, <1>6
     DEF Next, AudioThread, TransferThread, Deleting, TxEmpty, TxHasty, AtList, AtEntry,
         AtPurge, AtDelete, AtDeleteChunk, AtDeleteJson, AtDeleteDir, AtDone,
         AtDeleteGroup, ram, vars

LEMMA ReadyStep ==
  ASSUME StoreTypeOK, NewInv, ReadyInv, [Next]_vars
  PROVE  ReadyInv'
<1> USE DEF ReadyInv, Past
<1>0. /\ rec.pc # "idle" => rec.s \in Sessions /\ rec.n \in Chunks /\ rec.n \in Int
      /\ hist \in History /\ \A n \in Chunks : n \in Int /\ n > 0
  BY SessionStoreAssumption DEF StoreTypeOK, Chunks
<1>1. CASE RecCreateDirs
  <2>1. clock + 1 \in Sessions /\ clock + 1 > clock
    BY <1>1, SessionStoreAssumption DEF RecCreateDirs, Sessions, StoreTypeOK
  <2>2. \A f \in hist.ready : f.s # clock + 1
    BY <2>1 DEF NewInv, Untouched
  <2> QED
    BY <1>1, <2>2, RecMoves DEF RecCreateDirs, ram
<1>2. CASE RecCreateJson
  <2>1. hist'.ready = hist.ready
    BY <1>0, <1>2, FaultHist DEF RecCreateJson
  <2>2. \A n \in Chunks : chunk[rec.s][n] = "none"
    BY <1>2 DEF RecCreateJson, NewInv, Untouched
  <2> QED
    BY <1>2, <2>1, <2>2, RecMoves DEF RecCreateJson
<1>3. CASE RecCreateFile
  <2>1. hist'.ready = hist.ready /\ rec.pc = "file"
    BY <1>0, <1>3, FaultHist DEF RecCreateFile
  <2>2. CASE rec'.pc = "record"
    <3>1. /\ writing' = [s |-> rec.s, n |-> rec.n] /\ rec'.n = rec.n /\ rec'.s = rec.s
          /\ SetChunk(rec.s, rec.n, "empty")
      BY <1>0, <1>3, <2>2, RecMoves DEF RecCreateFile, StoreTypeOK, RecType
    <3>2. \A m \in Chunks : m # rec.n => chunk'[rec.s][m] = chunk[rec.s][m]
      BY <1>0, <2>1, <3>1, PutChunk DEF StoreTypeOK, ChunkStates
    <3> QED
      BY <1>0, <2>1, <2>2, <3>1, <3>2
  <2>3. CASE rec'.pc = "closed"
    <3>1. UNCHANGED chunk /\ rec'.s = rec.s /\ rec'.n = (IF rec.n = 1 THEN 1 ELSE rec.n - 1)
      BY <1>3, <2>3, RecMoves DEF RecCreateFile, RecGoto, StoreTypeOK, RecType
    <3> QED
      BY <1>0, <2>1, <2>3, <3>1
  <2> QED
    BY <1>3, <2>2, <2>3, RecMoves
<1>4. CASE RecCloseFile
  <2>1. hist'.ready = hist.ready /\ rec.pc = "record" /\ UNCHANGED writing
    BY <1>0, <1>4, FaultHist DEF RecCloseFile, ram
  <2>2. rec'.pc = "flush" /\ rec'.s = rec.s /\ rec'.n = rec.n
    BY <1>4, RecMoves
  <2>3. \A m \in Chunks : m # rec.n => chunk'[rec.s][m] = chunk[rec.s][m]
    BY <1>0, <1>4, <2>1, PutChunk DEF RecCloseFile, StoreTypeOK, ChunkStates
  <2> QED
    BY <1>0, <2>1, <2>2, <2>3
<1>5. CASE RecAnnounce
  BY <1>0, <1>5, RecMoves, HistMoves DEF RecAnnounce, card
<1>6. CASE RecNextFile
  BY <1>0, <1>6, RecMoves, SessionStoreAssumption DEF RecNextFile, Chunks, card, ram
<1>7. CASE RecFinishRead
  BY <1>7, RecMoves DEF RecFinishRead, card
<1>8. CASE RecFinishWrite
  BY <1>8, RecMoves, HistMoves
<1>9. CASE PowerCut
  BY <1>9, RecMoves DEF PowerCut
<1>10. CASE TxUnlink \/ AtDeleteChunk
  <2>1. UNCHANGED <<rec, writing, hist>>
    BY <1>10 DEF TxUnlink, AtDeleteChunk, ram
  <2>2. PICK r \in Sessions, m \in Chunks : SetChunk(r, m, "none")
    BY <1>10 DEF TxUnlink, AtDeleteChunk, On, StoreTypeOK, DeletePcs
  <2>3. \A q \in Sessions, n \in Chunks : chunk'[q][n] # "none" => chunk[q][n] # "none"
    BY <2>2, PutChunk DEF StoreTypeOK, ChunkStates
  <2> QED
    BY <1>0, <2>1, <2>3
<1>11. CASE hist'.ready = hist.ready /\ UNCHANGED <<rec, writing, chunk>>
  BY <1>11
<1> QED
  BY <1>1, <1>2, <1>3, <1>4, <1>5, <1>6, <1>7, <1>8, <1>9, <1>10, <1>11, HistMoves
     DEF Next, AudioThread, TransferThread, Deleting, TxStart, TxHasty, TxSend, TxSkip,
         TxEmpty, TxEnd, TxSaveRead, TxSaveWrite, AtList, AtEntry, AtPurge, AtDelete,
         AtDeleteGroup, AtDeleteJson, AtDeleteDir, AtDone, card, ram, vars

LEMMA UnlinkStep ==
  ASSUME StoreTypeOK, NewInv, ReadyInv, UnlinkInv, ClosedSurvive, [Next]_vars
  PROVE  UnlinkInv'
<1> SUFFICES ASSUME tx'.pc = "unlink", NEW n \in Chunks, Following(n)'
             PROVE  (LET f == [s |-> tx.s, n |-> n]
                     IN  \/ f \in hist.taken
                         \/ (f \notin hist.ready \/ tx.s \in hist.doomed) /\ Past(f))'
  BY DEF UnlinkInv
<1> DEFINE f == [s |-> tx.s, n |-> n]
<1>0. /\ rec.pc # "idle" => rec.s \in Sessions /\ rec.n \in Chunks /\ rec.n \in Int
      /\ n \in Int /\ n > 0 /\ f.s = tx.s /\ f.n = n
  BY SessionStoreAssumption DEF StoreTypeOK, Chunks
<1>1. CASE TxEmpty
  <2>1. /\ tx'.s = tx.s /\ Following(n) /\ tx.s \in Sessions /\ UNCHANGED <<rec, chunk>>
    BY <1>1, TxMoves DEF TxEmpty, Following, StoreTypeOK, card
  <2>2. chunk[tx.s][n] = "empty"
    BY <1>1, <2>1 DEF TxEmpty, Following
  <2>3. CASE writing = f
    BY <1>1, <2>1, <2>3, HistMoves
  <2>4. CASE writing # f
    <3>1. Past(f)
      <4>1. CASE rec.pc = "json"
        BY <2>2, <4>1 DEF NewInv, Untouched, Past
      <4>2. CASE rec.pc \notin {"idle", "json"} /\ tx.s = rec.s
        <5>1. n < rec.n \/ (n = rec.n /\ rec.pc # "file")
          BY <2>2, <4>2 DEF ReadyInv
        <5>2. rec.pc \in {"record", "flush"} => n # rec.n
          BY <2>4, <4>2 DEF ReadyInv
        <5>3. rec.pc \in RecPcs
          BY DEF StoreTypeOK, RecType
        <5>4. f.n < rec.n \/ (rec.pc \in {"closed", "finish"} /\ f.n = rec.n)
          BY <1>0, <4>2, <5>1, <5>2, <5>3 DEF RecPcs
        <5> QED
          BY <5>4 DEF Past
      <4> QED
        BY <1>0, <4>1, <4>2 DEF Past
    <3>2. f \in hist.taken \/ f \notin hist.ready \/ tx.s \in hist.doomed
      BY <2>2 DEF ClosedSurvive
    <3>3. f \in hist.taken => f \in hist'.taken
      BY HistGrows
    <3>4. hist'.ready = hist.ready /\ hist'.doomed = hist.doomed
      BY <1>1, HistMoves
    <3> QED
      BY <2>1, <3>1, <3>2, <3>3, <3>4 DEF Past
  <2> QED
    BY <2>3, <2>4
<1>2. CASE tx' = tx
  <2>1. tx.pc = "unlink" /\ tx'.s = tx.s /\ Following(n) /\ tx.s \in Sessions
    BY <1>2 DEF Following, StoreTypeOK
  <2>2. f \in hist.taken \/ ((f \notin hist.ready \/ tx.s \in hist.doomed) /\ Past(f))
    BY <2>1 DEF UnlinkInv
  <2>3. hist.taken \subseteq hist'.taken /\ hist.doomed \subseteq hist'.doomed
    BY HistGrows
  <2>4. ASSUME Past(f) PROVE Past(f)'
    <3>1. CASE RecCreateDirs
      <4>1. clock + 1 \in Sessions /\ clock + 1 > clock
        BY <3>1, SessionStoreAssumption DEF RecCreateDirs, Sessions, StoreTypeOK
      <4>2. tx.s # clock + 1
        BY <2>1, <4>1 DEF NewInv, Untouched
      <4> QED
        BY <1>0, <1>2, <3>1, <4>2, RecMoves DEF Past
    <3>2. CASE RecCreateJson
      BY <1>0, <1>2, <2>1, <3>2, RecMoves DEF Past, RecCreateJson, NewInv, Untouched
    <3>3. CASE RecCreateFile
      BY <1>0, <1>2, <2>4, <3>3, RecMoves DEF Past, RecCreateFile
    <3>4. CASE RecCloseFile \/ RecAnnounce
      BY <1>0, <1>2, <2>4, <3>4, RecMoves DEF Past, RecCloseFile, RecAnnounce
    <3>5. CASE RecNextFile \/ RecFinishRead
      BY <1>0, <1>2, <2>4, <3>5, RecMoves DEF Past, RecNextFile, RecFinishRead
    <3>6. CASE RecFinishWrite \/ PowerCut
      BY <3>6, RecMoves DEF Past
    <3>7. CASE UNCHANGED rec
      BY <1>2, <2>4, <3>7 DEF Past
    <3> QED
      BY <3>1, <3>2, <3>3, <3>4, <3>5, <3>6, <3>7
         DEF Next, AudioThread, TransferThread, Deleting, TxStart, TxHasty, TxSend, TxSkip,
             TxEmpty, TxUnlink, TxEnd, TxSaveRead, TxSaveWrite, AtList, AtEntry, AtPurge,
             AtDelete, AtDeleteChunk, AtDeleteGroup, AtDeleteJson, AtDeleteDir, AtDone, vars
  <2>5. Past(f) /\ f \notin hist.ready => f \notin hist'.ready
    <3>1. CASE RecAnnounce
      BY <1>0, <3>1, HistMoves DEF RecAnnounce, Past
    <3>2. CASE RecCreateJson \/ RecCreateFile \/ RecCloseFile
      BY <1>0, <3>2, FaultHist DEF RecCreateJson, RecCreateFile, RecCloseFile, StoreTypeOK
    <3>3. CASE hist'.ready = hist.ready
      BY <3>3
    <3> QED
      BY <3>1, <3>2, <3>3, HistMoves
         DEF Next, AudioThread, TransferThread, Deleting, RecCreateDirs, RecNextFile,
             RecFinishRead, TxStart, TxHasty, TxSend, TxSkip, TxUnlink, TxEnd, TxSaveRead,
             AtList, AtEntry, AtDeleteChunk, AtDeleteGroup, AtDeleteJson, AtDone, PowerCut,
             vars
  <2> QED
    BY <2>1, <2>2, <2>3, <2>4, <2>5
<1>3. CASE tx'.pc # "unlink"
  BY <1>3
<1>4. TxStart \/ TxHasty \/ TxSend \/ TxSkip \/ TxUnlink \/ TxEnd \/ TxSaveRead
        \/ TxSaveWrite \/ PowerCut => tx'.pc # "unlink"
  BY TxMoves
<1> QED
  BY <1>1, <1>2, <1>3, <1>4
     DEF Next, AudioThread, TransferThread, Deleting, RecCreateDirs, RecCreateJson,
         RecCreateFile, RecCloseFile, RecAnnounce, RecNextFile, RecFinishRead,
         RecFinishWrite, AtList, AtEntry, AtPurge, AtDelete, AtDeleteChunk, AtDeleteGroup,
         AtDeleteJson, AtDeleteDir, AtDone, vars

LEMMA ClosedStep ==
  ASSUME StoreTypeOK, NewInv, ReadyInv, UnlinkInv, AtInv, ClosedSurvive, [Next]_vars
  PROVE  ClosedSurvive'
<1> USE DEF ClosedSurvive
<1>t. hist.taken \subseteq hist'.taken
  BY HistGrows
<1>0. \A f \in hist.ready : f.s \in Sessions /\ f.n \in Chunks /\ f.n \in Int
  BY SessionStoreAssumption DEF ReadyInv, Chunks
<1>1. CASE RecCreateFile \/ RecCloseFile
  <2>1. hist \in History /\ rec.s \in Sessions /\ rec.n \in Chunks /\ rec.n \in Int
    BY <1>1, SessionStoreAssumption DEF RecCreateFile, RecCloseFile, StoreTypeOK, Chunks
  <2>2. hist'.ready = hist.ready /\ hist'.doomed = hist.doomed
    BY <1>1, <2>1, FaultHist DEF RecCreateFile, RecCloseFile
  <2>3. \A f \in hist.ready : f.s # rec.s \/ f.n # rec.n
    BY <1>0, <1>1, <2>1 DEF RecCreateFile, RecCloseFile, ReadyInv, Past
  <2>4. \A f \in hist.ready : chunk'[f.s][f.n] = chunk[f.s][f.n]
    BY <1>0, <1>1, <2>1, <2>3, PutChunk
       DEF RecCreateFile, RecCloseFile, StoreTypeOK, ChunkStates
  <2> QED
    BY <1>t, <2>2, <2>4
<1>2. CASE RecAnnounce
  BY <1>0, <1>2, <1>t, HistMoves DEF RecAnnounce, card
<1>3. CASE TxUnlink
  <2>1. PICK n \in Chunks : Following(n) /\ SetChunk(tx.s, n, "none")
    BY <1>3 DEF TxUnlink
  <2>2. tx.s \in Sessions /\ tx.pc = "unlink" /\ UNCHANGED hist
    BY <1>3 DEF TxUnlink, StoreTypeOK
  <2>3. \A r \in Sessions, m \in Chunks :
           r # tx.s \/ m # n => chunk'[r][m] = chunk[r][m]
    BY <2>1, <2>2, PutChunk DEF StoreTypeOK, ChunkStates
  <2> DEFINE g == [s |-> tx.s, n |-> n]
  <2>4. g \in hist.taken \/ g \notin hist.ready \/ tx.s \in hist.doomed
    BY <2>1, <2>2 DEF UnlinkInv
  <2>5. ASSUME NEW f \in hist.ready \ hist.taken, f.s \notin hist.doomed
        PROVE  chunk'[f.s][f.n] = "whole"
    <3>1. f \in File
      BY DEF StoreTypeOK, History
    <3>2. f.s = tx.s /\ f.n = n => f = g
      BY <3>1 DEF File
    <3> QED
      BY <1>0, <2>3, <2>4, <2>5, <3>2
  <2> QED
    BY <2>2, <2>5
<1>4. CASE AtDeleteChunk
  <2>1. at.s \in Sessions /\ at.s \in hist.doomed /\ UNCHANGED hist
    BY <1>4 DEF AtDeleteChunk, StoreTypeOK, AtInv, DeletePcs
  <2>2. PICK n \in Chunks : SetChunk(at.s, n, "none")
    BY <1>4 DEF AtDeleteChunk, On
  <2>3. \A r \in Sessions, m \in Chunks : r # at.s => chunk'[r][m] = chunk[r][m]
    BY <2>1, <2>2, PutChunk DEF StoreTypeOK, ChunkStates
  <2>4. \A f \in hist.ready \ hist.taken : f.s \notin hist.doomed => chunk'[f.s][f.n] = "whole"
    BY <1>0, <2>1, <2>3
  <2> QED
    BY <2>1, <2>4
<1>5. CASE PowerCut
  <2>1. \A f \in hist.ready : chunk'[f.s][f.n] = chunk[f.s][f.n]
    <3>1. rec.pc = "record" => rec.n \in Int
      BY SessionStoreAssumption DEF StoreTypeOK, Chunks
    <3> QED
      BY <1>0, <1>5, <3>1, CutChunk DEF ReadyInv, Past
  <2> QED
    BY <1>5, <2>1 DEF PowerCut
<1>6. CASE UNCHANGED chunk /\ hist'.ready = hist.ready /\ hist.doomed \subseteq hist'.doomed
  BY <1>6, <1>t
<1>7. CASE RecCreateJson
  BY <1>6, <1>7, FaultHist DEF RecCreateJson, StoreTypeOK
<1> QED
  BY <1>1, <1>2, <1>3, <1>4, <1>5, <1>6, <1>7, HistMoves
     DEF Next, AudioThread, TransferThread, Deleting, TxEmpty, TxHasty, RecCreateDirs,
         RecNextFile, RecFinishRead, RecFinishWrite, TxStart, TxSend, TxSkip, TxEnd,
         TxSaveRead, TxSaveWrite, AtList, AtEntry, AtPurge, AtDelete, AtDeleteJson,
         AtDeleteDir, AtDone, AtDeleteGroup, card, vars

LEMMA TxStep ==
  ASSUME StoreTypeOK, NewInv, LockInv, TxInv, [Next]_vars
  PROVE  TxInv'
<1> USE DEF TxInv
<1>1. CASE RecCreateJson
  <2>1. rec.s \in Sessions /\ tx.pc = "write" => tx.s # rec.s
    BY <1>1 DEF RecCreateJson, NewInv, Untouched
  <2>2. tx.pc = "write" => json'[tx.s] = json[tx.s]
    BY <1>1, <2>1, PutJson, JsonTypes DEF RecCreateJson, StoreTypeOK
  <2> QED
    BY <1>1, <2>2 DEF RecCreateJson
<1>2. CASE RecFinishWrite
  BY <1>2 DEF RecFinishWrite, LockInv
<1>3. CASE AtDeleteJson
  <2>1. at.s \in Sessions
    BY <1>3 DEF AtDeleteJson, StoreTypeOK, DeletePcs
  <2>2. /\ json'[at.s] = NoJson
        /\ \A r \in Sessions : r # at.s => json'[r] = json[r]
    BY <1>3, <2>1, PutJson, JsonTypes DEF AtDeleteJson, StoreTypeOK
  <2>3. ~NoJson.there
    BY DEF NoJson
  <2>4. tx.pc = "write" => tx.s \in Sessions
    BY DEF StoreTypeOK
  <2> QED
    BY <1>3, <2>2, <2>3, <2>4 DEF AtDeleteJson
<1>4. CASE TxStart \/ TxHasty \/ TxSend \/ TxSkip \/ TxEmpty \/ TxUnlink \/ TxEnd
           \/ TxSaveWrite \/ PowerCut
  BY <1>4, TxMoves
<1>5. CASE TxSaveRead
  BY <1>5, TxMoves DEF TxSaveRead, card
<1>6. CASE UNCHANGED <<tx, json>>
  BY <1>6
<1> QED
  BY <1>1, <1>2, <1>3, <1>4, <1>5, <1>6
     DEF Next, AudioThread, TransferThread, Deleting, TxEmpty, TxHasty, RecCreateDirs,
         RecCreateFile, RecCloseFile, RecAnnounce, RecNextFile, RecFinishRead, AtList,
         AtEntry, AtPurge, AtDelete, AtDeleteChunk, AtDeleteDir, AtDone, AtDeleteGroup,
         card, vars

\* Nobody writes into a session that is deleted, as long as no write on it failed
LEMMA DoomedQuiet ==
  ASSUME StoreTypeOK, NewInv, LiveInv, [Next]_vars,
         NEW s \in Sessions, s \in hist.doomed, s \notin hist.bad
  PROVE  /\ ~json[s].there => ~json'[s].there
         /\ \A n \in Chunks : chunk[s][n] = "none" => chunk'[s][n] = "none"
<1>0. rec.pc # "idle" => rec.s # s /\ rec.s \in Sessions /\ rec.n \in Chunks
  BY DEF NewInv, LiveInv, Live, Untouched, StoreTypeOK
<1>1. CASE RecCreateJson
  BY <1>0, <1>1, PutJson, JsonTypes DEF RecCreateJson, StoreTypeOK
<1>2. CASE RecCreateFile \/ RecCloseFile
  BY <1>0, <1>2, PutChunk DEF RecCreateFile, RecCloseFile, StoreTypeOK, ChunkStates
<1>3. CASE RecFinishWrite
  <2>1. rec.n \in Nat /\ rec.read.synced \in Nat
    BY <1>0, <1>3, IdleTypes, JsonTypes DEF RecFinishWrite, StoreTypeOK, RecType
  <2>2. json'[s] = json[s]
    BY <1>0, <1>3, <2>1, PutJson, JsonTypes DEF RecFinishWrite, StoreTypeOK
  <2> QED
    BY <1>3, <2>2 DEF RecFinishWrite
<1>4. CASE TxUnlink
  <2>1. PICK n \in Chunks : SetChunk(tx.s, n, "none")
    BY <1>4 DEF TxUnlink
  <2>2. tx.s \in Sessions /\ UNCHANGED json
    BY <1>4 DEF TxUnlink, StoreTypeOK
  <2> QED
    BY <2>1, <2>2, PutChunk DEF StoreTypeOK, ChunkStates
<1>5. CASE TxSaveWrite
  <2>1. tx.s \in Sessions /\ [tx.read EXCEPT !.synced = tx.ok] \in Json
    BY <1>5, JsonTypes DEF TxSaveWrite, StoreTypeOK, TxType
  <2>2. ~json[s].there => json'[s] = json[s]
    BY <1>5, <2>1, PutJson DEF TxSaveWrite, StoreTypeOK
  <2> QED
    BY <1>5, <2>2 DEF TxSaveWrite
<1>6. CASE AtDeleteChunk
  <2>1. at.s \in Sessions
    BY <1>6 DEF AtDeleteChunk, StoreTypeOK, DeletePcs
  <2> QED
    BY <1>6, <2>1, PutChunk DEF AtDeleteChunk, On, StoreTypeOK, ChunkStates
<1>7. CASE AtDeleteJson
  <2>1. at.s \in Sessions /\ ~NoJson.there
    BY <1>7 DEF AtDeleteJson, StoreTypeOK, DeletePcs, NoJson
  <2>2. ~json[s].there => ~json'[s].there
    BY <1>7, <2>1, PutJson, JsonTypes DEF AtDeleteJson, StoreTypeOK
  <2> QED
    BY <1>7, <2>2 DEF AtDeleteJson
<1>8. CASE PowerCut
  BY <1>0, <1>8, CutChunk DEF PowerCut
<1>9. CASE UNCHANGED <<json, chunk>>
  BY <1>9
<1> QED
  BY <1>1, <1>2, <1>3, <1>4, <1>5, <1>6, <1>7, <1>8, <1>9
     DEF Next, AudioThread, TransferThread, Deleting, TxEmpty, TxHasty, RecCreateDirs,
         RecAnnounce, RecNextFile, RecFinishRead, TxStart, TxSend, TxSkip, TxEnd,
         TxSaveRead, AtList, AtEntry, AtPurge, AtDelete, AtDeleteDir, AtDone,
         AtDeleteGroup, card, vars

LEMMA AtStep ==
  ASSUME StoreTypeOK, NewInv, LiveInv, AtInv, [Next]_vars
  PROVE  AtInv'
<1> USE DEF AtInv, DeletePcs
<1>1. CASE AtPurge \/ AtDelete
  BY <1>1, HistMoves, AtMoves
<1>2. CASE AtDeleteGroup
  <2>1. \A n \in Chunks : chunk[at.s][n] = "none"
    BY <1>2 DEF AtDeleteGroup, On
  <2> QED
    BY <1>2, <2>1, AtMoves DEF AtDeleteGroup, card
<1>3. CASE AtDeleteJson
  <2>1. at.s \in Sessions /\ json'[at.s] = NoJson /\ UNCHANGED <<hist, chunk>>
    BY <1>3, PutJson, JsonTypes DEF AtDeleteJson, StoreTypeOK
  <2> QED
    BY <1>3, <2>1, AtMoves DEF AtDeleteJson, NoJson
<1>4. CASE AtDeleteDir
  BY <1>4, AtMoves, HistMoves DEF AtDeleteDir
<1>5. CASE AtEntry \/ AtDone \/ PowerCut
  BY <1>5, AtMoves DEF AtEntry, AtDone, PowerCut
<1>6. ASSUME NEW page \in 1..(MaxSession + 1), NEW per \in PerPages,
             NEW purge \in BOOLEAN, AtList(page, per, purge)
      PROVE AtInv'
  BY <1>6, AtMoves DEF AtList
<1>7. CASE UNCHANGED at /\ ~AtDeleteDir
  <2>1. at.pc \in DeletePcs => at.s \in Sessions
    BY DEF StoreTypeOK
  <2>2. at.pc \in {"delete_json", "delete_dir"} /\ at.s \notin hist'.bad =>
          \A n \in Chunks : chunk'[at.s][n] = "none"
    BY <2>1, HistGrows, DoomedQuiet
  <2>3. at.pc = "delete_dir" /\ at.s \notin hist'.bad => ~json'[at.s].there
    BY <2>1, HistGrows, DoomedQuiet
  <2> QED
    BY <1>7, <2>2, <2>3, HistGrows
<1> QED
  BY <1>1, <1>2, <1>3, <1>4, <1>5, <1>6, <1>7
     DEF Next, AudioThread, TransferThread, Deleting, RecCreateDirs, RecCreateJson,
         RecCreateFile, RecCloseFile, RecAnnounce, RecNextFile, RecFinishRead,
         RecFinishWrite, TxStart, TxHasty, TxSend, TxSkip, TxEmpty, TxUnlink, TxEnd,
         TxSaveRead, TxSaveWrite, AtDeleteChunk, AtDeleteDir, vars

LEMMA DeletedStep ==
  ASSUME StoreTypeOK, NewInv, LiveInv, AtInv, DeletedStaysDeleted, [Next]_vars
  PROVE  DeletedStaysDeleted'
<1> USE DEF DeletedStaysDeleted, On
<1>0. hist.gone \subseteq Sessions /\ hist.doomed \subseteq Sessions
  BY DEF StoreTypeOK, History
<1>1. CASE AtDeleteDir
  <2>1. at.s \in Sessions /\ at.s \in hist.doomed
    BY <1>1 DEF AtDeleteDir, StoreTypeOK, AtInv, DeletePcs
  <2>2. /\ at.s \notin hist.bad => ~dir'[at.s]
        /\ \A r \in Sessions : r # at.s => dir'[r] = dir[r]
    BY <1>1, <2>1 DEF AtDeleteDir, AtInv, StoreTypeOK
  <2> QED
    BY <1>0, <1>1, <2>1, <2>2, HistMoves DEF AtDeleteDir, AtInv
<1>2. CASE ~AtDeleteDir
  <2>1. hist'.gone = hist.gone /\ hist.bad \subseteq hist'.bad
    BY <1>2, HistGrows
  <2>2. ASSUME NEW s \in hist.gone, s \notin hist.bad PROVE ~dir'[s]
    <3>1. CASE RecCreateDirs
      <4>1. clock + 1 \in Sessions /\ clock + 1 > clock
        BY <3>1, SessionStoreAssumption DEF RecCreateDirs, Sessions, StoreTypeOK
      <4>2. s # clock + 1
        BY <4>1, <2>2 DEF NewInv, Untouched, AtInv
      <4> QED
        BY <1>0, <2>2, <3>1, <4>2 DEF RecCreateDirs, StoreTypeOK
    <3>2. CASE UNCHANGED dir
      BY <2>2, <3>2
    <3> QED
      BY <1>2, <3>1, <3>2
         DEF Next, AudioThread, TransferThread, Deleting, TxEmpty, TxHasty,
             RecCreateJson, RecCreateFile, RecCloseFile, RecAnnounce, RecNextFile,
             RecFinishRead, RecFinishWrite, TxStart, TxSend, TxSkip, TxUnlink, TxEnd,
             TxSaveRead, TxSaveWrite, AtList, AtEntry, AtPurge, AtDelete, AtDeleteChunk,
             AtDeleteJson, AtDone, PowerCut, AtDeleteGroup, card, vars
  <2>3. ASSUME NEW s \in hist.gone, s \notin hist.bad
        PROVE  ~json'[s].there /\ \A n \in Chunks : chunk'[s][n] = "none"
    BY <1>0, <2>3, DoomedQuiet DEF AtInv
  <2> QED
    BY <2>1, <2>2, <2>3
<1> QED
  BY <1>1, <1>2

LEMMA LiveStep ==
  ASSUME StoreTypeOK, NewInv, LockInv, ReadyInv, UnlinkInv, LiveInv, TxInv, AtInv,
         NoLostUpdate, [Next]_vars
  PROVE  LiveInv'
<1> USE DEF Known, Taken
<1>t. hist.taken \subseteq hist'.taken
  BY HistGrows
<1>0. rec.pc # "idle" => /\ rec.s \in Sessions /\ rec.n \in Chunks
                         /\ rec.n \in Int /\ rec.n > 0
  BY SessionStoreAssumption DEF StoreTypeOK, Chunks
<1>a. hist \in History /\ \A n \in Chunks : n \in Int /\ n > 0
  BY SessionStoreAssumption DEF StoreTypeOK, Chunks
<1>1. CASE RecCreateDirs \/ RecFinishWrite \/ PowerCut
  BY <1>1, RecMoves DEF LiveInv, Live
<1>2. CASE RecCreateJson
  <2>1. /\ rec.pc = "json" /\ Untouched(rec.s) /\ rec.n = 1
        /\ dir[rec.s] \/ rec.s \in hist.bad
    BY <1>2 DEF RecCreateJson, NewInv
  <2>2. CASE Fault(rec.s)
    BY <1>0, <1>2, <1>a, <2>1, <2>2, FaultHist, RecMoves DEF LiveInv, Live
  <2>4. CASE ~dir[rec.s] /\ NoFault
    BY <1>2, <2>1, <2>4, RecMoves DEF LiveInv, Live, NoFault
  <2>3. CASE dir[rec.s] /\ SetJson(rec.s, Fresh) /\ current' = rec.s /\ NoFault
    <3>1. json'[rec.s] = Fresh /\ Fresh.there /\ Fresh.files = 0
      BY <1>0, <2>1, <2>3, PutJson, JsonTypes DEF StoreTypeOK, Fresh, Blank, NoJson
    <3>2. UNCHANGED hist
      BY <2>3 DEF NoFault
    <3> QED
      BY <1>a, <1>2, <2>1, <2>3, <3>1, <3>2, RecMoves
         DEF LiveInv, Live, Untouched, RecCreateJson
  <2> QED
    BY <1>2, <2>2, <2>3, <2>4 DEF RecCreateJson
<1>3. CASE RecCreateFile
  <2>1. rec.pc = "file" /\ UNCHANGED <<dir, json, current>>
    BY <1>3 DEF RecCreateFile
  <2>2. CASE Live'
    <3>1. Live /\ hist'.ready = hist.ready /\ hist'.doomed = hist.doomed
      BY <1>0, <1>3, <1>a, <2>1, <2>2, FaultHist, RecMoves DEF Live, RecCreateFile
    <3>2. ~Fault(rec.s)
      BY <1>0, <1>3, <1>a, <2>1, <2>2, FaultHist, RecMoves DEF Live
    <3>3. SetChunk(rec.s, rec.n, "empty") /\ RecGoto("record")
      BY <1>3, <3>1, <3>2 DEF RecCreateFile, LiveInv
    <3>4. rec'.pc = "record" /\ rec'.s = rec.s /\ rec'.n = rec.n
      BY <3>3 DEF RecGoto, StoreTypeOK, RecType
    <3>5. /\ chunk'[rec.s][rec.n] = "empty"
          /\ \A m \in Chunks : m # rec.n => chunk'[rec.s][m] = chunk[rec.s][m]
      BY <1>0, <2>1, <3>3, PutChunk DEF StoreTypeOK, ChunkStates
    <3> QED
      BY <1>0, <1>a, <1>t, <2>1, <3>1, <3>4, <3>5 DEF LiveInv
  <2> QED
    BY <2>2 DEF LiveInv
<1>4. CASE RecCloseFile
  <2>1. /\ rec.pc = "record" /\ UNCHANGED <<dir, json, current>>
        /\ rec'.pc = "flush" /\ rec'.s = rec.s /\ rec'.n = rec.n
    BY <1>4, RecMoves DEF RecCloseFile, ram
  <2>2. CASE Live'
    <3>1. Live /\ hist'.ready = hist.ready /\ hist'.doomed = hist.doomed
      BY <1>0, <1>4, <1>a, <2>1, <2>2, FaultHist DEF Live, RecCloseFile
    <3>2. ~Fault(rec.s)
      BY <1>0, <1>a, <2>1, <2>2, FaultHist DEF Live
    <3>3. CASE SetChunk(rec.s, rec.n, "whole")
      <4>1. chunk'[rec.s][rec.n] = "whole"
        BY <1>0, <2>1, <3>3, PutChunk DEF StoreTypeOK, ChunkStates
      <4> QED
        BY <1>0, <1>a, <1>t, <2>1, <3>1, <4>1 DEF LiveInv
    <3>4. CASE chunk[rec.s][rec.n] = "none"
      <4>1. Taken
        BY <2>1, <3>1, <3>4 DEF LiveInv
      <4> QED
        BY <1>0, <1>a, <1>t, <2>1, <3>1, <4>1 DEF LiveInv
    <3> QED
      BY <1>4, <3>2, <3>3, <3>4 DEF RecCloseFile
  <2> QED
    BY <2>2 DEF LiveInv
<1>5. CASE RecAnnounce
  <2>1. /\ rec.pc = "flush" /\ UNCHANGED <<dir, json, chunk, current>>
        /\ rec'.pc = "closed" /\ rec'.s = rec.s /\ rec'.n = rec.n
    BY <1>5, RecMoves DEF RecAnnounce, card
  <2>2. CASE Live
    <3>1. /\ hist.ready \subseteq hist'.ready
          /\ Taken \/ [s |-> rec.s, n |-> rec.n] \in hist'.ready
      BY <1>5, <2>1, <2>2, HistMoves DEF LiveInv
    <3> QED
      BY <1>0, <1>5, <1>a, <1>t, <2>1, <2>2, <3>1, HistMoves DEF LiveInv
  <2> QED
    BY <1>5, <2>1, <2>2, HistMoves DEF LiveInv, Live
<1>6. CASE RecNextFile
  <2>1. /\ rec.pc = "closed" /\ UNCHANGED <<dir, json, chunk, current, hist>>
        /\ rec'.pc = "file" /\ rec'.s = rec.s /\ rec'.n = rec.n + 1
    BY <1>6, RecMoves DEF RecNextFile, card, ram
  <2> QED
    BY <1>0, <1>a, <2>1 DEF LiveInv, Live
<1>7. CASE RecFinishRead
  <2>1. /\ rec.pc = "closed" /\ UNCHANGED <<dir, json, chunk, current, hist>>
        /\ rec'.pc = "finish" /\ rec'.s = rec.s /\ rec'.n = rec.n /\ rec'.read = json[rec.s]
    BY <1>7, RecMoves DEF RecFinishRead, card
  <2>2. Live => json[rec.s].synced = hist.saved[rec.s]
    BY <1>0, <2>1 DEF LiveInv, Live, NoLostUpdate, Listed
  <2> QED
    BY <1>0, <1>a, <2>1, <2>2 DEF LiveInv, Live
<1>8. CASE TxUnlink
  <2>1. PICK n \in Chunks : Following(n) /\ SetChunk(tx.s, n, "none")
    BY <1>8 DEF TxUnlink
  <2>2. /\ tx.s \in Sessions /\ tx.pc = "unlink"
        /\ UNCHANGED <<rec, dir, json, current, hist>>
    BY <1>8 DEF TxUnlink, StoreTypeOK, ram
  <2>3. /\ chunk'[tx.s][n] = "none"
        /\ \A r \in Sessions, m \in Chunks : r # tx.s \/ m # n => chunk'[r][m] = chunk[r][m]
    BY <2>1, <2>2, PutChunk DEF StoreTypeOK, ChunkStates
  <2>4. rec.pc \in {"record", "flush"} /\ tx.s = rec.s /\ n = rec.n => Taken
    <3>1. \/ [s |-> tx.s, n |-> n] \in hist.taken
          \/ Past([s |-> tx.s, n |-> n])
      BY <2>1, <2>2 DEF UnlinkInv
    <3> QED
      BY <1>0, <1>a, <3>1 DEF Past
  <2> QED
    BY <1>0, <1>a, <2>1, <2>2, <2>3, <2>4 DEF LiveInv, Live
<1>9. CASE TxSaveWrite
  <2>1. /\ tx.s \in Sessions /\ UNCHANGED <<rec, dir, chunk, current>>
        /\ tx.pc = "write" /\ rec.pc # "finish"
    BY <1>9 DEF TxSaveWrite, StoreTypeOK, LockInv
  <2> DEFINE j == [tx.read EXCEPT !.synced = tx.ok]
  <2>2. j \in Json /\ j.there = tx.read.there /\ j.files = tx.read.files
    BY JsonTypes DEF StoreTypeOK, TxType
  <2>3. CASE json[tx.s].there
    <3>1. SetJson(tx.s, j) /\ tx.read = json[tx.s]
      BY <1>9, <2>1, <2>3 DEF TxSaveWrite, TxInv
    <3> HIDE DEF j
    <3>2. /\ json'[tx.s].there = json[tx.s].there /\ json'[tx.s].files = json[tx.s].files
          /\ \A r \in Sessions : r # tx.s => json'[r] = json[r]
      BY <2>1, <2>2, <3>1, PutJson DEF StoreTypeOK
    <3> QED
      BY <1>0, <1>9, <1>a, <2>1, <3>2, HistMoves DEF LiveInv, Live
  <2>4. CASE ~json[tx.s].there
    BY <1>9, <2>1, <2>4 DEF TxSaveWrite, LiveInv, Live
  <2> QED
    BY <2>3, <2>4
<1>10. CASE AtPurge \/ AtDelete
  <2>1. UNCHANGED <<rec, dir, json, chunk, current>>
    BY <1>10 DEF AtPurge, AtDelete, card, ram
  <2> QED
    BY <1>10, <1>t, <2>1, HistMoves DEF LiveInv, Live
<1>11. CASE AtDeleteChunk
  <2>1. /\ at.s \in Sessions /\ at.s \in hist.doomed
        /\ UNCHANGED <<rec, dir, json, current, hist>>
    BY <1>11 DEF AtDeleteChunk, StoreTypeOK, AtInv, DeletePcs, ram
  <2>2. PICK n \in Chunks : SetChunk(at.s, n, "none")
    BY <1>11 DEF AtDeleteChunk, On
  <2>3. \A r \in Sessions, m \in Chunks : r # at.s => chunk'[r][m] = chunk[r][m]
    BY <2>1, <2>2, PutChunk DEF StoreTypeOK, ChunkStates
  <2> QED
    BY <1>0, <2>1, <2>3 DEF LiveInv, Live
<1>12. CASE AtDeleteJson
  <2>1. /\ at.s \in Sessions /\ at.s \in hist.doomed
        /\ UNCHANGED <<rec, dir, chunk, current, hist>>
    BY <1>12 DEF AtDeleteJson, StoreTypeOK, AtInv, DeletePcs, ram
  <2>2. \A r \in Sessions : r # at.s => json'[r] = json[r]
    BY <1>12, <2>1, PutJson, JsonTypes DEF AtDeleteJson, StoreTypeOK
  <2> QED
    BY <1>0, <2>1, <2>2 DEF LiveInv, Live
<1>13. CASE AtDeleteDir
  <2>1. /\ at.s \in Sessions /\ at.s \in hist.doomed
        /\ UNCHANGED <<rec, json, chunk, current>>
    BY <1>13 DEF AtDeleteDir, StoreTypeOK, AtInv, DeletePcs, ram
  <2>2. \A r \in Sessions : r # at.s => dir'[r] = dir[r]
    BY <1>13, <2>1 DEF AtDeleteDir, StoreTypeOK
  <2> QED
    BY <1>0, <1>13, <2>1, <2>2, HistMoves DEF LiveInv, Live
<1>14. CASE UNCHANGED <<rec, dir, json, chunk, current, hist>>
  BY <1>14 DEF LiveInv, Live
<1>15. CASE TxEmpty
  <2>1. UNCHANGED <<rec, dir, json, chunk, current>>
    BY <1>15 DEF TxEmpty, card, ram
  <2> QED
    BY <1>15, <1>t, <2>1, HistMoves DEF LiveInv, Live
<1> QED
  BY <1>1, <1>2, <1>3, <1>4, <1>5, <1>6, <1>7, <1>8, <1>9, <1>10, <1>11, <1>12, <1>13, <1>14,
     <1>15
     DEF Next, AudioThread, TransferThread, Deleting, TxEmpty, TxHasty, TxStart, TxSend,
         TxSkip, TxEnd, TxSaveRead, AtList, AtEntry, AtDone, AtDeleteGroup, card, ram,
         vars

LEMMA NoLostStep ==
  ASSUME StoreTypeOK, NewInv, LockInv, LiveInv, TxInv, NoLostUpdate, [Next]_vars
  PROVE  NoLostUpdate'
<1> USE DEF NoLostUpdate, Listed
<1>0. hist \in History
  BY DEF StoreTypeOK
<1>1. CASE RecCreateJson
  <2>1. rec.s \in Sessions /\ Untouched(rec.s)
    BY <1>1 DEF RecCreateJson, NewInv, StoreTypeOK
  <2>2. \A r \in Sessions : r # rec.s => json'[r] = json[r]
    BY <1>1, <2>1, PutJson, JsonTypes DEF RecCreateJson, StoreTypeOK
  <2>3. CASE Fault(rec.s)
    BY <1>0, <2>1, <2>2, <2>3, FaultHist
  <2>5. CASE UNCHANGED json /\ NoFault
    BY <2>5 DEF NoFault
  <2>4. CASE SetJson(rec.s, Fresh) /\ NoFault
    <3>1. json'[rec.s] = Fresh /\ Fresh.synced = 0
      BY <2>1, <2>4, PutJson, JsonTypes DEF StoreTypeOK, Fresh, Blank, NoJson
    <3> QED
      BY <2>1, <2>2, <2>4, <3>1 DEF Untouched, NoFault
  <2> QED
    BY <1>1, <2>3, <2>4, <2>5 DEF RecCreateJson
<1>2. CASE RecFinishWrite
  <2>1. rec.s \in Sessions /\ rec.n \in Nat /\ rec.read.synced \in Nat /\ rec.pc = "finish"
    BY <1>2, IdleTypes, JsonTypes DEF RecFinishWrite, StoreTypeOK, RecType
  <2> DEFINE j == [there |-> TRUE, files |-> rec.n, synced |-> rec.read.synced, rec |-> FALSE]
  <2>2. j \in Json /\ j.files = rec.n /\ j.synced = rec.read.synced /\ ~j.rec
    BY <2>1, JsonTypes
  <2>3. CASE SetJson(rec.s, j) /\ hist' = [hist EXCEPT !.fin[rec.s] = rec.n]
    <3> HIDE DEF j
    <3>1. json'[rec.s] = j /\ \A r \in Sessions : r # rec.s => json'[r] = json[r]
      BY <2>1, <2>2, <2>3, PutJson DEF StoreTypeOK
    <3>2. /\ hist'.bad = hist.bad /\ hist'.saved = hist.saved /\ hist'.fin[rec.s] = rec.n
          /\ \A r \in Sessions : r # rec.s => hist'.fin[r] = hist.fin[r]
      BY <1>0, <2>1, <2>3 DEF History
    <3>3. rec.s \notin hist.bad => j.synced = hist.saved[rec.s]
      BY <2>1, <2>2 DEF LiveInv, Live
    <3> QED
      BY <2>1, <2>2, <3>1, <3>2, <3>3
  <2>4. CASE (Fault(rec.s) \/ NoFault) /\ UNCHANGED json
    BY <1>0, <2>1, <2>4, FaultHist
  <2> QED
    BY <1>2, <2>3, <2>4 DEF RecFinishWrite
<1>3. CASE TxSaveWrite
  <2>1. tx.s \in Sessions /\ tx.pc = "write"
    BY <1>3 DEF TxSaveWrite, StoreTypeOK
  <2> DEFINE j == [tx.read EXCEPT !.synced = tx.ok]
  <2>2. /\ j \in Json /\ j.files = tx.read.files /\ j.rec = tx.read.rec
        /\ j.synced = tx.ok
    BY JsonTypes DEF StoreTypeOK, TxType
  <2>3. CASE json[tx.s].there
    <3>1. /\ SetJson(tx.s, j) /\ tx.read = json[tx.s]
          /\ hist' = [hist EXCEPT !.saved[tx.s] = tx.ok]
      BY <1>3, <2>1, <2>3 DEF TxSaveWrite, TxInv
    <3>2. hist'.saved[tx.s] = tx.ok
      BY <1>0, <2>1, <3>1 DEF History
    <3> HIDE DEF j
    <3>3. json'[tx.s] = j /\ \A r \in Sessions : r # tx.s => json'[r] = json[r]
      BY <2>1, <2>2, <3>1, PutJson DEF StoreTypeOK
    <3> QED
      BY <1>3, <2>1, <2>2, <2>3, <3>1, <3>2, <3>3, HistMoves
  <2>4. CASE ~json[tx.s].there
    BY <1>3, <2>4 DEF TxSaveWrite
  <2> QED
    BY <2>3, <2>4
<1>4. CASE AtDeleteJson
  <2>1. at.s \in Sessions /\ UNCHANGED hist /\ ~NoJson.there
    BY <1>4 DEF AtDeleteJson, StoreTypeOK, DeletePcs, NoJson
  <2>2. json'[at.s] = NoJson /\ \A r \in Sessions : r # at.s => json'[r] = json[r]
    BY <1>4, <2>1, PutJson, JsonTypes DEF AtDeleteJson, StoreTypeOK
  <2> QED
    BY <2>1, <2>2
<1>5. CASE RecCreateFile \/ RecCloseFile
  BY <1>0, <1>5, FaultHist DEF RecCreateFile, RecCloseFile, StoreTypeOK
<1>6. CASE UNCHANGED json /\ hist'.saved = hist.saved /\ hist'.fin = hist.fin
           /\ hist.bad \subseteq hist'.bad
  BY <1>6
<1> QED
  BY <1>1, <1>2, <1>3, <1>4, <1>5, <1>6, HistMoves
     DEF Next, AudioThread, TransferThread, Deleting, TxEmpty, TxHasty, RecCreateDirs,
         RecAnnounce, RecNextFile, RecFinishRead, TxStart, TxSend, TxSkip, TxUnlink,
         TxEnd, TxSaveRead, AtList, AtEntry, AtPurge, AtDelete, AtDeleteChunk,
         AtDeleteDir, AtDone, PowerCut, AtDeleteGroup, card, vars

LEMMA ReachStep ==
  ASSUME StoreTypeOK, NewInv, ReadyInv, LiveInv, TxInv, AtInv, ChunksReachable, [Next]_vars
  PROVE  ChunksReachable'
<1> DEFINE Reach(s, n) == /\ json[s].there
                          /\ json[s].files > 0 => n \in 1..json[s].files
<1>0. \A s \in Sessions \ hist.bad, n \in Chunks : chunk[s][n] # "none" => Reach(s, n)
  BY DEF ChunksReachable, On
<1> SUFFICES ASSUME NEW s \in Sessions, s \notin hist'.bad, NEW n \in Chunks,
                    chunk'[s][n] # "none"
             PROVE  Reach(s, n)'
  BY DEF ChunksReachable, On
<1>a. s \notin hist.bad /\ hist \in History
  BY HistGrows DEF StoreTypeOK
<1>b. n \in Int /\ n > 0
  BY SessionStoreAssumption DEF Chunks
<1>c. rec.pc # "idle" => rec.s \in Sessions /\ rec.n \in Chunks /\ rec.n \in Nat /\ rec.n > 0
  BY SessionStoreAssumption DEF StoreTypeOK, Chunks
<1>1. CASE RecCreateJson
  <2>1. s # rec.s
    BY <1>1 DEF RecCreateJson, NewInv, Untouched
  <2>2. json'[s] = json[s]
    BY <1>1, <1>c, <2>1, PutJson, JsonTypes DEF RecCreateJson, StoreTypeOK
  <2> QED
    BY <1>0, <1>1, <1>a, <2>2 DEF RecCreateJson
<1>2. CASE RecCreateFile \/ RecCloseFile
  <2>1. UNCHANGED json /\ rec.pc \in {"file", "record"}
    BY <1>2 DEF RecCreateFile, RecCloseFile
  <2>2. CASE s = rec.s
    <3>1. json[s].there /\ json[s].files = 0
      BY <1>a, <2>1, <2>2 DEF LiveInv, Live
    <3> QED
      BY <2>1, <3>1
  <2>3. CASE s # rec.s
    <3>1. chunk'[s][n] = chunk[s][n]
      BY <1>2, <1>c, <2>1, <2>3, PutChunk
         DEF RecCreateFile, RecCloseFile, StoreTypeOK, ChunkStates
    <3> QED
      BY <1>0, <1>a, <2>1, <3>1
  <2> QED
    BY <2>2, <2>3
<1>3. CASE RecFinishWrite
  <2>1. rec.pc = "finish" /\ rec.read.synced \in Nat /\ UNCHANGED chunk
    BY <1>3, JsonTypes DEF RecFinishWrite, StoreTypeOK, RecType
  <2> DEFINE j == [there |-> TRUE, files |-> rec.n, synced |-> rec.read.synced, rec |-> FALSE]
  <2>2. j \in Json /\ j.files = rec.n /\ j.there
    BY <1>c, <2>1, JsonTypes
  <2>3. CASE SetJson(rec.s, j)
    <3> HIDE DEF j
    <3>1. json'[rec.s] = j /\ \A r \in Sessions : r # rec.s => json'[r] = json[r]
      BY <1>c, <2>1, <2>2, <2>3, PutJson DEF StoreTypeOK
    <3>2. CASE s = rec.s
      <4>1. n <= rec.n
        BY <1>b, <1>c, <2>1, <3>2 DEF ReadyInv
      <4> QED
        BY <1>b, <1>c, <2>1, <2>2, <3>1, <3>2, <4>1
    <3>3. CASE s # rec.s
      BY <1>0, <1>a, <2>1, <3>1, <3>3
    <3> QED
      BY <3>2, <3>3
  <2>4. CASE UNCHANGED json
    BY <1>0, <1>a, <2>1, <2>4
  <2> QED
    BY <1>3, <2>3, <2>4 DEF RecFinishWrite
<1>4. CASE TxUnlink
  <2>1. PICK m \in Chunks : SetChunk(tx.s, m, "none")
    BY <1>4 DEF TxUnlink
  <2>2. tx.s \in Sessions /\ UNCHANGED json
    BY <1>4 DEF TxUnlink, StoreTypeOK
  <2>3. chunk'[s][n] = chunk[s][n]
    BY <2>1, <2>2, PutChunk DEF StoreTypeOK, ChunkStates
  <2> QED
    BY <1>0, <1>a, <2>2, <2>3
<1>5. CASE TxSaveWrite
  <2>1. tx.s \in Sessions /\ tx.pc = "write" /\ UNCHANGED chunk
    BY <1>5 DEF TxSaveWrite, StoreTypeOK
  <2> DEFINE j == [tx.read EXCEPT !.synced = tx.ok]
  <2>2. j \in Json /\ j.files = tx.read.files /\ j.there = tx.read.there
    BY JsonTypes DEF StoreTypeOK, TxType
  <2>3. CASE json[tx.s].there
    <3>1. SetJson(tx.s, j) /\ tx.read = json[tx.s]
      BY <1>5, <2>1, <2>3 DEF TxSaveWrite, TxInv
    <3> HIDE DEF j
    <3>2. json'[tx.s] = j /\ \A r \in Sessions : r # tx.s => json'[r] = json[r]
      BY <2>1, <2>2, <3>1, PutJson DEF StoreTypeOK
    <3> QED
      BY <1>0, <1>a, <2>1, <2>2, <3>1, <3>2
  <2>4. CASE ~json[tx.s].there
    BY <1>0, <1>5, <1>a, <2>1, <2>4 DEF TxSaveWrite
  <2> QED
    BY <2>3, <2>4
<1>6. CASE AtDeleteChunk
  <2>1. PICK m \in Chunks : SetChunk(at.s, m, "none")
    BY <1>6 DEF AtDeleteChunk, On
  <2>2. at.s \in Sessions /\ UNCHANGED json
    BY <1>6 DEF AtDeleteChunk, StoreTypeOK, DeletePcs
  <2>3. chunk'[s][n] = chunk[s][n]
    BY <2>1, <2>2, PutChunk DEF StoreTypeOK, ChunkStates
  <2> QED
    BY <1>0, <1>a, <2>2, <2>3
<1>7. CASE AtDeleteJson
  <2>1. at.s \in Sessions /\ UNCHANGED chunk /\ at.pc = "delete_json"
    BY <1>7 DEF AtDeleteJson, StoreTypeOK, DeletePcs
  <2>2. s # at.s
    BY <1>a, <2>1 DEF AtInv
  <2>3. json'[s] = json[s]
    BY <1>7, <2>1, <2>2, PutJson, JsonTypes DEF AtDeleteJson, StoreTypeOK
  <2> QED
    BY <1>0, <1>a, <2>1, <2>3
<1>8. CASE PowerCut
  <2>1. chunk'[s][n] = chunk[s][n] \/ (s = rec.s /\ n = rec.n /\ rec.pc = "record")
    BY <1>8, CutChunk
  <2>2. CASE s = rec.s /\ rec.pc = "record"
    <3>1. json[s].there /\ json[s].files = 0
      BY <1>a, <2>2 DEF LiveInv, Live
    <3> QED
      BY <1>8, <3>1 DEF PowerCut
  <2> QED
    BY <1>0, <1>8, <1>a, <2>1, <2>2 DEF PowerCut
<1>9. CASE UNCHANGED <<json, chunk>>
  BY <1>0, <1>9, <1>a
<1> QED
  BY <1>1, <1>2, <1>3, <1>4, <1>5, <1>6, <1>7, <1>8, <1>9
     DEF Next, AudioThread, TransferThread, Deleting, TxEmpty, TxHasty, RecCreateDirs,
         RecAnnounce, RecNextFile, RecFinishRead, TxStart, TxSend, TxSkip, TxEnd,
         TxSaveRead, AtList, AtEntry, AtPurge, AtDelete, AtDeleteDir, AtDone,
         AtDeleteGroup, card, vars

-----------------------------------------------------------------------------
(* The theorems                                                             *)

LEMMA StoreInvInit == Init => StoreInv
<1> SUFFICES ASSUME Init PROVE StoreInv
  OBVIOUS
<1>1. StoreTypeOK
  BY StoreTypeInit
<1>2. /\ rec.pc = "idle" /\ tx.pc = "idle" /\ at.pc = "ready" /\ lock = "free"
      /\ at.todo = {} /\ clock = OldSessions
  BY IdleFields DEF Init
<1>3. LockInv /\ LiveInv /\ TxInv /\ UnlinkInv
  BY <1>2 DEF LockInv, LiveInv, Live, TxInv, UnlinkInv
<1>4. PICK old \in [1..OldSessions -> OldStates] :
         /\ \A s \in Sessions :
              /\ json[s] = IF s \in 1..OldSessions
                           THEN IF old[s] = "finished" THEN [Blank EXCEPT !.files = 1] ELSE Fresh
                           ELSE NoJson
              /\ \A n \in Chunks : chunk[s][n] # "none" => n = 1 /\ s \in 1..OldSessions
              /\ hist.fin[s] = IF s \in 1..OldSessions /\ old[s] = "finished" THEN 1 ELSE 0
              /\ hist.saved[s] = 0
         /\ hist.ready = {} /\ hist.doomed = {} /\ hist.gone = {} /\ hist.bad = {}
  <2>1. PICK old \in [1..OldSessions -> OldStates] :
           LET was(s, o) == s \in DOMAIN old /\ old[s] = o
           IN  /\ json = [s \in Sessions |->
                            IF was(s, "finished") THEN [Blank EXCEPT !.files = 1]
                            ELSE IF s \in DOMAIN old THEN Fresh ELSE NoJson]
               /\ chunk = [s \in Sessions |-> [n \in Chunks |->
                            IF n = 1 /\ was(s, "first_chunk") THEN "empty"
                            ELSE IF n = 1 /\ (was(s, "finished") \/ was(s, "second_chunk"))
                            THEN "whole" ELSE "none"]]
               /\ hist = [ready |-> {}, saved |-> [s \in Sessions |-> 0],
                          fin |-> [s \in Sessions |-> IF was(s, "finished") THEN 1 ELSE 0],
                          doomed |-> {}, gone |-> {}, bad |-> {}, taken |-> {}]
    BY DEF Init
  <2>2. DOMAIN old = 1..OldSessions
    OBVIOUS
  <2> QED
    BY <2>1, <2>2
<1>5. /\ Fresh.there /\ Fresh.files = 0 /\ Fresh.synced = 0
      /\ [Blank EXCEPT !.files = 1].there /\ [Blank EXCEPT !.files = 1].files = 1
      /\ [Blank EXCEPT !.files = 1].synced = 0 /\ ~[Blank EXCEPT !.files = 1].rec
      /\ ~NoJson.there
  BY DEF Fresh, Blank, NoJson
<1>6. NewInv
  BY <1>2, <1>4, SessionStoreAssumption DEF NewInv, Untouched, Sessions
<1>7. ReadyInv /\ AtInv
  BY <1>2, <1>4 DEF ReadyInv, AtInv, DeletePcs
<1>8. ClosedSurvive /\ DeletedStaysDeleted
  BY <1>4 DEF ClosedSurvive, DeletedStaysDeleted
<1>9. NoLostUpdate
  <2> SUFFICES ASSUME NEW s \in Sessions, json[s].there
               PROVE  /\ json[s].synced = hist.saved[s]
                      /\ hist.fin[s] > 0 => ~json[s].rec /\ json[s].files = hist.fin[s]
    BY DEF NoLostUpdate, Listed
  <2>1. CASE s \in 1..OldSessions /\ old[s] = "finished"
    BY <1>4, <1>5, <2>1
  <2>2. CASE s \in 1..OldSessions /\ old[s] # "finished"
    BY <1>4, <1>5, <2>2
  <2>3. CASE s \notin 1..OldSessions
    BY <1>4, <1>5, <2>3
  <2> QED
    BY <2>1, <2>2, <2>3
<1>10. ChunksReachable
  <2> SUFFICES ASSUME NEW s \in Sessions, On(s) # {}
               PROVE  /\ json[s].there
                      /\ json[s].files > 0 => On(s) \subseteq 1..json[s].files
    BY DEF ChunksReachable
  <2>1. On(s) \subseteq {1} /\ s \in 1..OldSessions
    BY <1>4 DEF On
  <2>2. CASE old[s] = "finished"
    <3>1. json[s] = [Blank EXCEPT !.files = 1]
      BY <1>4, <2>1, <2>2
    <3>2. json[s].there /\ json[s].files = 1
      BY <1>5, <3>1
    <3> QED
      BY <2>1, <3>2
  <2>3. CASE old[s] # "finished"
    BY <1>4, <1>5, <2>1, <2>3
  <2> QED
    BY <2>2, <2>3
<1> QED
  BY <1>1, <1>3, <1>6, <1>7, <1>8, <1>9, <1>10 DEF StoreInv

LEMMA StoreInvStep == StoreInv /\ [Next]_vars => StoreInv'
  BY StoreTypeStep, NewStep, LockStep, ReadyStep, UnlinkStep, LiveStep, TxStep, AtStep,
     ClosedStep, NoLostStep, ReachStep, DeletedStep DEF StoreInv

LEMMA StoreInvHolds == Spec => []StoreInv
  BY StoreInvInit, StoreInvStep, PTL DEF Spec

\* StoreTypeOK holds for any number of sessions, chunks, cuts, failures and commands
THEOREM StoreTypeCorrect == Spec => []StoreTypeOK
<1>1. StoreInv => StoreTypeOK
  BY DEF StoreInv
<1> QED
  BY <1>1, StoreInvHolds, PTL

\* A chunk announced as closed stays whole until its session is deleted, unless a
\* transfer took it while it was written
THEOREM ClosedSurvives == Spec => []ClosedSurvive
<1>1. StoreInv => ClosedSurvive
  BY DEF StoreInv
<1> QED
  BY <1>1, StoreInvHolds, PTL

\* No listing, AT+DELETE or transfer takes what is being recorded, but a delete
\* that comes before current_session_id and a chunk taken while it was written
THEOREM RecordingIsKept == Spec => []RecordingKept
<1>1. StoreInv => RecordingKept
  <2> SUFFICES ASSUME StoreInv, Live
               PROVE  /\ dir[rec.s] /\ json[rec.s].there
                      /\ \A n \in Chunks :
                            Opened(n) /\ [s |-> rec.s, n |-> n] \notin hist.taken
                              => chunk[rec.s][n] # "none"
    BY DEF RecordingKept, Live
  <2>1. dir[rec.s] /\ json[rec.s].there
    BY DEF StoreInv, LiveInv
  <2>2. ASSUME NEW n \in Chunks, n < rec.n, [s |-> rec.s, n |-> n] \notin hist.taken
        PROVE  chunk[rec.s][n] # "none"
    <3>1. [s |-> rec.s, n |-> n] \in hist.ready /\ rec.s \notin hist.doomed
      BY <2>2 DEF StoreInv, LiveInv, Known
    <3> QED
      BY <2>2, <3>1 DEF StoreInv, ClosedSurvive
  <2>3. rec.pc \in {"record", "flush"} => chunk[rec.s][rec.n] # "none" \/ Taken
    BY DEF StoreInv, LiveInv
  <2> QED
    BY <2>1, <2>2, <2>3 DEF Opened, Taken
<1> QED
  BY <1>1, StoreInvHolds, PTL

\* The recorder and the transfer lose neither's update of session.json
THEOREM NoUpdateIsLost == Spec => []NoLostUpdate
<1>1. StoreInv => NoLostUpdate
  BY DEF StoreInv
<1> QED
  BY <1>1, StoreInvHolds, PTL

\* A session with a chunk is listed, and its count covers the chunk
THEOREM ChunksAreReachable == Spec => []ChunksReachable
<1>1. StoreInv => ChunksReachable
  BY DEF StoreInv
<1> QED
  BY <1>1, StoreInvHolds, PTL

\* A session deleted to the end stays deleted
THEOREM DeletedIsDeleted == Spec => []DeletedStaysDeleted
<1>1. StoreInv => DeletedStaysDeleted
  BY DEF StoreInv
<1> QED
  BY <1>1, StoreInvHolds, PTL
==============================================================================
