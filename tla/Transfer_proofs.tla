--------------------------- MODULE Transfer_proofs ---------------------------
(***************************************************************************)
(* Theorems about Transfer, for every value of its constants.               *)
(***************************************************************************)
EXTENDS Transfer, TLAPS

-----------------------------------------------------------------------------
(* Type correctness                                                         *)

\* The records stay in their types when one field is given a value of its own
LEMMA InfoFields ==
  ASSUME NEW x \in TransferInfo
  PROVE  /\ \A s \in States : [x EXCEPT !.state = s] \in TransferInfo
         /\ \A n \in Nat : /\ [x EXCEPT !.file = n] \in TransferInfo
                           /\ [x EXCEPT !.index = n] \in TransferInfo
                           /\ [x EXCEPT !.synced = n] \in TransferInfo
                           /\ [x EXCEPT !.total = n] \in TransferInfo
         /\ \A b \in BOOLEAN : [x EXCEPT !.cont = b] \in TransferInfo
         /\ \A b \in BOOLEAN : [x EXCEPT !.named = b] \in TransferInfo
         /\ x.state \in States /\ x.named \in BOOLEAN /\ x.file \in Nat
         /\ x.index \in Nat /\ x.total \in Nat /\ x.synced \in Nat
         /\ x.cont \in BOOLEAN
  BY DEF TransferInfo

LEMMA BlankType == Blank \in TransferInfo
  BY DEF Blank, TransferInfo, States, NoFile

LEMMA HistoryFields ==
  ASSUME NEW h \in History
  PROVE  /\ \A n \in Nat : /\ [h EXCEPT !.dones = @ + 1] \in History
                           /\ [h EXCEPT !.from = n] \in History
                           /\ [h EXCEPT !.acked = @ \union {n}] \in History
         /\ \A b \in BOOLEAN : [h EXCEPT !.lost = @ \/ b] \in History
  BY DEF History

LEMMA NewHistoryType ==
  ASSUME NEW b \in BOOLEAN
  PROVE  [NoHist EXCEPT !.armed = TRUE, !.lost = b] \in History
  BY DEF NoHist, History

LEMMA BudgetFields ==
  ASSUME NEW b \in Budget
  PROVE  /\ b.link > 0 => [b EXCEPT !.link = @ - 1] \in Budget
         /\ b.cancel > 0 => [b EXCEPT !.cancel = @ - 1] \in Budget
         /\ b.fault > 0 => [b EXCEPT !.fault = @ - 1] \in Budget
  BY DEF Budget

\* The helpers of transfer.c keep the types
LEMMA CleanupType ==
  ASSUME TypeOK, Cleanup
  PROVE  /\ xfer' \in TransferInfo /\ fileOpen' \in BOOLEAN /\ boost' \in Int
         /\ cancelReq' \in BOOLEAN /\ doneSent' \in BOOLEAN
<1>1. xfer.cont \in BOOLEAN
  BY InfoFields DEF TypeOK
<1>2. xfer' \in TransferInfo
  BY <1>1, BlankType, InfoFields DEF Cleanup
<1>3. fileOpen' \in BOOLEAN /\ cancelReq' \in BOOLEAN /\ doneSent' \in BOOLEAN
  BY DEF Cleanup
<1>4. boost' \in Int
  BY DEF Cleanup, TypeOK
<1> QED
  BY <1>2, <1>3, <1>4

LEMMA SendDoneOnceType ==
  ASSUME TypeOK, SendDoneOnce
  PROVE  doneSent' \in BOOLEAN /\ synced' \in Nat /\ hist' \in History
  BY InfoFields, HistoryFields DEF SendDoneOnce, TypeOK

LEMMA NextStaysType ==
  ASSUME TypeOK, NEW x \in TransferInfo, NEW pc \in ThPcs, NextStays(x, pc)
  PROVE  TypeOK'
  BY DEF NextStays, ThGoto, TypeOK, at, env, card

LEMMA SkipType ==
  ASSUME TypeOK, NEW n \in Nat, Skip(n)
  PROVE  TypeOK'
<1>1. [xfer EXCEPT !.index = n, !.file = NoFile] \in TransferInfo
  BY DEF TypeOK, TransferInfo, NoFile
<1>2. xfer' \in TransferInfo
  BY <1>1 DEF Skip
<1>3. UNCHANGED <<idleSem, triggerSem, boost, curTp, fileOpen, cancelReq, doneSent,
                  at, env, card, synced, hist>>
      /\ tries' = 0 /\ tpc' = "loop"
  BY DEF Skip, ThGoto
<1> QED
  BY <1>2, <1>3 DEF TypeOK, at, env, card, ThPcs

\* No more files, once the card is known to keep its type
LEMMA NoMoreType ==
  ASSUME TypeOK, NEW x \in TransferInfo, NoMore(x), disk' \in [Files -> FileStates]
  PROVE  TypeOK'
<1>1. xfer' \in TransferInfo
  BY InfoFields DEF NoMore, States
<1>2. doneSent' \in BOOLEAN /\ synced' \in Nat /\ hist' \in History
  BY SendDoneOnceType DEF NoMore
<1>3. UNCHANGED <<fileOpen, curTp, cancelReq, idleSem, triggerSem, boost, tries, at,
                  env, recorder, fileCount>>
      /\ tpc' = "cleanup_park"
  BY DEF NoMore
<1> QED
  BY <1>1, <1>2, <1>3 DEF TypeOK, at, env, ThPcs

LEMMA NextErrorType ==
  ASSUME TypeOK, NEW n \in Nat, NextError(n)
  PROVE  TypeOK'
<1>1. CASE tries < MaxFileErrors
  <2>1. xfer' = [xfer EXCEPT !.file = n]
    BY <1>1 DEF NextError
  <2>2. xfer' \in TransferInfo
    BY <2>1, InfoFields DEF TypeOK
  <2>3. tries' \in Nat
    BY <1>1 DEF NextError, TypeOK
  <2>4. UNCHANGED <<idleSem, triggerSem, boost, curTp, fileOpen, cancelReq, doneSent,
                    at, env, card, synced, hist>>
        /\ tpc' = "loop"
    BY <1>1 DEF NextError, ThGoto
  <2> QED
    BY <2>2, <2>3, <2>4 DEF TypeOK, at, env, card, ThPcs
<1>2. CASE ~(tries < MaxFileErrors)
  <2>1. [xfer EXCEPT !.file = n, !.state = "ERROR"] \in TransferInfo
    BY DEF TypeOK, TransferInfo, States
  <2>2. xfer' \in TransferInfo
    BY <1>2, <2>1 DEF NextError
  <2>3. doneSent' \in BOOLEAN /\ synced' \in Nat /\ hist' \in History
    BY <1>2, SendDoneOnceType DEF NextError
  <2>4. UNCHANGED <<fileOpen, curTp, cancelReq, idleSem, triggerSem, boost, at, env,
                    card>>
        /\ tries' = 0 /\ tpc' = "cleanup_park"
    BY <1>2 DEF NextError
  <2> QED
    BY <2>2, <2>3, <2>4 DEF TypeOK, at, env, card, ThPcs
<1> QED
  BY <1>1, <1>2

LEMMA FinishType ==
  ASSUME TypeOK, NEW s \in States, NEW pc \in ThPcs, Finish(s, pc), tries' \in Nat
  PROVE  TypeOK'
<1>1. xfer' \in TransferInfo
  BY InfoFields DEF Finish, TypeOK
<1>2. doneSent' \in BOOLEAN /\ synced' \in Nat /\ hist' \in History
  BY SendDoneOnceType DEF Finish
<1>3. UNCHANGED <<curTp, cancelReq, idleSem, triggerSem, boost, at, env, card>>
      /\ fileOpen' = FALSE /\ tpc' = pc
  BY DEF Finish
<1> QED
  BY <1>1, <1>2, <1>3 DEF TypeOK, at, env, card

LEMMA FileAckedType ==
  ASSUME TypeOK, FileAcked
  PROVE  TypeOK'
<1>1. [xfer EXCEPT !.synced = xfer.index, !.file = NoFile] \in TransferInfo
  BY DEF TypeOK, TransferInfo, NoFile
<1>2. xfer' \in TransferInfo
  BY <1>1 DEF FileAcked
<1>3. xfer.file \in Nat
  BY InfoFields DEF TypeOK
<1>4. hist' \in History
  BY <1>3, HistoryFields DEF FileAcked, TypeOK
<1>5. UNCHANGED <<idleSem, triggerSem, boost, curTp, cancelReq, doneSent, at, env, card,
                  synced>>
      /\ fileOpen' = FALSE /\ tries' = 0 /\ tpc' = "loop"
  BY DEF FileAcked, CloseAndLoop, ThGoto
<1> QED
  BY <1>2, <1>4, <1>5 DEF TypeOK, at, env, card, ThPcs

LEMMA LinkChangeType ==
  ASSUME TypeOK, NEW links \in SUBSET Transports, LinkChange(links),
         cancelWork' \in BOOLEAN
  PROVE  TypeOK'
<1>1. budget' \in Budget
  BY BudgetFields DEF LinkChange, TypeOK
<1>2. hist' \in History
  BY HistoryFields DEF LinkChange, TypeOK
<1>3. UNCHANGED <<xfer, fileOpen, curTp, ctl, tpc, tries, at, card, synced>>
      /\ up' = links
  BY DEF LinkChange
<1> QED
  BY <1>1, <1>2, <1>3 DEF TypeOK, ctl, at, card

THEOREM TypeCorrect == Spec => []TypeOK
<1>1. Init => TypeOK
  <2> SUFFICES ASSUME Init PROVE TypeOK
    OBVIOUS
  <2>1. xfer \in TransferInfo
    BY BlankType DEF Init
  <2>2. hist \in History
    BY DEF Init, NoHist, History
  <2>3. budget \in Budget
    BY TransferAssumption DEF Init, Budget
  <2>4. req \in Request
    BY DEF Init, Request
  <2>5. disk \in [Files -> FileStates] /\ fileCount \in Files /\ recorder \in RecorderStates
        /\ up \subseteq Transports
    BY DEF Init
  <2>6. /\ fileOpen \in BOOLEAN /\ cancelReq \in BOOLEAN /\ doneSent \in BOOLEAN
        /\ cancelWork \in BOOLEAN /\ curTp \in Transports \union {NoTp}
    BY DEF Init
  <2>7. /\ idleSem \in {0, 1} /\ triggerSem \in {0, 1} /\ boost \in Int
        /\ tries \in Nat /\ synced \in Nat
    BY DEF Init
  <2>8. tpc \in ThPcs /\ apc \in AtPcs
    BY DEF Init, AtPcs, ThPcs
  <2> QED
    BY <2>1, <2>2, <2>3, <2>4, <2>5, <2>6, <2>7, <2>8 DEF TypeOK
<1>2. TypeOK /\ [Next]_vars => TypeOK'
  <2> SUFFICES ASSUME TypeOK, [Next]_vars PROVE TypeOK'
    OBVIOUS
  <2>1. CASE AtDownload
    BY <2>1, TransferAssumption
       DEF AtDownload, Request, AtPcs, TypeOK, ctl, at, env, card
  <2>2. CASE AtCheckBusy
    BY <2>2
       DEF AtCheckBusy, AtGoto, AtAnswer, Active, AtPcs, TypeOK, ctl,
           at, env, card
  <2>3. CASE AtTakeIdle
    BY <2>3
       DEF AtTakeIdle, AtGoto, AtPcs, TypeOK, ctl, at, env, card
  <2>4. CASE AtIdleTimeout
    BY <2>4
       DEF AtIdleTimeout, AtAnswer, AtGoto, AtPcs, TypeOK, ctl, at, env, card
  <2>5. CASE AtRefuse
    BY <2>5
       DEF AtRefuse, AtAnswer, AtGoto, AtFail, Active, AtPcs, TypeOK, ctl,
           at, env, card
  <2>6. CASE AtArm
    <3>1. xfer' \in TransferInfo
      BY <2>6 DEF AtArm, Blank, TransferInfo, States, NoFile
    <3>2. hist' \in History
      BY <2>6, NewHistoryType DEF AtArm, Connected
    <3>3. doneSent' = FALSE /\ cancelReq' = FALSE /\ fileOpen' = FALSE /\ tries' = 0
          /\ apc' = "read_info"
          /\ UNCHANGED <<req, curTp, idleSem, triggerSem, boost, tpc, env, card,
                         synced>>
      BY <2>6 DEF AtArm, AtGoto
    <3> QED
      BY <3>1, <3>2, <3>3 DEF TypeOK, env, card, AtPcs
  <2>7. CASE AtInfoFault
    <3>1. budget' \in Budget
      BY <2>7, BudgetFields DEF AtInfoFault, TypeOK
    <3>2. boost' = boost - 1 /\ triggerSem' = 1 /\ apc' = "ready"
          /\ UNCHANGED <<req, xfer, fileOpen, curTp, cancelReq, doneSent, idleSem, tpc,
                         tries, up, cancelWork, card, synced, hist>>
      BY <2>7 DEF AtInfoFault, AtFail, AtAnswer, AtGoto
    <3> QED
      BY <3>1, <3>2 DEF TypeOK, card, AtPcs
  <2>8. CASE AtTrigger
    <3> DEFINE ix == StartIndex(req.from, fileCount)
    <3>1. req.from \in Nat /\ fileCount \in Nat /\ fileCount > 0 /\ fileCount \in Files
      BY TransferAssumption DEF TypeOK, Request, Files
    <3>2. ix \in Nat
      BY <3>1 DEF StartIndex
    <3>3. xfer' \in TransferInfo
      <4> DEFINE total == IF SameId /\ req.from = 0 THEN 0 ELSE fileCount
      <4>1. total \in Nat /\ SameId \in BOOLEAN
        BY <3>1 DEF TypeOK, SameId
      <4>2. xfer' = [xfer EXCEPT !.index = ix, !.total = total, !.cont = SameId]
        BY <2>8 DEF AtTrigger
      <4> HIDE DEF ix, total
      <4> QED
        BY <3>2, <4>1, <4>2 DEF TypeOK, TransferInfo
    <3>4. hist' \in History
      <4> DEFINE first == IF req.from = 0 THEN 1 ELSE req.from
      <4>1. first \in Nat
        BY <3>1
      <4>2. hist' = [hist EXCEPT !.from = first]
        BY <2>8 DEF AtTrigger
      <4> HIDE DEF first
      <4> QED
        BY <4>1, <4>2, HistoryFields DEF TypeOK
    <3>5. triggerSem' = 1 /\ apc' = "ready"
          /\ UNCHANGED <<req, fileOpen, curTp, cancelReq, doneSent, idleSem, boost,
                         tpc, tries, env, card, synced>>
      BY <2>8 DEF AtTrigger, AtAnswer, AtGoto
    <3> QED
      BY <3>3, <3>4, <3>5 DEF TypeOK, env, card, AtPcs
  <2>9. CASE AtCancel
    BY <2>9, BudgetFields
       DEF AtCancel, AtGoto, Active, AtPcs, TypeOK, ctl, at, env,
           card
  <2>10. CASE AtCancelFlag
    BY <2>10
       DEF AtCancelFlag, AtGoto, AtPcs, TypeOK, ctl, at, env, card
  <2>11. CASE AtCancelState
    BY <2>11, InfoFields
       DEF AtCancelState, AtGoto, States, NoFile, AtPcs, TypeOK,
           ctl, at, env, card
  <2>12. CASE ThWake
    BY <2>12
       DEF ThWake, ThPcs, TypeOK, ctl, at, env, card
  <2>13. CASE ThNoCancel
    BY <2>13
       DEF ThNoCancel, ThGoto, ThPcs, TypeOK, ctl, at, env, card
  <2>14. CASE ThCancel
    <3>1. xfer.state \in States /\ "cleanup_park" \in ThPcs /\ tries' \in Nat
      BY <2>14, InfoFields DEF ThCancel, TypeOK, States, ThPcs
    <3> QED
      BY <2>14, <3>1, FinishType DEF ThCancel
  <2>15. CASE ThCleanupPark
    <3>1. /\ xfer' \in TransferInfo /\ fileOpen' \in BOOLEAN /\ boost' \in Int
          /\ cancelReq' \in BOOLEAN /\ doneSent' \in BOOLEAN
      BY <2>15, CleanupType DEF ThCleanupPark
    <3>2. tpc' = "parked" /\ idleSem' = 1
          /\ UNCHANGED <<curTp, triggerSem, tries, at, env, card, synced, hist>>
      BY <2>15 DEF ThCleanupPark, Park
    <3> QED
      BY <3>1, <3>2 DEF TypeOK, at, env, card, ThPcs
  <2>16. CASE ThCleanupLoop
    <3>1. /\ xfer' \in TransferInfo /\ fileOpen' \in BOOLEAN /\ boost' \in Int
          /\ cancelReq' \in BOOLEAN /\ doneSent' \in BOOLEAN
      BY <2>16, CleanupType DEF ThCleanupLoop
    <3>2. tpc' = "loop"
          /\ UNCHANGED <<curTp, idleSem, triggerSem, tries, at, env, card, synced, hist>>
      BY <2>16 DEF ThCleanupLoop, Park
    <3> QED
      BY <3>1, <3>2 DEF TypeOK, at, env, card, ThPcs
  <2>17. CASE ThIdle
    BY <2>17
       DEF ThIdle, Park, ThPcs, TypeOK, ctl, at, env, card
  <2>18. CASE ThSleep
    BY <2>18
       DEF ThSleep, ThGoto, ThPcs, TypeOK, ctl, at, env, card
  <2>19. CASE ThProceed
    BY <2>19
       DEF ThProceed, ThGoto, Active, Connected, ThPcs, TypeOK, ctl, at, env,
           card
  <2>20. CASE ThNextPreset
    BY <2>20, InfoFields
       DEF ThNextPreset, ThGoto, NextStays, States, NoFile, ThPcs, TypeOK,
           ctl, at, env, card
  <2>21. CASE ThNextNormal
    <3> DEFINE n == xfer.index + 1
    <3>1. n \in Nat /\ NoFile \in Nat
      BY InfoFields DEF TypeOK, NoFile
    <3>2. [xfer EXCEPT !.file = n] \in TransferInfo
          /\ [xfer EXCEPT !.index = n] \in TransferInfo
      BY <3>1, InfoFields DEF TypeOK
    <3>3. "open" \in ThPcs
      BY DEF ThPcs
    <3>4. \/ NoMore([xfer EXCEPT !.file = n]) /\ UNCHANGED disk
          \/ NextStays([xfer EXCEPT !.file = n], "open")
          \/ NoMore([xfer EXCEPT !.index = n]) /\ UNCHANGED disk
          \/ Skip(n)
      BY <2>21 DEF ThNextNormal
    <3>5. disk \in [Files -> FileStates]
      BY DEF TypeOK
    <3> QED
      BY <3>1, <3>2, <3>3, <3>4, <3>5, NoMoreType, NextStaysType, SkipType
  <2>22. CASE ThNextContinuous
    <3>1. xfer.index + 1 \in Nat
      BY InfoFields DEF TypeOK
    <3>2. [xfer EXCEPT !.file = xfer.index + 1] \in TransferInfo
      BY <3>1, InfoFields DEF TypeOK
    <3>3. \E pc \in {"wait_write", "await"} :
             NextStays([xfer EXCEPT !.file = xfer.index + 1], pc)
      BY <2>22 DEF ThNextContinuous
    <3> QED
      BY <3>2, <3>3, NextStaysType DEF ThPcs
  <2>23. CASE ThAwaitFound
    BY <2>23, InfoFields, TransferAssumption
       DEF ThAwaitFound, ThGoto, NextStays, Exists, States, NoFile, Files,
           FileStates, ThPcs, TypeOK, ctl, at, env, card
  <2>24. CASE ThAwaitStopped
    <3>1. xfer.file \in Nat /\ xfer \in TransferInfo /\ disk \in [Files -> FileStates]
      BY InfoFields DEF TypeOK
    <3>2. Skip(xfer.file) \/ (NoMore(xfer) /\ UNCHANGED disk)
      BY <2>24 DEF ThAwaitStopped
    <3> QED
      BY <3>1, <3>2, SkipType, NoMoreType
  <2>25. CASE ThAwaitError
    <3>1. xfer.file \in Nat
      BY InfoFields DEF TypeOK
    <3> QED
      BY <2>25, <3>1, NextErrorType DEF ThAwaitError
  <2>26. CASE ThAwaitTimeout
    <3>1. xfer \in TransferInfo /\ disk \in [Files -> FileStates]
      BY DEF TypeOK
    <3> QED
      BY <2>26, <3>1, NoMoreType DEF ThAwaitTimeout
  <2>27. CASE ThWaitWrite
    <3>1. xfer.file \in Nat /\ NoFile \in Nat /\ xfer \in TransferInfo
          /\ "open" \in ThPcs
      BY InfoFields DEF TypeOK, NoFile, ThPcs
    <3>2. NextStays(xfer, "open") \/ NextError(NoFile) \/ NextError(xfer.file)
      BY <2>27 DEF ThWaitWrite
    <3> QED
      BY <3>1, <3>2, NextStaysType, NextErrorType
  <2>28. CASE ThOpen
    <3>1. xfer.index + 1 \in Nat
      BY InfoFields DEF TypeOK
    <3>2. xfer' \in TransferInfo
      BY <2>28, <3>1, InfoFields DEF ThOpen, TypeOK
    <3>3. fileOpen' = TRUE /\ tries' = 0 /\ tpc' = "chunks"
          /\ UNCHANGED <<idleSem, triggerSem, boost, curTp, cancelReq, doneSent, at, env,
                         card, synced, hist>>
      BY <2>28 DEF ThOpen, ThGoto
    <3> QED
      BY <3>2, <3>3 DEF TypeOK, at, env, card, ThPcs
  <2>29. CASE ThOpenError
    <3>1. NoFile \in Nat
      BY DEF NoFile
    <3> QED
      BY <2>29, <3>1, NextErrorType DEF ThOpenError
  <2>30. CASE ThOpenNothing
    <3>1. [xfer EXCEPT !.file = NoFile] \in TransferInfo
      BY InfoFields DEF TypeOK, NoFile
    <3>2. NoMore([xfer EXCEPT !.file = NoFile])
      BY <2>30 DEF ThOpenNothing
    <3>3. disk' \in [Files -> FileStates]
      BY <2>30 DEF ThOpenNothing, TypeOK, FileStates
    <3> QED
      BY <3>1, <3>2, <3>3, NoMoreType
  <2>31. CASE ThChunksLeave
    BY <2>31
       DEF ThChunksLeave, ThGoto, Active, ThPcs, TypeOK, ctl, at, env, card
  <2>32. CASE ThChunksLost
    BY <2>32
       DEF ThChunksLost, ThGoto, CloseAndLoop, Active, Connected, ThPcs,
           TypeOK, ctl, at, env, card
  <2>33. CASE ThChunksSent
    BY <2>33
       DEF ThChunksSent, ThGoto, Active, Connected, ThPcs, TypeOK, ctl, at,
           env, card
  <2>34. CASE ThChunksError
    <3>1. "ERROR" \in States /\ "cleanup_loop" \in ThPcs /\ tries' \in Nat
      BY <2>34, InfoFields DEF ThChunksError, TypeOK, States, ThPcs
    <3> QED
      BY <2>34, <3>1, FinishType DEF ThChunksError
  <2>35. CASE ThFileEnd
    <3>1. CASE FileAcked
      BY <3>1, FileAckedType
    <3>2. CASE /\ ThGoto("resend")
               /\ UNCHANGED <<xfer, fileOpen, cancelReq, doneSent, tries, at, env, card,
                              synced, hist>>
      BY <3>2 DEF ThGoto, TypeOK, at, env, card, ThPcs
    <3>3. CASE Finish("ERROR", "cleanup_loop") /\ tries' = 0
      BY <3>3, FinishType DEF States, ThPcs
    <3> QED
      BY <2>35, <3>1, <3>2, <3>3 DEF ThFileEnd
  <2>36. CASE ThResend
    <3>1. CASE Finish("ERROR", "cleanup_loop") /\ tries' = 0
      BY <3>1, FinishType DEF States, ThPcs
    <3>2. CASE /\ tries' = tries + 1
               /\ ThGoto("file_end_again")
               /\ UNCHANGED <<xfer, fileOpen, cancelReq, doneSent, at, env, card, synced,
                              hist>>
      BY <3>2 DEF ThGoto, TypeOK, at, env, card, ThPcs
    <3> QED
      BY <2>36, <3>1, <3>2 DEF ThResend
  <2>37. CASE ThResendGiveUp
    <3>1. "ERROR" \in States /\ "cleanup_loop" \in ThPcs /\ tries' \in Nat
      BY <2>37, InfoFields DEF ThResendGiveUp, TypeOK, States, ThPcs
    <3> QED
      BY <2>37, <3>1, FinishType DEF ThResendGiveUp
  <2>38. CASE CancelWork
    BY <2>38, InfoFields
       DEF CancelWork, CancelNow, Active, States, NoFile, ThPcs, TypeOK, ctl,
           at, env, card
  <2>39. CASE ShutdownCancel
    BY <2>39, InfoFields
       DEF ShutdownCancel, CancelNow, Active, States, NoFile, ThPcs, TypeOK,
           ctl, at, env, card
  <2>40. CASE LinkUp
    <3>1. PICK t \in Transports : LinkChange(up \union {t})
      BY <2>40 DEF LinkUp, TypeOK
    <3>2. cancelWork' \in BOOLEAN /\ (up \union {t}) \in SUBSET Transports
      BY <2>40 DEF LinkUp, TypeOK
    <3> QED
      BY <3>1, <3>2, LinkChangeType
  <2>41. CASE LinkDisconnected
    <3>1. PICK t \in Transports : LinkChange(up \ {t})
      BY <2>41 DEF LinkDisconnected, TypeOK
    <3>2. cancelWork' \in BOOLEAN /\ (up \ {t}) \in SUBSET Transports
      BY <2>41 DEF LinkDisconnected, TypeOK
    <3> QED
      BY <3>1, <3>2, LinkChangeType
  <2>42. CASE LinkSilent
    <3>1. PICK t \in Transports : LinkChange(up \ {t})
      BY <2>42 DEF LinkSilent, TypeOK
    <3>2. cancelWork' \in BOOLEAN /\ (up \ {t}) \in SUBSET Transports
      BY <2>42 DEF LinkSilent, TypeOK
    <3> QED
      BY <3>1, <3>2, LinkChangeType
  <2>43. CASE RecordClose
    BY <2>43, TransferAssumption
       DEF RecordClose, RecordStep, Files, FileStates, ThPcs, TypeOK, ctl,
           at, env, card
  <2>44. CASE RecordOpen
    BY <2>44, TransferAssumption
       DEF RecordOpen, RecordStep, Files, FileStates, ThPcs, TypeOK, ctl, at,
           env, card
  <2>45. CASE RecordChange
    BY <2>45, TransferAssumption
       DEF RecordChange, RecordStep, RecorderStates, TypeOK, ctl, at, env, card
  <2>46. CASE UNCHANGED vars
    BY <2>46 DEF vars, TypeOK, ctl, at, env, card
  <2> QED
    BY <2>1, <2>2, <2>3, <2>4, <2>5, <2>6, <2>7, <2>8, <2>9, <2>10, <2>11,
       <2>12, <2>13, <2>14, <2>15, <2>16, <2>17, <2>18, <2>19, <2>20, <2>21,
       <2>22, <2>23, <2>24, <2>25, <2>26, <2>27, <2>28, <2>29, <2>30, <2>31,
       <2>32, <2>33, <2>34, <2>35, <2>36, <2>37, <2>38, <2>39, <2>40, <2>41,
       <2>42, <2>43, <2>44, <2>45, <2>46
       DEF Next, AtThread, TransferThread, Environment
<1> QED
  BY <1>1, <1>2, PTL DEF Spec

-----------------------------------------------------------------------------
(* transfer_idle_sem and transfer_trigger_sem as a lock                     *)

\* The AT thread has taken transfer_idle_sem and not yet answered
Owning == {"check_session", "read_info"}

\* Exactly one of three holds while the thread is parked: the AT thread may
\* take transfer_idle_sem, it owns the transfer, or it has triggered the thread.
\* None of them holds while the thread runs
LockInv ==
    /\ tpc = "parked" => idleSem = 1 \/ apc \in Owning \/ triggerSem = 1
    /\ idleSem = 1 => tpc = "parked" /\ triggerSem = 0 /\ apc \notin Owning
    /\ apc \in Owning => tpc = "parked" /\ idleSem = 0 /\ triggerSem = 0
    /\ triggerSem = 1 => tpc = "parked" /\ idleSem = 0 /\ apc \notin Owning

LEMMA LockInit == Init => LockInv
  BY DEF Init, LockInv, Owning

\* A step of the running thread that stays out of the way of the semaphores
LEMMA LockRunning ==
  ASSUME LockInv, tpc # "parked", tpc' # "parked", UNCHANGED <<idleSem, triggerSem, apc>>
  PROVE  LockInv'
  BY DEF LockInv

\* A step that touches none of the four variables
LEMMA LockStill ==
  ASSUME LockInv, UNCHANGED <<tpc, idleSem, triggerSem, apc>>
  PROVE  LockInv'
  BY DEF LockInv

LEMMA LockStep == TypeOK /\ LockInv /\ [Next]_vars => LockInv'
<1> SUFFICES ASSUME TypeOK, LockInv, [Next]_vars PROVE LockInv'
  OBVIOUS
<1>1. CASE AtDownload
  BY <1>1 DEF AtDownload, LockInv, Owning, TypeOK, ctl
<1>2. CASE AtCheckBusy
  BY <1>2 DEF AtCheckBusy, AtGoto, AtAnswer, Active, LockInv, Owning, TypeOK, ctl
<1>3. CASE AtTakeIdle
  BY <1>3 DEF AtTakeIdle, AtGoto, LockInv, Owning, TypeOK, ctl
<1>4. CASE AtIdleTimeout
  BY <1>4 DEF AtIdleTimeout, AtAnswer, AtGoto, LockInv, Owning, TypeOK, ctl
<1>5. CASE AtRefuse
  BY <1>5 DEF AtRefuse, AtAnswer, AtGoto, AtFail, Active, LockInv, Owning, TypeOK, ctl
<1>6. CASE AtArm
  BY <1>6 DEF AtArm, AtGoto, Active, Connected, LockInv, Owning, TypeOK, ctl
<1>7. CASE AtInfoFault
  BY <1>7 DEF AtInfoFault, AtAnswer, AtGoto, AtFail, LockInv, Owning, TypeOK, ctl
<1>8. CASE AtTrigger
  BY <1>8 DEF AtTrigger, AtAnswer, AtGoto, LockInv, Owning, TypeOK, ctl
<1>9. CASE AtCancel
  BY <1>9 DEF AtCancel, AtGoto, Active, LockInv, Owning, TypeOK, ctl
<1>10. CASE AtCancelFlag
  BY <1>10 DEF AtCancelFlag, AtGoto, LockInv, Owning, TypeOK, ctl
<1>11. CASE AtCancelState
  BY <1>11 DEF AtCancelState, AtGoto, LockInv, Owning, TypeOK, ctl
<1>12. CASE ThWake
  BY <1>12 DEF ThWake, LockInv, Owning, TypeOK, at
<1>13. CASE ThNoCancel
  BY <1>13, LockRunning
     DEF ThNoCancel, ThGoto, at
<1>14. CASE ThCancel
  BY <1>14, LockRunning
     DEF ThCancel, Finish, at
<1>15. CASE ThCleanupPark
  BY <1>15 DEF ThCleanupPark, Park, LockInv, Owning, TypeOK, at
<1>16. CASE ThCleanupLoop
  BY <1>16, LockRunning
     DEF ThCleanupLoop, Cleanup, at
<1>17. CASE ThIdle
  BY <1>17 DEF ThIdle, Park, LockInv, Owning, TypeOK, at
<1>18. CASE ThSleep
  BY <1>18, LockRunning
     DEF ThSleep, ThGoto, at
<1>19. CASE ThProceed
  BY <1>19, LockRunning
     DEF ThProceed, ThGoto, Active, Connected, at
<1>20. CASE ThNextPreset
  BY <1>20, LockRunning
     DEF ThNextPreset, ThGoto, NextStays, at
<1>21. CASE ThNextNormal
  BY <1>21, LockRunning
     DEF ThNextNormal, ThGoto, NextStays, Skip, NoMore, at
<1>22. CASE ThNextContinuous
  BY <1>22, LockRunning
     DEF ThNextContinuous, ThGoto, NextStays, at
<1>23. CASE ThAwaitFound
  BY <1>23, LockRunning
     DEF ThAwaitFound, ThGoto, NextStays, at
<1>24. CASE ThAwaitStopped
  BY <1>24, LockRunning
     DEF ThAwaitStopped, ThGoto, Skip, NoMore, at
<1>25. CASE ThAwaitError
  BY <1>25, LockRunning
     DEF ThAwaitError, ThGoto, NextError, Active, Connected, at
<1>26. CASE ThAwaitTimeout
  BY <1>26, LockRunning
     DEF ThAwaitTimeout, NoMore, at
<1>27. CASE ThWaitWrite
  BY <1>27, LockRunning
     DEF ThWaitWrite, ThGoto, NextStays, NextError, Connected, at
<1>28. CASE ThOpen
  BY <1>28, LockRunning
     DEF ThOpen, ThGoto, at
<1>29. CASE ThOpenError
  BY <1>29, LockRunning
     DEF ThOpenError, ThGoto, NextError, at
<1>30. CASE ThOpenNothing
  BY <1>30, LockRunning
     DEF ThOpenNothing, NoMore, at
<1>31. CASE ThChunksLeave
  BY <1>31, LockRunning
     DEF ThChunksLeave, ThGoto, Active, at
<1>32. CASE ThChunksLost
  BY <1>32, LockRunning
     DEF ThChunksLost, ThGoto, CloseAndLoop, Active, Connected, at
<1>33. CASE ThChunksSent
  BY <1>33, LockRunning
     DEF ThChunksSent, ThGoto, Active, Connected, at
<1>34. CASE ThChunksError
  BY <1>34, LockRunning
     DEF ThChunksError, Finish, Active, Connected, at
<1>35. CASE ThFileEnd
  BY <1>35, LockRunning
     DEF ThFileEnd, ThGoto, Finish, CloseAndLoop, FileAcked, at
<1>36. CASE ThResend
  BY <1>36, LockRunning
     DEF ThResend, ThGoto, Finish, Active, at
<1>37. CASE ThResendGiveUp
  BY <1>37, LockRunning
     DEF ThResendGiveUp, Finish, Active, at
<1>38. CASE CancelWork
  BY <1>38, LockStill DEF CancelWork, ctl, at
<1>39. CASE ShutdownCancel
  BY <1>39, LockStill DEF ShutdownCancel, ctl, at
<1>40. CASE LinkUp
  BY <1>40, LockStill DEF LinkUp, LinkChange, ctl, at
<1>41. CASE LinkDisconnected
  BY <1>41, LockStill DEF LinkDisconnected, LinkChange, ctl, at
<1>42. CASE LinkSilent
  BY <1>42, LockStill DEF LinkSilent, LinkChange, ctl, at
<1>43. CASE RecordClose
  BY <1>43, LockStill DEF RecordClose, RecordStep, ctl, at
<1>44. CASE RecordOpen
  BY <1>44, LockStill DEF RecordOpen, RecordStep, ctl, at
<1>45. CASE RecordChange
  BY <1>45, LockStill DEF RecordChange, RecordStep, ctl, at
<1>46. CASE UNCHANGED vars
  BY <1>46, LockStill DEF vars, ctl, at
<1> QED
  BY <1>1, <1>2, <1>3, <1>4, <1>5, <1>6, <1>7, <1>8, <1>9, <1>10, <1>11,
     <1>12, <1>13, <1>14, <1>15, <1>16, <1>17, <1>18, <1>19, <1>20, <1>21,
     <1>22, <1>23, <1>24, <1>25, <1>26, <1>27, <1>28, <1>29, <1>30, <1>31,
     <1>32, <1>33, <1>34, <1>35, <1>36, <1>37, <1>38, <1>39, <1>40, <1>41,
     <1>42, <1>43, <1>44, <1>45, <1>46
     DEF Next, AtThread, TransferThread, Environment

\* While the AT thread rewrites current_transfer the transfer thread is parked
\* and cannot be woken, however many requests, cancels and link changes there are
THEOREM StartOwns == Spec => []StartOwnsTransfer
<1>1. LockInv => StartOwnsTransfer
  BY DEF LockInv, StartOwnsTransfer, Owning
<1> QED
  BY <1>1, LockInit, LockStep, TypeCorrect, PTL DEF Spec

-----------------------------------------------------------------------------
(* What a transfer leaves behind                                             *)

\* The thread is between the start of a transfer and its transfer_cleanup
Working == {"next", "await", "wait_write", "open", "chunks", "file_end", "resend",
            "file_end_again", "cleanup_park", "cleanup_loop"}

\* Without an AT+CANCEL, which can be overtaken between its two assignments,
\* the state alone tells whether anything of a transfer is left
CleanInv ==
    /\ budget.cancel = 0 /\ apc \notin {"set_cancel", "set_error"}
    /\ xfer.state = "IDLE" => ~xfer.named /\ ~fileOpen /\ ~cancelReq
    /\ idleSem = 1 \/ apc = "check_session" => xfer.state = "IDLE"
    /\ apc = "read_info" => xfer.state # "IDLE"
    /\ tpc \in Working => xfer.state # "IDLE"

LEMMA CleanInit ==
  ASSUME MaxAtCancels = 0, Init
  PROVE  CleanInv
  BY DEF Init, CleanInv, Working, Blank

LEMMA CleanStep == TypeOK /\ LockInv /\ CleanInv /\ [Next]_vars => CleanInv'
<1> SUFFICES ASSUME TypeOK, LockInv, CleanInv, [Next]_vars PROVE CleanInv'
  OBVIOUS
<1> USE DEF CleanInv, Working
<1>1. CASE AtDownload
  BY <1>1
     DEF AtDownload, LockInv, Owning, TypeOK, TransferInfo, Budget, ctl, at,
         env
<1>2. CASE AtCheckBusy
  BY <1>2
     DEF AtCheckBusy, AtGoto, AtAnswer, Active, LockInv, Owning, TypeOK,
         TransferInfo, Budget, ctl, at, env
<1>3. CASE AtTakeIdle
  BY <1>3
     DEF AtTakeIdle, AtGoto, LockInv, Owning, TypeOK, TransferInfo, Budget,
         ctl, at, env
<1>4. CASE AtIdleTimeout
  BY <1>4
     DEF AtIdleTimeout, AtAnswer, AtGoto, LockInv, Owning, TypeOK, TransferInfo,
         Budget, ctl, at, env
<1>5. CASE AtRefuse
  BY <1>5
     DEF AtRefuse, AtAnswer, AtGoto, AtFail, Active, LockInv, Owning, TypeOK,
         TransferInfo, ctl, at, env
<1>6. CASE AtArm
  BY <1>6
     DEF AtArm, AtGoto, Active, Connected, LockInv, Owning, TypeOK,
         TransferInfo, Blank, Budget, ctl, at, env
<1>7. CASE AtInfoFault
  BY <1>7
     DEF AtInfoFault, AtAnswer, AtGoto, AtFail, LockInv, Owning, TypeOK, TransferInfo,
         Budget, ctl, at, env
<1>8. CASE AtTrigger
  BY <1>8
     DEF AtTrigger, AtAnswer, AtGoto, LockInv, Owning, TypeOK, TransferInfo, Budget,
         ctl, at, env
<1>9. CASE AtCancel
  BY <1>9
     DEF AtCancel, AtGoto, Active, LockInv, Owning, TypeOK, TransferInfo,
         Budget, ctl, at, env
<1>10. CASE AtCancelFlag
  BY <1>10
     DEF AtCancelFlag, AtGoto, LockInv, Owning, TypeOK, TransferInfo, Budget,
         ctl, at, env
<1>11. CASE AtCancelState
  BY <1>11
     DEF AtCancelState, AtGoto, LockInv, Owning, TypeOK, TransferInfo,
         Budget, ctl, at, env
<1>12. CASE ThWake
  BY <1>12
     DEF ThWake, LockInv, Owning, TypeOK, TransferInfo, Budget, ctl, at, env
<1>13. CASE ThNoCancel
  BY <1>13
     DEF ThNoCancel, ThGoto, LockInv, Owning, TypeOK, TransferInfo, Budget,
         ctl, at, env
<1>14. CASE ThCancel
  BY <1>14
     DEF ThCancel, SendDoneOnce, Finish, LockInv, Owning, TypeOK,
         TransferInfo, Budget, ctl, at, env
<1>15. CASE ThCleanupPark
  BY <1>15
     DEF ThCleanupPark, Park, Cleanup, LockInv, Owning, TypeOK, TransferInfo,
         Blank, Budget, ctl, at, env
<1>16. CASE ThCleanupLoop
  BY <1>16
     DEF ThCleanupLoop, Cleanup, LockInv, Owning, TypeOK, TransferInfo,
         Blank, Budget, ctl, at, env
<1>17. CASE ThIdle
  BY <1>17
     DEF ThIdle, Park, LockInv, Owning, TypeOK, TransferInfo, Budget, ctl,
         at, env
<1>18. CASE ThSleep
  BY <1>18
     DEF ThSleep, ThGoto, LockInv, Owning, TypeOK, TransferInfo, Budget, ctl,
         at, env
<1>19. CASE ThProceed
  BY <1>19
     DEF ThProceed, ThGoto, Active, Connected, LockInv, Owning, TypeOK,
         TransferInfo, Budget, ctl, at, env
<1>20. CASE ThNextPreset
  BY <1>20
     DEF ThNextPreset, ThGoto, NextStays, LockInv, Owning, TypeOK,
         TransferInfo, Budget, ctl, at, env
<1>21. CASE ThNextNormal
  BY <1>21
     DEF ThNextNormal, ThGoto, SendDoneOnce, NextStays, Skip, NoMore,
         LockInv, Owning, TypeOK, TransferInfo, Budget, ctl, at, env
<1>22. CASE ThNextContinuous
  BY <1>22
     DEF ThNextContinuous, ThGoto, NextStays, LockInv, Owning, TypeOK,
         TransferInfo, Budget, ctl, at, env
<1>23. CASE ThAwaitFound
  BY <1>23
     DEF ThAwaitFound, ThGoto, NextStays, LockInv, Owning, TypeOK,
         TransferInfo, Budget, ctl, at, env
<1>24. CASE ThAwaitStopped
  BY <1>24
     DEF ThAwaitStopped, ThGoto, SendDoneOnce, Skip, NoMore, LockInv, Owning,
         TypeOK, TransferInfo, Budget, ctl, at, env
<1>25. CASE ThAwaitError
  BY <1>25
     DEF ThAwaitError, ThGoto, SendDoneOnce, NextError, Active, Connected,
         LockInv, Owning, TypeOK, TransferInfo, Budget, ctl, at, env
<1>26. CASE ThAwaitTimeout
  BY <1>26
     DEF ThAwaitTimeout, SendDoneOnce, NoMore, LockInv, Owning, TypeOK,
         TransferInfo, Budget, ctl, at, env
<1>27. CASE ThWaitWrite
  BY <1>27
     DEF ThWaitWrite, ThGoto, SendDoneOnce, NextStays, NextError, Connected,
         LockInv, Owning, TypeOK, TransferInfo, Budget, ctl, at, env
<1>28. CASE ThOpen
  BY <1>28
     DEF ThOpen, ThGoto, LockInv, Owning, TypeOK, TransferInfo, Budget, ctl,
         at, env
<1>29. CASE ThOpenError
  BY <1>29
     DEF ThOpenError, ThGoto, SendDoneOnce, NextError, LockInv, Owning,
         TypeOK, TransferInfo, Budget, ctl, at, env
<1>30. CASE ThOpenNothing
  BY <1>30
     DEF ThOpenNothing, SendDoneOnce, NoMore, LockInv, Owning, TypeOK,
         TransferInfo, Budget, ctl, at, env
<1>31. CASE ThChunksLeave
  BY <1>31
     DEF ThChunksLeave, ThGoto, Active, LockInv, Owning, TypeOK,
         TransferInfo, Budget, ctl, at, env
<1>32. CASE ThChunksLost
  BY <1>32
     DEF ThChunksLost, ThGoto, CloseAndLoop, Active, Connected, LockInv,
         Owning, TypeOK, TransferInfo, Budget, ctl, at, env
<1>33. CASE ThChunksSent
  BY <1>33
     DEF ThChunksSent, ThGoto, Active, Connected, LockInv, Owning, TypeOK,
         TransferInfo, Budget, ctl, at, env
<1>34. CASE ThChunksError
  BY <1>34
     DEF ThChunksError, SendDoneOnce, Finish, Active, Connected, LockInv,
         Owning, TypeOK, TransferInfo, Budget, ctl, at, env
<1>35. CASE ThFileEnd
  BY <1>35
     DEF ThFileEnd, ThGoto, SendDoneOnce, Finish, CloseAndLoop, FileAcked,
         LockInv, Owning, TypeOK, TransferInfo, Budget, ctl, at, env
<1>36. CASE ThResend
  BY <1>36
     DEF ThResend, ThGoto, SendDoneOnce, Finish, Active, LockInv, Owning,
         TypeOK, TransferInfo, Budget, ctl, at, env
<1>37. CASE ThResendGiveUp
  BY <1>37
     DEF ThResendGiveUp, SendDoneOnce, Finish, Active, LockInv, Owning,
         TypeOK, TransferInfo, Budget, ctl, at, env
<1>38. CASE CancelWork
  BY <1>38
     DEF CancelWork, CancelNow, Active, LockInv, Owning, TypeOK,
         TransferInfo, ctl, at, env
<1>39. CASE ShutdownCancel
  BY <1>39
     DEF ShutdownCancel, CancelNow, Active, LockInv, Owning, TypeOK,
         TransferInfo, Budget, ctl, at, env
<1>40. CASE LinkUp
  BY <1>40
     DEF LinkUp, LinkChange, LockInv, Owning, TypeOK, TransferInfo, Budget,
         ctl, at, env
<1>41. CASE LinkDisconnected
  BY <1>41
     DEF LinkDisconnected, LinkChange, LockInv, Owning, TypeOK, TransferInfo,
         Budget, ctl, at, env
<1>42. CASE LinkSilent
  BY <1>42
     DEF LinkSilent, LinkChange, LockInv, Owning, TypeOK, TransferInfo,
         Budget, ctl, at, env
<1>43. CASE RecordClose
  BY <1>43
     DEF RecordClose, RecordStep, LockInv, Owning, TypeOK, TransferInfo,
         Budget, ctl, at, env
<1>44. CASE RecordOpen
  BY <1>44
     DEF RecordOpen, RecordStep, LockInv, Owning, TypeOK, TransferInfo,
         Budget, ctl, at, env
<1>45. CASE RecordChange
  BY <1>45
     DEF RecordChange, RecordStep, LockInv, Owning, TypeOK, TransferInfo,
         Budget, ctl, at, env
<1>46. CASE UNCHANGED vars
  BY <1>46 DEF vars, ctl, at, env
<1> QED
  BY <1>1, <1>2, <1>3, <1>4, <1>5, <1>6, <1>7, <1>8, <1>9, <1>10, <1>11,
     <1>12, <1>13, <1>14, <1>15, <1>16, <1>17, <1>18, <1>19, <1>20, <1>21,
     <1>22, <1>23, <1>24, <1>25, <1>26, <1>27, <1>28, <1>29, <1>30, <1>31,
     <1>32, <1>33, <1>34, <1>35, <1>36, <1>37, <1>38, <1>39, <1>40, <1>41,
     <1>42, <1>43, <1>44, <1>45, <1>46
     DEF Next, AtThread, TransferThread, Environment

\* Nothing is left of a transfer once the thread is parked for good, whatever
\* the links, the recorder and the power button did meanwhile; AT+CANCEL aside
THEOREM NothingIsLeft ==
  ASSUME MaxAtCancels = 0
  PROVE  Spec => []NothingLeft
<1>1. LockInv /\ CleanInv => NothingLeft
  BY DEF LockInv, CleanInv, NothingLeft, Settled, Owning
<1>2. Init => CleanInv
  BY CleanInit
<1> QED
  BY <1>1, <1>2, LockInit, LockStep, CleanStep, TypeCorrect, PTL DEF Spec

-----------------------------------------------------------------------------
(* The CPU boost                                                            *)

BoostInv == BoostBalanced /\ budget.fault = 0

LEMMA BoostInit ==
  ASSUME MaxFaults = 0, Init
  PROVE  BoostInv
  BY DEF Init, BoostInv, BoostBalanced, Blank

LEMMA BoostStep == TypeOK /\ LockInv /\ CleanInv /\ BoostInv /\ [Next]_vars => BoostInv'
<1> SUFFICES ASSUME TypeOK, LockInv, CleanInv, BoostInv, [Next]_vars PROVE BoostInv'
  OBVIOUS
<1> USE DEF BoostInv, BoostBalanced
<1>1. CASE AtDownload
  BY <1>1
     DEF AtDownload, LockInv, CleanInv, Owning, Working, TypeOK,
         TransferInfo, Budget, ctl, at, env
<1>2. CASE AtCheckBusy
  BY <1>2
     DEF AtCheckBusy, AtGoto, AtAnswer, Active, LockInv, CleanInv, Owning,
         Working, TypeOK, TransferInfo, Budget, ctl, at, env
<1>3. CASE AtTakeIdle
  BY <1>3
     DEF AtTakeIdle, AtGoto, LockInv, CleanInv, Owning, Working, TypeOK,
         TransferInfo, Budget, ctl, at, env
<1>4. CASE AtIdleTimeout
  BY <1>4
     DEF AtIdleTimeout, AtAnswer, AtGoto, LockInv, CleanInv, Owning, Working, TypeOK,
         TransferInfo, Budget, ctl, at, env
<1>5. CASE AtRefuse
  BY <1>5
     DEF AtRefuse, AtAnswer, AtGoto, AtFail, Active, LockInv, CleanInv, Owning,
         Working, TypeOK, TransferInfo, ctl, at, env
<1>6. CASE AtArm
  BY <1>6
     DEF AtArm, AtGoto, Active, Connected, LockInv, CleanInv, Owning,
         Working, TypeOK, TransferInfo, Blank, Budget, ctl, at, env
<1>7. CASE AtInfoFault
  BY <1>7
     DEF AtInfoFault, AtAnswer, AtGoto, AtFail, LockInv, CleanInv, Owning, Working,
         TypeOK, TransferInfo, Budget, ctl, at, env
<1>8. CASE AtTrigger
  BY <1>8
     DEF AtTrigger, AtAnswer, AtGoto, LockInv, CleanInv, Owning, Working, TypeOK,
         TransferInfo, Budget, ctl, at, env
<1>9. CASE AtCancel
  BY <1>9
     DEF AtCancel, AtGoto, Active, LockInv, CleanInv, Owning, Working,
         TypeOK, TransferInfo, Budget, ctl, at, env
<1>10. CASE AtCancelFlag
  BY <1>10
     DEF AtCancelFlag, AtGoto, LockInv, CleanInv, Owning, Working, TypeOK,
         TransferInfo, Budget, ctl, at, env
<1>11. CASE AtCancelState
  BY <1>11
     DEF AtCancelState, AtGoto, LockInv, CleanInv, Owning, Working, TypeOK,
         TransferInfo, Budget, ctl, at, env
<1>12. CASE ThWake
  BY <1>12
     DEF ThWake, LockInv, CleanInv, Owning, Working, TypeOK, TransferInfo,
         Budget, ctl, at, env
<1>13. CASE ThNoCancel
  BY <1>13
     DEF ThNoCancel, ThGoto, LockInv, CleanInv, Owning, Working, TypeOK,
         TransferInfo, Budget, ctl, at, env
<1>14. CASE ThCancel
  BY <1>14
     DEF ThCancel, SendDoneOnce, Finish, LockInv, CleanInv, Owning, Working,
         TypeOK, TransferInfo, Budget, ctl, at, env
<1>15. CASE ThCleanupPark
  BY <1>15
     DEF ThCleanupPark, Park, Cleanup, LockInv, CleanInv, Owning, Working,
         TypeOK, TransferInfo, Blank, Budget, ctl, at, env
<1>16. CASE ThCleanupLoop
  BY <1>16
     DEF ThCleanupLoop, Cleanup, LockInv, CleanInv, Owning, Working, TypeOK,
         TransferInfo, Blank, Budget, ctl, at, env
<1>17. CASE ThIdle
  BY <1>17
     DEF ThIdle, Park, LockInv, CleanInv, Owning, Working, TypeOK,
         TransferInfo, Budget, ctl, at, env
<1>18. CASE ThSleep
  BY <1>18
     DEF ThSleep, ThGoto, LockInv, CleanInv, Owning, Working, TypeOK,
         TransferInfo, Budget, ctl, at, env
<1>19. CASE ThProceed
  BY <1>19
     DEF ThProceed, ThGoto, Active, Connected, LockInv, CleanInv, Owning,
         Working, TypeOK, TransferInfo, Budget, ctl, at, env
<1>20. CASE ThNextPreset
  BY <1>20
     DEF ThNextPreset, ThGoto, NextStays, LockInv, CleanInv, Owning, Working,
         TypeOK, TransferInfo, Budget, ctl, at, env
<1>21. CASE ThNextNormal
  BY <1>21
     DEF ThNextNormal, ThGoto, SendDoneOnce, NextStays, Skip, NoMore,
         LockInv, CleanInv, Owning, Working, TypeOK, TransferInfo, Budget,
         ctl, at, env
<1>22. CASE ThNextContinuous
  BY <1>22
     DEF ThNextContinuous, ThGoto, NextStays, LockInv, CleanInv, Owning,
         Working, TypeOK, TransferInfo, Budget, ctl, at, env
<1>23. CASE ThAwaitFound
  BY <1>23
     DEF ThAwaitFound, ThGoto, NextStays, LockInv, CleanInv, Owning, Working,
         TypeOK, TransferInfo, Budget, ctl, at, env
<1>24. CASE ThAwaitStopped
  BY <1>24
     DEF ThAwaitStopped, ThGoto, SendDoneOnce, Skip, NoMore, LockInv,
         CleanInv, Owning, Working, TypeOK, TransferInfo, Budget, ctl, at,
         env
<1>25. CASE ThAwaitError
  BY <1>25
     DEF ThAwaitError, ThGoto, SendDoneOnce, NextError, Active, Connected,
         LockInv, CleanInv, Owning, Working, TypeOK, TransferInfo, Budget,
         ctl, at, env
<1>26. CASE ThAwaitTimeout
  BY <1>26
     DEF ThAwaitTimeout, SendDoneOnce, NoMore, LockInv, CleanInv, Owning,
         Working, TypeOK, TransferInfo, Budget, ctl, at, env
<1>27. CASE ThWaitWrite
  BY <1>27
     DEF ThWaitWrite, ThGoto, SendDoneOnce, NextStays, NextError, Connected,
         LockInv, CleanInv, Owning, Working, TypeOK, TransferInfo, Budget,
         ctl, at, env
<1>28. CASE ThOpen
  BY <1>28
     DEF ThOpen, ThGoto, LockInv, CleanInv, Owning, Working, TypeOK,
         TransferInfo, Budget, ctl, at, env
<1>29. CASE ThOpenError
  BY <1>29
     DEF ThOpenError, ThGoto, SendDoneOnce, NextError, LockInv, CleanInv,
         Owning, Working, TypeOK, TransferInfo, Budget, ctl, at, env
<1>30. CASE ThOpenNothing
  BY <1>30
     DEF ThOpenNothing, SendDoneOnce, NoMore, LockInv, CleanInv, Owning,
         Working, TypeOK, TransferInfo, Budget, ctl, at, env
<1>31. CASE ThChunksLeave
  BY <1>31
     DEF ThChunksLeave, ThGoto, Active, LockInv, CleanInv, Owning, Working,
         TypeOK, TransferInfo, Budget, ctl, at, env
<1>32. CASE ThChunksLost
  BY <1>32
     DEF ThChunksLost, ThGoto, CloseAndLoop, Active, Connected, LockInv,
         CleanInv, Owning, Working, TypeOK, TransferInfo, Budget, ctl, at,
         env
<1>33. CASE ThChunksSent
  BY <1>33
     DEF ThChunksSent, ThGoto, Active, Connected, LockInv, CleanInv, Owning,
         Working, TypeOK, TransferInfo, Budget, ctl, at, env
<1>34. CASE ThChunksError
  BY <1>34
     DEF ThChunksError, SendDoneOnce, Finish, Active, Connected, LockInv,
         CleanInv, Owning, Working, TypeOK, TransferInfo, Budget, ctl, at,
         env
<1>35. CASE ThFileEnd
  BY <1>35
     DEF ThFileEnd, ThGoto, SendDoneOnce, Finish, CloseAndLoop, FileAcked,
         LockInv, CleanInv, Owning, Working, TypeOK, TransferInfo, Budget,
         ctl, at, env
<1>36. CASE ThResend
  BY <1>36
     DEF ThResend, ThGoto, SendDoneOnce, Finish, Active, LockInv, CleanInv,
         Owning, Working, TypeOK, TransferInfo, Budget, ctl, at, env
<1>37. CASE ThResendGiveUp
  BY <1>37
     DEF ThResendGiveUp, SendDoneOnce, Finish, Active, LockInv, CleanInv,
         Owning, Working, TypeOK, TransferInfo, Budget, ctl, at, env
<1>38. CASE CancelWork
  BY <1>38
     DEF CancelWork, CancelNow, Active, LockInv, CleanInv, Owning, Working,
         TypeOK, TransferInfo, ctl, at, env
<1>39. CASE ShutdownCancel
  BY <1>39
     DEF ShutdownCancel, CancelNow, Active, LockInv, CleanInv, Owning,
         Working, TypeOK, TransferInfo, Budget, ctl, at, env
<1>40. CASE LinkUp
  BY <1>40
     DEF LinkUp, LinkChange, LockInv, CleanInv, Owning, Working, TypeOK,
         TransferInfo, Budget, ctl, at, env
<1>41. CASE LinkDisconnected
  BY <1>41
     DEF LinkDisconnected, LinkChange, LockInv, CleanInv, Owning, Working,
         TypeOK, TransferInfo, Budget, ctl, at, env
<1>42. CASE LinkSilent
  BY <1>42
     DEF LinkSilent, LinkChange, LockInv, CleanInv, Owning, Working, TypeOK,
         TransferInfo, Budget, ctl, at, env
<1>43. CASE RecordClose
  BY <1>43
     DEF RecordClose, RecordStep, LockInv, CleanInv, Owning, Working, TypeOK,
         TransferInfo, Budget, ctl, at, env
<1>44. CASE RecordOpen
  BY <1>44
     DEF RecordOpen, RecordStep, LockInv, CleanInv, Owning, Working, TypeOK,
         TransferInfo, Budget, ctl, at, env
<1>45. CASE RecordChange
  BY <1>45
     DEF RecordChange, RecordStep, LockInv, CleanInv, Owning, Working, TypeOK,
         TransferInfo, Budget, ctl, at, env
<1>46. CASE UNCHANGED vars
  BY <1>46 DEF vars, ctl, at, env
<1> QED
  BY <1>1, <1>2, <1>3, <1>4, <1>5, <1>6, <1>7, <1>8, <1>9, <1>10, <1>11,
     <1>12, <1>13, <1>14, <1>15, <1>16, <1>17, <1>18, <1>19, <1>20, <1>21,
     <1>22, <1>23, <1>24, <1>25, <1>26, <1>27, <1>28, <1>29, <1>30, <1>31,
     <1>32, <1>33, <1>34, <1>35, <1>36, <1>37, <1>38, <1>39, <1>40, <1>41,
     <1>42, <1>43, <1>44, <1>45, <1>46
     DEF Next, AtThread, TransferThread, Environment

\* The boost is released exactly once per transfer, as long as no AT+CANCEL is
\* overtaken and session.json can be read a second time
THEOREM BoostIsBalanced ==
  ASSUME MaxAtCancels = 0, MaxFaults = 0
  PROVE  Spec => []BoostBalanced
<1>1. BoostInv => BoostBalanced
  BY DEF BoostInv
<1>2. Init => CleanInv /\ BoostInv
  BY CleanInit, BoostInit
<1> QED
  BY <1>1, <1>2, LockInit, LockStep, CleanStep, BoostStep, TypeCorrect, PTL DEF Spec

-----------------------------------------------------------------------------
(* The host is told once                                                    *)

\* transfer_complete_sent and session_id together count the reports: a transfer
\* that was not reported keeps both until it is, and its cleanup comes after
ToldInv ==
    /\ hist.dones \in {0, 1}
    /\ xfer.named /\ ~doneSent => hist.dones = 0
    /\ xfer.state = "IDLE" => ~xfer.named
    /\ hist.armed /\ up = {} => hist.lost
    /\ hist.armed /\ ~hist.lost /\ hist.dones = 0 =>
         /\ xfer.named /\ ~doneSent /\ tpc \notin {"cleanup_park", "cleanup_loop"}
         /\ tpc = "parked" => triggerSem = 1 \/ apc = "read_info"

LEMMA ToldInit == Init => ToldInv
  BY DEF Init, ToldInv, Blank, NoHist

\* The session's name, and whether there is a transfer at all, stay as they are
SameTransfer(x) == x.named = xfer.named /\ (x.state = "IDLE" => xfer.state = "IDLE")

\* A step of the running thread that reports nothing
LEMMA ToldQuiet ==
  ASSUME ToldInv, tpc # "parked", SameTransfer(xfer'), UNCHANGED <<doneSent, hist, up>>,
         tpc' \notin {"parked", "cleanup_park", "cleanup_loop"}
  PROVE  ToldInv'
  BY DEF ToldInv, SameTransfer

\* A step that reports, if nobody has yet
LEMMA ToldReport ==
  ASSUME TypeOK, ToldInv, SendDoneOnce, SameTransfer(xfer'), UNCHANGED up,
         tpc' \in {"cleanup_park", "cleanup_loop"}
  PROVE  ToldInv'
<1>1. CASE ~doneSent /\ xfer.named
  <2>1. doneSent' = TRUE /\ hist' = [hist EXCEPT !.dones = 1] /\ hist.dones = 0
    BY <1>1 DEF SendDoneOnce, ToldInv
  <2> QED
    BY <2>1 DEF ToldInv, TypeOK, History, SameTransfer
<1>2. CASE ~(~doneSent /\ xfer.named)
  <2>1. UNCHANGED <<doneSent, hist>>
    BY <1>2 DEF SendDoneOnce
  <2>2. hist.armed /\ ~hist.lost => hist.dones = 1
    BY <1>2 DEF ToldInv
  <2> QED
    BY <1>2, <2>1, <2>2 DEF ToldInv, TypeOK, TransferInfo, SameTransfer
<1> QED
  BY <1>1, <1>2

LEMMA ToldNextStays ==
  ASSUME ToldInv, tpc # "parked", NEW x, NEW pc, NextStays(x, pc), SameTransfer(x),
         pc \notin {"parked", "cleanup_park", "cleanup_loop"}
  PROVE  ToldInv'
  BY ToldQuiet DEF NextStays, ThGoto, env

LEMMA ToldSkip ==
  ASSUME TypeOK, ToldInv, tpc # "parked", NEW n, Skip(n)
  PROVE  ToldInv'
<1>1. SameTransfer(xfer')
  BY DEF Skip, SameTransfer, TypeOK, TransferInfo
<1> QED
  BY <1>1, ToldQuiet DEF Skip, ThGoto, env

LEMMA ToldNoMore ==
  ASSUME TypeOK, ToldInv, NEW x \in TransferInfo, NoMore(x), SameTransfer(x)
  PROVE  ToldInv'
<1>1. SameTransfer(xfer')
  BY DEF NoMore, SameTransfer, TransferInfo
<1> QED
  BY <1>1, ToldReport DEF NoMore, env

LEMMA ToldNextError ==
  ASSUME TypeOK, ToldInv, tpc # "parked", NEW file, NextError(file)
  PROVE  ToldInv'
<1>1. SameTransfer(xfer') /\ UNCHANGED up
  BY DEF NextError, SameTransfer, TypeOK, TransferInfo, env
<1>2. \/ UNCHANGED <<doneSent, hist>> /\ tpc' = "loop"
      \/ SendDoneOnce /\ tpc' = "cleanup_park"
  BY DEF NextError, ThGoto
<1> QED
  BY <1>1, <1>2, ToldQuiet, ToldReport

LEMMA ToldFinish ==
  ASSUME TypeOK, ToldInv, NEW s, s = "IDLE" => xfer.state = "IDLE", NEW pc, Finish(s, pc),
         pc \in {"cleanup_park", "cleanup_loop"}
  PROVE  ToldInv'
<1>1. SameTransfer(xfer') /\ UNCHANGED up
  BY DEF Finish, SameTransfer, TypeOK, TransferInfo, env
<1> QED
  BY <1>1, ToldReport DEF Finish

LEMMA ToldStep == TypeOK /\ LockInv /\ ToldInv /\ [Next]_vars => ToldInv'
<1> SUFFICES ASSUME TypeOK, LockInv, ToldInv, [Next]_vars PROVE ToldInv'
  OBVIOUS
<1> USE DEF ToldInv, LockInv, Owning, TypeOK, TransferInfo, History
<1>1. CASE AtDownload
  BY <1>1
     DEF AtDownload, env, card, ctl, at
<1>2. CASE AtCheckBusy
  BY <1>2
     DEF AtCheckBusy, Active, AtAnswer, AtGoto, env, card, ctl, at
<1>3. CASE AtTakeIdle
  BY <1>3
     DEF AtTakeIdle, AtGoto, env, card, ctl, at
<1>4. CASE AtIdleTimeout
  BY <1>4
     DEF AtIdleTimeout, AtAnswer, AtGoto, env, card, ctl, at
<1>5. CASE AtRefuse
  BY <1>5
     DEF AtRefuse, AtFail, Active, AtAnswer, AtGoto, card, ctl, at, env
<1>6. CASE AtArm
  BY <1>6
     DEF AtArm, Active, Blank, NoHist, Connected, AtGoto, env, card, NoFile, ctl, at
<1>7. CASE AtInfoFault
  BY <1>7
     DEF AtInfoFault, AtFail, AtAnswer, AtGoto, card, ctl, at, env
<1>8. CASE AtTrigger
  BY <1>8
     DEF AtTrigger, AtAnswer, AtGoto, env, card, ctl, at
<1>9. CASE AtCancel
  BY <1>9
     DEF AtCancel, Active, AtGoto, ctl, card, at, env
<1>10. CASE AtCancelFlag
  BY <1>10
     DEF AtCancelFlag, AtGoto, env, card, ctl, at
<1>11. CASE AtCancelState
  BY <1>11
     DEF AtCancelState, AtGoto, ctl, env, card, at
<1>12. CASE ThWake
  BY <1>12
     DEF ThWake, at, env, card, ctl
<1>13. CASE ThNoCancel
  BY <1>13
     DEF ThNoCancel, ThGoto, at, env, card, ctl
<1>14. CASE ThCancel
  BY <1>14, ToldFinish DEF ThCancel
<1>15. CASE ThCleanupPark
  BY <1>15
     DEF ThCleanupPark, Cleanup, Park, at, env, card, Blank, NoFile, ctl
<1>16. CASE ThCleanupLoop
  BY <1>16
     DEF ThCleanupLoop, Cleanup, at, env, card, Blank, NoFile, ctl
<1>17. CASE ThIdle
  BY <1>17
     DEF ThIdle, Park, at, env, card, ctl
<1>18. CASE ThSleep
  BY <1>18
     DEF ThSleep, ThGoto, at, env, card, ctl
<1>19. CASE ThProceed
  BY <1>19
     DEF ThProceed, Active, Connected, ThGoto, at, env, card, ctl
<1>20. CASE ThNextPreset
  BY <1>20
     DEF ThNextPreset, NoFile, NextStays, ThGoto, at, env, card, ctl
<1>21. CASE ThNextNormal
  <2> DEFINE n == xfer.index + 1
  <2>1. \/ NoMore([xfer EXCEPT !.file = n])
        \/ NextStays([xfer EXCEPT !.file = n], "open")
        \/ NoMore([xfer EXCEPT !.index = n])
        \/ Skip(n)
    BY <1>21 DEF ThNextNormal
  <2>2. n \in Nat
    BY InfoFields
  <2>3. /\ [xfer EXCEPT !.file = n] \in TransferInfo
        /\ [xfer EXCEPT !.index = n] \in TransferInfo
    BY <2>2, InfoFields
  <2>4. SameTransfer([xfer EXCEPT !.file = n]) /\ SameTransfer([xfer EXCEPT !.index = n])
    BY DEF SameTransfer
  <2>5. tpc = "next"
    BY <1>21 DEF ThNextNormal
  <2> QED
    BY <2>1, <2>3, <2>4, <2>5, ToldNextStays, ToldNoMore, ToldSkip
<1>22. CASE ThNextContinuous
  BY <1>22
     DEF ThNextContinuous, NoFile, NextStays, ThGoto, at, env, card, ctl
<1>23. CASE ThAwaitFound
  BY <1>23
     DEF ThAwaitFound, NextStays, ThGoto, at, env, card, ctl
<1>24. CASE ThAwaitStopped
  BY <1>24, ToldNoMore, ToldSkip DEF ThAwaitStopped, SameTransfer
<1>25. CASE ThAwaitError
  BY <1>25, ToldNextError DEF ThAwaitError
<1>26. CASE ThAwaitTimeout
  BY <1>26, ToldNoMore DEF ThAwaitTimeout, SameTransfer
<1>27. CASE ThWaitWrite
  BY <1>27, ToldNextStays, ToldNextError DEF ThWaitWrite, SameTransfer
<1>28. CASE ThOpen
  BY <1>28
     DEF ThOpen, ThGoto, at, env, card, ctl
<1>29. CASE ThOpenError
  BY <1>29, ToldNextError DEF ThOpenError
<1>30. CASE ThOpenNothing
  <2>1. NoMore([xfer EXCEPT !.file = NoFile])
    BY <1>30 DEF ThOpenNothing
  <2>2. [xfer EXCEPT !.file = NoFile] \in TransferInfo
    BY InfoFields DEF NoFile
  <2>3. SameTransfer([xfer EXCEPT !.file = NoFile])
    BY DEF SameTransfer
  <2> QED
    BY <2>1, <2>2, <2>3, ToldNoMore
<1>31. CASE ThChunksLeave
  BY <1>31
     DEF ThChunksLeave, Active, ThGoto, at, env, card, ctl
<1>32. CASE ThChunksLost
  BY <1>32
     DEF ThChunksLost, Active, Connected, CloseAndLoop, ThGoto, at, env, card, ctl
<1>33. CASE ThChunksSent
  BY <1>33
     DEF ThChunksSent, Active, Connected, ThGoto, at, env, card, ctl
<1>34. CASE ThChunksError
  BY <1>34, ToldFinish DEF ThChunksError
<1>35. CASE ThFileEnd
  <2>1. CASE FileAcked
    <3>1. SameTransfer(xfer') /\ UNCHANGED <<doneSent, up>> /\ tpc' = "loop"
          /\ hist' = [hist EXCEPT !.acked = @ \union {xfer.file}]
      BY <2>1 DEF FileAcked, CloseAndLoop, ThGoto, env, SameTransfer
    <3>2. tpc # "parked"
      BY <1>35 DEF ThFileEnd
    <3> QED
      BY <3>1, <3>2 DEF SameTransfer
  <2>2. CASE /\ ThGoto("resend")
             /\ UNCHANGED <<xfer, fileOpen, cancelReq, doneSent, tries, at, env, card,
                            synced, hist>>
    BY <1>35, <2>2 DEF ThFileEnd, ThGoto, at, env
  <2>3. CASE Finish("ERROR", "cleanup_loop")
    BY <2>3, ToldFinish
  <2> QED
    BY <1>35, <2>1, <2>2, <2>3 DEF ThFileEnd
<1>36. CASE ThResend
  BY <1>36
     DEF ThResend, Active, ThGoto, at, env, card, Finish, SendDoneOnce, ctl
<1>37. CASE ThResendGiveUp
  BY <1>37, ToldFinish DEF ThResendGiveUp
<1>38. CASE CancelWork
  BY <1>38
     DEF CancelWork, Active, CancelNow, at, card, ctl, env
<1>39. CASE ShutdownCancel
  BY <1>39
     DEF ShutdownCancel, Active, CancelNow, at, env, card, ctl
<1>40. CASE LinkUp
  BY <1>40
     DEF LinkUp, LinkChange, ctl, at, card, env
<1>41. CASE LinkDisconnected
  BY <1>41
     DEF LinkDisconnected, LinkChange, ctl, at, card, env
<1>42. CASE LinkSilent
  BY <1>42
     DEF LinkSilent, LinkChange, ctl, at, card, env
<1>43. CASE RecordClose
  BY <1>43
     DEF RecordClose, RecordStep, ctl, at, env, card
<1>44. CASE RecordOpen
  BY <1>44
     DEF RecordOpen, RecordStep, ctl, at, env, card
<1>45. CASE RecordChange
  BY <1>45
     DEF RecordChange, RecordStep, ctl, at, env, card
<1>46. CASE UNCHANGED vars
  BY <1>46 DEF vars, ctl, at, env, card
<1> QED
  BY <1>1, <1>2, <1>3, <1>4, <1>5, <1>6, <1>7, <1>8, <1>9, <1>10, <1>11, <1>12, <1>13,
      <1>14, <1>15, <1>16, <1>17, <1>18, <1>19, <1>20, <1>21, <1>22, <1>23, <1>24,
      <1>25, <1>26, <1>27, <1>28, <1>29, <1>30, <1>31, <1>32, <1>33, <1>34, <1>35,
      <1>36, <1>37, <1>38, <1>39, <1>40, <1>41, <1>42, <1>43, <1>44, <1>45, <1>46
     DEF Next, AtThread, TransferThread, Environment

\* A transfer reports its end at most once, and, with a link up all along, never
\* parks before it has
THEOREM ToldExactlyOnce == Spec => []ToldOnce
<1>1. LockInv /\ ToldInv => ToldOnce
  BY DEF LockInv, ToldInv, ToldOnce, Settled, Owning
<1> QED
  BY <1>1, LockInit, LockStep, ToldInit, ToldStep, TypeCorrect, PTL DEF Spec

-----------------------------------------------------------------------------
(* What surrounds a file: the request, the card, the links                  *)

\* Where the transfer thread is: between files, looking for one, sending one
Resting  == {"parked", "loop", "check_state", "sleep", "next"}
Finding  == {"await", "wait_write", "open"}
Sending  == {"chunks", "file_end", "resend", "file_end_again"}

\* A report changes nothing of the history but its count
LEMMA ReportHistory ==
  ASSUME TypeOK, SendDoneOnce
  PROVE  /\ hist'.armed = hist.armed /\ hist'.lost = hist.lost
         /\ hist'.from = hist.from /\ hist'.acked = hist.acked
  BY DEF SendDoneOnce, TypeOK, History

\* Before the first transfer is set up, and while a request is refused, there is
\* nothing to send
FreshInv == ~hist.armed =>
    /\ xfer.state = "IDLE" /\ ~cancelReq /\ tpc \in {"parked", "loop", "check_state"}
    /\ apc \notin {"read_info", "set_cancel", "set_error"}

LEMMA FreshInit == Init => FreshInv
  BY DEF Init, FreshInv, Blank, NoHist

LEMMA FreshStep == TypeOK /\ FreshInv /\ [Next]_vars => FreshInv'
<1> SUFFICES ASSUME TypeOK, FreshInv, [Next]_vars PROVE FreshInv'
  OBVIOUS
<1> USE DEF FreshInv, TypeOK, TransferInfo, History
<1>1. CASE AtDownload
  BY <1>1
     DEF AtDownload, env, card, ctl, at
<1>2. CASE AtCheckBusy
  BY <1>2
     DEF AtCheckBusy, Active, AtAnswer, AtGoto, env, card, ctl, at
<1>3. CASE AtTakeIdle
  BY <1>3
     DEF AtTakeIdle, AtGoto, env, card, ctl, at
<1>4. CASE AtIdleTimeout
  BY <1>4
     DEF AtIdleTimeout, AtAnswer, AtGoto, env, card, ctl, at
<1>5. CASE AtRefuse
  BY <1>5
     DEF AtRefuse, AtFail, Active, AtAnswer, AtGoto, card, ctl, at, env
<1>6. CASE AtArm
  BY <1>6
     DEF AtArm, Active, Blank, NoHist, AtGoto, env, card, NoFile, ctl, at
<1>7. CASE AtInfoFault
  BY <1>7
     DEF AtInfoFault, AtFail, AtAnswer, AtGoto, card, ctl, at, env
<1>8. CASE AtTrigger
  BY <1>8
     DEF AtTrigger, AtAnswer, AtGoto, env, card, ctl, at
<1>9. CASE AtCancel
  BY <1>9
     DEF AtCancel, Active, AtGoto, ctl, card, at, env
<1>10. CASE AtCancelFlag
  BY <1>10
     DEF AtCancelFlag, AtGoto, env, card, ctl, at
<1>11. CASE AtCancelState
  BY <1>11
     DEF AtCancelState, AtGoto, ctl, env, card, at
<1>12. CASE ThWake
  BY <1>12
     DEF ThWake, at, env, card, ctl
<1>13. CASE ThNoCancel
  BY <1>13
     DEF ThNoCancel, ThGoto, at, env, card, ctl
<1>14. CASE ThCancel
  BY <1>14, ReportHistory
     DEF ThCancel, Finish, at, env, card, ctl
<1>15. CASE ThCleanupPark
  BY <1>15
     DEF ThCleanupPark, Cleanup, Park, at, env, card, Blank, NoFile, ctl
<1>16. CASE ThCleanupLoop
  BY <1>16
     DEF ThCleanupLoop, Cleanup, at, env, card, Blank, NoFile, ctl
<1>17. CASE ThIdle
  BY <1>17
     DEF ThIdle, Park, at, env, card, ctl
<1>18. CASE ThSleep
  BY <1>18
     DEF ThSleep, ThGoto, at, env, card, ctl
<1>19. CASE ThProceed
  BY <1>19
     DEF ThProceed, Active, ThGoto, at, env, card, ctl
<1>20. CASE ThNextPreset
  BY <1>20
     DEF ThNextPreset, NoFile, NextStays, ThGoto, at, env, card, ctl
<1>21. CASE ThNextNormal
  BY <1>21, ReportHistory
     DEF ThNextNormal, NoFile, NoMore, NextStays, Skip, at, env, ThGoto, card, ctl
<1>22. CASE ThNextContinuous
  BY <1>22
     DEF ThNextContinuous, NoFile, NextStays, ThGoto, at, env, card, ctl
<1>23. CASE ThAwaitFound
  BY <1>23
     DEF ThAwaitFound, NextStays, ThGoto, at, env, card, ctl
<1>24. CASE ThAwaitStopped
  BY <1>24, ReportHistory
     DEF ThAwaitStopped, Skip, NoMore, NoFile, ThGoto, at, env, card, ctl
<1>25. CASE ThAwaitError
  BY <1>25, ReportHistory
     DEF ThAwaitError, Active, NextError, ThGoto, at, env, card, ctl
<1>26. CASE ThAwaitTimeout
  BY <1>26, ReportHistory
     DEF ThAwaitTimeout, NoMore, at, env, ctl, card
<1>27. CASE ThWaitWrite
  BY <1>27, ReportHistory
     DEF ThWaitWrite, NextStays, NextError, NoFile, ThGoto, at, env, card, ctl
<1>28. CASE ThOpen
  BY <1>28
     DEF ThOpen, ThGoto, at, env, card, ctl
<1>29. CASE ThOpenError
  BY <1>29, ReportHistory
     DEF ThOpenError, NextError, NoFile, ThGoto, at, env, card, ctl
<1>30. CASE ThOpenNothing
  BY <1>30, ReportHistory
     DEF ThOpenNothing, NoMore, NoFile, at, env, ctl, card
<1>31. CASE ThChunksLeave
  BY <1>31
     DEF ThChunksLeave, Active, ThGoto, at, env, card, ctl
<1>32. CASE ThChunksLost
  BY <1>32
     DEF ThChunksLost, Active, CloseAndLoop, ThGoto, at, env, card, ctl
<1>33. CASE ThChunksSent
  BY <1>33
     DEF ThChunksSent, Active, ThGoto, at, env, card, ctl
<1>34. CASE ThChunksError
  BY <1>34, ReportHistory
     DEF ThChunksError, Active, Finish, at, env, card, ctl
<1>35. CASE ThFileEnd
  BY <1>35, ReportHistory
     DEF ThFileEnd, FileAcked, ThGoto, at, env, card, Finish, NoFile, CloseAndLoop, ctl
<1>36. CASE ThResend
  BY <1>36, ReportHistory
     DEF ThResend, Active, ThGoto, at, env, card, Finish, ctl
<1>37. CASE ThResendGiveUp
  BY <1>37, ReportHistory
     DEF ThResendGiveUp, Active, Finish, at, env, card, ctl
<1>38. CASE CancelWork
  BY <1>38
     DEF CancelWork, Active, CancelNow, at, card, ctl, env
<1>39. CASE ShutdownCancel
  BY <1>39
     DEF ShutdownCancel, Active, CancelNow, at, env, card, ctl
<1>40. CASE LinkUp
  BY <1>40
     DEF LinkUp, LinkChange, ctl, at, card, env
<1>41. CASE LinkDisconnected
  BY <1>41
     DEF LinkDisconnected, LinkChange, ctl, at, card, env
<1>42. CASE LinkSilent
  BY <1>42
     DEF LinkSilent, LinkChange, ctl, at, card, env
<1>43. CASE RecordClose
  BY <1>43
     DEF RecordClose, RecordStep, ctl, at, env, card
<1>44. CASE RecordOpen
  BY <1>44
     DEF RecordOpen, RecordStep, ctl, at, env, card
<1>45. CASE RecordChange
  BY <1>45
     DEF RecordChange, RecordStep, ctl, at, env, card
<1>46. CASE UNCHANGED vars
  BY <1>46 DEF vars, ctl, at, env, card
<1> QED
  BY <1>1, <1>2, <1>3, <1>4, <1>5, <1>6, <1>7, <1>8, <1>9, <1>10, <1>11, <1>12, <1>13,
      <1>14, <1>15, <1>16, <1>17, <1>18, <1>19, <1>20, <1>21, <1>22, <1>23, <1>24,
      <1>25, <1>26, <1>27, <1>28, <1>29, <1>30, <1>31, <1>32, <1>33, <1>34, <1>35,
      <1>36, <1>37, <1>38, <1>39, <1>40, <1>41, <1>42, <1>43, <1>44, <1>45, <1>46
     DEF Next, AtThread, TransferThread, Environment

\* A chunk beyond file_count does not exist while the session is recorded, and what a transfer believes of the recorder is stale
\* only in one direction: a session it takes for finished is finished
DiskInv ==
    /\ recorder = "this" => \A n \in Files : n > fileCount => disk[n] = "absent"
    /\ budget.fault = 0
    /\ ~xfer.cont /\ (Active \/ tpc = "next") /\ apc # "read_info" => recorder # "this"

LEMMA DiskInit ==
  ASSUME MaxFaults = 0, Init
  PROVE  DiskInv
<1>1. budget.fault = 0 /\ ~Active /\ tpc = "parked"
  BY DEF Init, Blank, Active
<1>2. \A n \in Files : n > fileCount => n # fileCount /\ ~(n < fileCount)
  BY DEF Init, Files
<1>3. recorder = "this" => \A n \in Files : n > fileCount => disk[n] = "absent"
  BY <1>2 DEF Init
<1> QED
  BY <1>1, <1>3 DEF DiskInv

\* A step that leaves the card alone and starts nothing
LEMMA DiskStill ==
  ASSUME DiskInv, UNCHANGED <<card, apc, budget>>, xfer'.cont = xfer.cont,
         xfer'.state = "TRANSMITTING" => xfer.state = "TRANSMITTING", tpc' # "next"
  PROVE  DiskInv'
  BY DEF DiskInv, card, Active

LEMMA DiskNextError ==
  ASSUME TypeOK, DiskInv, NEW file, NextError(file)
  PROVE  DiskInv'
<1>1. UNCHANGED <<card, apc, budget>> /\ tpc' \in {"loop", "cleanup_park"}
  BY DEF NextError, ThGoto, at, env
<1>2. xfer'.cont = xfer.cont
      /\ (xfer'.state = "TRANSMITTING" => xfer.state = "TRANSMITTING")
  BY DEF NextError, TypeOK, TransferInfo
<1> QED
  BY <1>1, <1>2, DiskStill

LEMMA DiskFinish ==
  ASSUME TypeOK, DiskInv, NEW pc, Finish("ERROR", pc), pc # "next"
  PROVE  DiskInv'
  BY DiskStill DEF Finish, at, env, TypeOK, TransferInfo

LEMMA DiskStep == TypeOK /\ LockInv /\ FreshInv /\ DiskInv /\ [Next]_vars => DiskInv'
<1> SUFFICES ASSUME TypeOK, LockInv, FreshInv, DiskInv, [Next]_vars PROVE DiskInv'
  OBVIOUS
<1> USE DEF DiskInv, FreshInv, LockInv, Owning, TypeOK, TransferInfo, Budget, Active, Files
<1>1. CASE AtDownload
  BY <1>1
     DEF AtDownload, env, card, ctl, at
<1>2. CASE AtCheckBusy
  BY <1>2
     DEF AtCheckBusy, Active, AtAnswer, AtGoto, env, card, ctl, at
<1>3. CASE AtTakeIdle
  BY <1>3
     DEF AtTakeIdle, AtGoto, env, card, ctl, at
<1>4. CASE AtIdleTimeout
  BY <1>4
     DEF AtIdleTimeout, AtAnswer, AtGoto, env, card, ctl, at
<1>5. CASE AtRefuse
  BY <1>5
     DEF AtRefuse, AtFail, Active, AtAnswer, AtGoto, card, ctl, at, env
<1>6. CASE AtArm
  BY <1>6
     DEF AtArm, Active, Blank, NoHist, AtGoto, env, card, NoFile, ctl, at
<1>7. CASE AtInfoFault
  BY <1>7
     DEF AtInfoFault, AtFail, AtAnswer, AtGoto, card, ctl, at, env
<1>8. CASE AtTrigger
  <2> DEFINE total == IF SameId /\ req.from = 0 THEN 0 ELSE fileCount
             ix    == StartIndex(req.from, fileCount)
  <2>1. /\ xfer' = [xfer EXCEPT !.index = ix, !.total = total, !.cont = SameId]
        /\ apc' = "ready" /\ UNCHANGED <<tpc, card, budget>>
    BY <1>8 DEF AtTrigger, AtAnswer, AtGoto, env
  <2> HIDE DEF ix, total
  <2>2. xfer'.cont = SameId /\ xfer'.state = xfer.state
    BY <2>1
  <2>3. ~SameId => recorder # "this"
    BY DEF SameId
  <2> QED
    BY <2>1, <2>2, <2>3 DEF card
<1>9. CASE AtCancel
  BY <1>9
     DEF AtCancel, Active, AtGoto, ctl, card, at, env
<1>10. CASE AtCancelFlag
  BY <1>10
     DEF AtCancelFlag, AtGoto, env, card, ctl, at
<1>11. CASE AtCancelState
  BY <1>11
     DEF AtCancelState, AtGoto, ctl, env, card, at
<1>12. CASE ThWake
  BY <1>12
     DEF ThWake, at, env, card, ctl
<1>13. CASE ThNoCancel
  BY <1>13
     DEF ThNoCancel, ThGoto, at, env, card, ctl
<1>14. CASE ThCancel
  BY <1>14
     DEF ThCancel, Finish, at, env, card, ctl
<1>15. CASE ThCleanupPark
  BY <1>15
     DEF ThCleanupPark, Cleanup, Park, at, env, card, Blank, NoFile, ctl
<1>16. CASE ThCleanupLoop
  BY <1>16
     DEF ThCleanupLoop, Cleanup, at, env, card, Blank, NoFile, ctl
<1>17. CASE ThIdle
  BY <1>17
     DEF ThIdle, Park, at, env, card, ctl
<1>18. CASE ThSleep
  BY <1>18
     DEF ThSleep, ThGoto, at, env, card, ctl
<1>19. CASE ThProceed
  BY <1>19
     DEF ThProceed, Active, ThGoto, at, env, card, ctl
<1>20. CASE ThNextPreset
  BY <1>20
     DEF ThNextPreset, NoFile, NextStays, ThGoto, at, env, card, ctl
<1>21. CASE ThNextNormal
  BY <1>21
     DEF ThNextNormal, NoFile, NoMore, NextStays, Skip, at, env, ThGoto, card, ctl
<1>22. CASE ThNextContinuous
  BY <1>22
     DEF ThNextContinuous, NoFile, NextStays, ThGoto, at, env, card, ctl
<1>23. CASE ThAwaitFound
  BY <1>23
     DEF ThAwaitFound, NextStays, ThGoto, at, env, card, ctl
<1>24. CASE ThAwaitStopped
  BY <1>24
     DEF ThAwaitStopped, Skip, NoMore, NoFile, ThGoto, at, env, card, ctl
<1>25. CASE ThAwaitError
  BY <1>25, DiskNextError DEF ThAwaitError
<1>26. CASE ThAwaitTimeout
  BY <1>26
     DEF ThAwaitTimeout, NoMore, at, env, ctl, card
<1>27. CASE ThWaitWrite
  <2>1. CASE NextStays(xfer, "open")
    BY <2>1, DiskStill DEF NextStays, ThGoto, at, env
  <2> QED
    BY <1>27, <2>1, DiskNextError DEF ThWaitWrite
<1>28. CASE ThOpen
  BY <1>28
     DEF ThOpen, ThGoto, at, env, card, ctl
<1>29. CASE ThOpenError
  BY <1>29, DiskNextError DEF ThOpenError
<1>30. CASE ThOpenNothing
  <2>1. NoMore([xfer EXCEPT !.file = NoFile])
    BY <1>30 DEF ThOpenNothing
  <2>2. /\ xfer'.state = "COMPLETED" /\ tpc' = "cleanup_park"
        /\ UNCHANGED <<fileCount, recorder, apc, budget>>
    BY <2>1 DEF NoMore, at, env
  <2>3. UNCHANGED disk \/ disk' = [disk EXCEPT ![xfer.file] = "absent"]
    BY <1>30 DEF ThOpenNothing
  <2>4. disk \in [Files -> FileStates]
    OBVIOUS
  <2>5. \A n \in Files : disk'[n] = disk[n] \/ disk'[n] = "absent"
    BY ONLY <2>3, <2>4
  <2> QED
    BY <2>2, <2>5
<1>31. CASE ThChunksLeave
  BY <1>31
     DEF ThChunksLeave, Active, ThGoto, at, env, card, ctl
<1>32. CASE ThChunksLost
  BY <1>32
     DEF ThChunksLost, Active, CloseAndLoop, ThGoto, at, env, card, ctl
<1>33. CASE ThChunksSent
  BY <1>33
     DEF ThChunksSent, Active, ThGoto, at, env, card, ctl
<1>34. CASE ThChunksError
  BY <1>34, DiskFinish DEF ThChunksError
<1>35. CASE ThFileEnd
  <2>1. CASE FileAcked
    <3>1. /\ UNCHANGED <<card, apc, budget>> /\ tpc' = "loop"
          /\ xfer'.cont = xfer.cont /\ xfer'.state = xfer.state
      BY <2>1 DEF FileAcked, CloseAndLoop, ThGoto, at, env
    <3> QED
      BY <3>1, DiskStill
  <2>2. CASE /\ ThGoto("resend")
             /\ UNCHANGED <<xfer, fileOpen, cancelReq, doneSent, tries, at, env, card,
                            synced, hist>>
    BY <2>2, DiskStill DEF ThGoto, at, env
  <2> QED
    BY <1>35, <2>1, <2>2, DiskFinish DEF ThFileEnd
<1>36. CASE ThResend
  <2>1. CASE /\ ThGoto("file_end_again")
             /\ UNCHANGED <<xfer, at, env, card>>
    BY <2>1, DiskStill DEF ThGoto, at, env
  <2> QED
    BY <1>36, <2>1, DiskFinish DEF ThResend
<1>37. CASE ThResendGiveUp
  BY <1>37, DiskFinish DEF ThResendGiveUp
<1>38. CASE CancelWork
  BY <1>38
     DEF CancelWork, Active, CancelNow, at, card, ctl, env
<1>39. CASE ShutdownCancel
  BY <1>39
     DEF ShutdownCancel, Active, CancelNow, at, env, card, ctl
<1>40. CASE LinkUp
  BY <1>40
     DEF LinkUp, LinkChange, ctl, at, card, env
<1>41. CASE LinkDisconnected
  BY <1>41
     DEF LinkDisconnected, LinkChange, ctl, at, card, env
<1>42. CASE LinkSilent
  BY <1>42
     DEF LinkSilent, LinkChange, ctl, at, card, env
<1>43. CASE RecordClose
  BY <1>43
     DEF RecordClose, RecordStep, ctl, at, env, card
<1>44. CASE RecordOpen
  BY <1>44
     DEF RecordOpen, RecordStep, ctl, at, env, card
<1>45. CASE RecordChange
  BY <1>45
     DEF RecordChange, RecordStep, ctl, at, env, card
<1>46. CASE UNCHANGED vars
  BY <1>46 DEF vars, ctl, at, env, card
<1> QED
  BY <1>1, <1>2, <1>3, <1>4, <1>5, <1>6, <1>7, <1>8, <1>9, <1>10, <1>11, <1>12, <1>13,
      <1>14, <1>15, <1>16, <1>17, <1>18, <1>19, <1>20, <1>21, <1>22, <1>23, <1>24,
      <1>25, <1>26, <1>27, <1>28, <1>29, <1>30, <1>31, <1>32, <1>33, <1>34, <1>35,
      <1>36, <1>37, <1>38, <1>39, <1>40, <1>41, <1>42, <1>43, <1>44, <1>45, <1>46
     DEF Next, AtThread, TransferThread, Environment

\* The bound on link changes: once a file is looked for or sent with every link
\* down, one of them was used up
LinkInv ==
    /\ budget.link <= MaxLinkChanges
    /\ tpc \in {"next"} \union Finding \union Sending /\ up = {} =>
         budget.link < MaxLinkChanges

LEMMA LinkInit == Init => LinkInv
  BY TransferAssumption DEF Init, LinkInv, Finding, Sending

LEMMA LinkStep == TypeOK /\ LinkInv /\ [Next]_vars => LinkInv'
<1> SUFFICES ASSUME TypeOK, LinkInv, [Next]_vars PROVE LinkInv'
  OBVIOUS
<1> USE TransferAssumption DEF LinkInv, Finding, Sending, TypeOK, TransferInfo, Budget
<1>1. CASE AtDownload
  BY <1>1
     DEF AtDownload, env, card, ctl, at
<1>2. CASE AtCheckBusy
  BY <1>2
     DEF AtCheckBusy, Active, AtAnswer, AtGoto, env, card, ctl, at
<1>3. CASE AtTakeIdle
  BY <1>3
     DEF AtTakeIdle, AtGoto, env, card, ctl, at
<1>4. CASE AtIdleTimeout
  BY <1>4
     DEF AtIdleTimeout, AtAnswer, AtGoto, env, card, ctl, at
<1>5. CASE AtRefuse
  BY <1>5
     DEF AtRefuse, AtFail, Active, AtAnswer, AtGoto, card, ctl, at, env
<1>6. CASE AtArm
  BY <1>6
     DEF AtArm, Active, Blank, NoHist, Connected, AtGoto, env, card, NoFile, ctl, at
<1>7. CASE AtInfoFault
  BY <1>7
     DEF AtInfoFault, AtFail, AtAnswer, AtGoto, card, ctl, at, env
<1>8. CASE AtTrigger
  BY <1>8
     DEF AtTrigger, AtAnswer, AtGoto, env, card, ctl, at
<1>9. CASE AtCancel
  BY <1>9
     DEF AtCancel, Active, AtGoto, ctl, card, at, env
<1>10. CASE AtCancelFlag
  BY <1>10
     DEF AtCancelFlag, AtGoto, env, card, ctl, at
<1>11. CASE AtCancelState
  BY <1>11
     DEF AtCancelState, AtGoto, ctl, env, card, at
<1>12. CASE ThWake
  BY <1>12
     DEF ThWake, at, env, card, ctl
<1>13. CASE ThNoCancel
  BY <1>13
     DEF ThNoCancel, ThGoto, at, env, card, ctl
<1>14. CASE ThCancel
  BY <1>14
     DEF ThCancel, Finish, at, env, card, ctl
<1>15. CASE ThCleanupPark
  BY <1>15
     DEF ThCleanupPark, Cleanup, Park, at, env, card, Blank, NoFile, ctl
<1>16. CASE ThCleanupLoop
  BY <1>16
     DEF ThCleanupLoop, Cleanup, at, env, card, Blank, NoFile, ctl
<1>17. CASE ThIdle
  BY <1>17
     DEF ThIdle, Park, at, env, card, ctl
<1>18. CASE ThSleep
  BY <1>18
     DEF ThSleep, ThGoto, at, env, card, ctl
<1>19. CASE ThProceed
  BY <1>19
     DEF ThProceed, Active, Connected, ThGoto, at, env, card, ctl
<1>20. CASE ThNextPreset
  BY <1>20
     DEF ThNextPreset, NoFile, NextStays, ThGoto, at, env, card, ctl
<1>21. CASE ThNextNormal
  BY <1>21
     DEF ThNextNormal, NoFile, NoMore, NextStays, Skip, at, env, ThGoto, card, ctl
<1>22. CASE ThNextContinuous
  BY <1>22
     DEF ThNextContinuous, NoFile, NextStays, ThGoto, at, env, card, ctl
<1>23. CASE ThAwaitFound
  BY <1>23
     DEF ThAwaitFound, NextStays, ThGoto, at, env, card, ctl
<1>24. CASE ThAwaitStopped
  BY <1>24
     DEF ThAwaitStopped, Skip, NoMore, NoFile, ThGoto, at, env, card, ctl
<1>25. CASE ThAwaitError
  BY <1>25
     DEF ThAwaitError, Connected, Active, NextError, ThGoto, at, env, card, ctl
<1>26. CASE ThAwaitTimeout
  BY <1>26
     DEF ThAwaitTimeout, NoMore, at, env, ctl, card
<1>27. CASE ThWaitWrite
  BY <1>27
     DEF ThWaitWrite, NextStays, Connected, NextError, NoFile, ThGoto, at, env, card,
         ctl
<1>28. CASE ThOpen
  BY <1>28
     DEF ThOpen, ThGoto, at, env, card, ctl
<1>29. CASE ThOpenError
  BY <1>29
     DEF ThOpenError, NextError, NoFile, ThGoto, at, env, card, ctl
<1>30. CASE ThOpenNothing
  BY <1>30
     DEF ThOpenNothing, NoMore, NoFile, at, env, ctl, card
<1>31. CASE ThChunksLeave
  BY <1>31
     DEF ThChunksLeave, Active, ThGoto, at, env, card, ctl
<1>32. CASE ThChunksLost
  BY <1>32
     DEF ThChunksLost, Active, Connected, CloseAndLoop, ThGoto, at, env, card, ctl
<1>33. CASE ThChunksSent
  BY <1>33
     DEF ThChunksSent, Active, Connected, ThGoto, at, env, card, ctl
<1>34. CASE ThChunksError
  BY <1>34
     DEF ThChunksError, Active, Connected, Finish, at, env, card, ctl
<1>35. CASE ThFileEnd
  BY <1>35
     DEF ThFileEnd, FileAcked, ThGoto, at, env, card, Finish, NoFile, CloseAndLoop, ctl
<1>36. CASE ThResend
  BY <1>36
     DEF ThResend, Active, ThGoto, at, env, card, Finish, ctl
<1>37. CASE ThResendGiveUp
  BY <1>37
     DEF ThResendGiveUp, Active, Finish, at, env, card, ctl
<1>38. CASE CancelWork
  BY <1>38
     DEF CancelWork, Active, CancelNow, at, card, ctl, env
<1>39. CASE ShutdownCancel
  BY <1>39
     DEF ShutdownCancel, Active, CancelNow, at, env, card, ctl
<1>40. CASE LinkUp
  BY <1>40
     DEF LinkUp, LinkChange, ctl, at, card, env
<1>41. CASE LinkDisconnected
  BY <1>41
     DEF LinkDisconnected, LinkChange, ctl, at, card, env
<1>42. CASE LinkSilent
  BY <1>42
     DEF LinkSilent, LinkChange, ctl, at, card, env
<1>43. CASE RecordClose
  BY <1>43
     DEF RecordClose, RecordStep, ctl, at, env, card
<1>44. CASE RecordOpen
  BY <1>44
     DEF RecordOpen, RecordStep, ctl, at, env, card
<1>45. CASE RecordChange
  BY <1>45
     DEF RecordChange, RecordStep, ctl, at, env, card
<1>46. CASE UNCHANGED vars
  BY <1>46 DEF vars, ctl, at, env, card
<1> QED
  BY <1>1, <1>2, <1>3, <1>4, <1>5, <1>6, <1>7, <1>8, <1>9, <1>10, <1>11, <1>12, <1>13,
      <1>14, <1>15, <1>16, <1>17, <1>18, <1>19, <1>20, <1>21, <1>22, <1>23, <1>24,
      <1>25, <1>26, <1>27, <1>28, <1>29, <1>30, <1>31, <1>32, <1>33, <1>34, <1>35,
      <1>36, <1>37, <1>38, <1>39, <1>40, <1>41, <1>42, <1>43, <1>44, <1>45, <1>46
     DEF Next, AtThread, TransferThread, Environment

-----------------------------------------------------------------------------
(* What synced_files counts                                                 *)

\* Every chunk from the requested one to k that is on the card d was confirmed
Confirmed(h, d, k) ==
    \A n \in Files : h.from <= n /\ n <= k /\ d[n] # "absent" => n \in h.acked

\* A link was lost that may come back: the only way to open a file twice, which
\* counts it twice
Flapped == hist.lost /\ MaxLinkChanges > 1

\* Every link is down and stays down
Gone == up = {} /\ budget.link = 0

\* file_index, current_file and the open handle against what the host confirmed:
\* between files everything up to file_index is confirmed, with a file open
\* everything before it is, and current_file outlives a file only where the
\* thread cannot come back to transfer_next_file
FileInv ==
    /\ Confirmed(hist, disk, xfer.synced) /\ xfer.synced <= xfer.index
    /\ recorder = "this" => xfer.index <= fileCount
    /\ apc = "read_info" => xfer.file = NoFile /\ ~fileOpen /\ xfer.synced = 0
    /\ tpc \in Resting \union Sending /\ fileOpen =>
         xfer.file = xfer.index /\ Confirmed(hist, disk, xfer.index - 1)
    /\ tpc \in Resting /\ ~fileOpen /\ xfer.file = NoFile =>
         Confirmed(hist, disk, xfer.index)
    /\ tpc \in Resting /\ ~fileOpen /\ xfer.file # NoFile =>
         tpc # "next" /\ (Gone \/ ~Active \/ (tpc = "loop" /\ cancelReq))
    /\ tpc = "next" => ~fileOpen
    /\ tpc \in Finding =>
         ~fileOpen /\ xfer.file = xfer.index + 1 /\ Confirmed(hist, disk, xfer.index)
    /\ tpc \in Sending => fileOpen
    /\ tpc = "open" /\ (recorder = "this" \/ xfer.cont) => ~Writing
    /\ tpc \in {"wait_write", "open"} => Exists(xfer.file)

FileSound == Flapped \/ FileInv

LEMMA NoneRequested == ASSUME NEW h, NEW d PROVE Confirmed(h, d, 0)
  BY DEF Confirmed, Files

LEMMA ConfirmedSame ==
  ASSUME NEW h, NEW g, NEW d, NEW k, g.from = h.from, g.acked = h.acked,
         Confirmed(h, d, k)
  PROVE  Confirmed(g, d, k)
  BY DEF Confirmed

LEMMA FileInit == Init => FileSound
<1> SUFFICES ASSUME Init PROVE FileInv
  BY DEF FileSound
<1>1. /\ xfer.synced = 0 /\ xfer.index = 0 /\ xfer.file = NoFile /\ ~fileOpen
      /\ tpc = "parked" /\ apc = "ready"
  BY DEF Init, Blank
<1>2. fileCount \in Nat
  BY TransferAssumption DEF Init, Files
<1> QED
  BY <1>1, <1>2, NoneRequested DEF FileInv, Finding, Sending

\* Away from the files: on the way to transfer_cleanup
LEMMA FileAway ==
  ASSUME TypeOK, FileInv, tpc' \in {"cleanup_park", "cleanup_loop"},
         Confirmed(hist', disk', xfer'.synced), xfer'.synced <= xfer'.index,
         recorder' = "this" => xfer'.index <= fileCount', apc' # "read_info"
  PROVE  FileInv'
  BY DEF FileInv, Resting, Finding, Sending

LEMMA FileReported ==
  ASSUME TypeOK, FileInv, SendDoneOnce, tpc' \in {"cleanup_park", "cleanup_loop"},
         UNCHANGED <<card, apc>>, xfer'.synced = xfer.synced, xfer'.index = xfer.index,
         apc # "read_info"
  PROVE  FileInv'
<1>1. Confirmed(hist', disk', xfer'.synced)
  BY ReportHistory, ConfirmedSame DEF FileInv, card
<1> QED
  BY <1>1, FileAway DEF FileInv, card

LEMMA FileFinish ==
  ASSUME TypeOK, FileInv, NEW s, NEW pc \in {"cleanup_park", "cleanup_loop"},
         Finish(s, pc), apc # "read_info"
  PROVE  FileInv'
<1>1. xfer'.synced = xfer.synced /\ xfer'.index = xfer.index /\ UNCHANGED <<card, apc>>
  BY DEF Finish, TypeOK, TransferInfo, at, card
<1> QED
  BY <1>1, FileReported DEF Finish

\* No more files: the last one looked for may have been unlinked, or skipped
LEMMA FileNoMore ==
  ASSUME TypeOK, FileInv, NEW x \in TransferInfo, NoMore(x), apc # "read_info",
         x.synced = xfer.synced, x.index >= xfer.index,
         recorder = "this" => x.index <= fileCount,
         \A n \in Files : disk[n] = "absent" => disk'[n] = "absent"
  PROVE  FileInv'
<1>1. xfer'.synced = xfer.synced /\ xfer'.index = x.index
      /\ UNCHANGED <<recorder, fileCount, apc>> /\ tpc' = "cleanup_park"
  BY DEF NoMore, TransferInfo, at
<1>2. hist'.from = hist.from /\ hist'.acked = hist.acked
  BY ReportHistory DEF NoMore
<1>3. Confirmed(hist', disk', xfer'.synced)
  BY <1>1, <1>2 DEF Confirmed, FileInv
<1>4. xfer'.synced <= xfer'.index
  BY <1>1 DEF FileInv, TypeOK, TransferInfo
<1> QED
  BY <1>1, <1>3, <1>4, FileAway

\* An error while a file is looked for: current_file is dropped, or kept where the
\* thread cannot come back to transfer_next_file
LEMMA FileNextError ==
  ASSUME TypeOK, FileInv, NEW file, NextError(file), tpc \in Finding, apc # "read_info",
         file = NoFile \/ Gone \/ ~Active \/ cancelReq
  PROVE  FileInv'
<1>1. CASE tries < MaxFileErrors
  <2>1. /\ xfer' = [xfer EXCEPT !.file = file] /\ tpc' = "loop"
        /\ UNCHANGED <<fileOpen, cancelReq, at, env, card, hist>>
    BY <1>1 DEF NextError, ThGoto
  <2>2. /\ xfer'.synced = xfer.synced /\ xfer'.index = xfer.index /\ xfer'.file = file
        /\ xfer'.state = xfer.state
    BY <2>1 DEF TypeOK, TransferInfo
  <2> QED
    BY <2>1, <2>2
       DEF FileInv, Resting, Finding, Sending, Gone, Active, at, env, card
<1>2. CASE ~(tries < MaxFileErrors)
  <2>1. /\ xfer' = [xfer EXCEPT !.file = file, !.state = "ERROR"]
        /\ SendDoneOnce /\ tpc' = "cleanup_park" /\ UNCHANGED <<at, card>>
    BY <1>2 DEF NextError
  <2>2. xfer'.synced = xfer.synced /\ xfer'.index = xfer.index
    BY <2>1 DEF TypeOK, TransferInfo
  <2> QED
    BY <2>1, <2>2, FileReported DEF at
<1> QED
  BY <1>1, <1>2

LEMMA FileSkip ==
  ASSUME TypeOK, FileInv, NEW n \in Nat, Skip(n), apc # "read_info",
         n = xfer.index + 1, ~Exists(n), recorder # "this", ~fileOpen,
         Confirmed(hist, disk, xfer.index)
  PROVE  FileInv'
<1>1. /\ xfer' = [xfer EXCEPT !.index = n, !.file = NoFile] /\ tpc' = "loop"
      /\ UNCHANGED <<fileOpen, at, card, hist>>
  BY DEF Skip, ThGoto
<1>2. xfer'.index = n /\ xfer'.file = NoFile /\ xfer'.synced = xfer.synced
  BY <1>1 DEF TypeOK, TransferInfo
<1>3. Confirmed(hist, disk, n)
  BY DEF Confirmed, Exists, TypeOK, TransferInfo, Files
<1>4. xfer.synced <= n
  BY DEF FileInv, TypeOK, TransferInfo
<1> QED
  BY <1>1, <1>2, <1>3, <1>4 DEF FileInv, Resting, Finding, Sending, at, card

\* A step that leaves the file, the card and the thread where they are
LEMMA FileStill ==
  ASSUME FileInv, UNCHANGED <<fileOpen, tpc, card>>,
         xfer'.file = xfer.file, xfer'.index = xfer.index, xfer'.synced = xfer.synced,
         xfer'.cont = xfer.cont, hist'.from = hist.from, hist'.acked = hist.acked,
         apc' = "read_info" => apc = "read_info",
         Active' => Active, cancelReq => cancelReq', Gone => Gone'
  PROVE  FileInv'
<1>1. \A k : Confirmed(hist, disk, k) => Confirmed(hist', disk', k)
  BY DEF Confirmed, card
<1>2. /\ Exists(xfer.file) => Exists(xfer.file)'
      /\ Writing' => Writing
  BY DEF Exists, Writing, card
<1> QED
  BY <1>1, <1>2 DEF FileInv, card

\* The recorder finishes a chunk: none appears, none is opened for writing
LEMMA FileCard ==
  ASSUME FileInv, recorder' = "this" => recorder = "this",
         UNCHANGED <<xfer, fileOpen, cancelReq, tpc, apc, up, budget, fileCount, hist>>,
         \A m \in Files : /\ disk'[m] = "absent" <=> disk[m] = "absent"
                          /\ disk'[m] = "writing" => disk[m] = "writing"
  PROVE  FileInv'
<1>1. \A k : Confirmed(hist, disk, k) => Confirmed(hist', disk', k)
  BY DEF Confirmed
<1>2. Exists(xfer.file) => Exists(xfer.file)'
  BY DEF Exists
<1>3. Writing' => Writing
  BY DEF Writing
<1> QED
  BY <1>1, <1>2, <1>3 DEF FileInv, Gone, Active

\* A running thread has a transfer, and a link that is down then was lost: with
\* one link change in all it is down for good
LEMMA LostForGood ==
  ASSUME TypeOK, ToldInv, FreshInv, LinkInv, ~Flapped, up = {},
         tpc \in {"next"} \union Finding \union Sending
  PROVE  Gone
  BY TransferAssumption
     DEF ToldInv, FreshInv, LinkInv, Flapped, Gone, Finding, Sending, TypeOK, Budget

\* AtArm starts the account afresh
LEMMA ArmSound ==
  ASSUME TypeOK, LockInv, AtArm
  PROVE  FileInv'
<1>1. /\ xfer' = [Blank EXCEPT !.state = "TRANSMITTING", !.named = TRUE]
      /\ fileOpen' = FALSE /\ UNCHANGED <<tpc, card>> /\ tpc = "parked"
  BY DEF AtArm, LockInv, Owning
<1>2. xfer'.synced = 0 /\ xfer'.index = 0 /\ xfer'.file = NoFile
  BY <1>1 DEF Blank
<1>3. fileCount \in Nat
  BY TransferAssumption DEF TypeOK, Files
<1> QED
  BY <1>1, <1>2, <1>3, NoneRequested DEF FileInv, card, Resting, Finding, Sending

LEMMA FileStep ==
  ASSUME TypeOK, LockInv, ToldInv, FreshInv, DiskInv, LinkInv, FileInv, ~Flapped,
         ~Flapped', Next
  PROVE  FileInv'
<1> USE DEF FileInv, LockInv, Owning, Resting, Finding, Sending, TypeOK, TransferInfo
<1>0. apc = "read_info" => tpc = "parked"
  OBVIOUS
<1>1. CASE AtDownload
  <2>1. /\ xfer'.file = xfer.file /\ xfer'.index = xfer.index
        /\ xfer'.synced = xfer.synced /\ xfer'.cont = xfer.cont
        /\ hist'.from = hist.from /\ hist'.acked = hist.acked
        /\ UNCHANGED <<fileOpen, tpc, card>>
    BY <1>1 DEF AtDownload, env, ctl, History
  <2>2. /\ apc' = "read_info" => apc = "read_info"
        /\ Active' => Active
        /\ cancelReq => cancelReq'
    BY <1>1 DEF AtDownload, env, ctl, Active
  <2>3. Gone => Gone'
    BY <1>1 DEF AtDownload, env, ctl, Gone
  <2> QED
    BY <2>1, <2>2, <2>3, FileStill
<1>2. CASE AtCheckBusy
  <2>1. /\ xfer'.file = xfer.file /\ xfer'.index = xfer.index
        /\ xfer'.synced = xfer.synced /\ xfer'.cont = xfer.cont
        /\ hist'.from = hist.from /\ hist'.acked = hist.acked
        /\ UNCHANGED <<fileOpen, tpc, card>>
    BY <1>2 DEF AtCheckBusy, AtGoto, AtAnswer, env, History
  <2>2. /\ apc' = "read_info" => apc = "read_info"
        /\ Active' => Active
        /\ cancelReq => cancelReq'
    BY <1>2 DEF AtCheckBusy, AtGoto, AtAnswer, env, Active
  <2>3. Gone => Gone'
    BY <1>2 DEF AtCheckBusy, AtGoto, AtAnswer, env, Gone
  <2> QED
    BY <2>1, <2>2, <2>3, FileStill
<1>3. CASE AtTakeIdle
  BY <1>3
     DEF AtTakeIdle, AtGoto, env, card, Gone, Active, ctl, at
<1>4. CASE AtIdleTimeout
  <2>1. /\ xfer'.file = xfer.file /\ xfer'.index = xfer.index
        /\ xfer'.synced = xfer.synced /\ xfer'.cont = xfer.cont
        /\ hist'.from = hist.from /\ hist'.acked = hist.acked
        /\ UNCHANGED <<fileOpen, tpc, card>>
    BY <1>4 DEF AtIdleTimeout, AtAnswer, AtGoto, env, History
  <2>2. /\ apc' = "read_info" => apc = "read_info"
        /\ Active' => Active
        /\ cancelReq => cancelReq'
    BY <1>4 DEF AtIdleTimeout, AtAnswer, AtGoto, env, Active
  <2>3. Gone => Gone'
    BY <1>4 DEF AtIdleTimeout, AtAnswer, AtGoto, env, Gone
  <2> QED
    BY <2>1, <2>2, <2>3, FileStill
<1>5. CASE AtRefuse
  BY <1>5
     DEF AtRefuse, AtFail, Active, AtAnswer, AtGoto, card, Gone, ctl, at, env
<1>6. CASE AtArm
  BY <1>6, ArmSound
<1>7. CASE AtInfoFault
  BY <1>7 DEF AtInfoFault, DiskInv, Budget
<1>8. CASE AtTrigger
  <2> DEFINE ix == StartIndex(req.from, fileCount)
             first == IF req.from = 0 THEN 1 ELSE req.from
             total == IF SameId /\ req.from = 0 THEN 0 ELSE fileCount
  <2>1. req.from \in Nat /\ fileCount \in Nat /\ fileCount > 0
    BY TransferAssumption DEF Request, Files
  <2>2. ix \in Nat /\ ix <= fileCount /\ ix < first
    BY <2>1 DEF StartIndex
  <2>3. /\ xfer' = [xfer EXCEPT !.index = ix, !.total = total, !.cont = SameId]
        /\ hist' = [hist EXCEPT !.from = first]
        /\ apc' = "ready" /\ UNCHANGED <<fileOpen, tpc, card>>
    BY <1>8 DEF AtTrigger, AtAnswer, AtGoto
  <2> HIDE DEF ix, first, total
  <2>4. xfer'.index = ix /\ xfer'.file = NoFile /\ xfer'.synced = 0 /\ hist'.from = first
    BY <1>8, <2>3 DEF AtTrigger, History
  <2>5. Confirmed(hist', disk', ix)
    BY <2>1, <2>2, <2>4 DEF Confirmed, Files, first
  <2>6. ~fileOpen /\ tpc = "parked"
    BY <1>8, <1>0 DEF AtTrigger
  <2> QED
    BY <2>2, <2>3, <2>4, <2>5, <2>6, NoneRequested DEF card
<1>9. CASE AtCancel
  <2>1. /\ xfer'.file = xfer.file /\ xfer'.index = xfer.index
        /\ xfer'.synced = xfer.synced /\ xfer'.cont = xfer.cont
        /\ hist'.from = hist.from /\ hist'.acked = hist.acked
        /\ UNCHANGED <<fileOpen, tpc, card>>
    BY <1>9 DEF AtCancel, AtGoto, ctl, History
  <2>2. /\ apc' = "read_info" => apc = "read_info"
        /\ Active' => Active
        /\ cancelReq => cancelReq'
    BY <1>9 DEF AtCancel, AtGoto, ctl, Active
  <2>3. Gone => Gone'
    BY <1>9 DEF AtCancel, AtGoto, ctl, Gone
  <2> QED
    BY <2>1, <2>2, <2>3, FileStill
<1>10. CASE AtCancelFlag
  <2>1. /\ xfer'.file = xfer.file /\ xfer'.index = xfer.index
        /\ xfer'.synced = xfer.synced /\ xfer'.cont = xfer.cont
        /\ hist'.from = hist.from /\ hist'.acked = hist.acked
        /\ UNCHANGED <<fileOpen, tpc, card>>
    BY <1>10 DEF AtCancelFlag, AtGoto, env, History
  <2>2. /\ apc' = "read_info" => apc = "read_info"
        /\ Active' => Active
        /\ cancelReq => cancelReq'
    BY <1>10 DEF AtCancelFlag, AtGoto, env, Active
  <2>3. Gone => Gone'
    BY <1>10 DEF AtCancelFlag, AtGoto, env, Gone
  <2> QED
    BY <2>1, <2>2, <2>3, FileStill
<1>11. CASE AtCancelState
  <2>1. /\ xfer'.file = xfer.file /\ xfer'.index = xfer.index
        /\ xfer'.synced = xfer.synced /\ xfer'.cont = xfer.cont
        /\ hist'.from = hist.from /\ hist'.acked = hist.acked
        /\ UNCHANGED <<fileOpen, tpc, card>>
    BY <1>11 DEF AtCancelState, AtGoto, env, ctl, History
  <2>2. /\ apc' = "read_info" => apc = "read_info"
        /\ Active' => Active
        /\ cancelReq => cancelReq'
    BY <1>11 DEF AtCancelState, AtGoto, env, ctl, Active
  <2>3. Gone => Gone'
    BY <1>11 DEF AtCancelState, AtGoto, env, ctl, Gone
  <2> QED
    BY <2>1, <2>2, <2>3, FileStill
<1>12. CASE ThWake
  BY <1>12
     DEF ThWake, at, env, card, Gone, Active, ctl
<1>13. CASE ThNoCancel
  BY <1>13
     DEF ThNoCancel, ThGoto, at, env, card, Gone, Active, ctl
<1>14. CASE ThCancel
  BY <1>14, <1>0, FileFinish DEF ThCancel
<1>15. CASE ThCleanupPark
  <2>1. /\ xfer' = [Blank EXCEPT !.cont = xfer.cont] /\ fileOpen' = FALSE
        /\ tpc' = "parked" /\ UNCHANGED <<apc, card>>
    BY <1>15 DEF ThCleanupPark, Cleanup, Park, at
  <2>2. xfer'.synced = 0 /\ xfer'.index = 0 /\ xfer'.file = NoFile
    BY <2>1 DEF Blank
  <2>3. fileCount \in Nat
    BY TransferAssumption DEF Files
  <2> QED
    BY <2>1, <2>2, <2>3, NoneRequested DEF card
<1>16. CASE ThCleanupLoop
  <2>1. /\ xfer' = [Blank EXCEPT !.cont = xfer.cont] /\ fileOpen' = FALSE
        /\ tpc' = "loop" /\ UNCHANGED <<apc, card>>
    BY <1>16 DEF ThCleanupLoop, Cleanup, at
  <2>2. xfer'.synced = 0 /\ xfer'.index = 0 /\ xfer'.file = NoFile
    BY <2>1 DEF Blank
  <2>3. fileCount \in Nat
    BY TransferAssumption DEF Files
  <2> QED
    BY <2>1, <2>2, <2>3, NoneRequested DEF card
<1>17. CASE ThIdle
  BY <1>17
     DEF ThIdle, Park, at, env, card, Gone, Active, ctl
<1>18. CASE ThSleep
  BY <1>18
     DEF ThSleep, ThGoto, at, env, card, Gone, Active, ctl
<1>19. CASE ThProceed
  BY <1>19
     DEF ThProceed, Active, Connected, ThGoto, at, env, card, Gone, ctl
<1>20. CASE ThNextPreset
  BY <1>20
     DEF ThNextPreset, NoFile, NextStays, ThGoto, at, env, card, Gone, Active, ctl
<1>21. CASE ThNextNormal
  <2> DEFINE n == xfer.index + 1
  <2>1. tpc = "next" /\ ~xfer.cont /\ xfer.file = NoFile /\ apc # "read_info"
        /\ ~fileOpen /\ n \in Nat /\ Confirmed(hist, disk, xfer.index)
    BY <1>21, <1>0 DEF ThNextNormal
  <2>2. recorder # "this"
    BY <2>1 DEF DiskInv
  <2>3. CASE NoMore([xfer EXCEPT !.file = n]) /\ UNCHANGED disk
    BY <2>1, <2>2, <2>3, FileNoMore
  <2>4. CASE NoMore([xfer EXCEPT !.index = n]) /\ UNCHANGED disk
    BY <2>1, <2>2, <2>4, FileNoMore
  <2>5. CASE Exists(n) /\ NextStays([xfer EXCEPT !.file = n], "open")
    <3>1. /\ xfer'.file = n /\ xfer'.index = xfer.index /\ xfer'.synced = xfer.synced
          /\ ~xfer'.cont
          /\ tpc' = "open" /\ UNCHANGED <<apc, fileOpen, card, hist>>
      BY <2>1, <2>5 DEF NextStays, ThGoto, at
    <3>2. Exists(xfer.file)' /\ recorder' # "this"
      BY <2>2, <2>5, <3>1 DEF Exists, card
    <3> QED
      BY <2>1, <2>2, <3>1, <3>2 DEF card
  <2>6. CASE ~Exists(n) /\ Skip(n)
    BY <2>1, <2>2, <2>6, FileSkip
  <2> QED
    BY <1>21, <2>3, <2>4, <2>5, <2>6 DEF ThNextNormal
<1>22. CASE ThNextContinuous
  <2> DEFINE n == xfer.index + 1
  <2>1. tpc = "next" /\ xfer.file = NoFile /\ apc # "read_info" /\ ~fileOpen
        /\ n \in Nat /\ Confirmed(hist, disk, xfer.index)
    BY <1>22, <1>0 DEF ThNextContinuous
  <2>2. /\ xfer'.file = n /\ xfer'.index = xfer.index /\ xfer'.synced = xfer.synced
        /\ tpc' = (IF Exists(n) THEN "wait_write" ELSE "await")
        /\ UNCHANGED <<apc, fileOpen, card, hist>>
    BY <1>22 DEF ThNextContinuous, NextStays, ThGoto, at
  <2>3. tpc' = "wait_write" => Exists(xfer.file)'
    BY <2>2 DEF Exists, card
  <2> QED
    BY <2>1, <2>2, <2>3 DEF card
<1>23. CASE ThAwaitFound
  BY <1>23
     DEF ThAwaitFound, Exists, NextStays, ThGoto, at, env, card, Gone, Active, ctl
<1>24. CASE ThAwaitStopped
  <2>1. tpc = "await" /\ apc # "read_info" /\ recorder # "this" /\ ~Exists(xfer.file)
        /\ xfer.file \in Nat
    BY <1>24, <1>0 DEF ThAwaitStopped
  <2>2. CASE Skip(xfer.file)
    BY <2>1, <2>2, FileSkip
  <2>3. CASE NoMore(xfer) /\ UNCHANGED disk
    BY <2>1, <2>3, FileNoMore
  <2> QED
    BY <1>24, <2>2, <2>3 DEF ThAwaitStopped
<1>25. CASE ThAwaitError
  BY <1>25, <1>0, LostForGood, FileNextError DEF ThAwaitError, Connected
<1>26. CASE ThAwaitTimeout
  BY <1>26, <1>0, FileNoMore DEF ThAwaitTimeout
<1>27. CASE ThWaitWrite
  <2>1. CASE ~Writing /\ NextStays(xfer, "open")
    BY <1>27, <2>1 DEF ThWaitWrite, NextStays, ThGoto, at, card, Writing, Exists
  <2> QED
    BY <1>27, <1>0, <2>1, FileNextError DEF ThWaitWrite
<1>28. CASE ThOpen
  <2>1. /\ tpc = "open" /\ Exists(xfer.file) /\ xfer.file = xfer.index + 1
        /\ Confirmed(hist, disk, xfer.index) /\ apc # "read_info"
    BY <1>28, <1>0 DEF ThOpen
  <2>2. /\ xfer'.index = xfer.index + 1 /\ xfer'.file = xfer.file
        /\ xfer'.synced = xfer.synced
        /\ fileOpen' = TRUE /\ tpc' = "chunks" /\ UNCHANGED <<apc, card, hist>>
    BY <1>28 DEF ThOpen, ThGoto, at
  <2>3. recorder = "this" => xfer.index + 1 <= fileCount
    BY <2>1, TransferAssumption DEF DiskInv, Exists, Files
  <2> QED
    BY <2>1, <2>2, <2>3 DEF card
<1>29. CASE ThOpenError
  BY <1>29, <1>0, FileNextError DEF ThOpenError
<1>30. CASE ThOpenNothing
  <2>1. NoMore([xfer EXCEPT !.file = NoFile]) /\ apc # "read_info"
    BY <1>30, <1>0 DEF ThOpenNothing
  <2>2. UNCHANGED disk \/ disk' = [disk EXCEPT ![xfer.file] = "absent"]
    BY <1>30 DEF ThOpenNothing
  <2>3. disk \in [Files -> FileStates]
    OBVIOUS
  <2>4. \A n \in Files : disk[n] = "absent" => disk'[n] = "absent"
    BY ONLY <2>2, <2>3
  <2>5. [xfer EXCEPT !.file = NoFile] \in TransferInfo
    BY InfoFields DEF NoFile
  <2> QED
    BY <2>1, <2>4, <2>5, FileNoMore
<1>31. CASE ThChunksLeave
  BY <1>31
     DEF ThChunksLeave, Active, ThGoto, at, env, card, Gone, ctl
<1>32. CASE ThChunksLost
  <2>1. /\ tpc = "chunks" /\ fileOpen' = FALSE /\ tpc' = "loop" /\ ~Connected
        /\ UNCHANGED <<xfer, apc, hist, card, up, budget>>
    BY <1>32 DEF ThChunksLost, CloseAndLoop, ThGoto, at, env
  <2>2. Gone
    BY <2>1, LostForGood DEF Connected
  <2>3. Gone'
    BY <2>1, <2>2 DEF Gone
  <2>4. xfer.file = NoFile => xfer.index = 0
    BY <2>1 DEF NoFile
  <2> QED
    BY <2>1, <2>3, <2>4, <1>0, NoneRequested DEF card, NoFile
<1>33. CASE ThChunksSent
  BY <1>33
     DEF ThChunksSent, Active, Connected, ThGoto, at, env, card, Gone, ctl
<1>34. CASE ThChunksError
  BY <1>34, <1>0, FileFinish DEF ThChunksError
<1>35. CASE ThFileEnd
  <2>1. tpc \in Sending /\ apc # "read_info" /\ fileOpen
    BY <1>35, <1>0 DEF ThFileEnd
  <2>2. CASE FileAcked
    <3>1. /\ xfer'.synced = xfer.index /\ xfer'.index = xfer.index
          /\ xfer'.file = NoFile /\ fileOpen' = FALSE /\ tpc' = "loop"
          /\ UNCHANGED <<apc, card>>
      BY <2>2 DEF FileAcked, CloseAndLoop, ThGoto, at
    <3>2. hist'.from = hist.from /\ hist'.acked = hist.acked \union {xfer.file}
      BY <2>2 DEF FileAcked, History
    <3>3. Confirmed(hist', disk', xfer.index)
      BY <2>1, <3>1, <3>2 DEF Confirmed, Files, card
    <3> QED
      BY <2>1, <3>1, <3>3 DEF card
  <2>3. CASE /\ ThGoto("resend")
             /\ UNCHANGED <<xfer, fileOpen, cancelReq, doneSent, tries, at, env, card,
                            synced, hist>>
    BY <2>1, <2>3 DEF ThGoto, at, card
  <2>4. CASE Finish("ERROR", "cleanup_loop")
    BY <2>1, <2>4, FileFinish
  <2> QED
    BY <1>35, <2>2, <2>3, <2>4 DEF ThFileEnd
<1>36. CASE ThResend
  <2>1. tpc = "resend" /\ apc # "read_info"
    BY <1>36, <1>0 DEF ThResend
  <2>2. CASE Finish("ERROR", "cleanup_loop")
    BY <2>1, <2>2, FileFinish
  <2>3. CASE ThGoto("file_end_again") /\ UNCHANGED <<xfer, fileOpen, at, card, hist>>
    BY <2>1, <2>3 DEF ThGoto, at, card
  <2> QED
    BY <1>36, <2>2, <2>3 DEF ThResend
<1>37. CASE ThResendGiveUp
  BY <1>37, <1>0, FileFinish DEF ThResendGiveUp
<1>38. CASE CancelWork
  <2>1. /\ xfer'.file = xfer.file /\ xfer'.index = xfer.index
        /\ xfer'.synced = xfer.synced /\ xfer'.cont = xfer.cont
        /\ hist'.from = hist.from /\ hist'.acked = hist.acked
        /\ UNCHANGED <<fileOpen, tpc, card>>
    BY <1>38 DEF CancelWork, CancelNow, at, History
  <2>2. /\ apc' = "read_info" => apc = "read_info"
        /\ Active' => Active
        /\ cancelReq => cancelReq'
    BY <1>38 DEF CancelWork, CancelNow, at, Active
  <2>3. Gone => Gone'
    BY <1>38 DEF CancelWork, CancelNow, at, Gone
  <2> QED
    BY <2>1, <2>2, <2>3, FileStill
<1>39. CASE ShutdownCancel
  <2>1. /\ xfer'.file = xfer.file /\ xfer'.index = xfer.index
        /\ xfer'.synced = xfer.synced /\ xfer'.cont = xfer.cont
        /\ hist'.from = hist.from /\ hist'.acked = hist.acked
        /\ UNCHANGED <<fileOpen, tpc, card>>
    BY <1>39 DEF ShutdownCancel, CancelNow, at, env, History
  <2>2. /\ apc' = "read_info" => apc = "read_info"
        /\ Active' => Active
        /\ cancelReq => cancelReq'
    BY <1>39 DEF ShutdownCancel, CancelNow, at, env, Active
  <2>3. Gone => Gone'
    BY <1>39 DEF ShutdownCancel, CancelNow, at, env, Gone
  <2> QED
    BY <2>1, <2>2, <2>3, FileStill
<1>40. CASE LinkUp
  <2>1. /\ xfer'.file = xfer.file /\ xfer'.index = xfer.index
        /\ xfer'.synced = xfer.synced /\ xfer'.cont = xfer.cont
        /\ hist'.from = hist.from /\ hist'.acked = hist.acked
        /\ UNCHANGED <<fileOpen, tpc, card>>
    BY <1>40 DEF LinkUp, LinkChange, at, ctl, History
  <2>2. /\ apc' = "read_info" => apc = "read_info"
        /\ Active' => Active
        /\ cancelReq => cancelReq'
    BY <1>40 DEF LinkUp, LinkChange, at, ctl, Active
  <2>3. Gone => Gone'
    BY <1>40 DEF LinkUp, LinkChange, at, ctl, Gone
  <2> QED
    BY <2>1, <2>2, <2>3, FileStill
<1>41. CASE LinkDisconnected
  <2>1. /\ xfer'.file = xfer.file /\ xfer'.index = xfer.index
        /\ xfer'.synced = xfer.synced /\ xfer'.cont = xfer.cont
        /\ hist'.from = hist.from /\ hist'.acked = hist.acked
        /\ UNCHANGED <<fileOpen, tpc, card>>
    BY <1>41 DEF LinkDisconnected, LinkChange, at, ctl, History
  <2>2. /\ apc' = "read_info" => apc = "read_info"
        /\ Active' => Active
        /\ cancelReq => cancelReq'
    BY <1>41 DEF LinkDisconnected, LinkChange, at, ctl, Active
  <2>3. Gone => Gone'
    BY <1>41 DEF LinkDisconnected, LinkChange, at, ctl, Gone
  <2> QED
    BY <2>1, <2>2, <2>3, FileStill
<1>42. CASE LinkSilent
  <2>1. /\ xfer'.file = xfer.file /\ xfer'.index = xfer.index
        /\ xfer'.synced = xfer.synced /\ xfer'.cont = xfer.cont
        /\ hist'.from = hist.from /\ hist'.acked = hist.acked
        /\ UNCHANGED <<fileOpen, tpc, card>>
    BY <1>42 DEF LinkSilent, LinkChange, at, ctl, History
  <2>2. /\ apc' = "read_info" => apc = "read_info"
        /\ Active' => Active
        /\ cancelReq => cancelReq'
    BY <1>42 DEF LinkSilent, LinkChange, at, ctl, Active
  <2>3. Gone => Gone'
    BY <1>42 DEF LinkSilent, LinkChange, at, ctl, Gone
  <2> QED
    BY <2>1, <2>2, <2>3, FileStill
<1>43. CASE RecordClose
  <2>1. PICK n \in Files : disk[n] = "writing" /\ disk' = [disk EXCEPT ![n] = "ok"]
    BY <1>43 DEF RecordClose, RecordStep
  <2>2. \A m \in Files : /\ disk'[m] = "absent" <=> disk[m] = "absent"
                         /\ disk'[m] = "writing" => disk[m] = "writing"
    BY <2>1
  <2> QED
    BY <1>43, <2>2, FileCard DEF RecordClose, RecordStep, at, env, ctl
<1>44. CASE RecordOpen
  <2>1. recorder = "this" /\ fileCount \in Nat /\ fileCount' = fileCount + 1
        /\ disk' = [disk EXCEPT ![fileCount + 1] = "writing"]
    BY <1>44, TransferAssumption DEF RecordOpen, RecordStep, Files
  <2>2. UNCHANGED <<xfer, fileOpen, cancelReq, tpc, apc, up, budget, recorder, hist>>
    BY <1>44 DEF RecordOpen, RecordStep, at, env, ctl
  <2>3. \A m \in Files : m # fileCount + 1 => disk'[m] = disk[m]
    BY <2>1
  <2>4. \A m \in Files : m > fileCount => disk[m] = "absent"
    BY <2>1 DEF DiskInv
  <2>5. \A k \in Nat : k <= fileCount /\ Confirmed(hist, disk, k)
                         => Confirmed(hist', disk', k)
    BY <2>1, <2>2, <2>3 DEF Confirmed, Files
  <2>6. xfer.index \in Nat /\ xfer.synced \in Nat /\ xfer.index <= fileCount
        /\ xfer.synced <= fileCount
    BY <2>1
  <2>7. Exists(xfer.file) => xfer.file # fileCount + 1 /\ Exists(xfer.file)'
    BY <2>1, <2>2, <2>3, <2>4 DEF Exists, Files
  <2>8. tpc = "open" /\ (recorder = "this" \/ xfer.cont) => ~Writing'
    BY <2>2, <2>3, <2>7 DEF Writing, Exists
  <2>9. /\ Confirmed(hist, disk, xfer.synced) => Confirmed(hist', disk', xfer.synced)
        /\ Confirmed(hist, disk, xfer.index) => Confirmed(hist', disk', xfer.index)
    BY <2>5, <2>6
  <2>10. Confirmed(hist, disk, xfer.index - 1) => Confirmed(hist', disk', xfer.index - 1)
    <3>1. CASE xfer.index = 0
      BY <3>1 DEF Confirmed, Files
    <3>2. CASE xfer.index # 0
      <4>1. xfer.index - 1 \in Nat /\ xfer.index - 1 <= fileCount
        BY ONLY <2>1, <2>6, <3>2
      <4> QED
        BY ONLY <2>5, <4>1
    <3> QED
      BY <3>1, <3>2
  <2>11. (Gone' <=> Gone) /\ (Active' <=> Active)
    BY <2>2 DEF Gone, Active
  <2> QED
    BY <2>1, <2>2, <2>6, <2>7, <2>8, <2>9, <2>10, <2>11
<1>45. CASE RecordChange
  <2>1. UNCHANGED disk /\ (recorder' = "this" => recorder = "this")
    BY <1>45 DEF RecordChange, RecordStep
  <2> QED
    BY <1>45, <2>1, FileCard DEF RecordChange, RecordStep, at, env, ctl
<1> QED
  BY <1>1, <1>2, <1>3, <1>4, <1>5, <1>6, <1>7, <1>8, <1>9, <1>10, <1>11, <1>12, <1>13,
      <1>14, <1>15, <1>16, <1>17, <1>18, <1>19, <1>20, <1>21, <1>22, <1>23, <1>24,
      <1>25, <1>26, <1>27, <1>28, <1>29, <1>30, <1>31, <1>32, <1>33, <1>34, <1>35,
      <1>36, <1>37, <1>38, <1>39, <1>40, <1>41, <1>42, <1>43, <1>44, <1>45
     DEF Next, AtThread, TransferThread, Environment

\* Only the arming of the next transfer forgets that every link was lost
LEMMA LostStays == TypeOK /\ Next /\ hist.lost => hist'.lost \/ AtArm
<1> SUFFICES ASSUME TypeOK, Next, hist.lost, ~AtArm PROVE hist'.lost
  OBVIOUS
<1> USE DEF TypeOK, History
<1>1. CASE AtThread
  BY <1>1
     DEF AtThread, AtDownload, AtCheckBusy, AtTakeIdle, AtIdleTimeout, AtRefuse,
         AtInfoFault, AtFail, AtTrigger, AtCancel, AtCancelFlag, AtCancelState
<1>2. CASE SendDoneOnce
  BY <1>2, ReportHistory
<1>3. CASE FileAcked
  BY <1>3 DEF FileAcked
<1>4. ASSUME NEW x, NEW pc, NextStays(x, pc) PROVE hist'.lost
  BY <1>4 DEF NextStays
<1>5. ASSUME NEW n, Skip(n) PROVE hist'.lost
  BY <1>5 DEF Skip
<1>6. ASSUME NEW x, NoMore(x) PROVE hist'.lost
  BY <1>2, <1>6 DEF NoMore
<1>7. ASSUME NEW f, NextError(f) PROVE hist'.lost
  BY <1>2, <1>7 DEF NextError
<1>8. ASSUME NEW s, NEW pc, Finish(s, pc) PROVE hist'.lost
  BY <1>2, <1>8 DEF Finish
<1>9. CASE ThWake \/ ThNoCancel \/ ThCancel \/ ThCleanupPark \/ ThCleanupLoop \/ ThIdle
           \/ ThSleep \/ ThProceed
  BY <1>8, <1>9
     DEF ThWake, ThNoCancel, ThCancel, ThCleanupPark, ThCleanupLoop, ThIdle, ThSleep,
         ThProceed
<1>10. CASE ThNextPreset \/ ThNextNormal \/ ThNextContinuous \/ ThAwaitFound
            \/ ThAwaitStopped \/ ThAwaitError \/ ThAwaitTimeout \/ ThWaitWrite
  BY <1>4, <1>5, <1>6, <1>7, <1>10
     DEF ThNextPreset, ThNextNormal, ThNextContinuous, ThAwaitFound, ThAwaitStopped,
         ThAwaitError, ThAwaitTimeout, ThWaitWrite
<1>11. CASE ThOpen \/ ThOpenError \/ ThOpenNothing
  BY <1>6, <1>7, <1>11 DEF ThOpen, ThOpenError, ThOpenNothing
<1>12. CASE ThChunksLeave \/ ThChunksLost \/ ThChunksSent \/ ThChunksError \/ ThFileEnd
            \/ ThResend \/ ThResendGiveUp
  BY <1>3, <1>8, <1>12
     DEF ThChunksLeave, ThChunksLost, ThChunksSent, ThChunksError, ThFileEnd, ThResend,
         ThResendGiveUp
<1>13. CASE Environment
  BY <1>13
     DEF Environment, CancelWork, ShutdownCancel, LinkUp, LinkDisconnected, LinkSilent,
         LinkChange, RecordClose, RecordOpen, RecordChange, RecordStep
<1> QED
  BY <1>1, <1>9, <1>10, <1>11, <1>12, <1>13 DEF Next, TransferThread

Around == TypeOK /\ LockInv /\ ToldInv /\ FreshInv /\ DiskInv /\ LinkInv

LEMMA FileSoundStep == Around /\ FileSound /\ [Next]_vars => FileSound'
<1> SUFFICES ASSUME Around, FileSound, [Next]_vars, ~Flapped' PROVE FileInv'
  BY DEF FileSound
<1> USE DEF Around
<1>1. CASE UNCHANGED vars
  BY <1>1
     DEF vars, FileSound, FileInv, Flapped, Confirmed, Gone, Active, Writing, Exists,
         at, env, card, ctl
<1>2. CASE AtArm
  BY <1>2, ArmSound
<1>3. CASE Next /\ ~AtArm
  <2>1. ~Flapped
    BY <1>3, LostStays DEF Flapped
  <2> QED
    BY <1>3, <2>1, FileStep DEF FileSound
<1> QED
  BY <1>1, <1>2, <1>3

\* All of it holds of every run whose second session.json read succeeds
LEMMA AroundHolds ==
  ASSUME MaxFaults = 0
  PROVE  Spec => [](Around /\ FileSound)
<1>1. Init => DiskInv
  BY DiskInit
<1> QED
  BY <1>1, TypeCorrect, LockInit, LockStep, ToldInit, ToldStep, FreshInit, FreshStep,
     DiskStep, LinkInit, LinkStep, FileInit, FileSoundStep, PTL DEF Spec, Around

LEMMA SoundSynced == FileInv => SyncedIsConfirmed
  BY DEF FileInv, Confirmed, SyncedIsConfirmed

\* A chunk counts as synced only once its FILE_END was confirmed, if the links
\* change once at most
THEOREM SyncedWasConfirmed ==
  ASSUME MaxFaults = 0, MaxLinkChanges <= 1
  PROVE  Spec => []SyncedIsConfirmed
<1>1. Flapped => FALSE
  BY TransferAssumption DEF Flapped
<1>2. FileSound => SyncedIsConfirmed
  BY <1>1, SoundSynced DEF FileSound
<1> QED
  BY <1>2, AroundHolds, PTL

\* However often the links change: the count goes wrong only after every link was
\* lost during this very transfer
THEOREM SyncedUnlessLost ==
  ASSUME MaxFaults = 0
  PROVE  Spec => [](~hist.lost => SyncedIsConfirmed)
<1>1. FileSound => (~hist.lost => SyncedIsConfirmed)
  BY SoundSynced DEF FileSound, Flapped
<1> QED
  BY <1>1, AroundHolds, PTL

-----------------------------------------------------------------------------
(* What the transfer unlinks                                                *)

\* A chunk the recorder has open stays on the card through any step, of a session
\* that is being recorded or is taken to be
Guarded == recorder = "this" \/ xfer.cont
Kept == \A n \in Files : disk[n] = "writing" /\ Guarded => disk'[n] # "absent"

\* Only open_file unlinks, and only the file it was to open
LEMMA OnlyOpenUnlinks ==
  TypeOK /\ [Next]_vars =>
     \/ UNCHANGED disk
     \/ tpc = "open" /\ disk' = [disk EXCEPT ![xfer.file] = "absent"]
     \/ Kept
<1> SUFFICES ASSUME TypeOK, [Next]_vars, ~UNCHANGED disk
             PROVE  \/ tpc = "open" /\ disk' = [disk EXCEPT ![xfer.file] = "absent"]
                    \/ Kept
  OBVIOUS
<1>1. CASE AtThread
  BY <1>1
     DEF AtThread, AtDownload, AtCheckBusy, AtTakeIdle, AtIdleTimeout, AtRefuse, AtArm,
         AtInfoFault, AtFail, AtTrigger, AtCancel, AtCancelFlag, AtCancelState, card
<1>2. ASSUME NEW x, NEW pc, NextStays(x, pc) PROVE FALSE
  BY <1>2 DEF NextStays, card
<1>3. ASSUME NEW n, Skip(n) PROVE FALSE
  BY <1>3 DEF Skip, card
<1>4. ASSUME NEW f, NextError(f) PROVE FALSE
  BY <1>4 DEF NextError, card
<1>5. ASSUME NEW s, NEW pc, Finish(s, pc) PROVE FALSE
  BY <1>5 DEF Finish, card
<1>6. CASE ThWake \/ ThNoCancel \/ ThCancel \/ ThCleanupPark \/ ThCleanupLoop \/ ThIdle
           \/ ThSleep \/ ThProceed
  BY <1>5, <1>6
     DEF ThWake, ThNoCancel, ThCancel, ThCleanupPark, ThCleanupLoop, ThIdle, ThSleep,
         ThProceed, card
<1>7. CASE ThNextPreset \/ ThNextNormal \/ ThNextContinuous \/ ThAwaitFound
           \/ ThAwaitStopped \/ ThAwaitError \/ ThAwaitTimeout \/ ThWaitWrite
  BY <1>2, <1>3, <1>4, <1>7
     DEF ThNextPreset, ThNextNormal, ThNextContinuous, ThAwaitFound, ThAwaitStopped,
         ThAwaitError, ThAwaitTimeout, ThWaitWrite
<1>8. CASE ThOpen \/ ThOpenError \/ ThOpenNothing
  BY <1>4, <1>8 DEF ThOpen, ThOpenError, ThOpenNothing, card
<1>9. CASE ThChunksLeave \/ ThChunksLost \/ ThChunksSent \/ ThChunksError \/ ThFileEnd
           \/ ThResend \/ ThResendGiveUp
  BY <1>5, <1>9
     DEF ThChunksLeave, ThChunksLost, ThChunksSent, ThChunksError, ThFileEnd, ThResend,
         ThResendGiveUp, FileAcked, CloseAndLoop, card
<1>10. CASE CancelWork \/ ShutdownCancel \/ LinkUp \/ LinkDisconnected \/ LinkSilent
  BY <1>10
     DEF CancelWork, ShutdownCancel, LinkUp, LinkDisconnected, LinkSilent, LinkChange,
         card
<1>11. CASE RecordClose
  BY <1>11 DEF RecordClose, RecordStep, TypeOK, Kept
<1>12. CASE RecordOpen
  BY <1>12 DEF RecordOpen, RecordStep, TypeOK, Kept
<1>13. CASE RecordChange
  BY <1>13 DEF RecordChange, RecordStep, TypeOK, Kept
<1>14. CASE UNCHANGED vars
  BY <1>14 DEF vars, card
<1> QED
  BY <1>1, <1>6, <1>7, <1>8, <1>9, <1>10, <1>11, <1>12, <1>13, <1>14
     DEF Next, TransferThread, Environment

LEMMA SoundKeeps == TypeOK /\ FileInv /\ [Next]_vars => Kept
<1> SUFFICES ASSUME TypeOK, FileInv, [Next]_vars,
                    NEW n \in Files, disk[n] = "writing", Guarded, disk'[n] = "absent"
             PROVE  FALSE
  BY DEF Kept
<1>1. tpc = "open" /\ disk' = [disk EXCEPT ![xfer.file] = "absent"]
  BY OnlyOpenUnlinks DEF Kept
<1>2. disk[xfer.file] # "writing"
  BY <1>1 DEF FileInv, Exists, Writing, Guarded
<1> QED
  BY <1>1, <1>2 DEF TypeOK

\* The transfer never unlinks the chunk the recorder has open, if the links change
\* once at most
THEOREM RecordedIsKept ==
  ASSUME MaxFaults = 0, MaxLinkChanges <= 1
  PROVE  Spec => RecordedKept
<1>1. Flapped => FALSE
  BY TransferAssumption DEF Flapped
<1>2. Around /\ FileSound /\ [Next]_vars
        => [\A n \in Files : disk[n] = "writing" /\ (recorder = "this" \/ xfer.cont)
                            => disk'[n] # "absent"]_vars
  BY <1>1, SoundKeeps DEF FileSound, Around, Kept, Guarded
<1> QED
  BY <1>2, AroundHolds, PTL DEF Spec, RecordedKept

\* However often the links change: a chunk that is being written is unlinked only
\* by a transfer that has lost every link
THEOREM RecordedKeptUnlessLost ==
  ASSUME MaxFaults = 0
  PROVE  Spec => [][hist.lost \/ Kept]_vars
<1>1. Around /\ FileSound /\ [Next]_vars => [hist.lost \/ Kept]_vars
  BY SoundKeeps DEF FileSound, Flapped, Around
<1> QED
  BY <1>1, AroundHolds, PTL DEF Spec

=============================================================================
