---------------------------- MODULE Card_proofs ----------------------------
(***************************************************************************)
(* Theorems about the card, for all bounds: its power and its two users, recorder,
sender     *)
(* (CardPower), the clock its session ids are taken from (SessionClock), and  *)
(* the list a host makes of its sessions (ListSync).                         *)
(***************************************************************************)
EXTENDS CardPower, ListSync, SessionClock, SessionStore_proofs, WellFoundedInduction

-----------------------------------------------------------------------------
(* Types, and sd_lifecycle_mutex                                            *)

\* Who holds the mutex; a card that has power by the firmware's books has it
MutexInv ==
    /\ \A t \in Threads : pc[t] = "starting" <=> mutex = t
    /\ work = "cut" <=> mutex = "work"
    /\ work = "cut" => powered
    /\ powered => refs > 0
    /\ \A t \in Threads : pc[t] = "starting" => refs > 0

LEMMA AllowedFields ==
  ASSUME allowed \in Allowance
  PROVE  /\ \A b \in {"starts", "lists", "downloads", "formats", "usbs", "faults"} :
              Spend(b) => allowed' \in Allowance
  BY DEF Allowance, Spend

LEMMA GotoType ==
  ASSUME pc \in [Threads -> PowerPcs], op \in [Threads -> PowerOps], NEW t \in Threads
  PROVE  /\ \A p \in PowerPcs : Goto(t, p) =>
              /\ pc' \in [Threads -> PowerPcs] /\ pc'[t] = p
              /\ \A u \in Threads \ {t} : pc'[u] = pc[u]
         /\ \A o \in PowerOps : Do(t, o) =>
              /\ pc' \in [Threads -> PowerPcs] /\ op' \in [Threads -> PowerOps]
              /\ pc'[t] = "resume" /\ op'[t] = o
              /\ \A u \in Threads \ {t} : pc'[u] = pc[u] /\ op'[u] = op[u]
         /\ Return(t) =>
              /\ pc' \in [Threads -> PowerPcs] /\ op' \in [Threads -> PowerOps]
              /\ pc'[t] = "ready" /\ op'[t] = "none"
              /\ \A u \in Threads \ {t} : pc'[u] = pc[u] /\ op'[u] = op[u]
  BY DEF Goto, Do, Return, PowerPcs, PowerOps

LEMMA ThreadNames ==
  /\ "main" \in Threads /\ "at" \in Threads /\ "usb" \in Threads
  /\ "work" \notin Threads /\ "free" \notin Threads
  /\ \A t \in Threads : t = "main" \/ t = "at" \/ t = "usb"
  BY DEF Threads

LEMMA MutexInit == PowerInit => PowerTypeOK /\ MutexInv
<1> SUFFICES ASSUME PowerInit PROVE PowerTypeOK /\ MutexInv
  OBVIOUS
<1>1. allowed \in Allowance
  BY CardPowerAssumption DEF PowerInit
<1>2. powered \in BOOLEAN /\ mounted \in BOOLEAN /\ armed \in BOOLEAN
      /\ asked \in BOOLEAN /\ open \in BOOLEAN /\ xfer \in BOOLEAN /\ sending \in BOOLEAN
      /\ usb \in BOOLEAN
  BY DEF PowerInit
<1>3. PowerTypeOK
  BY <1>1, <1>2 DEF PowerInit, PowerTypeOK, Threads, PowerPcs, PowerOps, AudioPcs
<1>4. MutexInv
  BY DEF PowerInit, MutexInv, Threads
<1> QED
  BY <1>3, <1>4

LEMMA MutexStep ==
  ASSUME PowerTypeOK, MutexInv, [PowerNext]_powerVars
  PROVE  PowerTypeOK' /\ MutexInv'
<1> USE ThreadNames DEF users, recorder, sender
<1>1. ASSUME NEW t \in Threads, ResumeBegin(t) PROVE PowerTypeOK' /\ MutexInv'
  <2>1. /\ powered' \in BOOLEAN /\ mounted' \in BOOLEAN /\ armed' \in BOOLEAN
        /\ asked' \in BOOLEAN /\ open' \in BOOLEAN /\ xfer' \in BOOLEAN
        /\ sending' \in BOOLEAN /\ usb' \in BOOLEAN
    BY <1>1 DEF ResumeBegin, rail, tick, PowerTypeOK
  <2>2. refs' \in Nat
    BY <1>1 DEF ResumeBegin, rail, tick, PowerTypeOK, MutexInv
  <2>3. PowerTypeOK'
    BY <1>1, GotoType, <2>1, <2>2
       DEF ResumeBegin, rail, tick, PowerTypeOK, PowerPcs, PowerOps, AudioPcs
  <2>4. MutexInv'
    BY <1>1, GotoType
       DEF ResumeBegin, rail, tick, PowerTypeOK, MutexInv, PowerPcs, PowerOps
  <2> QED
    BY <2>3, <2>4
<1>2. ASSUME NEW t \in Threads, ResumeEnd(t) PROVE PowerTypeOK' /\ MutexInv'
  <2>1. /\ powered' \in BOOLEAN /\ mounted' \in BOOLEAN /\ armed' \in BOOLEAN
        /\ asked' \in BOOLEAN /\ open' \in BOOLEAN /\ xfer' \in BOOLEAN
        /\ sending' \in BOOLEAN /\ usb' \in BOOLEAN
    BY <1>2 DEF ResumeEnd, tick, PowerTypeOK
  <2>2. refs' \in Nat
    BY <1>2 DEF ResumeEnd, tick, PowerTypeOK, MutexInv
  <2>3. PowerTypeOK'
    BY <1>2, GotoType, AllowedFields, <2>1, <2>2
       DEF ResumeEnd, tick, PowerTypeOK, PowerPcs, PowerOps, AudioPcs
  <2>4. MutexInv'
    BY <1>2, GotoType, AllowedFields
       DEF ResumeEnd, tick, PowerTypeOK, MutexInv, PowerPcs, PowerOps
  <2> QED
    BY <2>3, <2>4
<1>3. ASSUME NEW t \in Threads, Activity(t) PROVE PowerTypeOK' /\ MutexInv'
  <2>1. /\ powered' \in BOOLEAN /\ mounted' \in BOOLEAN /\ armed' \in BOOLEAN
        /\ asked' \in BOOLEAN /\ open' \in BOOLEAN /\ xfer' \in BOOLEAN
        /\ sending' \in BOOLEAN /\ usb' \in BOOLEAN
    BY <1>3 DEF Activity, rail, PowerTypeOK
  <2>2. refs' \in Nat
    BY <1>3 DEF Activity, rail, PowerTypeOK, MutexInv
  <2>3. PowerTypeOK'
    BY <1>3, GotoType, <2>1, <2>2
       DEF Activity, rail, PowerTypeOK, PowerPcs, PowerOps, AudioPcs
  <2>4. MutexInv'
    BY <1>3, GotoType
       DEF Activity, rail, PowerTypeOK, MutexInv, PowerPcs, PowerOps
  <2> QED
    BY <2>3, <2>4
<1>4. CASE Start
  <2>1. /\ powered' \in BOOLEAN /\ mounted' \in BOOLEAN /\ armed' \in BOOLEAN
        /\ asked' \in BOOLEAN /\ open' \in BOOLEAN /\ xfer' \in BOOLEAN
        /\ sending' \in BOOLEAN /\ usb' \in BOOLEAN
    BY <1>4 DEF Start, rail, tick, PowerTypeOK
  <2>2. refs' \in Nat
    BY <1>4 DEF Start, rail, tick, PowerTypeOK, MutexInv
  <2>3. PowerTypeOK'
    BY <1>4, GotoType, AllowedFields, <2>1, <2>2
       DEF Start, rail, tick, PowerTypeOK, PowerPcs, PowerOps, AudioPcs
  <2>4. MutexInv'
    BY <1>4, GotoType, AllowedFields
       DEF Start, rail, tick, PowerTypeOK, MutexInv, PowerPcs, PowerOps
  <2> QED
    BY <2>3, <2>4
<1>5. CASE StartAsk
  <2>1. /\ powered' \in BOOLEAN /\ mounted' \in BOOLEAN /\ armed' \in BOOLEAN
        /\ asked' \in BOOLEAN /\ open' \in BOOLEAN /\ xfer' \in BOOLEAN
        /\ sending' \in BOOLEAN /\ usb' \in BOOLEAN
    BY <1>5 DEF StartAsk, At, rail, tick, PowerTypeOK
  <2>2. refs' \in Nat
    BY <1>5 DEF StartAsk, At, rail, tick, PowerTypeOK, MutexInv
  <2>3. PowerTypeOK'
    BY <1>5, GotoType, <2>1, <2>2
       DEF StartAsk, At, rail, tick, PowerTypeOK, PowerPcs, PowerOps, AudioPcs
  <2>4. MutexInv'
    BY <1>5, GotoType
       DEF StartAsk, At, rail, tick, PowerTypeOK, MutexInv, PowerPcs, PowerOps
  <2> QED
    BY <2>3, <2>4
<1>6. CASE StartCommit
  <2>1. /\ powered' \in BOOLEAN /\ mounted' \in BOOLEAN /\ armed' \in BOOLEAN
        /\ asked' \in BOOLEAN /\ open' \in BOOLEAN /\ xfer' \in BOOLEAN
        /\ sending' \in BOOLEAN /\ usb' \in BOOLEAN
    BY <1>6 DEF StartCommit, At, rail, tick, PowerTypeOK
  <2>2. refs' \in Nat
    BY <1>6 DEF StartCommit, At, rail, tick, PowerTypeOK, MutexInv
  <2>3. PowerTypeOK'
    BY <1>6, GotoType, <2>1, <2>2
       DEF StartCommit, At, rail, tick, PowerTypeOK, PowerPcs, PowerOps, AudioPcs
  <2>4. MutexInv'
    BY <1>6, GotoType
       DEF StartCommit, At, rail, tick, PowerTypeOK, MutexInv, PowerPcs, PowerOps
  <2> QED
    BY <2>3, <2>4
<1>7. CASE Stop
  <2>1. /\ powered' \in BOOLEAN /\ mounted' \in BOOLEAN /\ armed' \in BOOLEAN
        /\ asked' \in BOOLEAN /\ open' \in BOOLEAN /\ xfer' \in BOOLEAN
        /\ sending' \in BOOLEAN /\ usb' \in BOOLEAN
    BY <1>7 DEF Stop, rail, tick, PowerTypeOK
  <2>2. refs' \in Nat
    BY <1>7 DEF Stop, rail, tick, PowerTypeOK, MutexInv
  <2>3. PowerTypeOK'
    BY <1>7, GotoType, <2>1, <2>2
       DEF Stop, rail, tick, PowerTypeOK, PowerPcs, PowerOps, AudioPcs
  <2>4. MutexInv'
    BY <1>7, GotoType
       DEF Stop, rail, tick, PowerTypeOK, MutexInv, PowerPcs, PowerOps
  <2> QED
    BY <2>3, <2>4
<1>8. CASE StopCommit
  <2>1. /\ powered' \in BOOLEAN /\ mounted' \in BOOLEAN /\ armed' \in BOOLEAN
        /\ asked' \in BOOLEAN /\ open' \in BOOLEAN /\ xfer' \in BOOLEAN
        /\ sending' \in BOOLEAN /\ usb' \in BOOLEAN
    BY <1>8 DEF StopCommit, rail, tick, PowerTypeOK
  <2>2. refs' \in Nat
    BY <1>8 DEF StopCommit, rail, tick, PowerTypeOK, MutexInv
  <2>3. PowerTypeOK'
    BY <1>8, GotoType, <2>1, <2>2
       DEF StopCommit, rail, tick, PowerTypeOK, PowerPcs, PowerOps, AudioPcs
  <2>4. MutexInv'
    BY <1>8, GotoType
       DEF StopCommit, rail, tick, PowerTypeOK, MutexInv, PowerPcs, PowerOps
  <2> QED
    BY <2>3, <2>4
<1>9. CASE AudioBegin
  <2>1. /\ powered' \in BOOLEAN /\ mounted' \in BOOLEAN /\ armed' \in BOOLEAN
        /\ asked' \in BOOLEAN /\ open' \in BOOLEAN /\ xfer' \in BOOLEAN
        /\ sending' \in BOOLEAN /\ usb' \in BOOLEAN
    BY <1>9 DEF AudioBegin, rail, threads, tick, PowerTypeOK
  <2>2. refs' \in Nat
    BY <1>9 DEF AudioBegin, rail, threads, tick, PowerTypeOK, MutexInv
  <2>3. PowerTypeOK'
    BY <1>9, AllowedFields, <2>1, <2>2
       DEF AudioBegin, rail, threads, tick, PowerTypeOK, PowerPcs, PowerOps, AudioPcs
  <2>4. MutexInv'
    BY <1>9, AllowedFields
       DEF AudioBegin, rail, threads, tick, PowerTypeOK, MutexInv, PowerPcs, PowerOps
  <2> QED
    BY <2>3, <2>4
<1>10. CASE AudioCreate
  <2>1. /\ powered' \in BOOLEAN /\ mounted' \in BOOLEAN /\ armed' \in BOOLEAN
        /\ asked' \in BOOLEAN /\ open' \in BOOLEAN /\ xfer' \in BOOLEAN
        /\ sending' \in BOOLEAN /\ usb' \in BOOLEAN
    BY <1>10 DEF AudioCreate, rail, threads, tick, PowerTypeOK
  <2>2. refs' \in Nat
    BY <1>10 DEF AudioCreate, rail, threads, tick, PowerTypeOK, MutexInv
  <2>3. PowerTypeOK'
    BY <1>10, <2>1, <2>2
       DEF AudioCreate, rail, threads, tick, PowerTypeOK, PowerPcs, PowerOps, AudioPcs
  <2>4. MutexInv'
    BY <1>10
       DEF AudioCreate, rail, threads, tick, PowerTypeOK, MutexInv, PowerPcs, PowerOps
  <2> QED
    BY <2>3, <2>4
<1>11. CASE AudioChunk
  <2>1. /\ powered' \in BOOLEAN /\ mounted' \in BOOLEAN /\ armed' \in BOOLEAN
        /\ asked' \in BOOLEAN /\ open' \in BOOLEAN /\ xfer' \in BOOLEAN
        /\ sending' \in BOOLEAN /\ usb' \in BOOLEAN
    BY <1>11 DEF AudioChunk, rail, threads, tick, PowerTypeOK
  <2>2. refs' \in Nat
    BY <1>11 DEF AudioChunk, rail, threads, tick, PowerTypeOK, MutexInv
  <2>3. PowerTypeOK'
    BY <1>11, <2>1, <2>2
       DEF AudioChunk, rail, threads, tick, PowerTypeOK, PowerPcs, PowerOps, AudioPcs
  <2>4. MutexInv'
    BY <1>11
       DEF AudioChunk, rail, threads, tick, PowerTypeOK, MutexInv, PowerPcs, PowerOps
  <2> QED
    BY <2>3, <2>4
<1>12. CASE AudioEnds
  <2>1. /\ powered' \in BOOLEAN /\ mounted' \in BOOLEAN /\ armed' \in BOOLEAN
        /\ asked' \in BOOLEAN /\ open' \in BOOLEAN /\ xfer' \in BOOLEAN
        /\ sending' \in BOOLEAN /\ usb' \in BOOLEAN
    BY <1>12 DEF AudioEnds, rail, threads, tick, PowerTypeOK
  <2>2. refs' \in Nat
    BY <1>12 DEF AudioEnds, rail, threads, tick, PowerTypeOK, MutexInv
  <2>3. PowerTypeOK'
    BY <1>12, AllowedFields, <2>1, <2>2
       DEF AudioEnds, rail, threads, tick, PowerTypeOK, PowerPcs, PowerOps, AudioPcs
  <2>4. MutexInv'
    BY <1>12, AllowedFields
       DEF AudioEnds, rail, threads, tick, PowerTypeOK, MutexInv, PowerPcs, PowerOps
  <2> QED
    BY <2>3, <2>4
<1>13. CASE AudioCloseFile
  <2>1. /\ powered' \in BOOLEAN /\ mounted' \in BOOLEAN /\ armed' \in BOOLEAN
        /\ asked' \in BOOLEAN /\ open' \in BOOLEAN /\ xfer' \in BOOLEAN
        /\ sending' \in BOOLEAN /\ usb' \in BOOLEAN
    BY <1>13 DEF AudioCloseFile, rail, threads, tick, PowerTypeOK
  <2>2. refs' \in Nat
    BY <1>13 DEF AudioCloseFile, rail, threads, tick, PowerTypeOK, MutexInv
  <2>3. PowerTypeOK'
    BY <1>13, <2>1, <2>2
       DEF AudioCloseFile, rail, threads, tick, PowerTypeOK, PowerPcs, PowerOps, AudioPcs
  <2>4. MutexInv'
    BY <1>13
       DEF AudioCloseFile, rail, threads, tick, PowerTypeOK, MutexInv, PowerPcs, PowerOps
  <2> QED
    BY <2>3, <2>4
<1>14. CASE AudioDone
  <2>1. /\ powered' \in BOOLEAN /\ mounted' \in BOOLEAN /\ armed' \in BOOLEAN
        /\ asked' \in BOOLEAN /\ open' \in BOOLEAN /\ xfer' \in BOOLEAN
        /\ sending' \in BOOLEAN /\ usb' \in BOOLEAN
    BY <1>14 DEF AudioDone, rail, threads, tick, PowerTypeOK
  <2>2. refs' \in Nat
    BY <1>14 DEF AudioDone, rail, threads, tick, PowerTypeOK, MutexInv
  <2>3. PowerTypeOK'
    BY <1>14, <2>1, <2>2
       DEF AudioDone, rail, threads, tick, PowerTypeOK, PowerPcs, PowerOps, AudioPcs
  <2>4. MutexInv'
    BY <1>14
       DEF AudioDone, rail, threads, tick, PowerTypeOK, MutexInv, PowerPcs, PowerOps
  <2> QED
    BY <2>3, <2>4
<1>15. CASE AtAccess
  <2>1. /\ powered' \in BOOLEAN /\ mounted' \in BOOLEAN /\ armed' \in BOOLEAN
        /\ asked' \in BOOLEAN /\ open' \in BOOLEAN /\ xfer' \in BOOLEAN
        /\ sending' \in BOOLEAN /\ usb' \in BOOLEAN
    BY <1>15 DEF AtAccess, AtReady, rail, tick, PowerTypeOK
  <2>2. refs' \in Nat
    BY <1>15 DEF AtAccess, AtReady, rail, tick, PowerTypeOK, MutexInv
  <2>3. PowerTypeOK'
    BY <1>15, GotoType, AllowedFields, <2>1, <2>2
       DEF AtAccess, AtReady, rail, tick, PowerTypeOK, PowerPcs, PowerOps, AudioPcs
  <2>4. MutexInv'
    BY <1>15, GotoType, AllowedFields
       DEF AtAccess, AtReady, rail, tick, PowerTypeOK, MutexInv, PowerPcs, PowerOps
  <2> QED
    BY <2>3, <2>4
<1>16. CASE AtAccessEnd
  <2>1. /\ powered' \in BOOLEAN /\ mounted' \in BOOLEAN /\ armed' \in BOOLEAN
        /\ asked' \in BOOLEAN /\ open' \in BOOLEAN /\ xfer' \in BOOLEAN
        /\ sending' \in BOOLEAN /\ usb' \in BOOLEAN
    BY <1>16 DEF AtAccessEnd, At, rail, tick, PowerTypeOK
  <2>2. refs' \in Nat
    BY <1>16 DEF AtAccessEnd, At, rail, tick, PowerTypeOK, MutexInv
  <2>3. PowerTypeOK'
    BY <1>16, GotoType, <2>1, <2>2
       DEF AtAccessEnd, At, rail, tick, PowerTypeOK, PowerPcs, PowerOps, AudioPcs
  <2>4. MutexInv'
    BY <1>16, GotoType
       DEF AtAccessEnd, At, rail, tick, PowerTypeOK, MutexInv, PowerPcs, PowerOps
  <2> QED
    BY <2>3, <2>4
<1>17. CASE AtDownload
  <2>1. /\ powered' \in BOOLEAN /\ mounted' \in BOOLEAN /\ armed' \in BOOLEAN
        /\ asked' \in BOOLEAN /\ open' \in BOOLEAN /\ xfer' \in BOOLEAN
        /\ sending' \in BOOLEAN /\ usb' \in BOOLEAN
    BY <1>17 DEF AtDownload, AtReady, rail, tick, PowerTypeOK
  <2>2. refs' \in Nat
    BY <1>17 DEF AtDownload, AtReady, rail, tick, PowerTypeOK, MutexInv
  <2>3. PowerTypeOK'
    BY <1>17, GotoType, AllowedFields, <2>1, <2>2
       DEF AtDownload, AtReady, rail, tick, PowerTypeOK, PowerPcs, PowerOps, AudioPcs
  <2>4. MutexInv'
    BY <1>17, GotoType, AllowedFields
       DEF AtDownload, AtReady, rail, tick, PowerTypeOK, MutexInv, PowerPcs, PowerOps
  <2> QED
    BY <2>3, <2>4
<1>18. CASE AtTransferStart
  <2>1. /\ powered' \in BOOLEAN /\ mounted' \in BOOLEAN /\ armed' \in BOOLEAN
        /\ asked' \in BOOLEAN /\ open' \in BOOLEAN /\ xfer' \in BOOLEAN
        /\ sending' \in BOOLEAN /\ usb' \in BOOLEAN
    BY <1>18 DEF AtTransferStart, At, rail, tick, PowerTypeOK
  <2>2. refs' \in Nat
    BY <1>18 DEF AtTransferStart, At, rail, tick, PowerTypeOK, MutexInv
  <2>3. PowerTypeOK'
    BY <1>18, GotoType, <2>1, <2>2
       DEF AtTransferStart, At, rail, tick, PowerTypeOK, PowerPcs, PowerOps, AudioPcs
  <2>4. MutexInv'
    BY <1>18, GotoType
       DEF AtTransferStart, At, rail, tick, PowerTypeOK, MutexInv, PowerPcs, PowerOps
  <2> QED
    BY <2>3, <2>4
<1>19. CASE AtTransferArm
  <2>1. /\ powered' \in BOOLEAN /\ mounted' \in BOOLEAN /\ armed' \in BOOLEAN
        /\ asked' \in BOOLEAN /\ open' \in BOOLEAN /\ xfer' \in BOOLEAN
        /\ sending' \in BOOLEAN /\ usb' \in BOOLEAN
    BY <1>19 DEF AtTransferArm, At, rail, tick, PowerTypeOK
  <2>2. refs' \in Nat
    BY <1>19 DEF AtTransferArm, At, rail, tick, PowerTypeOK, MutexInv
  <2>3. PowerTypeOK'
    BY <1>19, GotoType, <2>1, <2>2
       DEF AtTransferArm, At, rail, tick, PowerTypeOK, PowerPcs, PowerOps, AudioPcs
  <2>4. MutexInv'
    BY <1>19, GotoType
       DEF AtTransferArm, At, rail, tick, PowerTypeOK, MutexInv, PowerPcs, PowerOps
  <2> QED
    BY <2>3, <2>4
<1>20. CASE AtFormat
  <2>1. /\ powered' \in BOOLEAN /\ mounted' \in BOOLEAN /\ armed' \in BOOLEAN
        /\ asked' \in BOOLEAN /\ open' \in BOOLEAN /\ xfer' \in BOOLEAN
        /\ sending' \in BOOLEAN /\ usb' \in BOOLEAN
    BY <1>20 DEF AtFormat, AtReady, rail, tick, PowerTypeOK
  <2>2. refs' \in Nat
    BY <1>20 DEF AtFormat, AtReady, rail, tick, PowerTypeOK, MutexInv
  <2>3. PowerTypeOK'
    BY <1>20, GotoType, AllowedFields, <2>1, <2>2
       DEF AtFormat, AtReady, rail, tick, PowerTypeOK, PowerPcs, PowerOps, AudioPcs
  <2>4. MutexInv'
    BY <1>20, GotoType, AllowedFields
       DEF AtFormat, AtReady, rail, tick, PowerTypeOK, MutexInv, PowerPcs, PowerOps
  <2> QED
    BY <2>3, <2>4
<1>21. CASE AtFormatCard
  <2>1. /\ powered' \in BOOLEAN /\ mounted' \in BOOLEAN /\ armed' \in BOOLEAN
        /\ asked' \in BOOLEAN /\ open' \in BOOLEAN /\ xfer' \in BOOLEAN
        /\ sending' \in BOOLEAN /\ usb' \in BOOLEAN
    BY <1>21 DEF AtFormatCard, At, rail, tick, PowerTypeOK
  <2>2. refs' \in Nat
    BY <1>21 DEF AtFormatCard, At, rail, tick, PowerTypeOK, MutexInv
  <2>3. PowerTypeOK'
    BY <1>21, GotoType, <2>1, <2>2
       DEF AtFormatCard, At, rail, tick, PowerTypeOK, PowerPcs, PowerOps, AudioPcs
  <2>4. MutexInv'
    BY <1>21, GotoType
       DEF AtFormatCard, At, rail, tick, PowerTypeOK, MutexInv, PowerPcs, PowerOps
  <2> QED
    BY <2>3, <2>4
<1>22. CASE AtFormatBegin
  <2>1. /\ powered' \in BOOLEAN /\ mounted' \in BOOLEAN /\ armed' \in BOOLEAN
        /\ asked' \in BOOLEAN /\ open' \in BOOLEAN /\ xfer' \in BOOLEAN
        /\ sending' \in BOOLEAN /\ usb' \in BOOLEAN
    BY <1>22 DEF AtFormatBegin, At, tick, PowerTypeOK
  <2>2. refs' \in Nat
    BY <1>22 DEF AtFormatBegin, At, tick, PowerTypeOK, MutexInv
  <2>3. PowerTypeOK'
    BY <1>22, GotoType, <2>1, <2>2
       DEF AtFormatBegin, At, tick, PowerTypeOK, PowerPcs, PowerOps, AudioPcs
  <2>4. MutexInv'
    BY <1>22, GotoType
       DEF AtFormatBegin, At, tick, PowerTypeOK, MutexInv, PowerPcs, PowerOps
  <2> QED
    BY <2>3, <2>4
<1>23. CASE AtFormatEnd
  <2>1. /\ powered' \in BOOLEAN /\ mounted' \in BOOLEAN /\ armed' \in BOOLEAN
        /\ asked' \in BOOLEAN /\ open' \in BOOLEAN /\ xfer' \in BOOLEAN
        /\ sending' \in BOOLEAN /\ usb' \in BOOLEAN
    BY <1>23 DEF AtFormatEnd, tick, PowerTypeOK
  <2>2. refs' \in Nat
    BY <1>23 DEF AtFormatEnd, tick, PowerTypeOK, MutexInv
  <2>3. PowerTypeOK'
    BY <1>23, GotoType, AllowedFields, <2>1, <2>2
       DEF AtFormatEnd, tick, PowerTypeOK, PowerPcs, PowerOps, AudioPcs
  <2>4. MutexInv'
    BY <1>23, GotoType, AllowedFields
       DEF AtFormatEnd, tick, PowerTypeOK, MutexInv, PowerPcs, PowerOps
  <2> QED
    BY <2>3, <2>4
<1>24. CASE AtForceStop
  <2>1. /\ powered' \in BOOLEAN /\ mounted' \in BOOLEAN /\ armed' \in BOOLEAN
        /\ asked' \in BOOLEAN /\ open' \in BOOLEAN /\ xfer' \in BOOLEAN
        /\ sending' \in BOOLEAN /\ usb' \in BOOLEAN
    BY <1>24 DEF AtForceStop, AtReady, rail, threads, tick, PowerTypeOK
  <2>2. refs' \in Nat
    BY <1>24 DEF AtForceStop, AtReady, rail, threads, tick, PowerTypeOK, MutexInv
  <2>3. PowerTypeOK'
    BY <1>24, <2>1, <2>2
       DEF AtForceStop, AtReady, rail, threads, tick, PowerTypeOK, PowerPcs, PowerOps,
       AudioPcs
  <2>4. MutexInv'
    BY <1>24
       DEF AtForceStop, AtReady, rail, threads, tick, PowerTypeOK, MutexInv, PowerPcs,
       PowerOps
  <2> QED
    BY <2>3, <2>4
<1>25. CASE TransferOver
  <2>1. /\ powered' \in BOOLEAN /\ mounted' \in BOOLEAN /\ armed' \in BOOLEAN
        /\ asked' \in BOOLEAN /\ open' \in BOOLEAN /\ xfer' \in BOOLEAN
        /\ sending' \in BOOLEAN /\ usb' \in BOOLEAN
    BY <1>25 DEF TransferOver, rail, threads, tick, PowerTypeOK
  <2>2. refs' \in Nat
    BY <1>25 DEF TransferOver, rail, threads, tick, PowerTypeOK, MutexInv
  <2>3. PowerTypeOK'
    BY <1>25, <2>1, <2>2
       DEF TransferOver, rail, threads, tick, PowerTypeOK, PowerPcs, PowerOps, AudioPcs
  <2>4. MutexInv'
    BY <1>25
       DEF TransferOver, rail, threads, tick, PowerTypeOK, MutexInv, PowerPcs, PowerOps
  <2> QED
    BY <2>3, <2>4
<1>26. CASE TransferEnd
  <2>1. /\ powered' \in BOOLEAN /\ mounted' \in BOOLEAN /\ armed' \in BOOLEAN
        /\ asked' \in BOOLEAN /\ open' \in BOOLEAN /\ xfer' \in BOOLEAN
        /\ sending' \in BOOLEAN /\ usb' \in BOOLEAN
    BY <1>26 DEF TransferEnd, rail, threads, tick, PowerTypeOK
  <2>2. refs' \in Nat
    BY <1>26 DEF TransferEnd, rail, threads, tick, PowerTypeOK, MutexInv
  <2>3. PowerTypeOK'
    BY <1>26, <2>1, <2>2
       DEF TransferEnd, rail, threads, tick, PowerTypeOK, PowerPcs, PowerOps, AudioPcs
  <2>4. MutexInv'
    BY <1>26
       DEF TransferEnd, rail, threads, tick, PowerTypeOK, MutexInv, PowerPcs, PowerOps
  <2> QED
    BY <2>3, <2>4
<1>27. CASE UsbOn
  <2>1. /\ powered' \in BOOLEAN /\ mounted' \in BOOLEAN /\ armed' \in BOOLEAN
        /\ asked' \in BOOLEAN /\ open' \in BOOLEAN /\ xfer' \in BOOLEAN
        /\ sending' \in BOOLEAN /\ usb' \in BOOLEAN
    BY <1>27 DEF UsbOn, AtReady, rail, tick, PowerTypeOK
  <2>2. refs' \in Nat
    BY <1>27 DEF UsbOn, AtReady, rail, tick, PowerTypeOK, MutexInv
  <2>3. PowerTypeOK'
    BY <1>27, GotoType, AllowedFields, <2>1, <2>2
       DEF UsbOn, AtReady, rail, tick, PowerTypeOK, PowerPcs, PowerOps, AudioPcs
  <2>4. MutexInv'
    BY <1>27, GotoType, AllowedFields
       DEF UsbOn, AtReady, rail, tick, PowerTypeOK, MutexInv, PowerPcs, PowerOps
  <2> QED
    BY <2>3, <2>4
<1>28. CASE UsbCleanup
  <2>1. /\ powered' \in BOOLEAN /\ mounted' \in BOOLEAN /\ armed' \in BOOLEAN
        /\ asked' \in BOOLEAN /\ open' \in BOOLEAN /\ xfer' \in BOOLEAN
        /\ sending' \in BOOLEAN /\ usb' \in BOOLEAN
    BY <1>28 DEF UsbCleanup, tick, PowerTypeOK
  <2>2. refs' \in Nat
    BY <1>28 DEF UsbCleanup, tick, PowerTypeOK, MutexInv
  <2>3. PowerTypeOK'
    BY <1>28, GotoType, <2>1, <2>2
       DEF UsbCleanup, tick, PowerTypeOK, PowerPcs, PowerOps, AudioPcs
  <2>4. MutexInv'
    BY <1>28, GotoType
       DEF UsbCleanup, tick, PowerTypeOK, MutexInv, PowerPcs, PowerOps
  <2> QED
    BY <2>3, <2>4
<1>29. CASE UsbEnable
  <2>1. /\ powered' \in BOOLEAN /\ mounted' \in BOOLEAN /\ armed' \in BOOLEAN
        /\ asked' \in BOOLEAN /\ open' \in BOOLEAN /\ xfer' \in BOOLEAN
        /\ sending' \in BOOLEAN /\ usb' \in BOOLEAN
    BY <1>29 DEF UsbEnable, tick, PowerTypeOK
  <2>2. refs' \in Nat
    BY <1>29 DEF UsbEnable, tick, PowerTypeOK, MutexInv
  <2>3. PowerTypeOK'
    BY <1>29, GotoType, AllowedFields, <2>1, <2>2
       DEF UsbEnable, tick, PowerTypeOK, PowerPcs, PowerOps, AudioPcs
  <2>4. MutexInv'
    BY <1>29, GotoType, AllowedFields
       DEF UsbEnable, tick, PowerTypeOK, MutexInv, PowerPcs, PowerOps
  <2> QED
    BY <2>3, <2>4
<1>30. ASSUME NEW t \in Threads, UsbOff(t) PROVE PowerTypeOK' /\ MutexInv'
  <2>1. /\ powered' \in BOOLEAN /\ mounted' \in BOOLEAN /\ armed' \in BOOLEAN
        /\ asked' \in BOOLEAN /\ open' \in BOOLEAN /\ xfer' \in BOOLEAN
        /\ sending' \in BOOLEAN /\ usb' \in BOOLEAN
    BY <1>30 DEF UsbOff, rail, tick, PowerTypeOK
  <2>2. refs' \in Nat
    BY <1>30 DEF UsbOff, rail, tick, PowerTypeOK, MutexInv
  <2>3. PowerTypeOK'
    BY <1>30, GotoType, <2>1, <2>2
       DEF UsbOff, rail, tick, PowerTypeOK, PowerPcs, PowerOps, AudioPcs
  <2>4. MutexInv'
    BY <1>30, GotoType
       DEF UsbOff, rail, tick, PowerTypeOK, MutexInv, PowerPcs, PowerOps
  <2> QED
    BY <2>3, <2>4
<1>31. ASSUME NEW t \in Threads, UsbOffEnd(t) PROVE PowerTypeOK' /\ MutexInv'
  <2>1. /\ powered' \in BOOLEAN /\ mounted' \in BOOLEAN /\ armed' \in BOOLEAN
        /\ asked' \in BOOLEAN /\ open' \in BOOLEAN /\ xfer' \in BOOLEAN
        /\ sending' \in BOOLEAN /\ usb' \in BOOLEAN
    BY <1>31 DEF UsbOffEnd, At, rail, tick, PowerTypeOK
  <2>2. refs' \in Nat
    BY <1>31 DEF UsbOffEnd, At, rail, tick, PowerTypeOK, MutexInv
  <2>3. PowerTypeOK'
    BY <1>31, GotoType, <2>1, <2>2
       DEF UsbOffEnd, At, rail, tick, PowerTypeOK, PowerPcs, PowerOps, AudioPcs
  <2>4. MutexInv'
    BY <1>31, GotoType
       DEF UsbOffEnd, At, rail, tick, PowerTypeOK, MutexInv, PowerPcs, PowerOps
  <2> QED
    BY <2>3, <2>4
<1>32. CASE TickOver
  <2>1. /\ powered' \in BOOLEAN /\ mounted' \in BOOLEAN /\ armed' \in BOOLEAN
        /\ asked' \in BOOLEAN /\ open' \in BOOLEAN /\ xfer' \in BOOLEAN
        /\ sending' \in BOOLEAN /\ usb' \in BOOLEAN
    BY <1>32 DEF TickOver, rail, threads, PowerTypeOK
  <2>2. refs' \in Nat
    BY <1>32 DEF TickOver, rail, threads, PowerTypeOK, MutexInv
  <2>3. PowerTypeOK'
    BY <1>32, <2>1, <2>2
       DEF TickOver, rail, threads, PowerTypeOK, PowerPcs, PowerOps, AudioPcs
  <2>4. MutexInv'
    BY <1>32
       DEF TickOver, rail, threads, PowerTypeOK, MutexInv, PowerPcs, PowerOps
  <2> QED
    BY <2>3, <2>4
<1>33. CASE PoweroffCheck
  <2>1. /\ powered' \in BOOLEAN /\ mounted' \in BOOLEAN /\ armed' \in BOOLEAN
        /\ asked' \in BOOLEAN /\ open' \in BOOLEAN /\ xfer' \in BOOLEAN
        /\ sending' \in BOOLEAN /\ usb' \in BOOLEAN
    BY <1>33 DEF PoweroffCheck, threads, PowerTypeOK
  <2>2. refs' \in Nat
    BY <1>33 DEF PoweroffCheck, threads, PowerTypeOK, MutexInv
  <2>3. PowerTypeOK'
    BY <1>33, <2>1, <2>2
       DEF PoweroffCheck, threads, PowerTypeOK, PowerPcs, PowerOps, AudioPcs
  <2>4. MutexInv'
    BY <1>33
       DEF PoweroffCheck, threads, PowerTypeOK, MutexInv, PowerPcs, PowerOps
  <2> QED
    BY <2>3, <2>4
<1>34. CASE PoweroffCut
  <2>1. /\ powered' \in BOOLEAN /\ mounted' \in BOOLEAN /\ armed' \in BOOLEAN
        /\ asked' \in BOOLEAN /\ open' \in BOOLEAN /\ xfer' \in BOOLEAN
        /\ sending' \in BOOLEAN /\ usb' \in BOOLEAN
    BY <1>34 DEF PoweroffCut, threads, PowerTypeOK
  <2>2. refs' \in Nat
    BY <1>34 DEF PoweroffCut, threads, PowerTypeOK, MutexInv
  <2>3. PowerTypeOK'
    BY <1>34, <2>1, <2>2
       DEF PoweroffCut, threads, PowerTypeOK, PowerPcs, PowerOps, AudioPcs
  <2>4. MutexInv'
    BY <1>34
       DEF PoweroffCut, threads, PowerTypeOK, MutexInv, PowerPcs, PowerOps
  <2> QED
    BY <2>3, <2>4
<1>35. CASE UNCHANGED powerVars
  BY <1>35 DEF powerVars, rail, threads, tick, PowerTypeOK, MutexInv
<1> QED
  BY <1>1, <1>2, <1>3, <1>4, <1>5, <1>6, <1>7, <1>8, <1>9, <1>10, <1>11, <1>12,
     <1>13, <1>14, <1>15, <1>16, <1>17, <1>18, <1>19, <1>20, <1>21, <1>22, <1>23, <1>24,
     <1>25, <1>26, <1>27, <1>28, <1>29, <1>30, <1>31, <1>32, <1>33, <1>34, <1>35
     DEF PowerNext, Recording, AudioSteps, AtCommands, Usb, WorkQueue

\* PowerTypeOK holds for all bounds, late work queue or not
THEOREM PowerTypeCorrect == PowerSpec => []PowerTypeOK
<1>1. PowerSpec => [](PowerTypeOK /\ MutexInv)
  BY MutexInit, MutexStep, PTL DEF PowerSpec
<1> QED
  BY <1>1, PTL

\* What a step of the audio thread leaves alone, and where it can lead
AudioFrame ==
    /\ UNCHANGED <<refs, powered, mounted, mutex, state, xfer, sending, usb, pc, op, work, armed>>
    /\ allowed' = allowed \/ Spend("faults")
    /\ asked \/ audio # "parked"
    /\ asked' => asked /\ audio' # "creating"
    /\ audio' = "creating" => asked
    /\ audio' = "recording" => audio \in {"creating", "recording"}
    /\ audio' # "stopping"
    /\ open' => open \/ (mounted /\ audio \in {"creating", "recording"})

LEMMA AudioFrames == ASSUME PowerTypeOK, AudioSteps PROVE AudioFrame
<1> USE DEF AudioFrame, PowerTypeOK, rail, sender, threads, tick
<1>1. CASE AudioBegin
  BY <1>1 DEF AudioBegin
<1>2. CASE AudioCreate
  BY <1>2 DEF AudioCreate
<1>3. CASE AudioChunk
  <2>1. open' = FALSE \/ open' = mounted
    BY <1>3 DEF AudioChunk
  <2>2. open' => mounted
    BY <2>1
  <2> QED
    BY <1>3, <2>2 DEF AudioChunk
<1>4. CASE AudioEnds
  BY <1>4 DEF AudioEnds
<1>5. CASE AudioCloseFile
  BY <1>5 DEF AudioCloseFile
<1>6. CASE AudioDone
  BY <1>6 DEF AudioDone
<1> QED
  BY <1>1, <1>2, <1>3, <1>4, <1>5, <1>6 DEF AudioSteps

-----------------------------------------------------------------------------
(* What never happens when its bound is 0                                   *)

NoUsb ==
    /\ allowed["usbs"] = 0 /\ ~usb /\ pc["at"] \notin {"cleanup", "enable"}
    /\ \A t \in Threads : op[t] # "usb_off"
NoFormat ==
    /\ allowed["formats"] = 0 /\ pc["at"] # "format"
    /\ \A t \in Threads : op[t] \notin {"format", "mkfs"}
NoRecording ==
    /\ allowed["starts"] = 0 /\ pc["main"] = "ready" /\ state = "IDLE"
    /\ ~asked /\ audio = "parked" /\ ~open
NoDownload ==
    /\ allowed["downloads"] = 0 /\ ~xfer
    /\ \A t \in Threads : op[t] \notin {"download", "transfer"}
NoFail == allowed["faults"] = 0

LEMMA SpendKeeps ==
  ASSUME allowed \in Allowance,
         NEW b \in {"starts", "lists", "downloads", "formats", "usbs", "faults"},
         Spend(b),
         NEW c \in {"starts", "lists", "downloads", "formats", "usbs", "faults"}
  PROVE  /\ c # b => allowed'[c] = allowed[c]
         /\ allowed[b] > 0
  BY DEF Allowance, Spend

LEMMA NoFailStep ==
  ASSUME PowerTypeOK, NoFail, [PowerNext]_powerVars PROVE NoFail'
<1> USE SpendKeeps DEF PowerTypeOK, NoFail
<1>1. ASSUME NEW t \in Threads, ResumeBegin(t) \/ ResumeEnd(t) \/ Activity(t)
      PROVE NoFail'
  BY <1>1 DEF ResumeBegin, ResumeEnd, Activity
<1>2. CASE Recording
  BY <1>2 DEF Recording, Start, StartAsk, StartCommit, Stop, StopCommit
<1>3. CASE AudioSteps
  BY <1>3, AudioFrames DEF AudioFrame
<1>4. CASE AtCommands
  BY <1>4 DEF AtCommands, AtAccess, AtAccessEnd, AtDownload, AtTransferStart,
              AtTransferArm, AtFormat, AtFormatCard, AtFormatBegin, AtFormatEnd, AtForceStop
<1>5. CASE TransferOver \/ TransferEnd \/ Usb
  BY <1>5 DEF TransferOver, TransferEnd, Usb, UsbOn, UsbCleanup, UsbEnable, UsbOff,
              UsbOffEnd
<1>6. CASE WorkQueue \/ UNCHANGED powerVars
  BY <1>6 DEF WorkQueue, TickOver, PoweroffCheck, PoweroffCut, powerVars
<1> QED
  BY <1>1, <1>2, <1>3, <1>4, <1>5, <1>6 DEF PowerNext

LEMMA NoUsbStep ==
  ASSUME PowerTypeOK, NoUsb, [PowerNext]_powerVars PROVE NoUsb'
<1> USE SpendKeeps, GotoType, ThreadNames
    DEF PowerTypeOK, NoUsb, users, recorder, sender, threads, At, AtReady, Goto, Do,
        Return
<1>1. ASSUME NEW t \in Threads, ResumeBegin(t) \/ ResumeEnd(t) \/ Activity(t)
      PROVE NoUsb'
  BY <1>1 DEF ResumeBegin, ResumeEnd, Activity
<1>2. CASE Recording
  BY <1>2 DEF Recording, Start, StartAsk, StartCommit, Stop, StopCommit
<1>3. CASE AudioSteps
  BY <1>3, AudioFrames DEF AudioFrame
<1>4. CASE AtCommands
  BY <1>4 DEF AtCommands, AtAccess, AtAccessEnd, AtDownload, AtTransferStart,
              AtTransferArm, AtFormat, AtFormatCard, AtFormatBegin, AtFormatEnd, AtForceStop
<1>5. CASE TransferOver \/ TransferEnd \/ Usb
  BY <1>5 DEF TransferOver, TransferEnd, Usb, UsbOn, UsbCleanup, UsbEnable, UsbOff,
              UsbOffEnd
<1>6. CASE WorkQueue \/ UNCHANGED powerVars
  BY <1>6 DEF WorkQueue, TickOver, PoweroffCheck, PoweroffCut, powerVars
<1> QED
  BY <1>1, <1>2, <1>3, <1>4, <1>5, <1>6 DEF PowerNext

LEMMA NoFormatStep ==
  ASSUME PowerTypeOK, NoFormat, [PowerNext]_powerVars PROVE NoFormat'
<1> USE SpendKeeps, GotoType, ThreadNames
    DEF PowerTypeOK, NoFormat, users, recorder, sender, threads, At, AtReady, Goto, Do,
        Return
<1>1. ASSUME NEW t \in Threads, ResumeBegin(t) \/ ResumeEnd(t) \/ Activity(t)
      PROVE NoFormat'
  BY <1>1 DEF ResumeBegin, ResumeEnd, Activity
<1>2. CASE Recording
  BY <1>2 DEF Recording, Start, StartAsk, StartCommit, Stop, StopCommit
<1>3. CASE AudioSteps
  BY <1>3, AudioFrames DEF AudioFrame
<1>4. CASE AtCommands
  BY <1>4 DEF AtCommands, AtAccess, AtAccessEnd, AtDownload, AtTransferStart,
              AtTransferArm, AtFormat, AtFormatCard, AtFormatBegin, AtFormatEnd, AtForceStop
<1>5. CASE TransferOver \/ TransferEnd \/ Usb
  BY <1>5 DEF TransferOver, TransferEnd, Usb, UsbOn, UsbCleanup, UsbEnable, UsbOff,
              UsbOffEnd
<1>6. CASE WorkQueue \/ UNCHANGED powerVars
  BY <1>6 DEF WorkQueue, TickOver, PoweroffCheck, PoweroffCut, powerVars
<1> QED
  BY <1>1, <1>2, <1>3, <1>4, <1>5, <1>6 DEF PowerNext

LEMMA NoRecordingStep ==
  ASSUME PowerTypeOK, NoRecording, [PowerNext]_powerVars PROVE NoRecording'
<1> USE SpendKeeps, GotoType, ThreadNames
    DEF PowerTypeOK, NoRecording, users, recorder, sender, threads, At, AtReady, Goto, Do,
        Return
<1>1. ASSUME NEW t \in Threads, ResumeBegin(t) \/ ResumeEnd(t) \/ Activity(t)
      PROVE NoRecording'
  BY <1>1 DEF ResumeBegin, ResumeEnd, Activity
<1>2. CASE Recording
  BY <1>2 DEF Recording, Start, StartAsk, StartCommit, Stop, StopCommit
<1>3. CASE AudioSteps
  BY <1>3, AudioFrames DEF AudioFrame
<1>4. CASE AtCommands
  BY <1>4 DEF AtCommands, AtAccess, AtAccessEnd, AtDownload, AtTransferStart,
              AtTransferArm, AtFormat, AtFormatCard, AtFormatBegin, AtFormatEnd, AtForceStop
<1>5. CASE TransferOver \/ TransferEnd \/ Usb
  BY <1>5 DEF TransferOver, TransferEnd, Usb, UsbOn, UsbCleanup, UsbEnable, UsbOff,
              UsbOffEnd
<1>6. CASE WorkQueue \/ UNCHANGED powerVars
  BY <1>6 DEF WorkQueue, TickOver, PoweroffCheck, PoweroffCut, powerVars
<1> QED
  BY <1>1, <1>2, <1>3, <1>4, <1>5, <1>6 DEF PowerNext

LEMMA NoDownloadStep ==
  ASSUME PowerTypeOK, NoDownload, [PowerNext]_powerVars PROVE NoDownload'
<1> USE SpendKeeps, GotoType, ThreadNames
    DEF PowerTypeOK, NoDownload, users, recorder, sender, threads, At, AtReady, Goto, Do,
        Return
<1>1. ASSUME NEW t \in Threads, ResumeBegin(t) \/ ResumeEnd(t) \/ Activity(t)
      PROVE NoDownload'
  BY <1>1 DEF ResumeBegin, ResumeEnd, Activity
<1>2. CASE Recording
  BY <1>2 DEF Recording, Start, StartAsk, StartCommit, Stop, StopCommit
<1>3. CASE AudioSteps
  BY <1>3, AudioFrames DEF AudioFrame
<1>4. CASE AtCommands
  BY <1>4 DEF AtCommands, AtAccess, AtAccessEnd, AtDownload, AtTransferStart,
              AtTransferArm, AtFormat, AtFormatCard, AtFormatBegin, AtFormatEnd, AtForceStop
<1>5. CASE TransferOver \/ TransferEnd \/ Usb
  BY <1>5 DEF TransferOver, TransferEnd, Usb, UsbOn, UsbCleanup, UsbEnable, UsbOff,
              UsbOffEnd
<1>6. CASE WorkQueue \/ UNCHANGED powerVars
  BY <1>6 DEF WorkQueue, TickOver, PoweroffCheck, PoweroffCut, powerVars
<1> QED
  BY <1>1, <1>2, <1>3, <1>4, <1>5, <1>6 DEF PowerNext

-----------------------------------------------------------------------------
(* The regulator                                                            *)

RailInv ==
    /\ powered = mounted
    /\ mutex \in Threads => refs = 1 /\ ~powered
    /\ mutex \notin Threads => refs = (IF powered THEN 1 ELSE 0)

LEMMA RailStep ==
  ASSUME PowerTypeOK, MutexInv, NoUsb, NoFormat, NoFail, RailInv, [PowerNext]_powerVars
  PROVE  RailInv'
<1> USE ThreadNames DEF RailInv
<1>1. ASSUME NEW t \in Threads, ResumeBegin(t) PROVE RailInv'
  <2>1. CASE mounted /\ powered
    BY <1>1, <2>1 DEF ResumeBegin, rail
  <2>2. CASE ~(mounted /\ powered)
    <3>1. ~powered /\ refs = 0
      BY <1>1, <2>2 DEF ResumeBegin, PowerTypeOK
    <3>2. ~powered' /\ powered' = mounted'
      BY <1>1, <2>2, <3>1 DEF ResumeBegin
    <3>3. refs' = 1 /\ mutex' = t
      BY <1>1, <2>2, <3>1 DEF ResumeBegin
    <3> QED
      BY <3>2, <3>3
  <2> QED
    BY <2>1, <2>2
<1>2. ASSUME NEW t \in Threads, ResumeEnd(t) PROVE RailInv'
  BY <1>2 DEF ResumeEnd, PowerTypeOK, MutexInv, NoFail, Spend
<1>3. CASE PoweroffCheck
  BY <1>3 DEF PoweroffCheck, PowerTypeOK
<1>4. CASE PoweroffCut
  <2>1. powered /\ refs = 1
    BY <1>4 DEF PoweroffCut, MutexInv
  <2>2. refs' = 0 /\ mutex' = "free"
    BY <1>4, <2>1 DEF PoweroffCut
  <2>3. ~powered' /\ powered' = mounted'
    BY <1>4 DEF PoweroffCut
  <2> QED
    BY <2>2, <2>3
<1>5. CASE AtFormatBegin \/ AtFormatEnd \/ UsbCleanup \/ UsbEnable
  BY <1>5 DEF AtFormatBegin, AtFormatEnd, UsbCleanup, UsbEnable, At, NoFormat, NoUsb
<1>6. CASE UNCHANGED rail
  BY <1>6 DEF rail
<1>7. QED
  BY <1>1, <1>2, <1>3, <1>4, <1>5, <1>6
     DEF PowerNext, Recording, AudioSteps, AtCommands, Usb, WorkQueue, Activity, Start, StartAsk,
         StartCommit, Stop, StopCommit, AudioBegin, AudioCreate, AudioChunk, AudioEnds,
         AudioCloseFile, AudioDone, AtAccess, AtAccessEnd,
         AtDownload, AtTransferStart, AtTransferArm, AtForceStop, TransferOver,
         TransferEnd, AtFormat, AtFormatCard,
         UsbOn, UsbOff, UsbOffEnd, TickOver, powerVars

\* Without USB, FORMAT and failures, the regulator's count is 1 while the firmware
\* says that the card has power and 0 while it says not, work queue late or not
THEOREM RailIsBalanced ==
  ASSUME \A a \in Allowances : a["usbs"] = 0 /\ a["formats"] = 0 /\ a["faults"] = 0
  PROVE  PowerSpec => []RailBalanced
<1> DEFINE Inv == PowerTypeOK /\ MutexInv /\ NoUsb /\ NoFormat /\ NoFail /\ RailInv
<1>1. PowerInit => Inv
  <2> SUFFICES ASSUME PowerInit PROVE Inv
    OBVIOUS
  <2>1. NoUsb /\ NoFormat /\ NoFail
    BY DEF PowerInit, NoUsb, NoFormat, NoFail, Threads
  <2>2. RailInv
    BY DEF PowerInit, RailInv, Threads
  <2> QED
    BY <2>1, <2>2, MutexInit
<1>2. Inv /\ [PowerNext]_powerVars => Inv'
  BY MutexStep, NoUsbStep, NoFormatStep, NoFailStep, RailStep
<1>3. Inv => RailBalanced
  BY ThreadNames DEF RailInv, RailBalanced
<1> QED
  BY <1>1, <1>2, <1>3, PTL DEF PowerSpec

-----------------------------------------------------------------------------
(* The card of a user is mounted, and a mounted card has power              *)

\* With a punctual work queue nobody is between storage_ensure_mounted and the
\* end of a use when the 45 s are over, and nobody gets there before the cut
InUseOf(t) == pc[t] \in {"starting", "resumed", "use", "commit", "format"}
TickInv ==
    /\ work \in {"due", "cut"} => \A t \in Threads : ~InUseOf(t)
    /\ work = "cut" => state = "IDLE" /\ ~open /\ ~Active /\ ~xfer

\* A start is taken in IDLE, and the audio thread is then at work on it in
\* RECORDING or with RECORDING about to be committed
StartInv ==
    /\ op["main"] = "start" => state = "IDLE"
    /\ pc["main"] = "commit" => op["main"] = "start"
    /\ asked \/ audio = "creating" => state = "RECORDING" \/ pc["main"] = "commit"
    /\ asked => audio \notin {"creating", "recording", "stopping"}
    /\ pc["main"] = "stop" => ~asked /\ audio # "creating"

LEMMA StartStep ==
  ASSUME PowerTypeOK, StartInv, [PowerNext]_powerVars
  PROVE  StartInv'
<1> USE ThreadNames DEF StartInv
<1>1. ASSUME NEW t \in Threads, ResumeBegin(t) \/ ResumeEnd(t) \/ Activity(t)
      PROVE StartInv'
  BY <1>1 DEF ResumeBegin, ResumeEnd, Activity, PowerTypeOK, Goto, Return, users, recorder
<1>2. CASE Start \/ StartAsk \/ StartCommit \/ Stop \/ StopCommit
  BY <1>2 DEF Start, StartAsk, StartCommit, Stop, StopCommit, Active, PowerTypeOK, At,
              Goto, Do, Return, users, recorder
<1>3. CASE AudioSteps
  BY <1>3, AudioFrames DEF AudioFrame
<1>4. CASE AtCommands
  BY <1>4 DEF AtCommands, AtAccess, AtAccessEnd, AtDownload, AtTransferStart,
              AtTransferArm, AtFormat, AtFormatCard, AtFormatBegin, AtFormatEnd,
              AtForceStop, PowerTypeOK, At, AtReady, Goto, Do, Return, users, recorder,
              threads
<1>5. CASE Usb
  BY <1>5 DEF Usb, UsbOn, UsbCleanup, UsbEnable, UsbOff, UsbOffEnd, At, AtReady,
              PowerTypeOK, Goto, Do, Return, users, recorder
<1>6. CASE TransferOver \/ TransferEnd \/ WorkQueue \/ UNCHANGED powerVars
  BY <1>6 DEF TransferOver, TransferEnd, WorkQueue, TickOver, PoweroffCheck, PoweroffCut,
              users, recorder, threads, powerVars
<1> QED
  BY <1>1, <1>2, <1>3, <1>4, <1>5, <1>6 DEF PowerNext, Recording

LEMMA TickStep ==
  ASSUME PowerTypeOK, MutexInv, StartInv, TickInv, ~LateTick, [PowerNext]_powerVars
  PROVE  TickInv'
<1> USE ThreadNames DEF TickInv, InUseOf, Active, rail, users, recorder, sender,
     threads, tick
<1>1. ASSUME NEW t \in Threads, ResumeBegin(t) PROVE TickInv'
  BY <1>1 DEF ResumeBegin, PowerTypeOK, MutexInv, Goto
<1>2. ASSUME NEW t \in Threads, ResumeEnd(t) \/ Activity(t) PROVE TickInv'
  BY <1>2 DEF ResumeEnd, Activity, PowerTypeOK, MutexInv, Goto, Return
<1>3. CASE Recording
  BY <1>3 DEF Recording, Start, StartAsk, StartCommit, Stop, StopCommit, PowerTypeOK,
              At, Goto, Do, Return
<1>4. CASE AudioSteps
  BY <1>4, AudioFrames DEF AudioFrame, StartInv
<1>5. CASE AtCommands
  BY <1>5 DEF AtCommands, AtAccess, AtAccessEnd, AtDownload, AtTransferStart,
              AtTransferArm, AtFormat, AtFormatCard, AtFormatBegin, AtFormatEnd,
     AtForceStop, PowerTypeOK, At, Goto, Do, Return
<1>6. CASE Usb \/ TransferOver \/ TransferEnd
  BY <1>6 DEF Usb, TransferOver, TransferEnd, UsbOn, UsbCleanup, UsbEnable, UsbOff,
              UsbOffEnd, PowerTypeOK, At, Goto, Do, Return
<1>7. CASE WorkQueue
  BY <1>7 DEF WorkQueue, TickOver, PoweroffCheck, PoweroffCut, Busy, ShortUse,
              PowerTypeOK
<1>8. CASE UNCHANGED powerVars
  BY <1>8 DEF powerVars
<1> QED
  BY <1>1, <1>2, <1>3, <1>4, <1>5, <1>6, <1>7, <1>8 DEF PowerNext

\* What the card is used for that must not meet a FORMAT or a host, if the bounds
\* allow one of them
Apart ==
    \/ NoUsb /\ NoFormat
    \/ NoRecording /\ NoFormat
    \/ NoRecording /\ NoDownload

\* Whose steps are whose; a host is let in when no transfer runs
ThreadsInv ==
    /\ pc["usb"] # "ready" => op["usb"] = "usb_off"
    /\ op["main"] # "usb_off"
    /\ pc["at"] # "commit" /\ pc["usb"] # "commit"
    /\ pc["at"] \in {"cleanup", "enable"} => ~xfer

LEMMA ThreadsStep ==
  ASSUME PowerTypeOK, MutexInv, ThreadsInv, [PowerNext]_powerVars
  PROVE  ThreadsInv'
<1> USE ThreadNames DEF ThreadsInv, rail, users, recorder, sender, threads, tick
<1>1. ASSUME NEW t \in Threads, ResumeBegin(t) \/ ResumeEnd(t) \/ Activity(t)
      PROVE ThreadsInv'
  BY <1>1 DEF ResumeBegin, ResumeEnd, Activity, PowerTypeOK, Goto, Return
<1>2. CASE Recording
  BY <1>2 DEF Recording, Start, StartAsk, StartCommit, Stop, StopCommit, PowerTypeOK,
              At, Goto, Do, Return
<1>3. CASE AudioSteps
  BY <1>3, AudioFrames DEF AudioFrame
<1>4. CASE AtCommands
  BY <1>4 DEF AtCommands, AtAccess, AtAccessEnd, AtDownload, AtTransferStart,
              AtTransferArm, AtFormat, AtFormatCard, AtFormatBegin, AtFormatEnd,
     AtForceStop, PowerTypeOK, At, AtReady, Goto, Do, Return
<1>5. CASE Usb \/ TransferOver \/ TransferEnd
  BY <1>5 DEF Usb, TransferOver, TransferEnd, UsbOn, UsbCleanup, UsbEnable, UsbOff,
              UsbOffEnd, PowerTypeOK, At, AtReady, Goto, Do, Return
<1>6. CASE WorkQueue \/ UNCHANGED powerVars
  BY <1>6 DEF WorkQueue, TickOver, PoweroffCheck, PoweroffCut, powerVars
<1> QED
  BY <1>1, <1>2, <1>3, <1>4, <1>5, <1>6 DEF PowerNext

LEMMA ApartStep ==
  ASSUME PowerTypeOK, Apart, [PowerNext]_powerVars
  PROVE  Apart'
  BY NoUsbStep, NoFormatStep, NoRecordingStep, NoDownloadStep DEF Apart

\* In RECORDING the card is mounted, whatever the audio thread is doing
StaysInv == CardStaysUp /\ (state = "RECORDING" => mounted)

LEMMA StaysStep ==
  ASSUME PowerTypeOK, MutexInv, ThreadsInv, StartInv, TickInv, Apart, StaysInv,
         [PowerNext]_powerVars
  PROVE  StaysInv'
<1> USE ThreadNames DEF StaysInv, CardStaysUp, UsesCard, RecorderUses, rail, users,
     recorder, sender, threads, tick
<1>1. ASSUME NEW t \in Threads, ResumeBegin(t) PROVE StaysInv'
  BY <1>1 DEF ResumeBegin, PowerTypeOK, Goto
<1>2. ASSUME NEW t \in Threads, ResumeEnd(t) PROVE StaysInv'
  BY <1>2 DEF ResumeEnd, PowerTypeOK, Goto, Return
<1>3. ASSUME NEW t \in Threads, Activity(t) PROVE StaysInv'
  BY <1>3 DEF Activity, PowerTypeOK, Goto
<1>4. CASE Recording
  BY <1>4 DEF Recording, Start, StartAsk, StartCommit, Stop, StopCommit, PowerTypeOK,
              At, Goto, Do, Return
<1>5. CASE AudioSteps
  BY <1>5, AudioFrames DEF AudioFrame, PowerTypeOK
<1>6. CASE AtFormatBegin
  \* main and the USB thread use nothing, and no transfer runs
  BY <1>6 DEF AtFormatBegin, PowerTypeOK, At, Goto, Apart, NoFormat, NoRecording,
              NoDownload, ThreadsInv
<1>7. CASE UsbCleanup \/ UsbEnable
  BY <1>7 DEF UsbCleanup, UsbEnable, PowerTypeOK, Goto, Return, Apart, NoUsb,
              NoRecording, ThreadsInv
<1>8. CASE PoweroffCut
  BY <1>8 DEF PoweroffCut, TickInv, StartInv, Active, InUseOf
<1>9. CASE AtAccess \/ AtAccessEnd \/ AtDownload \/ AtTransferStart \/ AtTransferArm
           \/ AtFormat \/ AtFormatCard \/ AtFormatEnd \/ AtForceStop
  BY <1>9 DEF AtAccess, AtAccessEnd, AtDownload, AtTransferStart, AtTransferArm,
              AtFormat, AtFormatCard, AtFormatEnd, AtForceStop, AtReady, PowerTypeOK,
     At, Goto, Do, Return
<1>10. CASE UsbOn \/ TransferOver \/ TransferEnd
  BY <1>10 DEF UsbOn, TransferOver, TransferEnd, PowerTypeOK, Goto
<1>11. ASSUME NEW t \in Threads, UsbOff(t) \/ UsbOffEnd(t) PROVE StaysInv'
  BY <1>11 DEF UsbOff, UsbOffEnd, PowerTypeOK, Do, Return, At
<1>12. CASE TickOver \/ PoweroffCheck \/ UNCHANGED powerVars
  BY <1>12 DEF TickOver, PoweroffCheck, powerVars
<1> QED
  BY <1>1, <1>2, <1>3, <1>4, <1>5, <1>6, <1>7, <1>8, <1>9, <1>10, <1>11,
     <1>12 DEF PowerNext, AtCommands, Usb, WorkQueue

\* With a punctual work queue and any number of resumes that fail, the card is
\* mounted under who uses it - recordings and transfers without USB and FORMAT, or
\* USB with transfers, or USB with FORMAT.  The two uses that the code's busy test
\* does not see, named at CardStaysUp, are not among them
THEOREM CardStays ==
  ASSUME ~LateTick,
         \/ \A a \in Allowances : a["usbs"] = 0 /\ a["formats"] = 0
         \/ \A a \in Allowances : a["starts"] = 0 /\ a["formats"] = 0
         \/ \A a \in Allowances : a["starts"] = 0 /\ a["downloads"] = 0
  PROVE  PowerSpec => []CardStaysUp
<1> DEFINE Inv == /\ PowerTypeOK /\ MutexInv /\ ThreadsInv /\ StartInv /\ TickInv
                  /\ Apart /\ StaysInv
<1>1. PowerInit => Inv
  <2> SUFFICES ASSUME PowerInit PROVE Inv
    OBVIOUS
  <2>1. Apart
    BY DEF PowerInit, Apart, NoUsb, NoFormat, NoRecording, NoDownload, Threads
  <2>2. ThreadsInv /\ StartInv /\ TickInv /\ StaysInv
    BY DEF PowerInit, ThreadsInv, StartInv, TickInv, InUseOf, StaysInv, CardStaysUp,
           Threads
  <2> QED
    BY <2>1, <2>2, MutexInit
<1>2. Inv /\ [PowerNext]_powerVars => Inv'
  BY MutexStep, ThreadsStep, StartStep, TickStep, ApartStep, StaysStep
<1>3. Inv => CardStaysUp
  BY DEF StaysInv
<1> QED
  BY <1>1, <1>2, <1>3, PTL DEF PowerSpec

-----------------------------------------------------------------------------
(* FAT and power                                                            *)

PowerInv ==
    /\ \A t \in Threads : pc[t] \in {"resumed", "use", "format"} => powered
    /\ MountedHasPower

LEMMA PowerStep ==
  ASSUME PowerTypeOK, MutexInv, TickInv, NoUsb \/ NoFail, PowerInv,
     [PowerNext]_powerVars
  PROVE  PowerInv'
<1> USE ThreadNames DEF PowerInv, MountedHasPower, rail, users, recorder, sender,
     threads, tick
<1>1. ASSUME NEW t \in Threads, ResumeBegin(t) PROVE PowerInv'
  BY <1>1 DEF ResumeBegin, PowerTypeOK, Goto
<1>2. ASSUME NEW t \in Threads, ResumeEnd(t) PROVE PowerInv'
  BY <1>2 DEF ResumeEnd, PowerTypeOK, MutexInv, Goto, Return
<1>3. ASSUME NEW t \in Threads, Activity(t) PROVE PowerInv'
  BY <1>3 DEF Activity, PowerTypeOK, Goto
<1>4. CASE Recording
  BY <1>4 DEF Recording, Start, StartAsk, StartCommit, Stop, StopCommit, PowerTypeOK,
              At, Goto, Do, Return
<1>5. CASE AudioSteps
  BY <1>5, AudioFrames DEF AudioFrame
<1>6. CASE AtFormatBegin \/ AtFormatEnd
  BY <1>6 DEF AtFormatBegin, AtFormatEnd, PowerTypeOK, MutexInv, At, Goto, Return
<1>7. CASE UsbCleanup \/ UsbEnable
  BY <1>7 DEF UsbCleanup, UsbEnable, PowerTypeOK, Goto, Return, NoUsb, NoFail, Spend
<1>8. CASE PoweroffCut
  BY <1>8 DEF PoweroffCut, TickInv, InUseOf
<1>9. CASE AtAccess \/ AtAccessEnd \/ AtDownload \/ AtTransferStart \/ AtTransferArm
           \/ AtFormat \/ AtFormatCard \/ AtForceStop
  BY <1>9 DEF AtAccess, AtAccessEnd, AtDownload, AtTransferStart, AtTransferArm,
              AtFormat, AtFormatCard, AtForceStop, AtReady, PowerTypeOK, At, Goto, Do,
     Return
<1>10. CASE UsbOn \/ TransferOver \/ TransferEnd
  BY <1>10 DEF UsbOn, TransferOver, TransferEnd, PowerTypeOK, Goto
<1>11. ASSUME NEW t \in Threads, UsbOff(t) \/ UsbOffEnd(t) PROVE PowerInv'
  BY <1>11 DEF UsbOff, UsbOffEnd, PowerTypeOK, Do, Return, At
<1>12. CASE TickOver \/ PoweroffCheck \/ UNCHANGED powerVars
  BY <1>12 DEF TickOver, PoweroffCheck, powerVars
<1> QED
  BY <1>1, <1>2, <1>3, <1>4, <1>5, <1>6, <1>7, <1>8, <1>9, <1>10, <1>11,
     <1>12 DEF PowerNext, AtCommands, Usb, WorkQueue

\* With a punctual work queue, FAT is mounted on a card with power only, whatever
\* fails, as long as USB is not used or nothing fails
THEOREM MountedPower ==
  ASSUME ~LateTick,
         \A a \in Allowances : a["usbs"] = 0 \/ a["faults"] = 0
  PROVE  PowerSpec => []MountedHasPower
<1> DEFINE Inv == /\ PowerTypeOK /\ MutexInv /\ StartInv /\ TickInv /\ (NoUsb \/ NoFail)
                  /\ PowerInv
<1>1. PowerInit => Inv
  <2> SUFFICES ASSUME PowerInit PROVE Inv
    OBVIOUS
  <2>1. NoUsb \/ NoFail
    BY DEF PowerInit, NoUsb, NoFail, Threads
  <2>2. StartInv /\ TickInv /\ PowerInv
    BY DEF PowerInit, StartInv, TickInv, InUseOf, PowerInv, MountedHasPower, Threads
  <2> QED
    BY <2>1, <2>2, MutexInit
<1>2. Inv /\ [PowerNext]_powerVars => Inv'
  BY MutexStep, StartStep, TickStep, NoUsbStep, NoFailStep, PowerStep
<1>3. Inv => MountedHasPower
  BY DEF PowerInv
<1> QED
  BY <1>1, <1>2, <1>3, PTL DEF PowerSpec

-----------------------------------------------------------------------------
(* Session ids grow, for every length of the hour, every width of the byte   *)
(* the minutes are counted in and every run of reboots and recordings       *)


\* Quotient and remainder of a natural number
LEMMA DivMod ==
  ASSUME NEW t \in Nat, NEW d \in Nat \ {0}
  PROVE  /\ t \div d \in Int /\ t % d \in Nat /\ t % d <= t
         /\ t = (t \div d) * d + (t % d)
  OBVIOUS

\* A number that fits keeps its value
LEMMA FitsMod ==
  ASSUME NEW t \in Nat, NEW d \in Nat \ {0}, t < d
  PROVE  t % d = t
  OBVIOUS

\* What the clock shows is a time, never ahead of the reckoned one, and equal to it
\* while the minutes fit their byte
LEMMA ShownIsReckoned ==
  ASSUME SessionClockAssumption, time \in Nat, now - since \in Nat
  PROVE  /\ Shown \in Nat /\ Shown <= Reckoned
         /\ Minutes(now - since) < Width => Shown = Reckoned
<1> DEFINE hours == (time \div PerHour) * PerHour
           m == Minutes(now - since)
<1>1. /\ hours \in Nat /\ time % PerHour \in Nat
      /\ time = hours + (time % PerHour)
  BY DivMod DEF SessionClockAssumption
<1>2. m \in Nat /\ hours + m = time + (now - since)
  BY <1>1 DEF Minutes
<1>3. m % Width \in Nat /\ m % Width <= m
  BY <1>2, DivMod DEF SessionClockAssumption
<1>4. m < Width => m % Width = m
  BY <1>2, FitsMod DEF SessionClockAssumption
<1>5. Shown = hours + (m % Width) /\ Reckoned = hours + m
  <2>1. Reckoned = hours + m
    BY <1>2 DEF Reckoned
  <2> QED
    BY <2>1 DEF Shown
<1> HIDE DEF hours, m
<1>6. /\ Shown \in Nat /\ Shown <= Reckoned
      /\ m < Width => Shown = Reckoned
  BY <1>1, <1>2, <1>3, <1>4, <1>5
<1> QED
  BY <1>6 DEF m

\* The device's time is what is stored and not ahead of the true one; no id is
\* ahead of it either, and unless the clock may have gone back every id is
\* behind the device's time, or is that of the running recording
ClockInv ==
    /\ now \in Epoch..(2 * Epoch - 1) /\ boot \in Epoch..now /\ since \in Epoch..now
    /\ time \in Nat \union {NoTime} /\ stored = time
    /\ time # NoTime => time <= since
    /\ session \in Nat \union {NoTime} /\ last \in Nat \union {NoTime} /\ sure \in BOOLEAN
    /\ last < now \/ (session # NoTime /\ session = last /\ last <= now)
    /\ sure /\ session = NoTime =>
          IF time = NoTime THEN last < now - boot ELSE last < time
    /\ sure /\ session # NoTime =>
          last < (IF time = NoTime THEN now - boot ELSE Reckoned) \/ session = last

LEMMA ClockInitial == ASSUME SessionClockAssumption, ClockInit PROVE ClockInv
  BY DEF SessionClockAssumption, ClockInit, ClockInv, NoTime, Reckoned

\* An id given now is not ahead of the true time
LEMMA NewIdBound ==
  ASSUME SessionClockAssumption, ClockInv
  PROVE  /\ NewId \in Nat /\ NewId <= now
         /\ NewId <= (IF time = NoTime THEN now - boot ELSE Reckoned)
         /\ time # NoTime /\ Minutes(now - since) < Width => NewId = Reckoned
<1>1. CASE time = NoTime
  BY <1>1 DEF NewId, ClockInv, SessionClockAssumption
<1>2. CASE time # NoTime
  <2>1. time \in Nat /\ now - since \in Nat /\ Reckoned <= now
    BY <1>2 DEF ClockInv, Reckoned, SessionClockAssumption
  <2>2. NewId = Shown
    BY <1>2 DEF NewId
  <2>3. Reckoned \in Int /\ now \in Int
    BY <2>1 DEF Reckoned, ClockInv, SessionClockAssumption
  <2> QED
    BY <1>2, <2>1, <2>2, <2>3, ShownIsReckoned
<1> QED
  BY <1>1, <1>2

LEMMA ClockStep ==
  ASSUME SessionClockAssumption, ClockInv, [ClockNext]_clockVars
  PROVE  ClockInv'
<1>1. CASE Minute
  BY <1>1 DEF Minute, LaterThan, ClockInv, SessionClockAssumption, NoTime, Reckoned
<1>2. CASE AtTime
  BY <1>2 DEF AtTime, ClockInv, SessionClockAssumption, NoTime, Reckoned
<1>3. CASE NameSession
  <2>1. /\ session' = NewId /\ last' = (IF NewId > last THEN NewId ELSE last) /\ session = NoTime
        /\ UNCHANGED <<now, boot, time, since, stored, sure>>
    BY <1>3 DEF NameSession, Newest
  <2>2. Reckoned' = Reckoned
    BY <2>1 DEF Reckoned
  <2>3. time # NoTime => time <= Reckoned /\ Reckoned \in Int
    BY DEF ClockInv, Reckoned, SessionClockAssumption, NoTime
  <2> QED
    BY <2>1, <2>2, <2>3, NewIdBound DEF ClockInv, SessionClockAssumption, NoTime
<1>4. CASE EndSession
  <2>1. CASE time = NoTime
    BY <1>4, <2>1 DEF EndSession, SyncTime, ClockInv, SessionClockAssumption, NoTime, Reckoned
  <2>2. CASE time # NoTime
    BY <1>4, <2>2 DEF EndSession, SyncTime, ClockInv, SessionClockAssumption, NoTime, Reckoned
  <2> QED
    BY <2>1, <2>2
<1>5. CASE OffAndOn
  <2>1. sure' \in BOOLEAN /\ (sure' => sure /\ session = NoTime /\ stored # NoTime)
    BY <1>5, Zenon DEF OffAndOn
  <2>2. /\ \E t \in LaterThan(now) : now' = t /\ boot' = t /\ since' = t
        /\ time' = stored /\ session' = NoTime /\ stored' = stored /\ last' = last
    BY <1>5 DEF OffAndOn
  <2> QED
    BY <2>1, <2>2 DEF LaterThan, ClockInv, SessionClockAssumption, NoTime, Reckoned
<1>6. CASE UNCHANGED clockVars
  BY <1>6 DEF clockVars, ClockInv, Reckoned
<1> QED
  BY <1>1, <1>2, <1>3, <1>4, <1>5, <1>6 DEF ClockNext

\* A new id is larger than all before it, unless power went in a recording or
\* before the time was set, or the minutes since the last sync outgrew their byte
THEOREM NewIdsGrow == ClockSpec => IdsGrow
<1> DEFINE Grows == session = NoTime /\ session' # NoTime /\ sure /\ Fits => session' > last
<1>1. ClockInit => ClockInv
  BY SessionClockAssumption, ClockInitial
<1>2. ClockInv /\ [ClockNext]_clockVars => ClockInv'
  BY SessionClockAssumption, ClockStep
<1>3. ClockInv /\ [ClockNext]_clockVars => [Grows]_clockVars
  <2> SUFFICES ASSUME ClockInv, ClockNext, session = NoTime, session' # NoTime, sure, Fits
               PROVE  session' > last
    OBVIOUS
  <2>1. NameSession
    BY DEF ClockNext, Minute, AtTime, NameSession, EndSession, OffAndOn
  <2>2. session' = NewId
    BY <2>1 DEF NameSession
  <2>3. CASE time = NoTime
    BY <2>2, <2>3 DEF NewId, ClockInv
  <2>4. CASE time # NoTime
    <3>1. NewId = Reckoned
      BY <2>4, NewIdBound, SessionClockAssumption DEF Fits
    <3> QED
      BY <2>2, <2>4, <3>1 DEF ClockInv, Reckoned, SessionClockAssumption, NoTime
  <2> QED
    BY <2>3, <2>4
<1> QED
  BY <1>1, <1>2, <1>3, PTL DEF ClockSpec, IdsGrow

-----------------------------------------------------------------------------
(* ListSync: the pages of a list, newest first                              *)

\* The least-number principle, for a set of naturals
LEMMA Least ==
  ASSUME NEW T \in SUBSET Nat, T # {}
  PROVE  \E n \in T : \A m \in T : n <= m
<1>1. PICK R : IsWellFoundedOn(R, Nat) /\ \A x, y \in Nat : x < y => <<x, y>> \in R
  <2> DEFINE L == OpToRel(<, Nat)
  <2>1. IsWellFoundedOn(L, Nat)
    BY NatLessThanWellFounded
  <2>2. \A x, y \in Nat : x < y => <<x, y>> \in L
    BY DEF OpToRel
  <2> HIDE DEF L
  <2> QED
    BY <2>1, <2>2
<1>2. T \subseteq Nat
  OBVIOUS
<1>3. \E n \in T : \A m \in T : ~ (<<m, n>> \in R)
  <2>1. IsWellFoundedOn(R, Nat)
    BY <1>1
  <2> QED
    BY <1>2, <2>1, WFMin, Zenon
<1>4. PICK n \in T : \A m \in T : ~ (<<m, n>> \in R)
  BY <1>3
<1>5. \A m \in T : ~ (m < n)
  BY <1>1, <1>2, <1>4
<1>6. \A m \in T : n <= m
  BY <1>2, <1>5
<1> QED
  BY <1>6

LEMMA Numbers == \A s \in Sessions : s \in Nat /\ s <= MaxSession
  BY SessionStoreAssumption DEF Sessions

LEMMA Greatest ==
  ASSUME NEW T \in SUBSET Sessions, T # {}
  PROVE  \E n \in T : \A m \in T : m <= n
<1> DEFINE D == {MaxSession - s : s \in T}
<1>1. D \in SUBSET Nat /\ D # {}
  <2>1. \A s \in T : MaxSession - s \in Nat
    BY Numbers, SessionStoreAssumption
  <2> QED
    BY <2>1
<1>2. PICK d \in D : \A e \in D : d <= e
  BY <1>1, Least
<1>3. PICK n \in T : d = MaxSession - n
  BY <1>2
<1>4. ASSUME NEW m \in T PROVE m <= n
  <2>1. d <= MaxSession - m
    BY <1>2
  <2> QED
    BY <1>3, <2>1, Numbers, SessionStoreAssumption
<1> QED
  BY <1>4

\* How many of ids are newer than s
Above(ids, s) == {r \in ids : r > s}
Rank(ids, s)  == Cardinality(Above(ids, s))

LEMMA Subsets ==
  ASSUME NEW S \in SUBSET Sessions
  PROVE  /\ IsFiniteSet(S) /\ Cardinality(S) \in Nat /\ Cardinality(S) <= MaxSession
         /\ \A R \in SUBSET S : Cardinality(R) <= Cardinality(S)
         /\ \A x \in S : \A R \in SUBSET (S \ {x}) : Cardinality(R) < Cardinality(S)
<1>1. IsFiniteSet(Sessions) /\ Cardinality(Sessions) = MaxSession
  BY SessionStoreAssumption, FS_Interval DEF Sessions
<1>2. IsFiniteSet(S) /\ Cardinality(S) \in Nat /\ Cardinality(S) <= MaxSession
  BY <1>1, FS_Subset, FS_CardinalityType
<1>3. \A R \in SUBSET S : Cardinality(R) <= Cardinality(S) /\ Cardinality(R) \in Nat
  BY <1>2, FS_Subset, FS_CardinalityType
<1>4. ASSUME NEW x \in S, NEW R \in SUBSET (S \ {x})
      PROVE  Cardinality(R) < Cardinality(S)
  <2>1. IsFiniteSet(S \ {x}) /\ Cardinality(S \ {x}) = Cardinality(S) - 1
    BY <1>2, FS_RemoveElement
  <2>2. Cardinality(R) <= Cardinality(S \ {x})
    BY <2>1, FS_Subset
  <2>3. Cardinality(R) \in Nat
    BY <1>3
  <2> QED
    BY <1>2, <2>1, <2>2, <2>3
<1> QED
  BY <1>2, <1>3, <1>4

LEMMA Ranks ==
  ASSUME NEW ids \in SUBSET Sessions
  PROVE  /\ IsFiniteSet(ids) /\ Cardinality(ids) \in Nat
         /\ \A s \in Sessions : Rank(ids, s) \in Nat
         /\ \A s \in ids : Rank(ids, s) < Cardinality(ids)
         /\ \A s \in Sessions, r \in ids : s < r => Rank(ids, r) < Rank(ids, s)
         /\ \A s, r \in Sessions : s <= r => Rank(ids, r) <= Rank(ids, s)
<1>2. \A S \in SUBSET Sessions : IsFiniteSet(S) /\ Cardinality(S) \in Nat
  BY Subsets
<1>3. \A s : Above(ids, s) \in SUBSET Sessions
  BY DEF Above
<1>5. \A s \in ids : Rank(ids, s) < Cardinality(ids)
  <2> TAKE s \in ids
  <2>1. Above(ids, s) \in SUBSET (ids \ {s})
    BY Numbers DEF Above
  <2> QED
    BY <2>1, Subsets DEF Rank
<1>6. \A s \in Sessions, r \in ids : s < r => Rank(ids, r) < Rank(ids, s)
  <2> TAKE s \in Sessions, r \in ids
  <2> HAVE s < r
  <2>1. r \in Above(ids, s) /\ Above(ids, r) \in SUBSET (Above(ids, s) \ {r})
    BY Numbers DEF Above
  <2> QED
    BY <1>3, <2>1, Subsets DEF Rank
<1>7. \A s, r \in Sessions : s <= r => Rank(ids, r) <= Rank(ids, s)
  <2> TAKE s, r \in Sessions
  <2> HAVE s <= r
  <2>1. Above(ids, r) \in SUBSET Above(ids, s)
    BY Numbers DEF Above
  <2> QED
    BY <1>3, <2>1, Subsets DEF Rank
<1> QED
  BY <1>2, <1>3, <1>5, <1>6, <1>7 DEF Rank

\* Every rank below the number of ids is the rank of one of them
LEMMA RankFound ==
  ASSUME NEW ids \in SUBSET Sessions, NEW k \in Nat, k < Cardinality(ids)
  PROVE  \E s \in ids : Rank(ids, s) = k
<1> DEFINE Big == {s \in ids : Rank(ids, s) >= k}
<1>1. IsFiniteSet(ids) /\ Cardinality(ids) \in Nat /\ ids # {}
  BY Ranks, FS_EmptySet
<1>2. Big # {}
  <2>1. ids \in SUBSET Nat
    BY SessionStoreAssumption DEF Sessions
  <2>2. PICK m \in ids : \A r \in ids : m <= r
    BY <1>1, <2>1, Least
  <2>3. Above(ids, m) = ids \ {m}
    <3>1. \A q \in ids : q \in Nat /\ m \in Nat /\ m <= q
      BY <2>1, <2>2
    <3>2. \A q \in ids : q > m <=> q # m
      BY <3>1
    <3> QED
      BY <3>2 DEF Above
  <2>4. Rank(ids, m) = Cardinality(ids) - 1
    BY <1>1, <2>3, FS_RemoveElement DEF Rank
  <2> QED
    BY <1>1, <2>4
<1>3. PICK s \in Big : \A r \in Big : r <= s
  BY <1>2, Greatest
<1>4. Rank(ids, s) \in Nat /\ Rank(ids, s) >= k
  BY <1>3, Ranks
<1>5. CASE Rank(ids, s) > k
  <2>0. Above(ids, s) # {}
    BY <1>4, <1>5, FS_EmptySet DEF Rank
  <2>1. Above(ids, s) # {} /\ Above(ids, s) \in SUBSET Nat /\ Above(ids, s) \subseteq ids
    BY <2>0, Numbers DEF Above
  <2>2. PICK r \in Above(ids, s) : \A q \in Above(ids, s) : r <= q
    BY <2>1, Least
  <2>3. r \in ids /\ r > s /\ s \in Nat /\ ids \in SUBSET Nat
    BY <1>3, <2>2, Numbers DEF Above
  <2>4. Above(ids, r) = Above(ids, s) \ {r}
    <3>1. \A q \in ids : q \in Nat /\ r \in Nat
      BY <2>3
    <3>2. \A q \in ids : q > s => r <= q
      BY <2>2 DEF Above
    <3>3. \A q \in ids : q > r <=> (q > s /\ q # r)
      BY <2>3, <3>1, <3>2
    <3> QED
      BY <3>3 DEF Above
  <2>5. IsFiniteSet(Above(ids, s))
    BY <1>1, <2>1, FS_Subset
  <2>6. Rank(ids, r) = Rank(ids, s) - 1
    BY <2>2, <2>4, <2>5, FS_RemoveElement DEF Rank
  <2>7. r \in Big
    BY <1>4, <1>5, <2>3, <2>6
  <2> QED
    BY <1>3, <2>3, <2>7
<1> QED
  BY <1>3, <1>4, <1>5

\* So there are k ids of a rank below k
LEMMA Upto ==
  ASSUME NEW ids \in SUBSET Sessions, NEW k \in Nat, k < Cardinality(ids)
  PROVE  Cardinality({s \in ids : Rank(ids, s) < k}) = k
<1>1. PICK s \in ids : Rank(ids, s) = k
  BY RankFound
<1>2. {q \in ids : Rank(ids, q) < k} = Above(ids, s)
  <2>1. ASSUME NEW q \in ids PROVE Rank(ids, q) < k <=> q > s
    <3>1. q \in Sessions /\ s \in Sessions /\ q \in Int /\ s \in Int
      BY SessionStoreAssumption DEF Sessions
    <3>2. s < q => Rank(ids, q) < Rank(ids, s)
      BY <3>1, Ranks
    <3>3. q <= s => Rank(ids, s) <= Rank(ids, q)
      BY <3>1, Ranks
    <3>4. Rank(ids, q) \in Nat
      BY <3>1, Ranks
    <3> QED
      BY <1>1, <3>1, <3>2, <3>3, <3>4
  <2> QED
    BY <2>1 DEF Above
<1> QED
  BY <1>1, <1>2 DEF Rank

LEMMA Without ==
  ASSUME NEW S, NEW T, IsFiniteSet(S), T \subseteq S
  PROVE  Cardinality(S \ T) = Cardinality(S) - Cardinality(T)
<1>1. S \cap T = T
  OBVIOUS
<1> QED
  BY <1>1, FS_Difference

\* A page has per entries at most, and per of them if the list goes on after it
LEMMA PageSize ==
  ASSUME NEW ids \in SUBSET Sessions, NEW page \in Nat \ {0}, NEW per \in Nat
  PROVE  /\ Page(ids, page, per) \subseteq ids
         /\ Cardinality(Page(ids, page, per)) \in Nat
         /\ Cardinality(Page(ids, page, per)) <= per
         /\ page * per < Cardinality(ids) => Cardinality(Page(ids, page, per)) = per
         /\ \A s \in ids \ Page(ids, page, per) :
               Rank(ids, s) < (page - 1) * per
                 \/ (Rank(ids, s) >= page * per /\ page * per < Cardinality(ids))
<1> DEFINE a == (page - 1) * per
           b == page * per
           n == Cardinality(ids)
           U(k) == {s \in ids : Rank(ids, s) < k}
           P == Page(ids, page, per)
<1>1. a \in Nat /\ b \in Nat /\ b = a + per
  <2>1. page - 1 \in Nat
    OBVIOUS
  <2> QED
    BY <2>1
<1>2. P = {s \in ids : a <= Rank(ids, s) /\ Rank(ids, s) < b}
  BY DEF Page, Rank, Above
<1>3. IsFiniteSet(ids) /\ n \in Nat
      /\ \A s \in ids : Rank(ids, s) \in Nat /\ Rank(ids, s) < n
  BY Ranks
<1> HIDE DEF a, b
<1>4. P \subseteq ids /\ Cardinality(P) \in Nat /\ U(a) \subseteq ids /\ U(b) \subseteq ids
      /\ IsFiniteSet(U(b))
  BY <1>2, <1>3, FS_Subset, FS_CardinalityType
<1>5. \A s \in ids \ P : Rank(ids, s) < a \/ (Rank(ids, s) >= b /\ b < n)
  BY <1>1, <1>2, <1>3
<1>6. CASE b < n
  <2>1. Cardinality(U(a)) = a /\ Cardinality(U(b)) = b
    BY <1>1, <1>3, <1>6, Upto
  <2>2. P = U(b) \ U(a) /\ U(a) \subseteq U(b)
    BY <1>1, <1>2, <1>3
  <2>3. Cardinality(P) = b - a
    <3>1. Cardinality(U(b) \ U(a)) = Cardinality(U(b)) - Cardinality(U(a))
      <4> HIDE DEF U
      <4> QED
        BY <1>4, <2>2, Without, Zenon
    <3>2. Cardinality(P) = Cardinality(U(b) \ U(a))
      BY <2>2, Zenon
    <3> QED
      BY <2>1, <3>1, <3>2, Zenon
  <2> QED
    BY <1>1, <1>4, <1>5, <2>3 DEF a, b
<1>7. CASE n <= b /\ a < n
  <2>1. Cardinality(U(a)) = a
    BY <1>1, <1>3, <1>7, Upto
  <2>2. P = ids \ U(a) /\ U(a) \subseteq ids
    BY <1>1, <1>2, <1>3, <1>7
  <2>3. Cardinality(P) = n - a
    <3>1. Cardinality(ids \ U(a)) = Cardinality(ids) - Cardinality(U(a))
      <4> HIDE DEF U
      <4> QED
        BY <1>3, <2>2, Without, Zenon
    <3>2. Cardinality(P) = Cardinality(ids \ U(a))
      BY <2>2, Zenon
    <3> QED
      BY <2>1, <3>1, <3>2, Zenon
  <2> QED
    BY <1>1, <1>3, <1>4, <1>5, <1>7, <2>3 DEF a, b
<1>8. CASE n <= a
  <2>1. P = {}
    BY <1>1, <1>2, <1>3, <1>8
  <2>2. Cardinality(P) = 0
    BY <2>1, FS_EmptySet
  <2> QED
    BY <1>1, <1>3, <1>4, <1>5, <1>8, <2>2 DEF a, b
<1> QED
  BY <1>1, <1>3, <1>6, <1>7, <1>8

-----------------------------------------------------------------------------
(* The invariant                                                            *)

\* The host keeps to its types, and has a page size once it is under way
HostPcs  == {"idle", "send", "wait", "done"}
HostType == [pc : HostPcs, page : 1..(MaxSession + 1), per : PerPages \union {0}, first : Ids,
             count : Nat, seen : SUBSET Sessions, total : Nat]

HostTypeOK ==
    /\ host \in HostType
    /\ host.pc # "idle" => host.per \in PerPages
    /\ todo \in [syncs : Nat, lost : Nat]
    /\ held \in SUBSET Sessions /\ calm \in BOOLEAN

\* The pages before this one showed at most this many entries
Before == (host.page - 1) * host.per

\* A session not seen yet is below the pages shown: what is above it only grows
SendInv == host.pc = "send" =>
    /\ at.pc = "ready"
    /\ \A s \in held : s \in host.seen \/ (Rank(Listed, s) >= Before /\ host.count <= Before)

\* The page under way is full unless it is the last, and its newest entry leads it
WaitInv == host.pc = "wait" =>
    /\ at.pc = "entry" /\ at.total <= MaxSession
    /\ at.out \intersect at.todo = {}
    /\ Cardinality(at.out \union at.todo) <= host.per
    /\ host.page * host.per < at.total => Cardinality(at.out \union at.todo) = host.per
    /\ \A s \in held :
          \/ s \in host.seen \union at.out \union at.todo
          \/ /\ Rank(Listed, s) >= host.page * host.per /\ host.page * host.per < at.total
             /\ host.count <= Before
    /\ IF at.out # {} THEN host.first \in at.out
       ELSE at.todo = {} \/ (host.first \in at.todo /\ \A r \in at.todo : r <= host.first)

\* Where a calm sync is; at its end nothing is behind the last page
CalmInv == calm /\ host.pc # "idle" =>
    /\ at.pc \in {"ready", "entry"} /\ Cardinality(Listed) <= MaxIds /\ held \subseteq Listed
    /\ SendInv /\ WaitInv
    /\ host.pc = "done" => held \subseteq host.seen

\* A list that grows ranks no session higher
LEMMA RankGrows ==
  ASSUME NEW more \in SUBSET Sessions, NEW ids \in SUBSET more
  PROVE  \A s \in Sessions : Rank(ids, s) <= Rank(more, s)
<1> TAKE s \in Sessions
<1>1. Above(more, s) \in SUBSET Sessions /\ Above(ids, s) \in SUBSET Above(more, s)
  BY DEF Above
<1> QED
  BY <1>1, Subsets DEF Rank

LEMMA NewestOf ==
  ASSUME NEW T \in SUBSET Sessions
  PROVE  /\ Max(T \union {None}) \in Ids
         /\ T # {} => Max(T \union {None}) \in T /\ \A r \in T : r <= Max(T \union {None})
<1> DEFINE S == T \union {None}
<1>1. \A x, y \in S : x \in Int /\ y \in Int
  BY Numbers DEF None
<1>2. \E x \in S : \A y \in S : x >= y
  <2>1. CASE T = {}
    BY <2>1 DEF None
  <2>2. CASE T # {}
    <3>1. PICK x \in T : \A y \in T : y <= x
      BY <2>2, Greatest
    <3> QED
      BY <3>1, Numbers DEF None
  <2> QED
    BY <2>1, <2>2
<1>3. Max(S) \in S /\ \A y \in S : Max(S) >= y
  BY <1>2 DEF Max
<1>4. T # {} => Max(S) # None
  <2>1. \A r \in T : r \in Nat /\ r > None /\ Max(S) >= r
    BY <1>3, SessionStoreAssumption DEF None, Sessions
  <2> QED
    BY <2>1 DEF None
<1> QED
  BY <1>1, <1>3, <1>4 DEF Ids

LEMMA CollectsAll ==
  ASSUME Cardinality(Listed) <= MaxIds
  PROVE  Collected = Listed
<1>1. Listed \in SUBSET Sessions
  BY DEF Listed
<1>2. ASSUME NEW s \in Listed PROVE Cardinality({r \in Listed : r < s}) < MaxIds
  <2>1. {r \in Listed : r < s} \in SUBSET (Listed \ {s})
    BY <1>1, Numbers
  <2>2. {r \in Listed : r < s} \in SUBSET Sessions
    BY <1>1
  <2> QED
    BY <1>1, <2>1, <2>2, Subsets, SessionStoreAssumption
<1> QED
  BY <1>2 DEF Collected

\* What a page of per entries adds
LEMMA Products ==
  ASSUME NEW page \in Nat \ {0}, NEW per \in Nat \ {0}
  PROVE  /\ page * per \in Nat /\ (page - 1) * per \in Nat /\ page * per >= page
         /\ page * per = (page - 1) * per + per
         /\ (page + 1 - 1) * per = page * per
<1>1. PICK p \in Nat : page = p + 1
  <2>1. page - 1 \in Nat /\ page = (page - 1) + 1
    OBVIOUS
  <2> QED
    BY <2>1
<1>2. PICK q \in Nat : per = q + 1
  <2>1. per - 1 \in Nat /\ per = (per - 1) + 1
    OBVIOUS
  <2> QED
    BY <2>1
<1>3. page * per = p * q + p + q + 1 /\ p * q \in Nat /\ p * per \in Nat
  BY <1>1, <1>2
<1> QED
  BY <1>1, <1>2, <1>3

-----------------------------------------------------------------------------
(* The invariant is kept                                                    *)

LEMMA SyncIsStore ==
  ASSUME HostTypeOK, [SyncNext]_syncVars
  PROVE  [Next]_vars
<1>1. CASE SyncSend
  <2>1. host.page \in 1..(MaxSession + 1) /\ host.per \in PerPages
    BY <1>1 DEF HostTypeOK, HostType, SyncSend
  <2>2. PICK purge \in BOOLEAN : purge = (who = "sdk" \/ host.page > 1)
    OBVIOUS
  <2>3. AtList(host.page, host.per, purge)
    BY <1>1, <2>2 DEF SyncSend
  <2> QED
    BY <2>1, <2>3 DEF Next
<1> QED
  BY <1>1 DEF SyncNext, SyncStart, SyncReply, SyncLost, SyncTimeout, LateReply, SyncDone,
              Device, Next, syncVars

LEMMA Grows ==
  ASSUME StoreInv, [Next]_vars, at.pc # "delete_json"
  PROVE  Listed \subseteq Listed'
<1> USE DEF StoreInv
<1>0. json \in [Sessions -> Json]
  BY DEF StoreTypeOK
<1>1. CASE RecCreateJson
  <2>1. rec.s \in Sessions /\ json[rec.s] = NoJson
    BY <1>1 DEF RecCreateJson, StoreTypeOK, NewInv, Untouched
  <2>2. CASE UNCHANGED json
    BY <2>2 DEF Listed
  <2>3. CASE \E j \in Json : SetJson(rec.s, j)
    BY <1>0, <2>1, <2>3, PutJson DEF Listed, NoJson
  <2> QED
    BY <1>1, <2>2, <2>3, JsonTypes DEF RecCreateJson
<1>2. CASE RecFinishWrite
  <2>1. rec.s \in Sessions /\ rec \in RecType
    BY <1>2 DEF RecFinishWrite, StoreTypeOK
  <2>2. [there |-> TRUE, files |-> rec.n, synced |-> rec.read.synced, rec |-> FALSE] \in Json
    BY <2>1, JsonTypes DEF RecType
  <2> QED
    BY <1>0, <1>2, <2>1, <2>2, PutJson DEF RecFinishWrite, Listed
<1>3. CASE TxSaveWrite
  <2>1. tx.s \in Sessions /\ tx \in TxType /\ tx.read.there
    BY <1>3 DEF TxSaveWrite, StoreTypeOK, TxInv
  <2>2. tx.read \in Json /\ tx.ok \in Nat
    BY <2>1 DEF TxType
  <2>3. [tx.read EXCEPT !.synced = tx.ok] \in Json /\ [tx.read EXCEPT !.synced = tx.ok].there
    BY <2>1, <2>2, JsonTypes
  <2>4. CASE SetJson(tx.s, [tx.read EXCEPT !.synced = tx.ok])
    <3>1. json'[tx.s].there /\ \A r \in Sessions : r # tx.s => json'[r] = json[r]
      <4> DEFINE j == [tx.read EXCEPT !.synced = tx.ok]
      <4> HIDE DEF j
      <4>1. SetJson(tx.s, j) /\ j \in Json /\ j.there
        BY <2>3, <2>4 DEF j
      <4> QED
        BY <1>0, <2>1, <4>1, PutJson
    <3> QED
      BY <3>1 DEF Listed
  <2>5. CASE UNCHANGED json
    BY <2>5 DEF Listed
  <2> QED
    BY <1>3, <2>4, <2>5 DEF TxSaveWrite
<1>4. CASE UNCHANGED json
  BY <1>4 DEF Listed
<1> QED
  BY <1>1, <1>2, <1>3, <1>4
     DEF Next, AudioThread, TransferThread, Deleting, RecCreateDirs,
         RecCreateFile, RecCloseFile, RecAnnounce, RecNextFile, RecFinishRead,
         TxStart, TxHasty, TxSend, TxSkip, TxEmpty, TxUnlink, TxEnd, TxSaveRead, AtList,
         AtEntry, AtPurge, AtDelete, AtDeleteChunk, AtDeleteGroup, AtDeleteJson, AtDeleteDir, AtDone, PowerCut, vars, card

\* Nothing but taking its next entry happens to a page under way
LEMMA AtCalm ==
  ASSUME StoreTypeOK, Device, at.pc \notin DeletePcs,
         at'.pc \notin DeletePcs, left'.cuts = left.cuts,
         at.pc = "entry" /\ at.todo # at'.todo => at.out # at'.out
  PROVE  \/ at' = at
         \/ /\ at.pc = "entry" /\ at'.pc = "entry" /\ at'.total = at.total
            /\ \E s \in at.todo :
                  /\ \A r \in at.todo : r <= s
                  /\ at'.todo = at.todo \ {s} /\ at'.out = at.out \union {s}
<1>1. at \in AtType /\ left \in Budget
  BY DEF StoreTypeOK
<1>2. CASE AtEntry
  <2>1. PICK s \in Sessions :
          /\ TakeEntry(s)
          /\ \/ at' = [at EXCEPT !.todo = @ \ {s}, !.out = @ \union {s}]
             \/ at' = [at EXCEPT !.todo = @ \ {s}]
    BY <1>2 DEF AtEntry
  <2>2. at.pc = "entry" /\ s \in at.todo /\ \A r \in at.todo : r <= s
    BY <2>1 DEF TakeEntry
  <2>3. at' # [at EXCEPT !.todo = @ \ {s}]
    BY <1>1, <2>2 DEF AtType
  <2>4. at'.pc = "entry" /\ at'.total = at.total
        /\ at'.todo = at.todo \ {s} /\ at'.out = at.out \union {s}
    BY <1>1, <2>1, <2>2, <2>3 DEF AtType
  <2> QED
    BY <2>2, <2>4
<1>3. ~PowerCut
  BY <1>1 DEF PowerCut, Budget
<1>4. ~Deleting
  BY AtMoves DEF Deleting, AtDeleteChunk, AtDeleteGroup, AtDeleteJson, AtDeleteDir, DeletePcs
<1>5. CASE AudioThread \/ TransferThread
  BY <1>5 DEF AudioThread, TransferThread, RecCreateDirs, RecCreateJson,
         RecCreateFile, RecCloseFile, RecAnnounce, RecNextFile, RecFinishRead,
         RecFinishWrite, TxStart, TxHasty, TxSend, TxSkip, TxEmpty, TxUnlink, TxEnd,
         TxSaveRead, TxSaveWrite
<1> QED
  BY <1>2, <1>3, <1>4, <1>5 DEF Device

LEMMA HostTypeInit == SyncInit => HostTypeOK
<1>1. HostIdle \in HostType /\ HostIdle.pc = "idle"
  BY SessionStoreAssumption DEF HostIdle, HostType, HostPcs, Ids, None
<1> QED
  BY <1>1, ListSyncAssumption DEF SyncInit, HostTypeOK

LEMMA HostTypeStep ==
  ASSUME StoreInv, HostTypeOK, [SyncNext]_syncVars
  PROVE  HostTypeOK'
<1>0. StoreTypeOK /\ StoreTypeOK'
  BY SyncIsStore, StoreInvStep DEF StoreInv
<1>1. HostIdle \in HostType /\ HostIdle.pc = "idle"
  BY SessionStoreAssumption DEF HostIdle, HostType, HostPcs, Ids, None
<1>2. host \in HostType /\ todo \in [syncs : Nat, lost : Nat]
  BY DEF HostTypeOK
<1>3. held' \in SUBSET Sessions /\ calm' \in BOOLEAN
  BY DEF SyncNext, SyncStart, SyncDone, Follow, WithFiles, Listed, HostTypeOK, syncVars,
         hostVars
<1>4. ASSUME host.pc # "idle", GiveUp
      PROVE  host' \in HostType /\ (host'.pc # "idle" => host'.per \in PerPages)
  BY <1>1, <1>2, <1>4 DEF GiveUp, HostType, HostPcs, HostTypeOK
<1>5. CASE SyncStart
  <2>1. PICK per \in PerPages : host' = [HostIdle EXCEPT !.pc = "send", !.per = per]
    BY <1>5 DEF SyncStart
  <2>2. host' \in HostType /\ host'.per = per
    BY <1>1, <2>1 DEF HostType, HostPcs
  <2>3. todo' \in [syncs : Nat, lost : Nat]
    BY <1>2, <1>5 DEF SyncStart
  <2> QED
    BY <1>3, <2>2, <2>3 DEF HostTypeOK
<1>6. CASE SyncSend
  <2>1. at'.todo \in SUBSET Sessions
    BY <1>0 DEF StoreTypeOK, AtType
  <2>2. PICK m \in Ids : host' = [host EXCEPT !.pc = "wait", !.first = m]
    BY <1>6, <2>1, NewestOf DEF SyncSend
  <2>3. host' \in HostType /\ host'.per = host.per
    BY <1>2, <2>2 DEF HostType, HostPcs
  <2> QED
    BY <1>2, <1>3, <1>6, <2>3 DEF HostTypeOK, SyncSend
<1>7. CASE SyncReply /\ ~GiveUp
  <2>1. at.out \in SUBSET Sessions /\ at.total \in Nat
    BY <1>0 DEF StoreTypeOK, AtType
  <2>2. Counted \in Nat
    BY <1>2, <2>1, Subsets DEF Counted, HostType
  <2>3. PICK h \in HostPcs, page \in 1..(MaxSession + 1), c \in Nat, t \in Nat :
          host' = [host EXCEPT !.pc = h, !.page = page, !.count = c,
                               !.seen = @ \union at.out, !.total = t]
    <3> DEFINE h == IF LastPage THEN "done" ELSE "send"
               page == IF host.page <= MaxSession THEN host.page + 1 ELSE host.page
               c == IF host.count <= MaxSession THEN Counted ELSE host.count
               t == IF host.page = 1 THEN at.total ELSE host.total
    <3>1. h \in HostPcs /\ page \in 1..(MaxSession + 1) /\ c \in Nat /\ t \in Nat
      BY <1>2, <2>1, <2>2, SessionStoreAssumption DEF HostType, HostPcs
    <3>2. host' = [host EXCEPT !.pc = h, !.page = page, !.count = c,
                               !.seen = @ \union at.out, !.total = t]
      <4>1. host' = [host EXCEPT !.pc = IF LastPage THEN "done" ELSE "send",
                                  !.page = IF @ <= MaxSession THEN @ + 1 ELSE @,
                                  !.count = IF @ <= MaxSession THEN Counted ELSE @,
                                  !.seen = @ \union at.out,
                                  !.total = IF host.page = 1 THEN at.total ELSE @]
        BY <1>7, Zenon DEF SyncReply
      <4> QED
        BY <1>2, <4>1 DEF HostType
    <3> QED
      BY <3>1, <3>2
  <2>4. host' \in HostType /\ host'.per = host.per
    BY <1>2, <2>1, <2>3 DEF HostType
  <2> QED
    BY <1>2, <1>3, <1>7, <2>4 DEF HostTypeOK, SyncReply
<1>8. CASE SyncLost
  BY <1>2, <1>3, <1>4, <1>8 DEF SyncLost, HostTypeOK
<1>9. CASE SyncTimeout \/ (SyncReply /\ GiveUp)
  BY <1>2, <1>3, <1>4, <1>9 DEF SyncTimeout, SyncReply, HostTypeOK
<1>10. CASE SyncDone
  BY <1>1, <1>2, <1>3, <1>10 DEF SyncDone, HostTypeOK
<1>11. CASE UNCHANGED <<host, todo>>
  BY <1>2, <1>3, <1>11 DEF HostTypeOK
<1> QED
  BY <1>5, <1>6, <1>7, <1>8, <1>9, <1>10, <1>11
     DEF SyncNext, LateReply, Device, syncVars, hostVars

-----------------------------------------------------------------------------
(* The paging                                                               *)

\* What Follow says of a step that is still calm
LEMMA CalmStep ==
  ASSUME StoreInv, [Next]_vars, Follow, calm', CalmInv, host.pc # "idle"
  PROVE  /\ calm /\ host'.pc # "idle"
         /\ at.pc \notin DeletePcs /\ at'.pc \in {"ready", "entry"}
         /\ Cardinality(Listed') <= MaxIds /\ held' \subseteq Listed' /\ held' \subseteq held
         /\ Listed \in SUBSET Listed' /\ Listed' \in SUBSET Sessions
         /\ Cardinality(Listed) <= MaxIds
         /\ held \subseteq Listed
         /\ \A s \in Sessions : Rank(Listed, s) <= Rank(Listed', s)
<1>1. calm /\ host'.pc # "idle" /\ at'.pc \notin DeletePcs
      /\ Cardinality(Listed') <= MaxIds /\ held' \subseteq Listed' /\ held' \subseteq held
  BY DEF Follow, WithFiles
<1>2. at.pc \in {"ready", "entry"} /\ held \subseteq Listed /\ Cardinality(Listed) <= MaxIds
  BY <1>1 DEF CalmInv
<1>3. Listed \in SUBSET Listed' /\ Listed' \in SUBSET Sessions
  BY <1>2, Grows DEF Listed
<1>4. at'.pc \in {"ready", "entry"}
  <2>1. StoreTypeOK'
    BY StoreInvStep DEF StoreInv
  <2> QED
    BY <1>1, <2>1 DEF StoreTypeOK, AtType, AtPcs, DeletePcs
<1>5. \A s \in Sessions : Rank(Listed, s) <= Rank(Listed', s)
  BY <1>3, RankGrows
<1> QED
  BY <1>1, <1>2, <1>3, <1>4, <1>5 DEF DeletePcs

LEMMA CalmDevice ==
  ASSUME StoreInv, HostTypeOK, CalmInv, Device, Follow, calm', [Next]_vars
  PROVE  CalmInv'
<1>1. host' = host /\ host.pc # "idle"
  BY DEF Device, Follow
<1>2. /\ calm /\ at.pc \notin DeletePcs /\ at'.pc \in {"ready", "entry"}
      /\ Cardinality(Listed') <= MaxIds /\ held' \subseteq Listed' /\ held' \subseteq held
      /\ Listed \in SUBSET Sessions /\ Listed' \in SUBSET Sessions
      /\ \A s \in Sessions : Rank(Listed, s) <= Rank(Listed', s)
  BY <1>1, CalmStep
<1>3. \/ at' = at
      \/ /\ at.pc = "entry" /\ at'.pc = "entry" /\ at'.total = at.total
         /\ \E s \in at.todo :
               /\ \A r \in at.todo : r <= s
               /\ at'.todo = at.todo \ {s} /\ at'.out = at.out \union {s}
  BY <1>2, AtCalm DEF StoreInv, Follow
<1>4. SendInv /\ WaitInv /\ (host.pc = "done" => held \subseteq host.seen)
  BY <1>1, <1>2 DEF CalmInv
<1>5. held \in SUBSET Sessions /\ held' \in SUBSET Sessions /\ at \in AtType
      /\ host.per \in Nat /\ host.page \in Nat /\ Before \in Int
  <2>1. held \in SUBSET Sessions /\ held' \in SUBSET Sessions /\ at \in AtType
    BY <1>2 DEF HostTypeOK, StoreInv, StoreTypeOK
  <2>2. host.page \in 1..(MaxSession + 1) /\ host.per \in PerPages
    BY <1>1 DEF HostTypeOK, HostType
  <2>3. host.per \in Nat /\ host.page \in Nat /\ host.page - 1 \in Int
    <3>1. host.page \in Nat
      BY <2>2, SessionStoreAssumption
    <3>2. host.per \in Nat
      BY <2>2, SessionStoreAssumption
    <3> QED
      BY <3>1, <3>2
  <2> QED
    BY <2>1, <2>3 DEF Before
<1>6. \A s \in Sessions : Rank(Listed, s) \in Nat /\ Rank(Listed', s) \in Nat
  BY <1>2, Ranks
<1>7. SendInv'
  BY <1>1, <1>2, <1>3, <1>4, <1>5, <1>6 DEF SendInv, Before
<1>8. WaitInv'
  <2> SUFFICES ASSUME host.pc = "wait" PROVE WaitInv'
    BY <1>1 DEF WaitInv
  <2>1. ASSUME NEW o, NEW t, o = at.out \union at.todo, t = host.page * host.per
        PROVE  \A s \in held' :
                  \/ s \in host.seen \union o
                  \/ Rank(Listed', s) >= t /\ t < at.total /\ host.count <= Before
    <3>1. t \in Int
      BY <1>5, <2>1
    <3>2. \A s \in held :
              \/ s \in host.seen \union o
              \/ Rank(Listed, s) >= t /\ t < at.total /\ host.count <= Before
      <4>1. \A s \in held :
                \/ s \in host.seen \union at.out \union at.todo
                \/ /\ Rank(Listed, s) >= host.page * host.per
                   /\ host.page * host.per < at.total /\ host.count <= Before
        BY <1>4 DEF WaitInv
      <4>2. \A s : s \in host.seen \union at.out \union at.todo => s \in host.seen \union o
        BY <2>1
      <4> QED
        BY <2>1, <4>1, <4>2
    <3>3. \A s \in Sessions : Rank(Listed, s) >= t => Rank(Listed', s) >= t
      BY <1>2, <1>6, <3>1
    <3> QED
      BY <1>2, <1>5, <3>2, <3>3
  <2>2. CASE at' = at
    BY <1>1, <1>4, <2>1, <2>2 DEF WaitInv, Before
  <2>3. CASE at' # at
    <3>1. PICK s \in at.todo :
              /\ \A r \in at.todo : r <= s
              /\ at'.todo = at.todo \ {s} /\ at'.out = at.out \union {s}
      BY <1>3, <2>3
    <3>2. at'.out \union at'.todo = at.out \union at.todo /\ at'.out # {}
      BY <3>1
    <3>3. at'.out \intersect at'.todo = {}
      BY <1>4, <3>1 DEF WaitInv
    <3>4. host.first \in at'.out
      <4>1. CASE at.out = {}
        <5>1. host.first \in at.todo /\ \A r \in at.todo : r <= host.first
          BY <1>4, <3>1, <4>1 DEF WaitInv
        <5>2. host.first \in Nat /\ s \in Nat
          BY <1>5, <3>1, <5>1, Numbers DEF AtType
        <5> QED
          BY <3>1, <5>1, <5>2
      <4>2. CASE at.out # {}
        BY <1>4, <3>1, <4>2 DEF WaitInv
      <4> QED
        BY <4>1, <4>2
    <3> QED
      BY <1>1, <1>3, <1>4, <2>1, <2>3, <3>2, <3>3, <3>4 DEF WaitInv, Before
  <2> QED
    BY <2>2, <2>3
<1> QED
  BY <1>1, <1>2, <1>4, <1>7, <1>8 DEF CalmInv

LEMMA OnPage ==
  ASSUME HostTypeOK, host.pc # "idle", PerPages \subseteq 1..Room
  PROVE  /\ host.page \in Nat \ {0} /\ host.per \in Nat \ {0} /\ host.per <= Room
         /\ host.count \in Nat /\ host.page <= MaxSession + 1
         /\ Before \in Nat /\ host.page * host.per = Before + host.per
         /\ host.page * host.per >= host.page
         /\ (host.page + 1 - 1) * host.per = host.page * host.per
<1>1. host.page \in 1..(MaxSession + 1) /\ host.per \in PerPages /\ host.count \in Nat
  BY DEF HostTypeOK, HostType
<1>2. host.per \in 1..Room
  BY <1>1
<1>3. /\ host.page \in Nat \ {0} /\ host.per \in Nat \ {0} /\ host.per <= Room
      /\ host.page <= MaxSession + 1
  BY <1>1, <1>2, SessionStoreAssumption
<1> QED
  BY <1>1, <1>3, Products DEF Before

LEMMA CalmSend ==
  ASSUME StoreInv, HostTypeOK, CalmInv, SyncSend, Follow, calm', [Next]_vars,
         PerPages \subseteq 1..Room
  PROVE  CalmInv'
<1>1. host.pc = "send" /\ at.pc = "ready"
  BY DEF SyncSend, AtList
<1>2. /\ calm /\ at'.pc \in {"ready", "entry"}
      /\ Cardinality(Listed') <= MaxIds /\ held' \subseteq Listed' /\ held' \subseteq held
      /\ Cardinality(Listed) <= MaxIds /\ Listed \in SUBSET Sessions
  BY <1>1, CalmStep DEF Listed
<1>3. Listed' = Listed
  BY DEF SyncSend, AtList, card, Listed
<1>4. SendInv
  BY <1>1, <1>2 DEF CalmInv
<1>5. /\ at'.pc = "entry" /\ at'.out = {} /\ at'.total = Cardinality(Listed)
      /\ at'.todo = Page(Listed, host.page, host.per)
  BY <1>2, CollectsAll DEF SyncSend, AtList, AtIdle
<1>6. /\ host'.pc = "wait" /\ host'.page = host.page /\ host'.per = host.per
      /\ host'.count = host.count /\ host'.seen = host.seen
      /\ host'.first = Max(at'.todo \union {None})
  BY DEF SyncSend, HostTypeOK, HostType
<1> DEFINE b == host.page * host.per
           P == Page(Listed, host.page, host.per)
<1>7. /\ Before \in Nat /\ b \in Nat /\ host.page \in Nat \ {0} /\ host.per \in Nat
  BY <1>1, OnPage
<1>8. /\ P \subseteq Listed /\ Cardinality(P) <= host.per
      /\ b < Cardinality(Listed) => Cardinality(P) = host.per
      /\ \A s \in Listed \ P : Rank(Listed, s) < Before
                                \/ (Rank(Listed, s) >= b /\ b < Cardinality(Listed))
  BY <1>2, <1>7, PageSize DEF Before
<1>9. Cardinality(Listed) <= MaxSession /\ \A s \in Sessions : Rank(Listed, s) \in Nat
  BY <1>2, Subsets, Ranks
<1>10. at'.out \union at'.todo = P /\ at'.out \intersect at'.todo = {}
  BY <1>5
<1>11. P # {} => host'.first \in P /\ \A r \in P : r <= host'.first
  BY <1>2, <1>5, <1>6, <1>8, NewestOf
<1>12. \A s \in held' :
          \/ s \in host.seen \union P
          \/ Rank(Listed, s) >= b /\ b < Cardinality(Listed) /\ host.count <= Before
  <2>1. \A s \in held : s \in host.seen \/ (Rank(Listed, s) >= Before /\ host.count <= Before)
    BY <1>1, <1>4 DEF SendInv
  <2> HIDE DEF b, P
  <2> QED
    BY <1>2, <1>3, <1>7, <1>8, <1>9, <2>1
<1> HIDE DEF P
<1>13. WaitInv'
  <2>1. host'.count = host.count /\ Before' = Before
    BY <1>6 DEF Before
  <2>2. \A s \in held' :
          \/ s \in host'.seen \union at'.out \union at'.todo
          \/ /\ Rank(Listed', s) >= host'.page * host'.per /\ host'.page * host'.per < at'.total
             /\ host'.count <= Before'
    BY <1>3, <1>5, <1>6, <1>10, <1>12, <2>1
  <2>3. /\ Cardinality(at'.out \union at'.todo) <= host'.per
        /\ host'.page * host'.per < at'.total => Cardinality(at'.out \union at'.todo) = host'.per
    BY <1>5, <1>6, <1>8, <1>10
  <2>4. at'.out = {} /\ (at'.todo = {} \/ (host'.first \in at'.todo
                                           /\ \A r \in at'.todo : r <= host'.first))
    BY <1>5, <1>10, <1>11
  <2> QED
    BY <1>5, <1>9, <1>10, <2>1, <2>2, <2>3, <2>4 DEF WaitInv
<1> QED
  BY <1>2, <1>6, <1>13 DEF CalmInv, SendInv

\* A reply that comes whole shows all of the page, and the last one ends the list
LEMMA CalmReply ==
  ASSUME StoreInv, HostTypeOK, CalmInv, SyncReply, Follow, calm', [Next]_vars,
         PerPages \subseteq 1..Room
  PROVE  CalmInv'
<1>1. host.pc = "wait" /\ AtDone
  BY DEF SyncReply
<1>2. /\ calm /\ host'.pc # "idle"
      /\ Cardinality(Listed') <= MaxIds /\ held' \subseteq Listed' /\ held' \subseteq held
      /\ held \subseteq Listed /\ Listed \in SUBSET Sessions
  BY <1>1, CalmStep DEF Listed
<1>3. WaitInv
  BY <1>1, <1>2 DEF CalmInv
<1>4. Listed' = Listed /\ at'.pc = "ready"
  BY <1>1 DEF AtDone, card, Listed, AtIdle
<1> DEFINE b == host.page * host.per
<1>5. /\ host.page \in Nat \ {0} /\ host.per \in Nat \ {0} /\ host.per <= Room
      /\ host.count \in Nat /\ host.page <= MaxSession + 1
      /\ Before \in Nat /\ b = Before + host.per /\ b >= host.page
      /\ (host.page + 1 - 1) * host.per = b
  BY <1>1, OnPage
<1>6. at.out \in SUBSET Sessions /\ at.todo \in SUBSET Sessions /\ at.total \in Nat
  BY DEF StoreInv, StoreTypeOK, AtType
<1>7. at.todo = {}
  <2>1. CASE Cardinality(at.out) >= Room
    <3>1. SUFFICES ASSUME NEW s \in at.todo PROVE FALSE
      OBVIOUS
    <3>2. at.out \union at.todo \in SUBSET Sessions
      BY <1>6
    <3>3. s \in at.out \union at.todo /\ at.out \in SUBSET ((at.out \union at.todo) \ {s})
      BY <1>1, <1>3 DEF WaitInv
    <3>4. Cardinality(at.out) < Cardinality(at.out \union at.todo)
      BY <3>2, <3>3, Subsets
    <3>5. Cardinality(at.out \union at.todo) <= host.per
      BY <1>1, <1>3 DEF WaitInv
    <3> QED
      BY <1>5, <1>6, <2>1, <3>2, <3>4, <3>5, Subsets, SessionStoreAssumption
  <2> QED
    BY <1>1, <2>1 DEF AtDone, Full
<1>8. ~Garbled
  BY <1>1, <1>3, <1>7 DEF Garbled, WaitInv
<1>9. at.out \union at.todo = at.out /\ Cardinality(at.out) \in Nat
  BY <1>6, <1>7, Subsets
<1>10. /\ Cardinality(at.out) <= host.per /\ at.total <= MaxSession
       /\ b < at.total => Cardinality(at.out) = host.per
  BY <1>1, <1>3, <1>9 DEF WaitInv
<1>11. \A s \in held :
          \/ s \in host.seen \union at.out
          \/ Rank(Listed, s) >= b /\ b < at.total /\ host.count <= Before
  BY <1>1, <1>3, <1>7 DEF WaitInv
<1>12. host' = [host EXCEPT !.pc = IF LastPage THEN "done" ELSE "send",
                            !.page = IF @ <= MaxSession THEN @ + 1 ELSE @,
                            !.count = IF @ <= MaxSession THEN Counted ELSE @,
                            !.seen = @ \union at.out,
                            !.total = IF host.page = 1 THEN at.total ELSE @]
  BY <1>8, Zenon DEF SyncReply
<1>13. /\ host'.pc = IF LastPage THEN "done" ELSE "send"
       /\ host'.page = IF host.page <= MaxSession THEN host.page + 1 ELSE host.page
       /\ host'.count = IF host.count <= MaxSession THEN Counted ELSE host.count
       /\ host'.seen = host.seen \union at.out
       /\ host'.per = host.per
  BY <1>12 DEF HostTypeOK, HostType
<1>14. b < at.total /\ host.count <= Before => ~LastPage /\ host.page <= MaxSession
  <2>1. at.out = {} => Cardinality(at.out) = 0
    BY FS_EmptySet
  <2> HIDE DEF b
  <2> QED
    BY <1>5, <1>6, <1>9, <1>10, <2>1, SessionStoreAssumption DEF LastPage, Counted
<1>15. host'.pc = "done" => held' \subseteq host'.seen
  BY <1>2, <1>11, <1>13, <1>14
<1>16. b < at.total /\ host.count <= Before => Before' = b /\ host'.count <= b
  <2> SUFFICES ASSUME b < at.total, host.count <= Before PROVE Before' = b /\ host'.count <= b
    OBVIOUS
  <2>1. host'.page = host.page + 1
    BY <1>13, <1>14
  <2>2. Before' = b
    BY <1>5, <1>13, <2>1 DEF Before
  <2>3. host'.count <= b
    <3> HIDE DEF b
    <3> QED
      BY <1>5, <1>9, <1>10, <1>13 DEF Counted
  <2> QED
    BY <2>2, <2>3
<1>17. SendInv'
  <2> HIDE DEF b
  <2> QED
    BY <1>2, <1>4, <1>11, <1>13, <1>16 DEF SendInv
<1> QED
  BY <1>2, <1>4, <1>13, <1>15, <1>17 DEF CalmInv, WaitInv

LEMMA CalmInvStep ==
  ASSUME StoreInv, HostTypeOK, CalmInv, [SyncNext]_syncVars, PerPages \subseteq 1..Room
  PROVE  CalmInv'
<1> SUFFICES ASSUME calm', host'.pc # "idle" PROVE CalmInv'
  BY DEF CalmInv
<1>1. [Next]_vars /\ StoreTypeOK
  BY SyncIsStore DEF StoreInv
<1>2. CASE SyncStart
  <2>1. Listed' = Listed /\ at' = at /\ Cardinality(Listed) <= MaxIds /\ at.pc = "ready"
    BY <1>2 DEF SyncStart, vars, card, Listed
  <2>2. held' \subseteq Listed
    BY <1>2 DEF SyncStart, WithFiles
  <2>3. PICK per \in PerPages : host' = [HostIdle EXCEPT !.pc = "send", !.per = per]
    BY <1>2 DEF SyncStart
  <2>4. host'.pc = "send" /\ host'.page = 1 /\ host'.per = per /\ host'.count = 0
    BY <2>3 DEF HostIdle
  <2>5. Before' = 0
    BY <2>4, SessionStoreAssumption DEF Before
  <2>6. \A s \in held' : Rank(Listed', s) >= Before'
    <3>1. Listed \in SUBSET Sessions
      BY DEF Listed
    <3>2. \A s \in Sessions : Rank(Listed, s) \in Nat
      BY <3>1, Ranks
    <3> QED
      BY <2>1, <2>2, <2>5, <3>1, <3>2
  <2> QED
    BY <2>1, <2>2, <2>4, <2>5, <2>6 DEF CalmInv, SendInv, WaitInv
<1>3. CASE SyncSend /\ Follow
  BY <1>1, <1>3, CalmSend
<1>4. CASE SyncReply /\ Follow
  BY <1>1, <1>4, CalmReply
<1>5. CASE Device /\ Follow
  BY <1>1, <1>5, CalmDevice
<1>6. ~(SyncLost /\ Follow)
  BY DEF SyncLost, Follow, HostTypeOK
<1>7. ~(SyncTimeout /\ Follow)
  BY DEF SyncTimeout, Follow, CalmInv, WaitInv
<1>8. CASE LateReply /\ Follow
  <2>1. host' = host /\ host.pc = "done"
    BY <1>8 DEF LateReply, AtDone, Follow, CalmInv, SendInv, HostTypeOK, HostType, HostPcs
  <2>2. /\ calm /\ at'.pc \in {"ready", "entry"} /\ held' \subseteq held
        /\ Cardinality(Listed') <= MaxIds /\ held' \subseteq Listed'
    BY <1>1, <1>8, <2>1, CalmStep
  <2> QED
    BY <2>1, <2>2 DEF CalmInv, SendInv, WaitInv
<1>9. ~SyncDone
  <2>1. HostIdle.pc = "idle"
    BY DEF HostIdle
  <2> QED
    BY <2>1 DEF SyncDone
<1>10. CASE UNCHANGED syncVars
  BY <1>10 DEF CalmInv, SendInv, WaitInv, Before, Listed, syncVars, vars, card, hostVars
<1> QED
  BY <1>2, <1>3, <1>4, <1>5, <1>6, <1>7, <1>8, <1>9, <1>10 DEF SyncNext

\* SessionStore's theorems hold of a device that a host lists: it is a SessionStore
THEOREM SyncKeepsStore == SyncSpec => Spec
<1> DEFINE Inv == StoreInv /\ HostTypeOK
<1>1. SyncInit => Inv /\ Init
  BY StoreInvInit, HostTypeInit DEF SyncInit
<1>2. Inv /\ [SyncNext]_syncVars => Inv'
  BY SyncIsStore, StoreInvStep, HostTypeStep
<1>3. Inv /\ [SyncNext]_syncVars => [Next]_vars
  BY SyncIsStore
<1> HIDE DEF Inv
<1> QED
  BY <1>1, <1>2, <1>3, PTL DEF SyncSpec, Spec

\* When the pages hosts ask for fit a reply, a sync without deletions, empty sessions
\* or losses finds every session that was on the card all along: for any number of
\* sessions, and whatever is recorded or transferred while it pages
THEOREM CalmSyncsAreComplete ==
  ASSUME PerPages \subseteq 1..Room
  PROVE  SyncSpec => []CalmSyncIsComplete
<1> DEFINE Inv == StoreInv /\ HostTypeOK /\ CalmInv
<1>1. SyncInit => Inv
  BY StoreInvInit, HostTypeInit DEF SyncInit, CalmInv, HostIdle
<1>2. Inv /\ [SyncNext]_syncVars => Inv'
  BY SyncIsStore, StoreInvStep, HostTypeStep, CalmInvStep
<1>3. Inv => CalmSyncIsComplete
  BY DEF CalmInv, CalmSyncIsComplete
<1> HIDE DEF Inv
<1> QED
  BY <1>1, <1>2, <1>3, PTL DEF SyncSpec
=============================================================================
