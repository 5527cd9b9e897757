------------------------------- MODULE MCCard -------------------------------
(***************************************************************************)
(* Instances of ListSync, of the SessionStore under it, of CardPower and of  *)
(* SessionClock for TLC.  Each behaviour works on one part of the card:       *)
(*   - "store": its sessions, with everybody at work and nobody listing, or    *)
(*     with a host that lists what is being recorded;                         *)
(*   - "power": its power and its mount;                                     *)
(*   - "clock": the ids its sessions get.                                    *)
(***************************************************************************)
EXTENDS MCListSync, MCCardPower, SessionClock

VARIABLE part

cardVars == <<syncVars, powerVars, clockVars, part>>

\* With nobody listing, the client and the state of the first session are moot
StoreStart ==
    /\ left # Quiet <=> todo = NoSync
    /\ left # Quiet => who = "app" /\ hist.fin[1] = 1

\* The parts that do not work rest in one state
StoreRests ==
    /\ left = Quiet /\ todo = NoSync /\ who = "app"
    /\ \A r \in Sessions : hist.fin[r] = 0 /\ On(r) = {}
PowerRests == allowed = Records

CardInit ==
    /\ SyncInit /\ PowerInit /\ ClockInit
    /\ \/ part = "store" /\ StoreStart /\ PowerRests
       \/ part = "power" /\ StoreRests
       \/ part = "clock" /\ StoreRests /\ PowerRests

Storing  == part = "store" /\ UNCHANGED <<powerVars, clockVars, part>>
Powering == part = "power" /\ UNCHANGED <<syncVars, clockVars, part>>
Clocking == part = "clock" /\ UNCHANGED <<syncVars, powerVars, part>>

CardNext ==
    \/ Storing /\ SyncNext
    \/ Powering /\ PowerNext
    \/ Clocking /\ ClockNext

\* The fairness of each, for its part
CardSpec ==
    /\ CardInit /\ [][CardNext]_cardVars
    /\ WF_cardVars(Storing /\ AtWorks)
    /\ WF_cardVars(Storing /\ SyncSend /\ Follow)
    /\ WF_cardVars(Storing /\ SyncReply /\ Follow)
    /\ WF_cardVars(Storing /\ LateReply /\ Follow)
    /\ WF_cardVars(Storing /\ SyncTimeout /\ Follow)
    /\ WF_cardVars(Storing /\ SyncDone)
    /\ WF_cardVars(Powering /\ WorkQueue)
    /\ \A t \in Threads : WF_cardVars(Powering /\ ResumeEnd(t))

\* A device that nobody uses switches its card off (storage_idle_poweroff), in
\* the behaviours that are about its power
CardSwitchesOff == (part = "power") => IdleSwitchesOff
=============================================================================
