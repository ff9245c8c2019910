------------------------- MODULE Sm5440DirectProofs -------------------------
(***************************************************************************)
(* Proofs about Sm5440Direct: the direct charger composed with the SM5714  *)
(* driver, on top of the arbitration proved in Sm5714BatteryProofs.  The   *)
(* hypothesis is that the pump's registers and TCPM's return to the fixed  *)
(* contract do not fail; the SM5714's register accesses may.               *)
(***************************************************************************)
EXTENDS Sm5440Direct, Sm5714BatteryProofs

USE DEF env, muic, regs, flags, power, locks, locals

\* No failing access to the pump, no failing return to the fixed contract.
PumpObeys == PumpI2cFails = FALSE /\ TcpmFails = FALSE

-----------------------------------------------------------------------------
(* What the SM5714 driver owes the direct charger.                         *)

\* The port has one partner: no source is attached while the port is one.
SourceQuiet == SourcingPort => source = "none"

\* What a step of the SM5714 driver does to the port: it becomes a source only through
\* set_otg(true), which refuses when the direct charger owns the path or VBUS is there,
\* and a source attaches only to a port that is none.
SourcingStep ==
    /\ SourcingPort' /\ ~SourcingPort => ~direct /\ source' = "none"
    /\ source' \in {source, "none"} \/ (~SourcingPort /\ ~SourcingPort')

\* ... and to the direct charger's own call: the path changes hands only inside it, and
\* what it returns says who has the path.
DcStep ==
    /\ pc["dc"] # "d_open" => direct' = direct /\ dcRet' = dcRet /\ pc'["dc"] # "d_open"
    /\ pc["dc"] = "idle" => pc'["dc"] = "idle"
    /\ pc["dc"] = "unlock" => pc'["dc"] \in {"unlock", "idle"}
    /\ pc["dc"] = "d_open" =>
          \/ pc'["dc"] = "d_open" /\ direct' = direct
          \/ /\ pc'["dc"] = "unlock" /\ dcRet' \in {"ok", "error"}
             /\ dcRet' = "ok" => direct' = direct
             /\ dcRet' = "error" => direct' = FALSE

\* Both hold of every step of the SM5714 driver and its environment.
LEMMA BatteryOwes ==
    ASSUME ThreadsOK, Arbitration, NextButDcCall
    PROVE  SourcingStep /\ DcStep
<1> USE DEF SourcingStep, DcStep, SourcingPort, ThreadsOK, Threads, Goto, CallConfigure, Return,
            LeaveConfigure, MayEnter, MayCall
<1>0. \A t \in Threads : ret[t] \in {"idle", "unlock", "p_queue", "p_status", "p_book"}
  BY DEF Arbitration, LockDiscipline, ReturnLabels
<1>1. ASSUME NEW t \in Threads, Configure(t) PROVE SourcingStep /\ DcStep
  <2>1. /\ UNCHANGED <<source, otg, mode, direct, dcRet>>
        /\ pc[t] \in {"c_lock", "c_stop", "c_lower", "c_fast", "c_close", "c_raise"}
        /\ \E s \in {"c_stop", "c_lower", "c_fast", "c_close", "c_raise", ret[t]} :
              pc' = [pc EXCEPT ![t] = s]
    <3>1. CASE ConfigureBegin(t)
      BY <3>1 DEF ConfigureBegin
    <3>2. CASE ConfigureStop(t) \/ ConfigureError(t) \/ ConfigureRaise(t)
      BY <3>2 DEF ConfigureStop, ConfigureError, ConfigureRaise
    <3>3. CASE ConfigureLower(t) \/ ConfigureFast(t) \/ ConfigureClose(t)
      BY <3>3 DEF ConfigureLower, ConfigureFast, ConfigureClose
    <3> QED
      BY <1>1, <3>1, <3>2, <3>3 DEF Configure
  <2> QED
    BY <1>0, <2>1
<1>2. ASSUME NEW t \in Threads, Unlock(t) PROVE SourcingStep /\ DcStep
  BY <1>2 DEF Unlock
<1>3. ASSUME NEW c \in Contracts, SetPdContract(c) PROVE SourcingStep /\ DcStep
  BY <1>3 DEF SetPdContract
<1>4. CASE SetDirectOpen
  BY <1>4 DEF SetDirectOpen
<1>5. CASE SetOtgOn
  BY <1>5 DEF SetOtgOn, GetOnlineRaw
<1>6. CASE SetOtgOff
  BY <1>6 DEF SetOtgOff
<1>7. CASE SetOtgMuic \/ SetOtgOpen
  BY <1>7 DEF SetOtgMuic, SetOtgOpen
<1>8. CASE SetOtgBoost \/ SetOtgFlag
  BY <1>8 DEF SetOtgBoost, SetOtgFlag
<1>9. CASE SetOtgUndo \/ SetOtgCharge
  BY <1>9 DEF SetOtgUndo, SetOtgCharge
<1>10. CASE SetOtgClear
  BY <1>10 DEF SetOtgClear
<1>11. CASE FastChargeStore
  BY <1>11 DEF FastChargeStore
<1>12. CASE Poll
  <2>1. /\ UNCHANGED <<source, otg, mode, direct, dcRet>>
        /\ pc'["tcpm"] = pc["tcpm"] /\ pc'["dc"] = pc["dc"]
    <3>1. CASE Probe \/ ProbeQueue \/ PollSample
      BY <3>1 DEF Probe, ProbeQueue, PollSample
    <3>2. CASE PollThermal \/ PollStatus \/ PollRecover \/ PollBook
      BY <3>2 DEF PollThermal, PollStatus, PollRecover, PollBook
    <3> QED
      BY <1>12, <3>1, <3>2 DEF Poll
  <2> QED
    BY <2>1
<1>13. CASE Suspend \/ Resume
  BY <1>13 DEF Suspend, Resume
<1>14. CASE Environment
  BY <1>14 DEF Environment, Plug, Unplug, TempChange
<1> QED
  BY <1>1, <1>2, <1>3, <1>4, <1>5, <1>6, <1>7, <1>8, <1>9, <1>10, <1>11, <1>12, <1>13, <1>14
     DEF NextButDcCall, TcpmCall, TcpmInside, DcInside, SysfsInside, PollInside, SetOtgInside

-----------------------------------------------------------------------------
(* The direct charger.                                                     *)

Starting == {"s_init", "s_pps", "s_settle", "s_wdt"}
Running  == {"a_park", "a_refresh", "a_settle", "a_health", "a_wdt"}
Undoing  == {"r_pump", "r_wdt", "r_fixed", "r_direct"}
WLabels  == {"idle", "w_out", "s_direct", "s_opened", "on", "pok", "r_done"}
              \cup Starting \cup Running \cup Undoing

DirectTypeOK ==
    /\ wpc \in WLabels
    /\ pump \in BOOLEAN /\ wdt \in BOOLEAN /\ pps \in BOOLEAN /\ proven \in BOOLEAN
    /\ active \in BOOLEAN /\ suspending \in BOOLEAN /\ pending \in BOOLEAN
    /\ after \in {"retry", "backoff", "pm"} /\ pm \in {"up", "cancel", "park", "down"}

\* Between passes, and before or after a start.
AtRest == wpc \in {"idle", "w_out"}

\* The pump may switch, or be switched on, without another look at the bus.
Powered == wpc \in {"on", "pok"} \cup Running \/ (AtRest /\ active)

\* Who owns the battery path, by the place the work has reached.
PathInv ==
    /\ wpc \in {"on", "pok"} \cup Starting \cup Running \cup Undoing
          => direct /\ pc["dc"] = "idle"
    /\ AtRest => pc["dc"] = "idle" /\ (direct <=> active)
    /\ wpc = "s_direct" => ~direct /\ pc["dc"] = "idle"
    /\ wpc \in {"s_direct", "s_opened"} \cup Starting => ~active
    /\ wpc \in Running => active
    /\ wpc = "s_opened" => /\ pc["dc"] \in {"idle", "d_open", "unlock"}
                           /\ pc["dc"] = "d_open" => direct
                           /\ pc["dc"] # "d_open" => (direct <=> dcRet = "ok")
    /\ wpc = "r_done" => ~direct /\ pc["dc"] # "d_open"

\* When the pump is off for sure, and when it is watched and the port is no source.
PumpInv ==
    /\ pump => wpc \in {"pok", "a_park", "a_health", "a_wdt", "r_pump"} \/ (AtRest /\ active)
    /\ pump \/ Powered => wdt /\ ~SourcingPort
    /\ wpc = "s_wdt" => ~SourcingPort
    /\ pump \/ wpc \in {"s_wdt", "on"} => proven

\* A programmable contract lasts from the start to the restore.
PpsInv ==
    pps => wpc \in {"s_settle", "s_wdt", "on", "pok", "r_pump", "r_wdt", "r_fixed"} \cup Running
           \/ (AtRest /\ active)

\* The notifier and the work take turns.
PmInv ==
    /\ suspending <=> pm # "up"
    /\ pm = "park" <=> after = "pm"
    /\ pm = "park" => wpc \in Undoing \cup {"r_done"} /\ ~pending
    /\ pm = "down" => wpc = "idle" /\ ~pending /\ ~active

DirectInv ==
    /\ ThreadsOK /\ Arbitration /\ SourceQuiet
    /\ DirectTypeOK /\ PathInv /\ PumpInv /\ PpsInv /\ PmInv

\* The SM5714 driver's side of a step of the work that does not call into it.
LEMMA BatteryStays ==
    ASSUME ThreadsOK, Arbitration, SourceQuiet, UNCHANGED vars
    PROVE  /\ ThreadsOK' /\ Arbitration' /\ SourceQuiet'
           /\ pc' = pc /\ direct' = direct /\ dcRet' = dcRet /\ source' = source
           /\ SourcingPort' <=> SourcingPort
<1>1. ThreadsOK' /\ Arbitration'
  BY ThreadsNext, ArbitrationNext
<1> QED
  BY <1>1 DEF SourceQuiet, SourcingPort, vars

\* A pass begins or ends.
LEMMA PassKeeps ==
    ASSUME PumpObeys, DirectInv, WorkInactive \/ WorkActive \/ WorkOut
    PROVE  DirectInv'
<1> USE DEF PumpObeys, DirectInv, DirectTypeOK, PathInv, PumpInv, PpsInv, PmInv, AtRest, Powered, WLabels,
            Starting, Running, Undoing, WGoto, Restore, chip, port, state
<1>0. /\ ThreadsOK' /\ Arbitration' /\ SourceQuiet'
      /\ pc' = pc /\ direct' = direct /\ dcRet' = dcRet /\ source' = source
      /\ SourcingPort' <=> SourcingPort
  BY BatteryStays DEF WorkInactive, WorkActive, WorkOut
<1>1. CASE WorkInactive
  BY <1>0, <1>1 DEF WorkInactive
<1>2. CASE WorkActive
  BY <1>0, <1>2 DEF WorkActive
<1>3. CASE WorkOut
  BY <1>0, <1>3 DEF WorkOut
<1> QED
  BY <1>1, <1>2, <1>3

\* The steps of sm5440_start.
LEMMA StartKeeps ==
    ASSUME PumpObeys, DirectInv,
           \/ StartOpened \/ StartInit \/ StartPps \/ WaitSettled \/ StartWdt
           \/ PumpOn \/ PumpHolds \/ PumpNoLink
    PROVE  DirectInv'
<1> USE DEF PumpObeys, DirectInv, DirectTypeOK, PathInv, PumpInv, PpsInv, PmInv, AtRest, Powered,
            WLabels, Starting, Running, Undoing, WGoto, Restore, chip, port, state
<1>0. /\ ThreadsOK' /\ Arbitration' /\ SourceQuiet'
      /\ pc' = pc /\ direct' = direct /\ dcRet' = dcRet /\ source' = source
      /\ SourcingPort' <=> SourcingPort
  BY BatteryStays DEF StartOpened, StartInit, StartPps, WaitSettled, StartWdt, PumpOn,
     PumpHolds, PumpNoLink
<1>1. CASE StartOpened
  BY <1>0, <1>1 DEF StartOpened
<1>2. CASE StartInit
  BY <1>0, <1>2 DEF StartInit
<1>3. CASE StartPps
  BY <1>0, <1>3 DEF StartPps
<1>4. CASE WaitSettled
  BY <1>0, <1>4 DEF WaitSettled, SourceQuiet
<1>5. CASE StartWdt
  BY <1>0, <1>5 DEF StartWdt
<1>6. CASE PumpOn
  BY <1>0, <1>6 DEF PumpOn
<1>7. CASE PumpHolds
  BY <1>0, <1>7 DEF PumpHolds
<1>8. CASE PumpNoLink
  BY <1>0, <1>8 DEF PumpNoLink
<1> QED
  BY <1>1, <1>2, <1>3, <1>4, <1>5, <1>6, <1>7, <1>8

\* The refresh, the health check, the watchdog and the chip.
LEMMA ActiveKeeps ==
    ASSUME PumpObeys, DirectInv,
           \/ RefreshPark \/ RefreshPps \/ HealthBad \/ HealthGood \/ ServiceWdt
           \/ ChipTrips \/ UNCHANGED allvars
    PROVE  DirectInv'
<1> USE DEF PumpObeys, DirectInv, DirectTypeOK, PathInv, PumpInv, PpsInv, PmInv, AtRest, Powered,
            WLabels, Starting, Running, Undoing, WGoto, Restore, chip, port, state
<1>0. /\ ThreadsOK' /\ Arbitration' /\ SourceQuiet'
      /\ pc' = pc /\ direct' = direct /\ dcRet' = dcRet /\ source' = source
      /\ SourcingPort' <=> SourcingPort
  BY BatteryStays DEF RefreshPark, RefreshPps, HealthBad, HealthGood, ServiceWdt, ChipTrips,
     allvars
<1>1. CASE RefreshPark
  BY <1>0, <1>1 DEF RefreshPark
<1>2. CASE RefreshPps
  <2>1. proven' \in BOOLEAN
    BY <1>2 DEF RefreshPps
  <2> QED
    BY <1>0, <1>2, <2>1 DEF RefreshPps
<1>3. CASE HealthBad \/ HealthGood
  BY <1>0, <1>3 DEF HealthBad, HealthGood
<1>4. CASE ServiceWdt
  BY <1>0, <1>4 DEF ServiceWdt
<1>5. CASE ChipTrips
  BY <1>0, <1>5, ZenonT(40) DEF ChipTrips, work
<1>7. CASE UNCHANGED allvars
  BY <1>0, <1>7 DEF allvars, dvars, work
<1> QED
  BY <1>1, <1>2, <1>3, <1>4, <1>5, <1>7

\* sm5440_restore_switching, but for the call it makes, and the PM notifier.
LEMMA RestoreKeeps ==
    ASSUME PumpObeys, DirectInv,
           \/ RestorePump \/ RestoreWdt \/ RestoreFixed \/ RestoreDone
           \/ PmPrepare \/ PmCancelled \/ PmPost
    PROVE  DirectInv'
<1> USE DEF PumpObeys, DirectInv, DirectTypeOK, PathInv, PumpInv, PpsInv, PmInv, AtRest, Powered,
            WLabels, Starting, Running, Undoing, WGoto, Restore, chip, port, state
<1>0. /\ ThreadsOK' /\ Arbitration' /\ SourceQuiet'
      /\ pc' = pc /\ direct' = direct /\ dcRet' = dcRet /\ source' = source
      /\ SourcingPort' <=> SourcingPort
  BY BatteryStays DEF RestorePump, RestoreWdt, RestoreFixed, RestoreDone, PmPrepare,
     PmCancelled, PmPost
<1>1. CASE RestorePump
  BY <1>0, <1>1 DEF RestorePump
<1>2. CASE RestoreWdt
  BY <1>0, <1>2 DEF RestoreWdt
<1>3. CASE RestoreFixed
  <2>1. proven' \in BOOLEAN
    BY <1>3 DEF RestoreFixed
  <2> QED
    BY <1>0, <1>3, <2>1 DEF RestoreFixed
<1>4. CASE RestoreDone
  BY <1>0, <1>4 DEF RestoreDone
<1>5. CASE PmPrepare
  BY <1>0, <1>5, ZenonT(40) DEF PmPrepare
<1>6. CASE PmCancelled
  BY <1>0, <1>6 DEF PmCancelled
<1>7. CASE PmPost
  BY <1>0, <1>7 DEF PmPost
<1> QED
  BY <1>1, <1>2, <1>3, <1>4, <1>5, <1>6, <1>7

\* The calls of set_direct_charge.
LEMMA CallKeeps ==
    ASSUME PumpObeys, DirectInv, StartDirect \/ RestoreDirect
    PROVE  DirectInv'
<1> USE DEF PumpObeys, DirectInv, DirectTypeOK, PathInv, PumpInv, PpsInv, PmInv, AtRest, Powered,
            WLabels, Starting, Running, Undoing, WGoto, chip, port, state
<1>0. ThreadsOK' /\ Arbitration'
  BY ThreadsNext, ArbitrationNext DEF StartDirect, RestoreDirect, Next, DcCall
<1>1. CASE StartDirect
  <2>1. /\ UNCHANGED <<source, otg, mode>> /\ pc'["tcpm"] = pc["tcpm"]
        /\ \/ direct' = TRUE /\ pc'["dc"] = "d_open"
           \/ direct' = direct /\ pc'["dc"] = "idle" /\ dcRet' = "error"
    BY <1>1 DEF StartDirect, SetDirectOn, MayEnter, MayCall, Goto, ThreadsOK, Threads
  <2>2. SourceQuiet' /\ (SourcingPort' <=> SourcingPort)
    BY <2>1 DEF SourceQuiet, SourcingPort
  <2> QED
    BY <1>0, <1>1, <2>1, <2>2 DEF StartDirect
<1>2. CASE RestoreDirect
  <2>1. /\ UNCHANGED <<source, otg, mode>> /\ pc'["tcpm"] = pc["tcpm"]
        /\ direct' = FALSE /\ pc'["dc"] \in {"c_lock", "idle"}
    BY <1>2 DEF RestoreDirect, SetDirectOff, MayEnter, MayCall, CallConfigure, ThreadsOK, Threads
  <2>2. SourceQuiet' /\ (SourcingPort' <=> SourcingPort)
    BY <2>1 DEF SourceQuiet, SourcingPort
  <2> QED
    BY <1>0, <1>2, <2>1, <2>2 DEF RestoreDirect
<1> QED
  BY <1>1, <1>2

\* Any step of the SM5714 driver.
LEMMA BatteryKeeps ==
    ASSUME PumpObeys, DirectInv, BatteryStep
    PROVE  DirectInv'
<1> USE DEF PumpObeys, DirectInv, DirectTypeOK, PathInv, PumpInv, PpsInv, PmInv, AtRest, Powered,
            WLabels, Starting, Running, Undoing, chip, port, state, work
<1>0. ThreadsOK' /\ Arbitration'
  BY ThreadsNext, ArbitrationNext DEF BatteryStep, Next
<1>1. SourcingStep /\ DcStep
  BY BatteryOwes DEF BatteryStep
<1>2. /\ UNCHANGED <<pump, wdt, active, suspending, pm, pending, wpc, after>>
      /\ proven' = proven /\ (pps' = FALSE \/ pps' = pps)
  BY DEF BatteryStep
<1>3. SourceQuiet'
  BY <1>1 DEF SourceQuiet, SourcingStep
<1>4. direct /\ ~SourcingPort => ~SourcingPort'
  BY <1>1 DEF SourcingStep
<1>5. DirectTypeOK' /\ PpsInv' /\ PmInv'
  <2>1. CASE pps' = FALSE
    <3>1. pps' \in BOOLEAN /\ ~pps'
      BY <2>1
    <3> QED
      BY <1>2, <3>1
  <2>2. CASE pps' = pps
    BY <1>2, <2>2
  <2> QED
    BY <1>2, <2>1, <2>2
<1>6. PathInv'
  BY <1>1, <1>2 DEF DcStep
<1>7. PumpInv'
  BY <1>2, <1>4
<1> QED
  BY <1>0, <1>3, <1>5, <1>6, <1>7

\* The driver is probed with the pump off.
LEMMA DirectInitInv == DirectInit => DirectInv
<1> SUFFICES ASSUME DirectInit PROVE DirectInv
  OBVIOUS
<1>1. ThreadsOK /\ Arbitration
  BY TypeInit, ArbitrationInit DEF DirectInit, TypeOK
<1>2. pc["dc"] = "idle" /\ ~SourcingPort /\ direct = FALSE
  BY DEF DirectInit, Init, SourcingPort, Threads
<1> QED
  BY <1>1, <1>2 DEF DirectInit, DirectInv, DirectTypeOK, PathInv, PumpInv, PpsInv, PmInv, AtRest,
     Powered, WLabels, Starting, Running, Undoing, SourceQuiet

\* Every step of the two drivers keeps the invariant.
LEMMA DirectNextInv == PumpObeys /\ DirectInv /\ [DirectNext]_allvars => DirectInv'
  BY PassKeeps, StartKeeps, ActiveKeeps, RestoreKeeps, CallKeeps, BatteryKeeps
     DEF DirectNext, WorkStep

\* While the pump switches, its watchdog is armed, the SM5714 driver knows that the direct
\* charger owns the path and is not boosting, and the ADC has read the bus near its target
\* since the last request: for every set of
\* sources, temperatures, callers and register failures of the SM5714, through start,
\* refresh, trips, unplugging and suspend.
THEOREM PumpSafety == PumpObeys => (DirectSpec => []PumpGuarded)
<1> SUFFICES ASSUME PumpObeys PROVE DirectSpec => []PumpGuarded
  OBVIOUS
<1>1. DirectInv => PumpGuarded
  BY DEF DirectInv, PathInv, PumpInv, AtRest, Running, Undoing, SourcingPort, PumpGuarded,
     PumpHasWatchdog, PumpOwnsPath, NoSwitchingAcrossStep
<1>2. DirectInv /\ [DirectNext]_allvars => DirectInv'
  BY DirectNextInv
<1> QED
  BY <1>1, <1>2, DirectInitInv, PTL DEF DirectSpec

\* Whatever ended a pass, sm5440_restore_switching was complete: an inactive driver at rest
\* has neither a switching pump nor a programmable contract, and after PM_SUSPEND_PREPARE
\* nothing runs, nothing is scheduled and the path is back with the SM5714 driver.
THEOREM RestoreSafety == PumpObeys => (DirectSpec => []RestoredAtRest)
<1> SUFFICES ASSUME PumpObeys PROVE DirectSpec => []RestoredAtRest
  OBVIOUS
<1>1. DirectInv => RestoredAtRest
  BY DEF DirectInv, PathInv, PumpInv, PpsInv, PmInv, AtRest, Running, Undoing, RestoredAtRest,
     FailureRestores, ParkedInSleep
<1>2. DirectInv /\ [DirectNext]_allvars => DirectInv'
  BY DirectNextInv
<1> QED
  BY <1>1, <1>2, DirectInitInv, PTL DEF DirectSpec
=============================================================================
