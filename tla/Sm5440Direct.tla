---------------------------- MODULE Sm5440Direct ----------------------------
(***************************************************************************)
(* The SM5440 2:1 direct charger (kernel/files/sm5440_direct.c), composed  *)
(* with the SM5714 charger driver it takes the battery path from.          *)
(*                                                                         *)
(* The driver is one delayed work and a PM notifier.  The work starts the  *)
(* pump on a programmable (PPS) contract, keeps the contract alive, checks *)
(* the pump's health and hands the pack back to the switching charger.  It *)
(* calls into the SM5714 driver as its "dc" thread.  TCPM and the charge   *)
(* pump itself are outside the repository's code: a PPS request may be     *)
(* refused, the bus may or may not get near its new target, and the chip   *)
(* may drop CHG_ON by itself.                                              *)
(***************************************************************************)
EXTENDS Sm5714Battery

CONSTANTS
    RefreshTicks,   \* SM5440_REFRESH_TICKS
    MaxFails,       \* SM5440_MAX_FAILS
    PumpI2cFails,   \* whether SM5440 register accesses may fail
    TcpmFails       \* whether the return to the fixed contract may fail

ASSUME RefreshAssumption == RefreshTicks \in Nat \ {0}
ASSUME FailsAssumption   == MaxFails \in Nat \ {0}
ASSUME FaultsAssumption  == PumpI2cFails \in BOOLEAN /\ TcpmFails \in BOOLEAN

VARIABLES
    pump,       \* CNTL5.CHG_ON: the pump is switching          (register)
    wdt,        \* CNTL1.WDT_EN: the hardware watchdog is armed (register)
    pps,        \* the port is on a programmable contract       (TCPM)
    proven,     \* the ADC has read the bus near its target since the last
                \* request; no guard reads it                   (history)
    active,     \* sm->active
    ticks,      \* sm->pps_ticks
    fails,      \* sm->fails
    suspending, \* sm->suspending
    pending,    \* sm->work is scheduled
    delay,      \* ... with this delay: "poll", "retry", "backoff", "quiet"
    wpc,        \* where the work (or the notifier's restore) is
    after,      \* what follows a restore: "retry", "backoff" or "pm"
    pm          \* "up", "cancel", "park" or "down": the PM notifier

chip   == <<pump, wdt>>
port   == <<pps, proven>>
work   == <<pending, delay, wpc, after>>
state  == <<active, ticks, fails, suspending, pm>>
dvars  == <<chip, port, state, work>>
allvars == <<vars, dvars>>

WGoto(l) == wpc' = l

\* Start the restore sequence; `then' happens when it is over.
Restore(then) == wpc' = "r_pump" /\ after' = then

\* sm5440_backoff: exponential delays, then a quiet period.
Backoff ==
    /\ fails' = MinOf(fails + 1, MaxFails)
    /\ delay' = IF fails' >= MaxFails THEN "quiet" ELSE "backoff"

-----------------------------------------------------------------------------
(* sm5440_work.                                                            *)

\* sm5440_eligible, with TCPM's view of the source; capacity and voltage may
\* be in or out of range at any time.
MayBeEligible == source # "none" /\ temp >= 100 /\ temp < 420

WorkInactive ==
    /\ pending /\ wpc = "idle" /\ ~active
    /\ pending' = FALSE
    /\ \/ fast /\ MayBeEligible /\ WGoto("s_direct") /\ UNCHANGED <<delay, fails>>
       \/ fast /\ MayBeEligible /\ WGoto("w_out") /\ Backoff
       \/ WGoto("w_out") /\ delay' = "retry" /\ UNCHANGED fails
    /\ UNCHANGED <<vars, chip, port, active, ticks, suspending, pm, after>>

\* Mutant: the fast-charge switch is only looked at before a start.
MutWorkActive ==
    /\ pending /\ wpc = "idle" /\ active
    /\ pending' = FALSE
    /\ IF ticks + 1 >= RefreshTicks
       THEN ticks' = 0 /\ WGoto("a_park")
       ELSE ticks' = ticks + 1 /\ WGoto("a_health")
    /\ UNCHANGED <<vars, chip, port, active, fails, suspending, pm, delay, after>>

\* An active pass: hand the pack back if fast charging went off, refresh the
\* contract every RefreshTicks passes, then check the pump.
WorkActive ==
    /\ pending /\ wpc = "idle" /\ active
    /\ pending' = FALSE
    /\ \/ ~fast /\ Restore("retry") /\ UNCHANGED ticks
       \/ /\ fast
          /\ IF ticks + 1 >= RefreshTicks
             THEN ticks' = 0 /\ WGoto("a_park")
             ELSE ticks' = ticks + 1 /\ WGoto("a_health")
          /\ UNCHANGED after
    /\ UNCHANGED <<vars, chip, port, active, fails, suspending, pm, delay>>

\* The work ends; the notifier owns rescheduling while suspending.
WorkOut ==
    /\ wpc = "w_out"
    /\ WGoto("idle")
    /\ pending' = ~suspending
    /\ UNCHANGED <<vars, chip, port, state, delay, after>>

-----------------------------------------------------------------------------
(* sm5440_start.                                                           *)

\* set_direct_charge(true) opens Q4 while VBUS is on the fixed contract.
StartDirect ==
    /\ wpc = "s_direct"
    /\ SetDirectOn
    /\ WGoto("s_opened")
    /\ UNCHANGED <<chip, port, state, pending, delay, after>>

StartOpened ==
    /\ wpc = "s_opened" /\ pc["dc"] = "idle"
    /\ \/ dcRet = "ok" /\ WGoto("s_init") /\ UNCHANGED <<fails, delay>>
       \/ dcRet = "error" /\ WGoto("w_out") /\ Backoff
    /\ UNCHANGED <<vars, chip, port, active, ticks, suspending, pm, pending, after>>

\* sm5440_hw_init: a software reset and the board's register values.
StartInit ==
    /\ wpc = "s_init"
    /\ \/ pump' = FALSE /\ wdt' = FALSE /\ WGoto("s_pps") /\ UNCHANGED after
       \/ /\ PumpI2cFails /\ Restore("backoff")
          /\ UNCHANGED chip \/ (pump' = FALSE /\ wdt' = FALSE)
    /\ UNCHANGED <<vars, port, state, pending, delay>>

\* sm5440_negotiate_pps, then frequency and input limit for the granted
\* current.  A source that refuses the current walk is put back on the fixed
\* contract, and so is one that is never reached.
StartPps ==
    /\ wpc = "s_pps"
    /\ \/ /\ source # "none"
          /\ pps' = TRUE /\ proven' = FALSE
          /\ \/ WGoto("s_settle") /\ UNCHANGED after
             \/ PumpI2cFails /\ Restore("backoff")
       \/ /\ Restore("backoff")
          /\ \/ UNCHANGED port
             \/ source # "none" /\ pps' \in {FALSE, TcpmFails} /\ proven' = FALSE
    /\ UNCHANGED <<vars, chip, state, pending, delay>>

\* sm5440_wait_vbus_settled, for the first contract and for a refreshed one: it
\* succeeds with the first reading above the target less 500 mV, which the bus may
\* reach while it still moves, and gives up when no reading was.
WaitSettled ==
    /\ wpc \in {"s_settle", "a_settle"}
    /\ \/ /\ source # "none" /\ proven' = TRUE
          /\ WGoto(IF wpc = "s_settle" THEN "s_wdt" ELSE "on") /\ UNCHANGED after
       \/ Restore("backoff") /\ UNCHANGED proven
    /\ UNCHANGED <<vars, chip, pps, state, pending, delay>>

StartWdt ==
    /\ wpc = "s_wdt"
    /\ \/ wdt' = TRUE /\ WGoto("on") /\ UNCHANGED after
       \/ PumpI2cFails /\ Restore("backoff") /\ UNCHANGED wdt
    /\ UNCHANGED <<vars, pump, port, state, pending, delay>>

\* sm5440_pump_on: set CHG_ON, then poll for VBUSPOK.  The failing exits leave
\* CHG_ON as it is.
PumpOn ==
    /\ wpc = "on"
    /\ \/ pump' = TRUE /\ WGoto("pok") /\ UNCHANGED after
       \/ PumpI2cFails /\ Restore("backoff") /\ UNCHANGED pump
    /\ UNCHANGED <<vars, wdt, port, state, pending, delay>>

\* The pump holds: the end of sm5440_start, or of sm5440_renegotiate_pps.
PumpHolds ==
    /\ wpc = "pok" /\ source # "none"
    /\ active' = TRUE
    /\ IF active
       THEN WGoto("a_health") /\ UNCHANGED <<ticks, fails, delay>>
       ELSE ticks' = 0 /\ fails' = 0 /\ delay' = "poll" /\ WGoto("w_out")
    /\ UNCHANGED <<vars, chip, port, suspending, pm, pending, after>>

PumpNoLink ==
    /\ wpc = "pok"
    /\ Restore("backoff")
    /\ UNCHANGED <<vars, chip, port, state, pending, delay>>

-----------------------------------------------------------------------------
(* The active pump.                                                        *)

\* Mutant: the contract is refreshed under a switching pump.
MutRefreshPark ==
    /\ wpc = "a_park" /\ WGoto("a_refresh")
    /\ UNCHANGED <<vars, chip, port, state, pending, delay, after>>

\* sm5440_renegotiate_pps parks the pump, then refreshes the contract.
RefreshPark ==
    /\ wpc = "a_park"
    /\ \/ pump' = FALSE /\ WGoto("a_refresh") /\ UNCHANGED after
       \/ PumpI2cFails /\ Restore("backoff") /\ UNCHANGED pump
    /\ UNCHANGED <<vars, wdt, port, state, pending, delay>>

RefreshPps ==
    /\ wpc = "a_refresh"
    /\ \/ source # "none" /\ proven' = FALSE /\ WGoto("a_settle") /\ UNCHANGED after
       \/ Restore("backoff") /\ proven' \in {proven, FALSE}
    /\ UNCHANGED <<vars, chip, pps, state, pending, delay>>

\* The health check fails for a pump that stopped or lost its bus, and may
\* fail for capacity, temperatures, voltages or an unreadable register.
HealthBad ==
    /\ wpc = "a_health"
    /\ Restore("backoff")
    /\ UNCHANGED <<vars, chip, port, state, pending, delay>>

HealthGood ==
    /\ wpc = "a_health" /\ pump /\ source # "none" /\ temp < 450
    /\ WGoto("a_wdt")
    /\ UNCHANGED <<vars, chip, port, state, pending, delay, after>>

\* Service the watchdog; a complete healthy pass forgets earlier failures.
ServiceWdt ==
    /\ wpc = "a_wdt"
    /\ \/ /\ wdt' = TRUE /\ fails' = 0 /\ delay' = "poll"
          /\ WGoto("w_out") /\ UNCHANGED after
       \/ PumpI2cFails /\ Restore("backoff") /\ UNCHANGED <<wdt, fails, delay>>
    /\ UNCHANGED <<vars, pump, port, active, ticks, suspending, pm, pending>>

-----------------------------------------------------------------------------
(* sm5440_restore_switching: every result is ignored.                      *)

RestorePump ==
    /\ wpc = "r_pump"
    /\ pump' = FALSE \/ (PumpI2cFails /\ pump' = pump)
    /\ WGoto("r_wdt")
    /\ UNCHANGED <<vars, wdt, port, state, pending, delay, after>>

RestoreWdt ==
    /\ wpc = "r_wdt"
    /\ wdt' = FALSE \/ (PumpI2cFails /\ wdt' = wdt)
    /\ WGoto("r_fixed")
    /\ UNCHANGED <<vars, pump, port, state, pending, delay, after>>

RestoreFixed ==
    /\ wpc = "r_fixed"
    /\ \/ pps' = FALSE /\ proven' = (proven /\ ~pps)
       \/ TcpmFails /\ UNCHANGED port
    /\ WGoto("r_direct")
    /\ UNCHANGED <<vars, chip, state, pending, delay, after>>

RestoreDirect ==
    /\ wpc = "r_direct"
    /\ SetDirectOff
    /\ WGoto("r_done")
    /\ UNCHANGED <<chip, port, state, pending, delay, after>>

RestoreDone ==
    /\ wpc = "r_done" /\ pc["dc"] = "idle"
    /\ ticks' = 0 /\ active' = FALSE
    /\ \/ after = "pm" /\ WGoto("idle") /\ pm' = "down" /\ UNCHANGED <<fails, delay>>
       \/ /\ after = "retry" /\ WGoto("w_out") /\ delay' = "retry"
          /\ UNCHANGED <<fails, pm>>
       \/ after = "backoff" /\ WGoto("w_out") /\ Backoff /\ UNCHANGED pm
    /\ after' = "retry"
    /\ UNCHANGED <<vars, chip, port, suspending, pending>>

-----------------------------------------------------------------------------
(* sm5440_pm_notify.                                                       *)

\* PM_SUSPEND_PREPARE: no new pass; wait for the running one ...
PmPrepare ==
    /\ pm = "up" /\ awake
    /\ suspending' = TRUE /\ pending' = FALSE
    /\ pm' = "cancel"
    /\ UNCHANGED <<vars, chip, port, active, ticks, fails, delay, wpc, after>>

\* Mutant: the notifier only stops the polling.
MutPmCancelled ==
    /\ pm = "cancel" /\ wpc = "idle"
    /\ pending' = FALSE /\ pm' = "down"
    /\ UNCHANGED <<vars, chip, port, active, ticks, fails, suspending, delay,
                   wpc, after>>

\* ... then park the pump and hand the pack back.
PmCancelled ==
    /\ pm = "cancel" /\ wpc = "idle"
    /\ pending' = FALSE
    /\ IF active
       THEN /\ pump' = FALSE \/ (PumpI2cFails /\ pump' = pump)
            /\ Restore("pm") /\ pm' = "park"
       ELSE pm' = "down" /\ UNCHANGED <<pump, wpc, after>>
    /\ UNCHANGED <<vars, wdt, port, active, ticks, fails, suspending, delay>>

\* PM_POST_SUSPEND, after the devices have resumed.
PmPost ==
    /\ pm = "down" /\ awake
    /\ suspending' = FALSE /\ pending' = TRUE /\ delay' = "poll"
    /\ pm' = "up"
    /\ UNCHANGED <<vars, chip, port, active, ticks, fails, wpc, after>>

-----------------------------------------------------------------------------
(* The pump, the port and the SM5714 driver.                               *)

\* Reverse blocking, over-voltage, the watchdog...: the chip clears CHG_ON.
ChipTrips ==
    /\ pump /\ pump' = FALSE
    /\ UNCHANGED <<vars, wdt, port, state, work>>

\* Any step of the SM5714 driver or its environment.  Devices suspend after
\* the notifiers have run, and a detached port loses its contract.
BatteryStep ==
    /\ NextButDcCall
    /\ awake /\ ~awake' => pm = "down"
    /\ IF source # "none" /\ source' = "none"
       THEN pps' = FALSE ELSE UNCHANGED pps
    /\ UNCHANGED <<proven, chip, state, work>>

DirectInit ==
    /\ Init
    /\ pump = FALSE /\ wdt = FALSE /\ pps = FALSE /\ proven = FALSE
    /\ active = FALSE /\ ticks = 0 /\ fails = 0 /\ suspending = FALSE
    /\ pending = TRUE /\ delay = "poll" /\ wpc = "idle" /\ after = "retry"
    /\ pm = "up"

WorkStep ==
    \/ WorkInactive \/ WorkActive \/ WorkOut
    \/ StartDirect \/ StartOpened \/ StartInit \/ StartPps \/ WaitSettled
    \/ StartWdt \/ PumpOn \/ PumpHolds \/ PumpNoLink
    \/ RefreshPark \/ RefreshPps \/ HealthBad \/ HealthGood \/ ServiceWdt
    \/ RestorePump \/ RestoreWdt \/ RestoreFixed \/ RestoreDirect \/ RestoreDone
    \/ PmCancelled \/ PmPost

DirectNext == WorkStep \/ PmPrepare \/ ChipTrips \/ BatteryStep

DirectSpec == DirectInit /\ [][DirectNext]_allvars

\* The workqueue runs what is scheduled and lets it finish; suspended systems
\* wake up.  Whether a request is granted, the bus settles or the pump holds is
\* not forced.
DirectFairness ==
    /\ SF_allvars(WorkStep)
    /\ SF_allvars(DcInside /\ BatteryStep) /\ SF_allvars(PollInside /\ BatteryStep)
    /\ "sysfs" \in Callers => SF_allvars(SysfsInside /\ BatteryStep)
    /\ WF_allvars(Resume /\ BatteryStep)

-----------------------------------------------------------------------------
(* Properties.                                                             *)

\* The pump never switches without the hardware watchdog that would stop it
\* if the driver dies: it is armed before CHG_ON and disarmed after it.
PumpHasWatchdog == pump => wdt

\* The pump only switches while the SM5714 driver knows that the direct charger
\* owns the battery path, so its boost is locked out as well.
PumpOwnsPath == pump => direct /\ mode # "otg"

\* "Let the SM5440's own ADC prove the physical bus is ready before touching
\* CHG_ON": between a request that moves the bus and a reading near its target the
\* pump never switches, at the first contract, at a refresh and at the return to the
\* fixed one.  (The reading may come while the bus still moves; nothing here says
\* that it has come to rest.)
NoSwitchingAcrossStep == pump => proven

\* A switching pump is guarded on every side at once, through start, refresh,
\* health check, trip, unplugging and suspend: by the watchdog, by the ownership of
\* the battery path in the other driver, and by a bus that was measured since it was
\* last asked to move.
PumpGuarded == PumpHasWatchdog /\ PumpOwnsPath /\ NoSwitchingAcrossStep

\* "Every failure turns the pump off and restores the fixed-PD switching
\* charger": between passes an inactive driver has neither a switching pump
\* nor a programmable contract.
FailureRestores == wpc = "idle" /\ ~active => ~pump /\ ~pps

\* Once PM_SUSPEND_PREPARE is through, "the poll must neither run nor be
\* scheduled", the pump is parked and the pack is back with the SM5714 driver.
ParkedInSleep ==
    pm = "down" => /\ wpc = "idle" /\ ~pending
                   /\ ~active /\ ~pump /\ ~pps /\ ~direct

\* Whatever ended a pass, restore_fixed was complete: at rest and asleep nothing of
\* direct charging is left.
RestoredAtRest == FailureRestores /\ ParkedInSleep

\* "turning fast charging off hands the pack back to the switching charger".
HandsBack == (active /\ ~fast) ~> ((~pump /\ ~direct) \/ fast)

\* The pack is not left with both paths off: a direct charger that owns the
\* path gets its pump going or gives the path back.
NeverStranded == (direct /\ ~pump) ~> (pump \/ ~direct)

\* The battery path is never stuck between the two drivers: a user who turns fast
\* charging off gets the switching charger back, and a path that was taken over is
\* used or given back.
HandsOver == HandsBack /\ NeverStranded

\* set_direct_charge keeps everything else "from closing Q4 behind the direct
\* charger": the two battery paths are never on together.
PathsExclusive == pump => ~q4
=============================================================================
