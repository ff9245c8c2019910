---------------------------- MODULE Sm5714Battery ----------------------------
(***************************************************************************)
(* The SM5714 charger driver (kernel/files/sm5714_battery.c).              *)
(*                                                                         *)
(* Four kernel threads run inside the driver:                              *)
(*   "poll"   the one-second delayed work sm5714_poll_work, and, before    *)
(*            its first pass, the tail of sm5714_probe;                    *)
(*   "tcpm"   the USB Type-C port manager, which calls set_pd_contract     *)
(*            and set_otg through the SM5714 USB-PD driver;                *)
(*   "dc"     the SM5440 direct charger, which calls set_direct_charge;    *)
(*   "sysfs"  a write to the fast_charge attribute.                        *)
(* They share the charger registers, the flags of struct sm5714_battery,   *)
(* and two mutexes: sm5714_global_lock, taken by the exported functions,   *)
(* and chg_lock, taken around the register sequences.  A step of the model *)
(* is the code between two points where another thread may act on what it  *)
(* reads or writes.                                                        *)
(*                                                                         *)
(* With I2cFails, every register access may fail; a failed access leaves   *)
(* the register as it was.                                                 *)
(***************************************************************************)
EXTENDS Integers

CONSTANTS
    Temps,      \* pack temperatures, in tenths of a degree
    MaxDrift,   \* how far the temperature moves during one poll pass
    Contracts,  \* [mv, ma] records TCPM may announce
    Sources,    \* what the MUIC may classify an attached source as
    I2cFails,   \* whether register accesses may fail
    Callers     \* which of "tcpm", "dc" and "sysfs" call into the driver

ASSUME TempsAssumption     == Temps \subseteq Int /\ Temps # {}
ASSUME MaxDriftAssumption  == MaxDrift \in Nat
ASSUME ContractsAssumption == Contracts \subseteq [mv : Nat, ma : Nat]
ASSUME SourcesAssumption   == Sources \subseteq {"DCP", "CDP", "SDP", "UNKNOWN"}
ASSUME I2cFailsAssumption  == I2cFails \in BOOLEAN
ASSUME CallersAssumption   == Callers \subseteq {"tcpm", "dc", "sysfs"}

VARIABLES
    source,     \* attached source: "none" or its MUIC class       (environment)
    temp,       \* pack temperature                                (environment)
    drifted,    \* it has moved since the poll last sampled        (environment)
    q4,         \* CNTL1.ENQ4FET: the switching path is closed     (register)
    mode,       \* CNTL2 mode: "charging" or "otg" (the boost)     (register)
    inputMa,    \* VBUSCNTL, as the limit it encodes               (register)
    fastMa,     \* CHGCNTL2, as the current it encodes             (register)
    manual,     \* MUIC MANUAL_SW: D+/D- forced to the SoC         (register)
    bc12off,    \* MUIC CNTL.BC12OFF                               (register)
    typec,      \* typec_mv, typec_ma
    thermal,    \* thermal_state
    direct,     \* direct_charging
    otg,        \* otg_active
    fast,       \* fast_charge
    lastOnline, \* last_online
    queued,     \* poll_work is pending
    awake,      \* the system is not suspended
    globalLock, \* holder of sm5714_global_lock
    chgLock,    \* holder of chg_lock
    pc,         \* where each thread is
    ret,        \* where each thread continues after configure_charging
    job,        \* locals of configure_charging, for the holder of chg_lock
    snap,       \* locals of poll_work
    dcRet       \* what the last set_direct_charge returned

env      == <<source, temp, drifted>>
muic     == <<manual, bc12off>>
regs     == <<q4, mode, inputMa, fastMa, muic>>
flags    == <<typec, thermal, direct, otg, fast, lastOnline>>
power    == <<queued, awake>>
locks    == <<globalLock, chgLock>>
locals   == <<job, snap, dcRet>>
vars     == <<env, regs, flags, power, locks, pc, ret, locals>>

Threads  == {"poll", "tcpm", "dc", "sysfs"}
Nobody   == "nobody"
Thermals == {"NORMAL", "REDUCED", "STOP"}

MinOf(a, b) == IF a < b THEN a ELSE b

-----------------------------------------------------------------------------
(* What the driver reads from the chips.                                   *)

\* VBUS_POK: an external source, or the driver's own boost.
GetOnlineRaw == source # "none" \/ mode = "otg"

GetOnline == ~otg /\ GetOnlineRaw

\* STATUS2.CHG_ON needs the switching path; the chip may drop it on its own.
ChgOn == IF q4 /\ source # "none" THEN BOOLEAN ELSE {FALSE}

\* The only status poll_work branches on: POWER_SUPPLY_STATUS_NOT_CHARGING.
\* (TOPOFF, which reports FULL, is one of the ways for chgOn to matter.)
GetStatusNotCharging(chgOn) ==
    ~otg /\ GetOnlineRaw /\ ~direct /\ ~chgOn

GetUsbType ==
    IF ~GetOnline THEN "UNKNOWN"
    ELSE IF typec.mv > 5000 THEN "PD"
    ELSE IF source = "none" THEN "UNKNOWN" ELSE source

\* The next thermal band: 46 and 50 degrees up, 46 and 42 degrees down.
ChargeThermalState(cur, t) ==
    CASE cur = "STOP" /\ t >= 460                -> "STOP"
      [] cur = "STOP" /\ t > 420 /\ t < 460      -> "REDUCED"
      [] cur = "REDUCED" /\ t > 420 /\ t >= 500  -> "STOP"
      [] cur = "REDUCED" /\ t > 420 /\ t < 500   -> "REDUCED"
      [] OTHER -> IF t >= 500 THEN "STOP"
                  ELSE IF t >= 460 THEN "REDUCED" ELSE "NORMAL"

\* Input and battery current for the source, before the thermal reduction.
SourceBudget(usbType) ==
    IF typec.mv >= 5000 /\ typec.ma >= 500
    THEN IF fast
         THEN [input |-> MinOf(typec.ma, 3000), fast |-> 3150]
         ELSE [input |-> MinOf(typec.ma, IF typec.mv > 5000 THEN 1660 ELSE 3000),
               fast  |-> 2800]
    ELSE CASE usbType = "DCP" -> [input |-> 1800, fast |-> 2100]
           [] usbType = "CDP" -> [input |-> 1500, fast |-> 1500]
           [] OTHER           -> [input |-> 500,  fast |-> 500]

\* Mutant: the warm band takes 2.1 A off instead of capping at it.
MutBudget(usbType, th) ==
    LET b == SourceBudget(usbType)
    IN  IF th = "REDUCED" THEN [b EXCEPT !.fast = b.fast - 2100] ELSE b

Budget(usbType, th) ==
    LET b == SourceBudget(usbType)
    IN  IF th = "REDUCED" THEN [b EXCEPT !.fast = MinOf(b.fast, 2100)] ELSE b

-----------------------------------------------------------------------------
(* sm5714_configure_charging, run by thread t from "c_lock" to ret[t].     *)

Goto(t, l) == pc' = [pc EXCEPT ![t] = l]

CallConfigure(t, back) ==
    /\ pc'  = [pc  EXCEPT ![t] = "c_lock"]
    /\ ret' = [ret EXCEPT ![t] = back]

\* Go back to the caller.  Locals that are dead get a fixed value, so that
\* they do not tell states apart.
Return(t) ==
    /\ Goto(t, ret[t])
    /\ ret' = [ret EXCEPT ![t] = "idle"]

NoJob  == [input |-> 0, fast |-> 0]
NoSnap == [online |-> "no", idle |-> FALSE, old |-> "NORMAL"]

\* Leave configure_charging: drop chg_lock and return.
LeaveConfigure(t) ==
    /\ chgLock' = Nobody
    /\ job' = NoJob
    /\ Return(t)
    /\ UNCHANGED <<globalLock, snap, dcRet>>

\* Mutant: the otg_active check is missing.
MutConfigureBegin(t) ==
    /\ pc[t] = "c_lock" /\ chgLock = Nobody
    /\ thermal' = ChargeThermalState(thermal, temp)
    /\ job' = IF thermal' = "STOP" THEN NoJob ELSE Budget(GetUsbType, thermal')
    /\ Goto(t, IF thermal' = "STOP" THEN "c_stop" ELSE "c_lower")
    /\ chgLock' = t
    /\ UNCHANGED <<env, regs, typec, direct, otg, fast, lastOnline, power,
                   globalLock, ret, snap, dcRet>>

\* Take chg_lock; back out if the boost is on or the source type cannot be
\* read; otherwise settle the thermal band and choose the currents.
ConfigureBegin(t) ==
    /\ pc[t] = "c_lock" /\ chgLock = Nobody
    /\ \/ /\ otg \/ I2cFails
          /\ Return(t)
          /\ UNCHANGED <<chgLock, thermal, job>>
       \/ /\ ~otg
          /\ \E th \in {ChargeThermalState(thermal, temp)}
                         \cup (IF I2cFails THEN {thermal} ELSE {}) :
                /\ thermal' = th
                /\ job' = IF th = "STOP" THEN NoJob ELSE Budget(GetUsbType, th)
                /\ Goto(t, IF th = "STOP" THEN "c_stop" ELSE "c_lower")
          /\ chgLock' = t
          /\ UNCHANGED ret
    /\ UNCHANGED <<env, regs, typec, direct, otg, fast, lastOnline, power,
                   globalLock, snap, dcRet>>

\* Mutant: the thermal stop returns without dropping chg_lock.
MutConfigureStop(t) ==
    /\ pc[t] = "c_stop"
    /\ q4' = FALSE
    /\ Return(t)
    /\ UNCHANGED <<env, mode, inputMa, fastMa, muic, flags, power, locks, locals>>

ConfigureStop(t) ==
    /\ pc[t] = "c_stop"
    /\ q4' = FALSE \/ (I2cFails /\ q4' = q4)
    /\ LeaveConfigure(t)
    /\ UNCHANGED <<env, mode, inputMa, fastMa, muic, flags, power>>

\* A register write of the enabling sequence fails: give up half-way.
ConfigureError(t) ==
    /\ I2cFails
    /\ pc[t] \in {"c_lower", "c_fast", "c_close", "c_raise"}
    /\ LeaveConfigure(t)
    /\ UNCHANGED <<env, regs, flags, power>>

\* Mutant: Q4 is closed at the old input limit.
MutConfigureLower(t) ==
    /\ pc[t] = "c_lower"
    /\ Goto(t, "c_fast")
    /\ UNCHANGED <<env, regs, flags, power, locks, ret, locals>>

ConfigureLower(t) ==
    /\ pc[t] = "c_lower"
    /\ inputMa' = 500
    /\ Goto(t, "c_fast")
    /\ UNCHANGED <<env, q4, mode, fastMa, muic, flags, power, locks, ret, locals>>

\* Battery current and float voltage (the latter is a fixed board value).
ConfigureFast(t) ==
    /\ pc[t] = "c_fast"
    /\ fastMa' = job.fast
    /\ Goto(t, "c_close")
    /\ UNCHANGED <<env, q4, mode, inputMa, muic, flags, power, locks, ret, locals>>

ConfigureClose(t) ==
    /\ pc[t] = "c_close"
    /\ q4' = TRUE
    /\ Goto(t, "c_raise")
    /\ UNCHANGED <<env, mode, inputMa, fastMa, muic, flags, power, locks, ret, locals>>

ConfigureRaise(t) ==
    /\ pc[t] = "c_raise"
    /\ inputMa' = job.input
    /\ LeaveConfigure(t)
    /\ UNCHANGED <<env, q4, mode, fastMa, muic, flags, power>>

Configure(t) ==
    \/ ConfigureBegin(t) \/ ConfigureStop(t) \/ ConfigureError(t)
    \/ ConfigureLower(t) \/ ConfigureFast(t)
    \/ ConfigureClose(t) \/ ConfigureRaise(t)

\* Thread t enters an exported function and takes the global lock.
MayCall(t)    == t \in Callers /\ pc[t] = "idle"
MayEnter(t)   == MayCall(t) /\ globalLock = Nobody

\* The exported functions end by dropping the global lock.
Unlock(t) ==
    /\ pc[t] = "unlock"
    /\ globalLock' = Nobody
    /\ Goto(t, "idle")
    /\ UNCHANGED <<env, regs, flags, power, chgLock, ret, locals>>

-----------------------------------------------------------------------------
(* Exported functions.                                                     *)

\* sm5714_battery_set_pd_contract, for values the range check accepts (for
\* any other it returns -ERANGE before it touches anything).
InRange(c) == (c.mv = 0 \/ (c.mv >= 5000 /\ c.mv <= 9000)) /\ c.ma <= 3000

\* Mutant: a contract reconfigures whoever owns the battery path.
MutSetPdContract(c) ==
    /\ MayEnter("tcpm")
    /\ typec' = c
    /\ c.mv # 0 /\ c.ma # 0 /\ GetOnline
    /\ globalLock' = "tcpm"
    /\ CallConfigure("tcpm", "unlock")
    /\ UNCHANGED <<env, regs, thermal, direct, otg, fast, lastOnline, power,
                   chgLock, locals>>

SetPdContract(c) ==
    /\ MayEnter("tcpm")
    /\ InRange(c)
    /\ typec' = c
    /\ \/ /\ c.mv # 0 /\ c.ma # 0 /\ GetOnline /\ ~direct
          /\ globalLock' = "tcpm"
          /\ CallConfigure("tcpm", "unlock")
       \/ /\ I2cFails \/ ~(c.mv # 0 /\ c.ma # 0 /\ GetOnline /\ ~direct)
          /\ UNCHANGED <<globalLock, pc, ret>>
    /\ UNCHANGED <<env, regs, thermal, direct, otg, fast, lastOnline, power,
                   chgLock, locals>>

\* sm5714_battery_set_direct_charge(true).
SetDirectOn ==
    /\ MayEnter("dc")
    /\ \/ /\ temp >= 100 /\ temp < 420
          /\ direct' = TRUE
          /\ globalLock' = "dc"
          /\ Goto("dc", "d_open")
          /\ UNCHANGED dcRet
       \/ /\ I2cFails \/ temp < 100 \/ temp >= 420
          /\ dcRet' = "error"
          /\ UNCHANGED <<direct, globalLock, pc>>
    /\ UNCHANGED <<env, regs, typec, thermal, otg, fast, lastOnline, power,
                   chgLock, ret, job, snap>>

SetDirectOpen ==
    /\ pc["dc"] = "d_open" /\ chgLock = Nobody
    /\ \/ /\ q4' = FALSE
          /\ dcRet' = "ok"
          /\ UNCHANGED direct
       \/ /\ I2cFails
          /\ direct' = FALSE
          /\ dcRet' = "error"
          /\ UNCHANGED q4
    /\ Goto("dc", "unlock")
    /\ UNCHANGED <<env, mode, inputMa, fastMa, muic, typec, thermal, otg, fast,
                   lastOnline, power, locks, ret, job, snap>>

\* sm5714_battery_set_direct_charge(false).
SetDirectOff ==
    /\ MayEnter("dc")
    /\ direct' = FALSE
    /\ \/ /\ GetOnline
          /\ globalLock' = "dc"
          /\ CallConfigure("dc", "unlock")
       \/ /\ I2cFails \/ ~GetOnline
          /\ UNCHANGED <<globalLock, pc, ret>>
    /\ UNCHANGED <<env, regs, typec, thermal, otg, fast, lastOnline, power,
                   chgLock, locals>>

\* sm5714_muic_set_otg_path(true) switches BC1.2 off, then forces the path; if
\* the second fails BC1.2 is put back, if that works.
MuicManual == manual' = TRUE /\ bc12off' = TRUE
MuicManualFailed == I2cFails /\ manual' = manual /\ bc12off' \in {bc12off, TRUE}

\* Mutant: MANUAL_SW is left alone.
MutMuicAuto == manual' = manual /\ bc12off' = FALSE

\* sm5714_muic_set_otg_path(false) undoes them in the opposite order.
MuicAuto == manual' = FALSE /\ bc12off' = FALSE
MuicAutoFailed == I2cFails /\ manual' \in {manual, FALSE} /\ bc12off' = bc12off

\* sm5714_battery_set_otg(true), up to chg_lock.
SetOtgOn ==
    /\ MayEnter("tcpm")
    /\ ~otg /\ ~direct /\ ~GetOnlineRaw
    /\ globalLock' = "tcpm"
    /\ Goto("tcpm", "o_muic")
    /\ UNCHANGED <<env, regs, flags, power, chgLock, ret, locals>>

SetOtgMuic ==
    /\ pc["tcpm"] = "o_muic" /\ chgLock = Nobody
    /\ chgLock' = "tcpm"
    /\ \/ MuicManual /\ Goto("tcpm", "o_open")
       \/ MuicManualFailed /\ Goto("tcpm", "o_undo")
    /\ UNCHANGED <<env, q4, mode, inputMa, fastMa, flags, power, globalLock,
                   ret, locals>>

SetOtgOpen ==
    /\ pc["tcpm"] = "o_open"
    /\ \/ q4' = FALSE /\ Goto("tcpm", "o_boost")
       \/ I2cFails /\ q4' = q4 /\ Goto("tcpm", "o_undo")
    /\ UNCHANGED <<env, mode, inputMa, fastMa, muic, flags, power, locks,
                   ret, locals>>

\* BSTCNTL1 (a fixed 5.1 V / 900 mA), then the boost mode itself.
SetOtgBoost ==
    /\ pc["tcpm"] = "o_boost"
    /\ \/ mode' = "otg" /\ Goto("tcpm", "o_flag")
       \/ I2cFails /\ mode' = mode /\ Goto("tcpm", "o_undo")
    /\ UNCHANGED <<env, q4, inputMa, fastMa, muic, flags, power, locks,
                   ret, locals>>

SetOtgFlag ==
    /\ pc["tcpm"] = "o_flag"
    /\ otg' = TRUE
    /\ chgLock' = Nobody
    /\ Goto("tcpm", "unlock")
    /\ UNCHANGED <<env, regs, typec, thermal, direct, fast, lastOnline, power,
                   globalLock, ret, locals>>

SetOtgUndo ==
    /\ pc["tcpm"] = "o_undo"
    /\ MuicAuto \/ MuicAutoFailed
    /\ chgLock' = Nobody
    /\ Goto("tcpm", "unlock")
    /\ UNCHANGED <<env, q4, mode, inputMa, fastMa, flags, power, globalLock,
                   ret, locals>>

\* sm5714_battery_set_otg(false), up to chg_lock.
SetOtgOff ==
    /\ MayEnter("tcpm")
    /\ otg
    /\ globalLock' = "tcpm"
    /\ Goto("tcpm", "o_charge")
    /\ UNCHANGED <<env, regs, flags, power, chgLock, ret, locals>>

\* Mutant: otg_active is cleared although the boost could not be stopped.
MutSetOtgCharge ==
    /\ pc["tcpm"] = "o_charge" /\ chgLock = Nobody
    /\ mode' = "charging" \/ (I2cFails /\ mode' = mode)
    /\ chgLock' = "tcpm" /\ Goto("tcpm", "o_clear")
    /\ UNCHANGED <<env, q4, inputMa, fastMa, muic, flags, power, globalLock,
                   ret, locals>>

SetOtgCharge ==
    /\ pc["tcpm"] = "o_charge" /\ chgLock = Nobody
    /\ \/ mode' = "charging" /\ chgLock' = "tcpm" /\ Goto("tcpm", "o_clear")
       \/ I2cFails /\ Goto("tcpm", "unlock") /\ UNCHANGED <<mode, chgLock>>
    /\ UNCHANGED <<env, q4, inputMa, fastMa, muic, flags, power, globalLock,
                   ret, locals>>

\* otg_active goes first, then the MUIC; only a complete restore looks for a
\* source, and it reconfigures charging after the global lock is dropped.
SetOtgClear ==
    /\ pc["tcpm"] = "o_clear"
    /\ otg' = FALSE
    /\ chgLock' = Nobody
    /\ globalLock' = Nobody
    /\ \/ /\ MuicAuto
          /\ \/ GetOnlineRaw /\ CallConfigure("tcpm", "idle")
             \/ (I2cFails \/ ~GetOnlineRaw) /\ Goto("tcpm", "idle") /\ UNCHANGED ret
       \/ /\ MuicAutoFailed
          /\ Goto("tcpm", "idle") /\ UNCHANGED ret
    /\ UNCHANGED <<env, q4, mode, inputMa, fastMa, typec, thermal, direct, fast,
                   lastOnline, power, locals>>

SetOtgInside ==
    \/ SetOtgMuic \/ SetOtgOpen \/ SetOtgBoost \/ SetOtgFlag
    \/ SetOtgUndo \/ SetOtgCharge \/ SetOtgClear

\* fast_charge_store: an unlocked flag, then an unconditional reconfigure.
FastChargeStore ==
    /\ MayCall("sysfs") /\ awake
    /\ fast' = ~fast
    /\ CallConfigure("sysfs", "idle")
    /\ UNCHANGED <<env, regs, typec, thermal, direct, otg, lastOnline, power,
                   locks, locals>>

-----------------------------------------------------------------------------
(* The tail of sm5714_probe, and sm5714_poll_work.                         *)

\* A source that is present but does not charge is configured at once.
Probe ==
    /\ pc["poll"] = "probe"
    /\ \E chgOn \in ChgOn :
          IF GetOnline /\ GetStatusNotCharging(chgOn)
          THEN lastOnline' = TRUE /\ CallConfigure("poll", "p_queue")
          ELSE /\ lastOnline' = GetOnline
               /\ Goto("poll", "p_queue") /\ UNCHANGED ret
    /\ UNCHANGED <<env, regs, typec, thermal, direct, otg, fast, power, locks,
                   locals>>

ProbeQueue ==
    /\ pc["poll"] = "p_queue"
    /\ queued' = TRUE
    /\ Goto("poll", "idle")
    /\ UNCHANGED <<env, regs, flags, awake, locks, ret, locals>>

\* The pass starts by sampling status, VBUS and the thermal band.
PollSample ==
    /\ pc["poll"] = "idle" /\ queued
    /\ queued' = FALSE /\ drifted' = FALSE
    /\ \E chgOn \in ChgOn :
          \/ snap' = [online |-> IF GetOnline THEN "yes" ELSE "no",
                      idle   |-> GetStatusNotCharging(chgOn),
                      old    |-> thermal]
          \/ /\ I2cFails
             /\ \E on \in {"error", IF GetOnline THEN "yes" ELSE "no"} :
                  snap' = [online |-> on, idle |-> FALSE, old |-> thermal]
    /\ Goto("poll", "p_thermal")
    /\ UNCHANGED <<source, temp, regs, flags, awake, locks, ret, job, dcRet>>

\* Mutant: a new thermal band is only recorded.
MutPollThermal ==
    /\ pc["poll"] = "p_thermal"
    /\ thermal' = IF snap.online = "yes" THEN ChargeThermalState(thermal, temp)
                                         ELSE thermal
    /\ Goto("poll", "p_recover")
    /\ UNCHANGED <<env, regs, typec, direct, otg, fast, lastOnline, power,
                   locks, ret, locals>>

\* A new thermal band reconfigures at once, whoever owns the battery path.
PollThermal ==
    /\ pc["poll"] = "p_thermal"
    /\ \/ /\ snap.online = "yes"
          /\ thermal' = ChargeThermalState(thermal, temp)
       \/ /\ I2cFails \/ snap.online # "yes"
          /\ UNCHANGED thermal
    /\ IF snap.online = "yes" /\ thermal' # snap.old
       THEN CallConfigure("poll", "p_status")
       ELSE Goto("poll", "p_recover") /\ UNCHANGED ret
    /\ UNCHANGED <<env, regs, typec, direct, otg, fast, lastOnline, power,
                   locks, locals>>

PollStatus ==
    /\ pc["poll"] = "p_status"
    /\ \E chgOn \in ChgOn :
          \/ snap' = [snap EXCEPT !.idle = GetStatusNotCharging(chgOn)]
          \/ I2cFails /\ snap' = [snap EXCEPT !.idle = FALSE]
    /\ Goto("poll", "p_recover")
    /\ UNCHANGED <<env, regs, flags, power, locks, ret, job, dcRet>>

\* Recover an open Q4, unless the direct charger or the heat holds it open.
RecoverWanted ==
    snap.online = "yes" /\ ~direct /\ snap.idle /\ thermal # "STOP" /\ ~q4

PollRecover ==
    /\ pc["poll"] = "p_recover"
    /\ \/ RecoverWanted /\ CallConfigure("poll", "p_book")
       \/ (I2cFails \/ ~RecoverWanted) /\ Goto("poll", "p_book") /\ UNCHANGED ret
    /\ UNCHANGED <<env, regs, flags, power, locks, locals>>

\* Bookkeeping of VBUS; a disconnect opens Q4, without taking chg_lock.
PollBook ==
    /\ pc["poll"] = "p_book"
    /\ IF snap.online = "error"
       THEN UNCHANGED <<lastOnline, q4>>
       ELSE /\ lastOnline' = (snap.online = "yes")
            /\ \/ q4' = IF lastOnline /\ ~lastOnline' THEN FALSE ELSE q4
               \/ I2cFails /\ q4' = q4
    /\ queued' = TRUE
    /\ snap' = NoSnap
    /\ Goto("poll", "idle")
    /\ UNCHANGED <<env, mode, inputMa, fastMa, muic, typec, thermal, direct, otg,
                   fast, awake, locks, ret, job, dcRet>>

Poll == Probe \/ ProbeQueue \/ PollSample \/ PollThermal \/ PollStatus \/ PollRecover \/ PollBook

\* sm5714_suspend waits for a running pass and cancels the pending one; user
\* space is frozen by then.  sm5714_resume polls at once.
Suspend ==
    /\ awake /\ pc["poll"] = "idle" /\ pc["sysfs"] = "idle"
    /\ awake' = FALSE /\ queued' = FALSE
    /\ UNCHANGED <<env, regs, flags, locks, pc, ret, locals>>

\* Mutant: resume does not schedule the poll again.
MutResume ==
    /\ ~awake
    /\ awake' = TRUE
    /\ UNCHANGED <<env, regs, flags, queued, locks, pc, ret, locals>>

Resume ==
    /\ ~awake
    /\ awake' = TRUE /\ queued' = TRUE
    /\ UNCHANGED <<env, regs, flags, locks, pc, ret, locals>>

-----------------------------------------------------------------------------
(* The world around the driver.                                            *)

\* The connector has one partner: no source attaches while TCPM makes the port
\* a source itself.  Once the boost is off the partner of a Source-to-Sink swap
\* may drive VBUS, while set_otg(false) still restores the rest.
SourcingPort ==
    mode = "otg" \/ pc["tcpm"] \in {"o_muic", "o_open", "o_boost", "o_flag"}

Plug ==
    /\ source = "none" /\ ~SourcingPort
    /\ source' \in Sources
    /\ UNCHANGED <<temp, drifted, regs, flags, power, locks, pc, ret, locals>>

Unplug ==
    /\ source # "none"
    /\ source' = "none"
    /\ UNCHANGED <<temp, drifted, regs, flags, power, locks, pc, ret, locals>>

\* A pass of the poll is short against the heating of the pack: between two
\* samples the temperature moves at most MaxDrift, once.
TempChange ==
    /\ drifted => ~awake
    /\ drifted' = TRUE
    /\ \E t \in Temps \ {temp} :
          /\ t - temp <= MaxDrift /\ temp - t <= MaxDrift
          /\ temp' = t
    /\ UNCHANGED <<source, regs, flags, power, locks, pc, ret, locals>>

Environment == Plug \/ Unplug \/ TempChange

-----------------------------------------------------------------------------
\* The driver has registered itself and is about to run the tail of
\* sm5714_probe.  The bootloader leaves Q4 in either state.
Init ==
    /\ source \in Sources \cup {"none"} /\ temp \in Temps /\ drifted = FALSE
    /\ q4 \in BOOLEAN /\ mode = "charging" /\ inputMa = 500 /\ fastMa = 500
    /\ manual = FALSE /\ bc12off = FALSE
    /\ typec = [mv |-> 0, ma |-> 0] /\ thermal = "NORMAL"
    /\ direct = FALSE /\ otg = FALSE /\ fast = FALSE /\ lastOnline = FALSE
    /\ queued = FALSE /\ awake = TRUE
    /\ globalLock = Nobody /\ chgLock = Nobody
    /\ pc = [t \in Threads |-> IF t = "poll" THEN "probe" ELSE "idle"]
    /\ ret = [t \in Threads |-> "idle"]
    /\ job = NoJob
    /\ snap = NoSnap
    /\ dcRet = "ok"

\* A thread enters the driver, or takes one more step inside it.
TcpmCall    == SetOtgOn \/ SetOtgOff \/ \E c \in Contracts : SetPdContract(c)
DcCall      == SetDirectOn \/ SetDirectOff
TcpmInside  == Configure("tcpm") \/ Unlock("tcpm") \/ SetOtgInside
DcInside    == Configure("dc") \/ Unlock("dc") \/ SetDirectOpen
SysfsInside == Configure("sysfs")
PollInside  == Configure("poll") \/ Poll

\* Everything but the calls of the direct charger, which has its own module.
NextButDcCall ==
    \/ TcpmCall \/ TcpmInside \/ DcInside \/ FastChargeStore \/ SysfsInside
    \/ PollInside \/ Suspend \/ Resume \/ Environment

Next == NextButDcCall \/ DcCall

Spec == Init /\ [][Next]_vars

\* The scheduler runs every thread that has work, and a kernel mutex is handed
\* over in the order it was asked for, so a waiter is not passed over forever.
\* Calls into the driver, plugging, heating and suspending are never forced;
\* a suspended system is taken to wake up.
Fairness ==
    /\ SF_vars(PollInside) /\ WF_vars(Resume)
    /\ "tcpm"  \in Callers => SF_vars(TcpmInside)
    /\ "dc"    \in Callers => SF_vars(DcInside)
    /\ "sysfs" \in Callers => SF_vars(SysfsInside)

FairSpec == Spec /\ Fairness

-----------------------------------------------------------------------------
(* Properties.                                                             *)

ConfigureBody == {"c_stop", "c_lower", "c_fast", "c_close", "c_raise"}
OtgBody       == {"o_open", "o_boost", "o_flag", "o_undo", "o_clear"}
PollLabels    == {"probe", "p_queue", "p_thermal", "p_status", "p_recover", "p_book"}
Labels        == {"idle", "unlock", "c_lock", "d_open", "o_muic", "o_charge"}
                   \cup ConfigureBody \cup OtgBody \cup PollLabels

SwitchesOK ==
    /\ drifted \in BOOLEAN /\ q4 \in BOOLEAN
    /\ manual \in BOOLEAN /\ bc12off \in BOOLEAN
    /\ direct \in BOOLEAN /\ otg \in BOOLEAN /\ fast \in BOOLEAN
    /\ lastOnline \in BOOLEAN /\ queued \in BOOLEAN /\ awake \in BOOLEAN

ValuesOK ==
    /\ source \in Sources \cup {"none"} /\ temp \in Temps
    /\ mode \in {"charging", "otg"} /\ inputMa \in Nat /\ fastMa \in Nat
    /\ typec \in [mv : Nat, ma : Nat] /\ thermal \in Thermals
    /\ job \in [input : Nat, fast : Nat]
    /\ snap \in [online : {"yes", "no", "error"}, idle : BOOLEAN, old : Thermals]
    /\ dcRet \in {"ok", "error"}

ThreadsOK ==
    /\ globalLock \in Threads \cup {Nobody} /\ chgLock \in Threads \cup {Nobody}
    /\ pc \in [Threads -> Labels] /\ ret \in [Threads -> Labels]

\* Every variable of the driver, its registers and its threads has its type.
TypeOK == SwitchesOK /\ ValuesOK /\ ThreadsOK

\* "Q4 must remain open while the boost drives the connector" (set_otg): no
\* interleaving of the poll, TCPM, the direct charger and a sysfs write
\* closes the switching path while the charger block is in boost mode.
BoostImpliesQ4Open == mode = "otg" => ~q4

\* Outside chg_lock, otg_active says exactly whether the boost is on, also
\* after a set_otg that failed half-way.
OtgFlagTracksBoost == chgLock = Nobody => (otg <=> mode = "otg")

\* configure_charging lowers the input limit before it closes Q4, and nothing
\* another thread does in between raises it again.
ClosesAtLowInput == [][~q4 /\ q4' => inputMa = 500]_vars

\* set_direct_charge keeps "a later TCPM PPS update from closing Q4 behind the
\* direct charger": while set_pd_contract reconfigures, the direct charger
\* neither owns the battery path nor can take it.
PdUpdateRespectsDirect ==
    globalLock = "tcpm" /\ pc["tcpm"] \in {"c_lock"} \cup ConfigureBody => ~direct

\* No thread is reconfiguring or has decided to.
Settled == \A t \in Threads : pc[t] \notin {"c_lock"} \cup ConfigureBody

\* Once nobody is reconfiguring, the charger obeys the thermal band the driver
\* has recorded: the hard stop at 50 degrees leaves Q4 open, the warm band
\* charges the pack with at most 2.1 A.
ThermalBandObeyed ==
    Settled => /\ thermal = "STOP" => ~q4
               /\ thermal = "REDUCED" /\ q4 => fastMa <= 2100

\* When set_otg(false) has nothing left to do, because otg_active is clear,
\* the MUIC is back to automatic switching, as the comment above
\* sm5714_muic_set_otg_path promises.
MuicAutomaticAfterOtg == ~otg /\ pc["tcpm"] = "idle" => ~manual /\ ~bc12off

\* poll_work recovers the switching path: a source on a cool pack that neither
\* the boost nor the direct charger claims ends up charging.
Chargeable == source # "none" /\ temp < 460 /\ ~otg /\ ~direct
RecoversCharging == Chargeable ~> (q4 \/ ~Chargeable)

\* The two mutexes never leave everyone waiting: every call into the driver
\* returns, and every pass of the poll ends.
CallsReturn == \A t \in Threads : pc[t] # "idle" ~> pc[t] = "idle"

-----------------------------------------------------------------------------
(* What the arbitration rests on, as an inductive invariant.               *)

ReturnLabels == {"idle", "unlock", "p_queue", "p_status", "p_book"}

\* configure_charging and the register part of set_otg run under chg_lock, and
\* configure_charging only while the boost is off.
LockDiscipline ==
    /\ \A t \in Threads : ret[t] \in ReturnLabels
    /\ \A t \in Threads : pc[t] \in ConfigureBody => chgLock = t /\ ~otg
    /\ pc["tcpm"] \in OtgBody => chgLock = "tcpm"

\* How far set_otg has got, and what that says of the mode and of Q4.
BoostProgress ==
    /\ mode = "otg" => ~q4 /\ (otg \/ pc["tcpm"] = "o_flag")
    /\ otg => mode = "otg" \/ pc["tcpm"] = "o_clear"
    /\ pc["tcpm"] \in {"o_boost", "o_flag"} => ~q4
    /\ pc["tcpm"] = "o_flag" => mode = "otg"
    /\ pc["tcpm"] = "o_charge" => otg
    /\ pc["tcpm"] = "o_clear" => mode = "charging"

LowInputBeforeClose ==
    \A t \in Threads : pc[t] \in {"c_fast", "c_close"} => inputMa = 500

\* The registers, the flags and the two mutexes fit together at every step of
\* every thread: the facts that make the properties above inductive.
Arbitration ==
    LockDiscipline /\ BoostProgress /\ LowInputBeforeClose /\ PdUpdateRespectsDirect
=============================================================================
