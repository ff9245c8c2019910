------------------------------- MODULE Cameras -------------------------------
(***************************************************************************)
(* The rear camera: the sensor, src/kernel/files/hi1337_gts9u.c, and the   *)
(* motor of its lens, src/kernel/files/dw9808_vcm.c.  They are drivers of  *)
(* their own that share the 1.8 V rail: each enables it for itself, and    *)
(* the motor's chip forgets its initialisation when both have let it go.   *)
(*                                                                         *)
(* Streaming and the controls run under sensor->mutex; probe does not take *)
(* it, and the sensor is registered before probe has powered it off.  The  *)
(* motor's control has a lock of its own.                                  *)
(***************************************************************************)
EXTENDS Integers

CONSTANTS CmTop,       \* bound: vblank and exposure range over 0 .. CmTop
          CmMaxUsers,  \* bound: open files of the motor
          CmLines      \* the module's GPIO lines: {"reset"}, or {"enable", "reset"}

ASSUME CmAssumption == CmTop \in Nat /\ CmMaxUsers \in Nat
ASSUME CmLinesAssumption == CmLines \in {{"reset"}, {"enable", "reset"}}

VARIABLES
    cmBound,   \* the sensor's driver is bound
    cmProbing, \* hi1337_probe: "no", "alone", or "visible" to s_stream already
    cmCall,    \* a start is under way: "none", "start"
    cmStream,  \* sensor->streaming
    cmHeld,    \* the resources of hi1337_power_on that are held
    cmPtr,     \* of enable_gpio and reset_gpio, those that are not NULL
    cmClash,   \* history: a start took away the pointer to a line that probe held
    cmCtrl,    \* the framework's values: vblank, exposure and exposure's maximum
    cmReg,     \* the sensor's registers: frame length and exposure
    cmSpoilt,  \* history: a control's register write failed since the last start
    cmPm,      \* runtime state of the motor: "suspended", "active", "error"
    cmUsers,   \* its open files
    cmHolds,   \* it has enabled the rail
    cmInited,  \* dw9808->inited
    cmChip,    \* the chip is initialised
    cmFocus,   \* dw9808_set_control: "idle", "init", "write"
    cmCycled   \* history: the sensor has powered the rail again behind a set cmInited

cmPower == <<cmHeld, cmPtr, cmClash>>
cmSensor == <<cmBound, cmProbing, cmCall, cmStream, cmPower>>
cmControls == <<cmCtrl, cmReg, cmSpoilt>>
cmLens == <<cmPm, cmUsers, cmHolds, cmInited, cmFocus>>
cmVars == <<cmSensor, cmControls, cmLens, cmChip, cmCycled>>

\* vblank and exposure count from the mode's defaults: an exposure of e lines fits
\* into a frame of v lines when e <= v.
CmInit ==
    /\ cmBound = FALSE /\ cmProbing = "no" /\ cmCall = "none" /\ cmStream = FALSE
    /\ cmHeld = {} /\ cmPtr = {} /\ cmClash = FALSE
    /\ cmCtrl = [vblank |-> 0, exposure |-> 0, max |-> 0]
    /\ cmReg = [frame |-> 0, exposure |-> 0] /\ cmSpoilt = FALSE
    /\ cmPm = "suspended" /\ cmUsers = 0 /\ cmHolds = FALSE /\ cmInited = FALSE
    /\ cmChip = FALSE /\ cmFocus = "idle" /\ cmCycled = FALSE

CmRail(held, holds) == "rail" \in held \/ holds

-----------------------------------------------------------------------------
(* Power of the sensor.                                                    *)

CmAll == {"rail", "clk"} \cup CmLines

\* hi1337_power_on.  A line can be requested once: while somebody holds it, -EBUSY.
\* Refused at whatever step, it gives back what it took, and the pointer of the line
\* it did not get, or of both, is NULL.
CmPowered ==
    /\ CmLines \cap cmHeld = {}
    /\ cmHeld' = CmAll /\ cmPtr' = CmLines /\ UNCHANGED cmClash
CmPowerFails(ptr) ==
    /\ UNCHANGED cmHeld
    /\ cmPtr' \in {ptr} \cup (IF "enable" \in CmLines THEN {ptr \ {"enable"}} ELSE {})
                       \cup (IF "enable" \in cmHeld THEN {} ELSE {{}})
    /\ cmClash' = (cmClash \/ cmPtr' # ptr)

\* hi1337_power_off, which does nothing without reset_gpio.
CmPowerOff ==
    /\ IF "reset" \in cmPtr
         THEN cmHeld' = cmHeld \ ({"rail", "clk"} \cup cmPtr) /\ cmPtr' = {}
         ELSE UNCHANGED <<cmHeld, cmPtr>>
    /\ UNCHANGED cmClash

\* What the rail's new state leaves of the chip.
CmChipIf(ready) == cmChip' = (ready /\ CmRail(cmHeld', cmHolds'))
CmRailMoves ==
    /\ CmChipIf(cmChip)
    /\ cmCycled' = (cmCycled \/ (cmInited /\ ~CmRail(cmHeld, cmHolds) /\ CmRail(cmHeld', cmHolds)))

-----------------------------------------------------------------------------
(* The sensor's driver.                                                    *)

\* hi1337_probe of a new structure: the module is powered to identify it, ...
CmProbe ==
    /\ ~cmBound /\ cmProbing = "no"
    /\ \/ CmPowered /\ cmProbing' = "alone"
       \/ UNCHANGED <<cmHeld, cmClash, cmProbing>> /\ cmPtr' = {}
    /\ UNCHANGED <<cmBound, cmCall, cmStream, cmControls, cmLens>> /\ CmRailMoves

\* ... its subdevice registered, with new controls, ...
CmRegister ==
    /\ cmProbing = "alone" /\ cmProbing' = "visible"
    /\ cmCtrl' = [vblank |-> 0, exposure |-> 0, max |-> 0]
    /\ UNCHANGED <<cmBound, cmCall, cmStream, cmPower, cmReg, cmSpoilt, cmLens, cmChip, cmCycled>>

\* ... and the module powered off in the end, whether probe succeeds or not.
CmProbed(ok) ==
    /\ cmProbing = "visible" \/ (cmProbing = "alone" /\ ~ok)
    /\ cmProbing' = "no" /\ cmBound' = ok /\ CmPowerOff
    /\ UNCHANGED <<cmCall, cmStream, cmControls, cmLens>> /\ CmRailMoves

CmInUse == cmBound \/ cmProbing = "visible"

\* hi1337_set_stream(1): power ...
CmStart ==
    /\ CmInUse /\ cmCall = "none" /\ ~cmStream
    /\ \/ CmPowered /\ cmCall' = "start"
       \/ CmPowerFails(cmPtr) /\ UNCHANGED cmCall
    /\ UNCHANGED <<cmBound, cmProbing, cmStream, cmControls, cmLens>> /\ CmRailMoves

\* s_ctrl of vblank adapts exposure's range first.
CmRanged(v) == [cmCtrl EXCEPT !.max = v, !.exposure = IF @ > v THEN v ELSE @]

\* ... and hi1337_start_streaming: the tables, the controls, the stream; a failure
\* before or in the set-up of the controls powers off again.
CmStarted(ok) ==
    /\ cmCall = "start" /\ cmCall' = "none" /\ cmStream' = ok
    /\ LET set == CmRanged(cmCtrl.vblank)
       IN  IF ok THEN /\ cmCtrl' = set /\ cmSpoilt' = FALSE /\ UNCHANGED cmPower
                      /\ cmReg' = [frame |-> set.vblank, exposure |-> set.exposure]
           ELSE /\ cmCtrl' \in {cmCtrl, set} /\ CmPowerOff /\ UNCHANGED <<cmReg, cmSpoilt>>
    /\ UNCHANGED <<cmBound, cmProbing, cmLens>> /\ CmRailMoves

\* hi1337_set_stream(0).
CmStop ==
    /\ cmBound /\ cmCall = "none" /\ cmStream /\ cmStream' = FALSE /\ CmPowerOff
    /\ UNCHANGED <<cmBound, cmProbing, cmCall, cmControls, cmLens>> /\ CmRailMoves

\* hi1337_write_reg: a write that fails has had its effect or not.
CmTaken(reg, v, ok) == {v} \cup (IF ok THEN {} ELSE {cmReg[reg]})

\* A sensor that does not stream only has the value remembered.
CmWritten(reg, v, ok) ==
    IF ~cmStream THEN ok /\ UNCHANGED cmReg
    ELSE \E w \in CmTaken(reg, v, ok) : cmReg' = [cmReg EXCEPT ![reg] = w]

\* hi1337_set_ctrl for exposure, called when the value changes and fits its range.
CmSetExposure(e, ok) ==
    /\ CmInUse /\ cmCall = "none" /\ e # cmCtrl.exposure /\ e <= cmCtrl.max
    /\ CmWritten("exposure", e, ok) /\ cmSpoilt' = (cmSpoilt \/ ~ok)
    /\ cmCtrl' = IF ok THEN [cmCtrl EXCEPT !.exposure = e] ELSE cmCtrl
    /\ UNCHANGED <<cmSensor, cmLens, cmChip, cmCycled>>

\* ... for vblank: the range and, if it no longer fits, the exposure come first and
\* keep their new values when the frame length then fails, and the other way round.
MutCmSetVblank(v, ok) ==
    /\ CmInUse /\ cmCall = "none" /\ v # cmCtrl.vblank
    /\ CmWritten("frame", v, ok) /\ cmSpoilt' = (cmSpoilt \/ ~ok)
    /\ cmCtrl' = [cmCtrl EXCEPT !.max = v, !.vblank = IF ok THEN v ELSE @]
    /\ UNCHANGED <<cmSensor, cmLens, cmChip, cmCycled>>
CmSetVblank(v, ok) ==
    /\ CmInUse /\ cmCall = "none" /\ v # cmCtrl.vblank
    /\ LET set == CmRanged(v)
           shorter == set.exposure # cmCtrl.exposure
           after(okExposure, okFrame) ==
               [vblank |-> IF okFrame THEN v ELSE cmCtrl.vblank, max |-> v,
                exposure |-> IF okExposure THEN set.exposure ELSE cmCtrl.exposure]
       IN  IF ~cmStream THEN /\ ok /\ cmCtrl' = after(TRUE, TRUE) /\ UNCHANGED <<cmReg, cmSpoilt>>
           ELSE \E okE \in BOOLEAN, okF \in BOOLEAN :
                  /\ ok = (okE /\ okF) /\ (~shorter => okE)
                  /\ cmCtrl' = after(okE, okF) /\ cmSpoilt' = (cmSpoilt \/ ~ok)
                  /\ cmReg' \in [frame : CmTaken("frame", v, okF),
                                 exposure : IF shorter THEN CmTaken("exposure", v, okE)
                                            ELSE {cmReg.exposure}]
    /\ UNCHANGED <<cmSensor, cmLens, cmChip, cmCycled>>

\* hi1337_remove.
CmRemove ==
    /\ cmBound /\ cmCall = "none" /\ cmBound' = FALSE /\ cmStream' = FALSE
    /\ IF cmStream THEN CmPowerOff ELSE UNCHANGED cmPower
    /\ UNCHANGED <<cmProbing, cmCall, cmControls, cmLens>> /\ CmRailMoves

-----------------------------------------------------------------------------
(* The motor's driver.  pm_runtime serialises resume and suspend.          *)

\* dw9808_open of an active motor, or after dw9808_resume, which gives the rail back
\* when the chip does not take its initialisation and reports success all the same.
CmOpen ==
    /\ cmUsers < CmMaxUsers /\ cmUsers' = cmUsers + 1
    /\ \/ cmPm = "active" /\ UNCHANGED <<cmPm, cmHolds, cmInited>> /\ CmChipIf(cmChip)
       \/ /\ cmPm = "suspended" /\ cmPm' = "active"
          /\ \/ cmHolds' = TRUE /\ cmInited' = TRUE /\ CmChipIf(cmChip \/ ~cmInited)
             \/ ~cmInited /\ UNCHANGED <<cmHolds, cmInited>> /\ CmChipIf(cmChip)
    /\ UNCHANGED cmFocus

\* The rail itself fails: the file is not opened.
CmOpenFails == cmPm = "suspended" /\ cmPm' \in {"suspended", "error"}
               /\ UNCHANGED <<cmUsers, cmHolds, cmInited, cmFocus, cmChip>>

\* dw9808_close.
CmClose ==
    /\ cmUsers > 0 /\ cmUsers' = cmUsers - 1
    /\ UNCHANGED <<cmPm, cmHolds, cmInited, cmFocus, cmChip>>

\* dw9808_suspend of an unused motor: the chip sleeps and the rail is given back,
\* also when the way to the rest position failed; the power core then keeps the
\* motor active ("busy") or in error.
MutCmSuspend ==
    /\ cmPm = "active" /\ cmUsers = 0 /\ cmFocus = "idle"
    /\ UNCHANGED <<cmUsers, cmFocus, cmInited>>
    /\ cmPm' = "suspended" /\ cmHolds' = FALSE /\ CmChipIf(FALSE)
CmSuspend ==
    /\ cmPm = "active" /\ cmUsers = 0 /\ cmFocus = "idle"
    /\ UNCHANGED <<cmUsers, cmFocus>> /\ cmInited' = FALSE
    /\ IF ~CmRail(cmHeld, cmHolds)
         THEN cmPm' = "suspended" /\ UNCHANGED <<cmHolds, cmChip>>
         ELSE /\ cmPm' \in {"suspended", "active", "error"}
              /\ cmHolds' = FALSE /\ \E asleep \in BOOLEAN : CmChipIf(cmChip /\ ~asleep)

\* dw9808_set_control: pm_runtime_get_if_in_use and dw9808_ensure_ready,
CmFocusLook ==
    /\ cmFocus = "idle" /\ cmPm = "active" /\ cmUsers > 0
    /\ cmFocus' = CASE ~CmRail(cmHeld, cmHolds) -> "idle"
                    [] CmRail(cmHeld, cmHolds) /\ cmInited -> "write"
                    [] OTHER -> "init"
    /\ cmInited' = (cmInited /\ CmRail(cmHeld, cmHolds))
    /\ UNCHANGED <<cmPm, cmUsers, cmHolds, cmChip>>

\* ... dw9808_init,
CmFocusInit ==
    /\ cmFocus = "init"
    /\ \/ /\ CmRail(cmHeld, cmHolds) /\ cmFocus' = "write" /\ cmInited' = TRUE /\ cmChip' = TRUE
       \/ cmFocus' = "idle" /\ UNCHANGED <<cmInited, cmChip>>
    /\ UNCHANGED <<cmPm, cmUsers, cmHolds>>

\* ... dw9808_set_position, which a chip without power does not answer.
CmFocusWrite ==
    /\ cmFocus = "write" /\ cmFocus' = "idle"
    /\ UNCHANGED <<cmPm, cmUsers, cmHolds, cmInited, cmChip>>

CmNext ==
    \/ CmProbe \/ CmRegister \/ CmStart \/ CmStop \/ CmRemove
    \/ \E ok \in BOOLEAN :
         \/ CmProbed(ok) \/ CmStarted(ok)
         \/ \E v \in 0 .. CmTop : CmSetExposure(v, ok) \/ CmSetVblank(v, ok)
    \/ /\ UNCHANGED <<cmSensor, cmControls>>
       /\ \/ CmOpen \/ CmOpenFails \/ CmClose \/ CmSuspend
          \/ CmFocusLook \/ CmFocusInit \/ CmFocusWrite
       /\ cmCycled' = (cmCycled /\ cmInited')

CmSpec == CmInit /\ [][CmNext]_cmVars

-----------------------------------------------------------------------------
(* Properties.                                                             *)

\* "Hold camera GPIOs only while the sensor is actually powered so an idle,
\* registered camera cannot regress audio capture": after any start, stop, probe or
\* removal, refused at whatever step, a camera that does not stream holds no line,
\* no clock and no rail, and one that streams holds them all.  The exception is a start
\* that came between the registration and the end of probe: it makes probe lose track
\* of a line, which then is held for good.
CmIdleHoldsNothing ==
    cmCall = "none" /\ cmProbing = "no" =>
      IF cmStream THEN cmHeld = CmAll ELSE cmHeld = {} \/ cmClash

\* A streaming sensor is never told to expose longer than its frame lasts, whatever
\* was set before the start, while another application stopped it, or in between,
\* unless a register write failed since the start.
CmExposureFits == cmStream /\ ~cmSpoilt => cmReg.exposure <= cmReg.frame

\* The sensor holds its lines exactly while it streams, and streams what it was set to.
CmSensorSafe == CmIdleHoldsNothing /\ CmExposureFits

\* What dw9808_ensure_ready achieves: a powered motor gets no position before its
\* initialisation, whatever sequence of open, close, failed resume, failed suspend and
\* power changes of the sensor came before, if the motor holds the rail itself, or if
\* the sensor has not switched the rail off and on between two looks.  Its comment
\* promises to detect such power cycles too; the code does not.
CmFocusNotBlind ==
    [][cmFocus = "write" /\ cmFocus' = "idle" /\ CmRail(cmHeld, cmHolds)
       => cmChip \/ (cmCycled /\ ~cmHolds)]_cmVars
==============================================================================
