----------------------------- MODULE MCDevices -----------------------------
(***************************************************************************)
(* The port controller, the secure element's device, pen and touch, the    *)
(* fingerprint sensor, the panel and the rear camera in one run.  They     *)
(* share no variable: a behaviour follows the device in focus, and the     *)
(* others rest.  Pen and touch come twice: "pen" leaves out the            *)
(* touchscreen's sleep, "sleep" has all of the touchscreen under a pen     *)
(* that comes, stays in range for a while and goes.                        *)
(***************************************************************************)
EXTENDS Sm5714UsbPd, SecStar, PenTouch, EgisEl721, Ana38407, Cameras

VARIABLE focus

MCSrCmds == {<<"plain">>, <<"next", "again", "plain">>}

DevInit ==
    /\ focus \in {"port", "star", "pen", "sleep", "finger", "panel", "camera"}
    /\ PdInit /\ SrInit /\ PtInit /\ FpInit /\ PnInit /\ CmInit
    /\ focus = "port" \/ (pdCc = "none" /\ pdMode = "drp")
    /\ focus = "panel" \/ pnUser = CHOOSE v \in PnLevels : TRUE

PenSteps ==
    \/ PtPenMoves \/ PtPenLost \/ PtPenStep \/ PtTimerStep \/ PtPenSuspend \/ PtPenResume
    \/ PtFinger \/ PtTouchStep

\* The touchscreen reads nothing of the pen but its flag, so the pen's thread and its
\* timer finish what they began before it moves.
SleepSteps ==
    \/ PtPenReport \/ PtPenArm \/ PtTimerStep
    \/ /\ ptIrq = "idle" /\ ptCb = "idle"
       /\ \/ (ptPen = "away" \/ ~ptNear) /\ PtPenMoves
          \/ PtFinger \/ PtTouchStep \/ PtDtwStore
          \/ PtSuspendRelease \/ PtSuspendArmed \/ PtResumeArmed \/ PtResumeOff
          \/ \E f \in {"none", "irq_wake", "arm"} : PtSuspendOff(f)

DevNext ==
    /\ UNCHANGED focus
    /\ \/ focus = "port" /\ PdNext /\ UNCHANGED <<srVars, ptVars, fpVars, pnVars, cmVars>>
       \/ focus = "star" /\ SrNext /\ UNCHANGED <<pdVars, ptVars, fpVars, pnVars, cmVars>>
       \/ focus = "pen" /\ PenSteps /\ UNCHANGED <<pdVars, srVars, fpVars, pnVars, cmVars>>
       \/ focus = "sleep" /\ SleepSteps /\ UNCHANGED <<pdVars, srVars, fpVars, pnVars, cmVars>>
       \/ focus = "finger" /\ FpNext /\ UNCHANGED <<pdVars, srVars, ptVars, pnVars, cmVars>>
       \/ focus = "panel" /\ PnNext /\ UNCHANGED <<pdVars, srVars, ptVars, fpVars, cmVars>>
       \/ focus = "camera" /\ CmNext /\ UNCHANGED <<pdVars, srVars, ptVars, fpVars, pnVars>>

\* PdFair, PnFair and the fairness of PtFairSpec, where the device is in focus; the pen
\* of "sleep" leaves by the timer alone.
DevFair ==
    /\ WF_pdVars(focus = "port" /\ PdProbeEnd)
    /\ WF_pdVars(focus = "port" /\ PdIrqCc)
    /\ WF_pdVars(focus = "port" /\ PdResyncWork)
    /\ WF_pdVars(focus = "port" /\ PdStartToggling)
    /\ WF_pdVars(focus = "port" /\ PdDetWork)
    /\ WF_pdVars(focus = "port" /\ PdVbusBegin(FALSE))
    /\ WF_pdVars(focus = "port" /\ PdVbusEnd(TRUE))
    /\ WF_ptVars(focus = "pen" /\ PtPenStep)
    /\ WF_ptVars(focus = "sleep" /\ (PtPenReport \/ PtPenArm))
    /\ WF_ptVars(focus \in {"pen", "sleep"} /\ PtTimerStep)
    /\ WF_ptVars(focus \in {"pen", "sleep"} /\ PtTouchStep)
    /\ WF_pnVars(focus = "panel" /\ PnDogFires)
    /\ WF_pnVars(focus = "panel" /\ PnDogWork)
    /\ WF_pnVars(focus = "panel" /\ PnCancel)
    /\ WF_pnVars(focus = "panel" /\ PnRemoveStep)

devVars == <<focus, pdVars, srVars, ptVars, fpVars, pnVars, cmVars>>

Devices == DevInit /\ [][DevNext]_devVars /\ DevFair
=============================================================================
