------------------------------ MODULE PenTouch ------------------------------
(***************************************************************************)
(* The pen digitizer (wacom-wez01.c) and the touchscreen (fts1ba90a.c),    *)
(* which share one flag: while the pen is in range, finger contacts are    *)
(* rejected.  The flag is set by the pen's interrupt thread and cleared by *)
(* it or by a silence timer; the touchscreen's interrupt thread reads it   *)
(* twice per frame.  Both drivers suspend and resume.                      *)
(*                                                                         *)
(* One finger stands for the ten slots; coordinates, pressure and tilt are *)
(* left out.                                                               *)
(***************************************************************************)
EXTENDS Integers, Sequences

CONSTANTS PtFifo,    \* bound: touch events waiting in the controller
          PtMaxFail  \* bound: bus and regulator failures of the touchscreen

ASSUME PtAssumption == PtFifo \in Nat \ {0} /\ PtMaxFail \in Nat

VARIABLES
    ptPen,    \* the pen is "near" or "away"
    ptFrame,  \* frame the digitizer has ready: "none", "in" or "out" of range
    ptIrq,    \* the pen's interrupt thread: "idle", "reported"
    ptTool,   \* user space has been told that the pen is there
    ptProx,   \* prox
    ptNear,   \* wez01_pen_proximity
    ptTimer,  \* prox_timer: "idle", "armed" or, shut down, "dead"
    ptCb,     \* the timer's callback: "idle", "took", "released"
    ptInside, \* history: the last frame was reported while the callback ran
    ptPenUp,  \* the digitizer is not suspended
    ptGlass,  \* a finger is on the glass
    ptEvents, \* events waiting in the touch controller
    ptRun,    \* the touch interrupt thread: its events, and what it saw
    ptPend,   \* the slot as reported
    ptSlot,   \* the slot as synchronised: what user space sees
    ptOwed,   \* history: a frame ended under the pen without being synchronised
    ptLost,   \* history: the event that would end a contact never reached the driver
    ptDtw,    \* dtw_enabled
    ptLpm,    \* lpm_suspended
    ptArming, \* fts1ba90a_suspend is about to arm the gesture
    ptUp,     \* the touchscreen is not suspended
    ptRails,  \* both rails are on
    ptWake,   \* enable_irq_wake is in force
    ptDepth,  \* how often the touch interrupt is disabled
    ptScan,   \* the controller scans: "normal", "low" power, or "no"
    ptFails,  \* failures so far
    ptBroken  \* a resume of the touchscreen has failed

ptPenVars == <<ptPen, ptFrame, ptIrq, ptTool, ptProx, ptNear, ptTimer, ptCb, ptInside, ptPenUp>>
ptTouchVars == <<ptGlass, ptEvents, ptRun, ptPend, ptSlot, ptOwed, ptLost>>
ptPmVars == <<ptDtw, ptLpm, ptArming, ptUp, ptRails, ptWake, ptDepth, ptScan, ptFails, ptBroken>>
ptVars == <<ptPenVars, ptTouchVars, ptPmVars>>

PtIdle == [on |-> FALSE, todo |-> <<>>, thru |-> FALSE]

\* Both drivers have probed: rails up, scanning, interrupts enabled.
PtInit ==
    /\ ptPen = "away" /\ ptFrame = "none" /\ ptIrq = "idle" /\ ptTool = FALSE
    /\ ptProx = FALSE /\ ptNear = FALSE /\ ptTimer = "idle" /\ ptCb = "idle"
    /\ ptInside = FALSE /\ ptPenUp = TRUE
    /\ ptGlass = FALSE /\ ptEvents = <<>> /\ ptRun = PtIdle
    /\ ptPend = FALSE /\ ptSlot = FALSE /\ ptOwed = FALSE /\ ptLost = FALSE
    /\ ptDtw = FALSE /\ ptLpm = FALSE /\ ptArming = FALSE /\ ptUp = TRUE /\ ptRails = TRUE
    /\ ptWake = FALSE /\ ptDepth = 0 /\ ptScan = "normal" /\ ptFails = 0 /\ ptBroken = FALSE

-----------------------------------------------------------------------------
(* The pen.                                                                *)

\* The pen comes and hovers; it goes with an out-of-range frame or without.
PtPenMoves ==
    /\ \/ ptPen = "away" /\ ptPen' = "near" /\ UNCHANGED ptFrame
       \/ ptPen = "near" /\ ptPenUp /\ ptFrame = "none" /\ ptFrame' = "in" /\ UNCHANGED ptPen
       \/ ptPen = "near" /\ ptPen' = "away" /\ ptFrame' \in {"none", "out"}
    /\ UNCHANGED <<ptIrq, ptTool, ptProx, ptNear, ptTimer, ptCb, ptInside, ptPenUp, ptTouchVars, ptPmVars>>

\* wacom_wez01_leave_range, when nothing runs beside it.
PtLeaveRange ==
    /\ ptNear' = FALSE
    /\ ptTool' = (ptTool /\ ~(ptNear /\ ptProx))
    /\ ptProx' = (ptProx /\ ~ptNear)

\* wacom_wez01_irq_handler: a short read is ignored; an out-of-range frame waits
\* for the callback, shuts the timer down and leaves the range; any other frame is
\* reported ...
PtPenLost ==
    /\ ptPenUp /\ ptIrq = "idle" /\ ptFrame # "none" /\ ptFrame' = "none"
    /\ UNCHANGED <<ptPen, ptIrq, ptTool, ptProx, ptNear, ptTimer, ptCb, ptInside, ptPenUp,
                   ptTouchVars, ptPmVars>>
PtPenOut ==
    /\ ptPenUp /\ ptIrq = "idle" /\ ptFrame = "out" /\ ptCb = "idle"
    /\ ptFrame' = "none" /\ ptTimer' = "dead" /\ PtLeaveRange
    /\ UNCHANGED <<ptPen, ptIrq, ptCb, ptInside, ptPenUp, ptTouchVars, ptPmVars>>
PtPenReport ==
    /\ ptPenUp /\ ptIrq = "idle" /\ ptFrame = "in"
    /\ ptFrame' = "none" /\ ptTool' = TRUE /\ ptIrq' = "reported"
    /\ ptInside' = (ptCb # "idle")
    /\ UNCHANGED <<ptPen, ptProx, ptNear, ptTimer, ptCb, ptPenUp, ptTouchVars, ptPmVars>>

\* ... and then sets the flags and the timer; mod_timer of a timer that was shut
\* down does nothing.
MutPtPenArm ==
    /\ ptIrq = "reported" /\ ptIrq' = "idle"
    /\ ptProx' = TRUE /\ ptNear' = TRUE /\ UNCHANGED ptTimer
    /\ UNCHANGED <<ptPen, ptFrame, ptTool, ptCb, ptInside, ptPenUp, ptTouchVars, ptPmVars>>
PtPenArm ==
    /\ ptIrq = "reported" /\ ptIrq' = "idle"
    /\ ptProx' = TRUE /\ ptNear' = TRUE
    /\ ptTimer' = IF ptTimer = "dead" THEN "dead" ELSE "armed"
    /\ UNCHANGED <<ptPen, ptFrame, ptTool, ptCb, ptInside, ptPenUp, ptTouchVars, ptPmVars>>

\* wacom_wez01_prox_timeout, beside the interrupt thread: it takes the flag, and
\* the one that took it releases the tool.
PtTimerFires ==
    /\ ptTimer = "armed" /\ ptCb = "idle" /\ ptTimer' = "idle"
    /\ ptNear' = FALSE /\ ptCb' = IF ptNear THEN "took" ELSE "idle"
    /\ UNCHANGED <<ptPen, ptFrame, ptIrq, ptTool, ptProx, ptInside, ptPenUp,
                   ptTouchVars, ptPmVars>>
PtTimerRelease ==
    /\ ptCb = "took"
    /\ ptTool' = (ptTool /\ ~ptProx)
    /\ ptCb' = IF ptProx THEN "released" ELSE "idle"
    /\ UNCHANGED <<ptPen, ptFrame, ptIrq, ptProx, ptNear, ptTimer, ptInside, ptPenUp, ptTouchVars, ptPmVars>>
PtTimerClear ==
    /\ ptCb = "released" /\ ptCb' = "idle" /\ ptProx' = FALSE
    /\ UNCHANGED <<ptPen, ptFrame, ptIrq, ptTool, ptNear, ptTimer, ptInside, ptPenUp,
                   ptTouchVars, ptPmVars>>

\* wacom_wez01_suspend waits for the thread and the callback; _resume.
PtPenSuspend ==
    /\ ptPenUp /\ ptIrq = "idle" /\ ptCb = "idle" /\ ptPenUp' = FALSE
    /\ ptTimer' = "dead" /\ PtLeaveRange /\ ptFrame' = "none"
    /\ UNCHANGED <<ptPen, ptIrq, ptCb, ptInside, ptTouchVars, ptPmVars>>
PtPenResume ==
    /\ ~ptPenUp /\ ptPenUp' = TRUE
    /\ UNCHANGED <<ptPen, ptFrame, ptIrq, ptTool, ptProx, ptNear, ptTimer, ptCb, ptInside,
                   ptTouchVars, ptPmVars>>

-----------------------------------------------------------------------------
(* The touchscreen.                                                        *)

\* Whether the driver believes in a finger once it has handled what is on its way.
PtHeard(events, todo, pend) ==
    IF events # <<>> THEN events[Len(events)] = "down"
    ELSE IF todo # <<>> THEN todo[Len(todo)] = "down" ELSE pend

\* Events are gone for good, and with them perhaps the end of a contact.
PtLose == ptLost' = (ptLost \/ (PtHeard(ptEvents', ptRun'.todo, ptPend') /\ ~ptGlass'))

\* The finger comes and goes; a scanning controller queues an event.
PtFinger ==
    /\ Len(ptEvents) < PtFifo
    /\ ptGlass' = ~ptGlass
    /\ UNCHANGED <<ptRun, ptPend, ptSlot, ptOwed, ptPenVars, ptPmVars>>
    /\ IF ptScan = "normal"
         THEN ptEvents' = Append(ptEvents, IF ptGlass' THEN "down" ELSE "up") /\ UNCHANGED ptLost
         ELSE UNCHANGED ptEvents /\ PtLose

\* fts1ba90a_irq_handler reads one event and then the rest, which may fail ...
PtTouchIrq ==
    /\ ptDepth = 0 /\ ~ptRun.on /\ ptEvents # <<>>
    /\ \E all \in BOOLEAN :
         ptRun' = [on |-> TRUE, todo |-> IF all THEN ptEvents ELSE <<Head(ptEvents)>>,
                   thru |-> ptNear]
    /\ ptEvents' = <<>>
    /\ UNCHANGED <<ptGlass, ptPend, ptSlot, ptOwed, ptPenVars, ptPmVars>>
    /\ PtLose

\* ... looks at the flag before each event: under the pen every slot is released,
\* fts1ba90a_suppress_touch, and the frame ends ...
MutPtTouchEvent ==
    /\ ptRun.todo # <<>>
    /\ ptRun' = [ptRun EXCEPT !.todo = IF ptNear THEN <<>> ELSE Tail(@), !.thru = @ /\ ptNear]
    /\ ptPend' = IF ptNear THEN ptPend ELSE Head(ptRun.todo) = "down"
    /\ UNCHANGED <<ptSlot, ptOwed, ptGlass, ptEvents, ptLost, ptPenVars, ptPmVars>>
PtTouchEvent ==
    /\ ptRun.todo # <<>>
    /\ ptRun' = [ptRun EXCEPT !.todo = IF ptNear THEN <<>> ELSE Tail(@), !.thru = @ /\ ptNear]
    /\ ptPend' = (~ptNear /\ Head(ptRun.todo) = "down")
    /\ ptSlot' = (ptSlot /\ ~ptNear) /\ ptOwed' = (ptOwed /\ ~ptNear)
    /\ ptLost' = (ptLost /\ PtHeard(ptEvents, ptRun'.todo, ptPend'))
    /\ UNCHANGED <<ptGlass, ptEvents, ptPenVars, ptPmVars>>

\* ... and once more before it synchronises.
PtTouchEnd ==
    /\ ptRun.on /\ ptRun.todo = <<>>
    /\ ptRun' = [ptRun EXCEPT !.on = FALSE]
    /\ ptSlot' = IF ptNear THEN ptSlot ELSE ptPend
    /\ ptOwed' = (ptNear /\ (ptOwed \/ ~(ptSlot <=> ptPend)))
    /\ UNCHANGED <<ptGlass, ptEvents, ptPend, ptLost, ptPenVars, ptPmVars>>

\* double_tap_to_wake_store.
PtDtwStore ==
    /\ ptUp /\ ~ptArming /\ ptDtw' = ~ptDtw
    /\ UNCHANGED <<ptPenVars, ptTouchVars, ptLpm, ptArming, ptUp, ptRails, ptWake, ptDepth, ptScan,
                   ptFails, ptBroken>>

PtMayFail == ptFails < PtMaxFail /\ ptFails' = ptFails + 1

\* fts1ba90a_suspend with the gesture wanted: the interrupt becomes a wake source and
\* every slot is released, beside an interrupt thread that may be in its frame ...
PtSuspendRelease ==
    /\ ptUp /\ ~ptArming /\ ptDtw
    /\ ptArming' = TRUE /\ ptWake' = TRUE
    /\ ptPend' = FALSE /\ ptSlot' = FALSE /\ ptOwed' = FALSE
    /\ UNCHANGED <<ptPenVars, ptGlass, ptEvents, ptRun, ptLost, ptDtw, ptLpm, ptUp, ptRails,
                   ptDepth, ptScan, ptFails, ptBroken>>

\* ... and fts1ba90a_arm_gesture: rails and interrupt stay on, the controller's queue
\* stays as it is, and the interrupt thread goes on.
PtSuspendArmed ==
    /\ ptArming /\ ptRails
    /\ ptArming' = FALSE /\ ptUp' = FALSE /\ ptLpm' = TRUE /\ ptScan' = "low"
    /\ UNCHANGED <<ptPenVars, ptTouchVars, ptDtw, ptRails, ptWake, ptDepth, ptFails, ptBroken>>

\* fts1ba90a_suspend with everything off: the gesture is not wanted, the interrupt
\* cannot wake, or arming fails, as it does without power.  disable_irq waits for the
\* thread, power_off empties the controller's queue.
PtSuspendOff(fail) ==
    /\ ptUp /\ ~ptRun.on
    /\ \/ fail = "none" /\ ~ptArming /\ ~ptDtw /\ UNCHANGED ptFails
       \/ fail = "irq_wake" /\ ~ptArming /\ ptDtw /\ PtMayFail
       \/ fail = "arm" /\ ptArming /\ (PtMayFail \/ (~ptRails /\ UNCHANGED ptFails))
    /\ ptArming' = FALSE /\ ptWake' = FALSE
    /\ ptUp' = FALSE /\ ptDepth' = ptDepth + 1 /\ ptRails' = FALSE /\ ptScan' = "no"
    /\ ptEvents' = <<>>
    /\ UNCHANGED <<ptPenVars, ptGlass, ptRun, ptPend, ptSlot, ptOwed, ptDtw, ptLpm, ptBroken>>
    /\ PtLose

\* fts1ba90a_resume from low power: fts1ba90a_disarm_gesture, and a new start, which
\* resets the controller, when it does not confirm; a failed start is logged.
PtResumeArmed ==
    /\ ~ptUp /\ ptLpm /\ ptUp' = TRUE /\ ptLpm' = FALSE /\ ptWake' = FALSE
    /\ UNCHANGED <<ptPenVars, ptGlass, ptRun, ptPend, ptSlot, ptOwed, ptDtw, ptArming, ptRails, ptDepth>>
    /\ \/ ptScan' = "normal" /\ UNCHANGED <<ptFails, ptBroken, ptEvents, ptLost>>
       \/ PtMayFail /\ ptScan' = "normal" /\ UNCHANGED ptBroken /\ ptEvents' = <<>> /\ PtLose
       \/ PtMayFail /\ ptScan' = "no" /\ ptBroken' = TRUE /\ ptEvents' = <<>> /\ PtLose

\* fts1ba90a_resume with power: power_on, start, enable_irq; each may fail, and
\* the interrupt then stays off.
PtResumeOff ==
    /\ ~ptUp /\ ~ptLpm /\ ptUp' = TRUE
    /\ \/ /\ ptRails' = TRUE /\ ptScan' = "normal" /\ ptDepth' = ptDepth - 1
          /\ UNCHANGED <<ptFails, ptBroken>>
       \/ /\ PtMayFail /\ ptRails' \in BOOLEAN /\ ptBroken' = TRUE
          /\ UNCHANGED <<ptScan, ptDepth>>
    /\ UNCHANGED <<ptPenVars, ptTouchVars, ptDtw, ptLpm, ptArming, ptWake>>

PtPenStep == PtPenOut \/ PtPenReport \/ PtPenArm
PtTimerStep == PtTimerFires \/ PtTimerRelease \/ PtTimerClear
PtTouchStep == PtTouchIrq \/ PtTouchEvent \/ PtTouchEnd

PtNext ==
    \/ PtPenMoves \/ PtPenLost \/ PtPenStep \/ PtTimerStep \/ PtPenSuspend \/ PtPenResume
    \/ PtFinger \/ PtTouchStep \/ PtDtwStore
    \/ PtSuspendRelease \/ PtSuspendArmed \/ PtResumeArmed \/ PtResumeOff
    \/ \E f \in {"none", "irq_wake", "arm"} : PtSuspendOff(f)

PtSpec == PtInit /\ [][PtNext]_ptVars

\* Interrupt threads and timers run.
PtFairSpec == PtSpec /\ WF_ptVars(PtPenStep) /\ WF_ptVars(PtTimerStep) /\ WF_ptVars(PtTouchStep)

-----------------------------------------------------------------------------
(* Properties.                                                             *)

\* As long as the silence timer works, touch comes back after the pen is gone,
\* although the digitizer may send no out-of-range frame, or the frame is lost.
PtTouchReturns ==
    (ptPen = "away" /\ ptNear /\ ptTimer # "dead") ~> (~ptNear \/ ptPen = "near")

\* "The controller can fall silent without ever sending an out-of-range frame; if
\* that state never cleared, the touchscreen would stay disabled for the rest of
\* the session": a pen that is gone never disables touch for good.
PtSilenceEnds == (ptPen = "away" /\ ptNear) ~> (~ptNear \/ ptPen = "near")

\* With the range left and both the thread and the timer at rest, user space has
\* been told that the pen is gone: one of the two always releases the tool.  The
\* exception is a pen whose last frame was reported inside the timer's callback,
\* which then clears the prox the frame has set.
PtToolReleased ==
    ~ptNear /\ ptIrq = "idle" /\ ptCb = "idle" /\ ~ptInside => ~ptTool

\* A touch frame handled under the pen leaves no contact, neither reported nor
\* shown: a palm that was down before the pen came is lifted.
PtPalmRejected == ~ptRun.on /\ ptRun.thru => ~ptSlot /\ ~ptPend

\* With no finger on the glass and no event waiting, user space sees no contact, and
\* none is reported and waiting to be synchronised: also when the finger lifted under
\* the pen, or between fts1ba90a_suspend's release of the slots and the low-power mode.
\* Two exceptions: the event that ended the contact never reached the driver (a failed
\* read, a controller off or in low power); and a frame that ended under the pen, whose
\* slots stay unsynchronised until the next one.
PtNoPhantom ==
    ~ptGlass /\ ptEvents = <<>> /\ ~ptRun.on /\ ~ptLost => ~ptPend /\ (ptSlot => ptOwed)

\* Asleep, the touchscreen either has everything on that the wake gesture needs,
\* or nothing; awake, it scans, its interrupt is on and is a wake source only while
\* the gesture is being armed, unless a resume has failed.
PtSleepExact ==
    /\ ~ptUp /\ ptLpm => ptRails /\ ptWake /\ ptScan = "low"
    /\ ~ptUp /\ ~ptLpm => ~ptRails /\ ~ptWake
    /\ ptUp /\ ~ptBroken => ptRails /\ (ptWake => ptArming) /\ ptDepth = 0 /\ ptScan = "normal"

\* What user space sees of pen and fingers fits what is on the glass, and a sleeping
\* touchscreen what it must wake for, in every order of frames, timer and suspend.
PtSafe == PtToolReleased /\ PtPalmRejected /\ PtNoPhantom /\ PtSleepExact
=============================================================================
