------------------------------ MODULE Ana38407 ------------------------------
(***************************************************************************)
(* The display panel, src/kernel/files/panel-samsung-ana38407.c: the calls *)
(* of the display core, the backlight, and the fingerprint mode, in which  *)
(* the panel shows a bright circle for the optical sensor and which a      *)
(* watchdog ends if user space does not.  Everything runs under ctx->lock; *)
(* cancel_delayed_work_sync runs after it was dropped.                     *)
(*                                                                         *)
(* The panel's registers are hbm (0x53), level (0x51) and circle (0x7a); a *)
(* sequence of writes that fails has had the effect of a part of it.       *)
(***************************************************************************)
EXTENDS Integers

CONSTANTS PnLevels,  \* brightness values of the desktop
          PnFod,     \* ANA38407_FOD_BRIGHTNESS
          PnMaxFail  \* bound: calls in which a write to the panel fails

ASSUME PnAssumption == PnFod \notin PnLevels /\ PnMaxFail \in Nat

VARIABLES
    pnStage,    \* "bound", then remove: "nosysfs", "quiet", "gone"
    pnPrepared, pnEnabled,
    pnMode, pnCircle,  \* fod_mode, fod_circle
    pnUser,     \* user_brightness
    pnGlass,    \* the panel's registers
    pnArmed,    \* fod_watchdog's timer runs
    pnWork,     \* its work has been started and waits for the lock
    pnDrm,      \* the display core: "idle", or cancelling the watchdog: "cancel"
    pnService,  \* the fingerprint service is alive
    pnSpoilt,   \* history: what a failed write has left wrong: "fod", "level"
    pnFails

pnFlags == <<pnPrepared, pnEnabled, pnMode, pnCircle>>
pnDog == <<pnArmed, pnWork>>
pnRest == <<pnStage, pnService>>
pnVars == <<pnRest, pnFlags, pnUser, pnGlass, pnDog, pnDrm, pnSpoilt, pnFails>>

\* Without its supplies the panel shows nothing, whatever level stands here.
PnDark == [hbm |-> FALSE, level |-> PnFod, circle |-> FALSE]

PnInit ==
    /\ pnStage = "bound" /\ pnService = TRUE
    /\ pnPrepared = FALSE /\ pnEnabled = FALSE /\ pnMode = FALSE /\ pnCircle = FALSE
    /\ pnUser \in PnLevels /\ pnGlass = PnDark
    /\ pnArmed = FALSE /\ pnWork = FALSE /\ pnDrm = "idle"
    /\ pnSpoilt = {} /\ pnFails = 0

-----------------------------------------------------------------------------
(* Sequences of writes: the results they can have.                         *)

PnDone(g) == [glass |-> g, ok |-> TRUE]
PnFailed(G) == {[glass |-> g, ok |-> FALSE] : g \in G}

\* ana38407_write_fod_locked stops at the first write that fails.
PnWriteFod(on, g) ==
    LET a == [g EXCEPT !.hbm = on]
        b == [a EXCEPT !.level = IF on THEN PnFod ELSE pnUser]
    IN  {PnDone(b)} \cup PnFailed({g, a, b})

\* ana38407_write_fod_circle_locked.
PnWriteCircle(on, g) ==
    LET c == [g EXCEPT !.circle = on] IN {PnDone(c)} \cup PnFailed({g, c})

\* ana38407_fod_cleanup_locked tries both and forgets both, whatever happens.
PnCleanup ==
    LET first == IF pnCircle THEN PnWriteCircle(FALSE, pnGlass) ELSE {PnDone(pnGlass)}
        then(g) == IF pnMode THEN PnWriteFod(FALSE, g) ELSE {PnDone(g)}
    IN  UNION {{[glass |-> y.glass, ok |-> x.ok /\ y.ok] : y \in then(x.glass)} : x \in first}

\* A call in which a write fails, within the bound.
PnCount(ok) == /\ ok \/ pnFails < PnMaxFail
               /\ pnFails' = IF ok THEN pnFails ELSE pnFails + 1
PnSpoil(what, ok) == pnSpoilt' = IF ok THEN pnSpoilt ELSE pnSpoilt \cup {what}

PnForget == pnMode' = FALSE /\ pnCircle' = FALSE
PnLeaveFod ==
    /\ PnForget
    /\ \E r \in PnCleanup : pnGlass' = r.glass /\ PnCount(r.ok) /\ PnSpoil("fod", r.ok)

-----------------------------------------------------------------------------
(* The display core, one call at a time.                                   *)

\* ana38407_prepare: a failed power-on or init sequence leaves everything off.
PnPrepare(ok) ==
    /\ pnDrm = "idle" /\ ~pnPrepared /\ pnStage # "gone" /\ PnCount(ok)
    /\ IF ok THEN /\ pnPrepared' = TRUE /\ pnSpoilt' = {}
                  /\ pnGlass' = [hbm |-> FALSE, level |-> pnUser, circle |-> FALSE]
             ELSE UNCHANGED <<pnPrepared, pnSpoilt, pnGlass>>
    /\ UNCHANGED <<pnRest, pnEnabled, pnMode, pnCircle, pnUser, pnDog, pnDrm>>

\* ana38407_enable.
PnEnable(ok) ==
    /\ pnDrm = "idle" /\ pnPrepared /\ ~pnEnabled /\ pnStage # "gone" /\ PnCount(ok)
    /\ pnEnabled' = ok
    /\ UNCHANGED <<pnRest, pnPrepared, pnMode, pnCircle, pnUser, pnGlass, pnDog, pnDrm, pnSpoilt>>

\* ana38407_disable.
PnDisable ==
    /\ pnDrm = "idle" /\ pnEnabled /\ pnStage # "gone"
    /\ pnEnabled' = FALSE /\ PnLeaveFod /\ pnDrm' = "cancel"
    /\ UNCHANGED <<pnRest, pnPrepared, pnUser, pnDog>>

\* ana38407_unprepare; without its supplies the panel forgets everything.
PnUnprepare ==
    /\ pnDrm = "idle" /\ pnPrepared /\ pnStage # "gone"
    /\ pnEnabled' = FALSE /\ pnPrepared' = FALSE /\ PnForget
    /\ pnGlass' = PnDark /\ pnDrm' = "cancel"
    /\ UNCHANGED <<pnRest, pnUser, pnDog, pnSpoilt, pnFails>>

\* ... cancel_delayed_work_sync of both.
PnCancel ==
    /\ pnDrm = "cancel" /\ ~pnWork /\ pnArmed' = FALSE /\ pnDrm' = "idle"
    /\ UNCHANGED <<pnRest, pnFlags, pnUser, pnGlass, pnWork, pnSpoilt, pnFails>>

-----------------------------------------------------------------------------
(* User space.                                                             *)

\* ana38407_bl_update: in fingerprint mode the value is only remembered.
MutPnBacklight(v, ok) ==
    /\ pnStage # "gone" /\ pnUser' = v
    /\ IF pnPrepared
         THEN /\ PnCount(ok)
              /\ pnGlass' = IF ok THEN [pnGlass EXCEPT !.level = v] ELSE pnGlass
              /\ pnSpoilt' = IF ok THEN pnSpoilt \ {"level"} ELSE pnSpoilt \cup {"level"}
         ELSE ok /\ UNCHANGED <<pnGlass, pnSpoilt, pnFails>>
    /\ UNCHANGED <<pnRest, pnFlags, pnDog, pnDrm>>
PnBacklight(v, ok) ==
    /\ pnStage # "gone" /\ pnUser' = v
    /\ IF pnPrepared /\ ~pnMode
         THEN /\ PnCount(ok)
              /\ pnGlass' = IF ok THEN [pnGlass EXCEPT !.level = v] ELSE pnGlass
              /\ pnSpoilt' = IF ok THEN pnSpoilt \ {"level"} ELSE pnSpoilt \cup {"level"}
         ELSE ok /\ UNCHANGED <<pnGlass, pnSpoilt, pnFails>>
    /\ UNCHANGED <<pnRest, pnFlags, pnDog, pnDrm>>

\* ana38407_update_fod_watchdog_locked.
MutPnUpdateDog(mode, circle) == pnArmed' = circle
PnUpdateDog(mode, circle) == pnArmed' = (mode \/ circle)

\* The attributes exist: remove takes them away first.
PnSysfs == pnStage = "bound"
PnStore == PnSysfs /\ pnService /\ pnPrepared /\ pnEnabled

\* fod_mode_store; a failed start is undone, as far as that works.
PnModeStore(on) ==
    /\ PnStore
    /\ \/ pnMode = on /\ PnUpdateDog(pnMode, pnCircle) /\ UNCHANGED <<pnMode, pnCircle, pnGlass, pnSpoilt, pnFails>>
       \/ /\ on /\ ~pnMode /\ UNCHANGED pnCircle
          /\ \E r \in PnWriteFod(TRUE, pnGlass) :
               /\ PnCount(r.ok) /\ pnMode' = r.ok
               /\ IF r.ok THEN pnGlass' = r.glass /\ PnUpdateDog(TRUE, pnCircle) /\ UNCHANGED pnSpoilt
                  ELSE \E u \in PnWriteFod(FALSE, r.glass) :
                         pnGlass' = u.glass /\ PnSpoil("fod", u.ok) /\ UNCHANGED pnArmed
       \/ ~on /\ pnMode /\ PnLeaveFod /\ PnUpdateDog(FALSE, FALSE)
    /\ UNCHANGED <<pnRest, pnPrepared, pnEnabled, pnUser, pnWork, pnDrm>>

\* fod_circle_store, which needs the mode.
PnCircleStore(on) ==
    /\ PnStore /\ (on => pnMode) /\ UNCHANGED pnMode
    /\ IF pnCircle = on THEN UNCHANGED <<pnCircle, pnGlass, pnSpoilt, pnFails>>
       ELSE \E r \in PnWriteCircle(on, pnGlass) :
              /\ PnCount(r.ok) /\ pnCircle' = IF r.ok THEN on ELSE pnCircle
              /\ IF r.ok \/ ~on THEN pnGlass' = r.glass /\ UNCHANGED pnSpoilt
                 ELSE \E u \in PnWriteCircle(FALSE, r.glass) :
                        pnGlass' = u.glass /\ PnSpoil("fod", u.ok)
    /\ PnUpdateDog(pnMode, pnCircle')
    /\ UNCHANGED <<pnRest, pnPrepared, pnEnabled, pnUser, pnWork, pnDrm>>

\* The fingerprint service dies at any point, and is started again.
PnServiceTurns ==
    /\ pnService' = ~pnService
    /\ UNCHANGED <<pnStage, pnFlags, pnUser, pnGlass, pnDog, pnDrm, pnSpoilt, pnFails>>

-----------------------------------------------------------------------------
(* The watchdog and removal.                                               *)

PnDogFires ==
    /\ pnArmed /\ ~pnWork /\ pnArmed' = FALSE /\ pnWork' = TRUE
    /\ UNCHANGED <<pnRest, pnFlags, pnUser, pnGlass, pnDrm, pnSpoilt, pnFails>>

\* ana38407_fod_watchdog_work.
PnDogWork ==
    /\ pnWork /\ pnWork' = FALSE
    /\ IF pnPrepared /\ pnEnabled THEN PnLeaveFod
       ELSE PnForget /\ UNCHANGED <<pnGlass, pnSpoilt, pnFails>>
    /\ UNCHANGED <<pnRest, pnPrepared, pnEnabled, pnUser, pnArmed, pnDrm>>

\* ana38407_remove: the attributes go,
PnRemove ==
    /\ pnStage = "bound" /\ pnStage' = "nosysfs"
    /\ UNCHANGED <<pnService, pnFlags, pnUser, pnGlass, pnDog, pnDrm, pnSpoilt, pnFails>>

\* ... then the watchdog, then the mode; the display core has let go when it returns.
PnRemoveStep ==
    \/ /\ pnStage = "nosysfs" /\ ~pnWork /\ pnStage' = "quiet" /\ pnArmed' = FALSE
       /\ UNCHANGED <<pnService, pnFlags, pnUser, pnGlass, pnWork, pnDrm, pnSpoilt, pnFails>>
    \/ /\ pnStage = "quiet" /\ pnDrm = "idle" /\ pnStage' = "gone"
       /\ IF pnPrepared THEN PnLeaveFod
          ELSE UNCHANGED <<pnMode, pnCircle, pnGlass, pnSpoilt, pnFails>>
       /\ UNCHANGED <<pnService, pnPrepared, pnEnabled, pnUser, pnDog, pnDrm>>

PnNext ==
    \/ \E ok \in BOOLEAN : PnPrepare(ok) \/ PnEnable(ok)
    \/ \E v \in PnLevels, ok \in BOOLEAN : PnBacklight(v, ok)
    \/ \E on \in BOOLEAN : PnModeStore(on) \/ PnCircleStore(on)
    \/ PnDisable \/ PnUnprepare \/ PnCancel
    \/ PnServiceTurns \/ PnDogFires \/ PnDogWork \/ PnRemove \/ PnRemoveStep

PnSpec == PnInit /\ [][PnNext]_pnVars

\* Timers expire, works run, and a call that has begun ends.
PnFair ==
    /\ WF_pnVars(PnDogFires) /\ WF_pnVars(PnDogWork)
    /\ WF_pnVars(PnCancel) /\ WF_pnVars(PnRemoveStep)

-----------------------------------------------------------------------------
(* Properties.                                                             *)

\* "GNOME may update the normal backlight while fprintd is sampling, but that new
\* value must only be remembered and restored after the sample has finished": a
\* prepared panel shows the fingerprint's brightness exactly in fingerprint mode and
\* the desktop's last value otherwise, whoever ended the mode, unless a write failed.
PnSampleExact ==
    pnPrepared /\ pnSpoilt = {} =>
      /\ pnGlass.hbm = pnMode
      /\ pnGlass.level = IF pnMode THEN PnFod ELSE pnUser
      /\ pnGlass.circle => pnCircle

\* After remove the watchdog, whose work would use the freed structure, neither
\* runs nor is armed: nobody can arm it between its cancellation and the end.
PnDogDead == pnStage = "gone" => ~pnArmed /\ ~pnWork

\* The panel shows what the flags say, and nothing acts on it after its removal.
PnSafe == PnSampleExact /\ PnDogDead

\* A fingerprint service that dies, or forgets, does not leave the panel at its
\* high brightness: the watchdog ends it, unless the write that does so fails.
PnBrightnessReturns ==
    (pnGlass.hbm /\ ~pnService) ~> (~pnGlass.hbm \/ pnService \/ "fod" \in pnSpoilt)
=============================================================================
