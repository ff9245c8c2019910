------------------------------ MODULE SpssRproc ------------------------------
(***************************************************************************)
(* Boot of the secure processor (SP), src/kernel/files/spu/qcom_spss.c:    *)
(* start, attach and stop under the remoteproc core's lock, the threaded   *)
(* interrupt handler that runs beside them, the votes taken while starting *)
(* and the glink edge.  The remoteproc core, AOP and the SP are external.  *)
(***************************************************************************)
EXTENDS Integers, FiniteSets

CONSTANTS SsMaxBoot,  \* bound: how often the SP is brought out of reset
          SsMaxErr    \* bound: external refusals and failures in a behaviour

ASSUME SsAssumption == SsMaxBoot \in Nat /\ SsMaxErr \in Nat

VARIABLES
    ssBind,    \* "new", "bound", "gone", or "hollow": probe returned 0, all freed
    ssQmp,     \* the reference of qmp_get on AOP's device, which nothing puts
    ssState,   \* rproc->state
    ssOp,      \* operation under rproc->lock: none, start, attach, recover, subdev
    ssWait,    \* its wait for start_done: "none", "wait", "ok", "timeout"
    ssDone,    \* completion start_done: its count
    ssMask,    \* interrupts masked
    ssIrq,     \* sp2soc_irq_status
    ssErr,     \* rmb_err_spare2: "none", "wdog", "other"
    ssHand,    \* the handler: "idle", or the error value it has read
    ssSp,      \* the SP: "off", "boot", "up", "dead"
    ssAop,     \* load_state told to AOP
    ssXo, ssCx,\* votes on the xo clock and the cx regulator
    ssEdge,    \* glink edge registered
    ssCrash,   \* rproc crash work queued
    ssRecover, \* ~rproc->recovery_disabled
    ssReady,   \* ghost: the SP has reported SW_INIT_DONE in this boot
    ssLoose,   \* ghost: since spss_stop a wait timed out, or the handler was overtaken
    ssRefused, \* history: starts AOP has refused
    ssBoots, ssErrs

ssProbeVars == <<ssBind, ssQmp>>
ssVote == <<ssXo, ssCx, ssRefused>>
ssHw == <<ssIrq, ssErr, ssSp>>
ssReport == <<ssReady, ssLoose>>
ssHist == <<ssBoots, ssErrs>>
ssVars == <<ssProbeVars, ssState, ssOp, ssWait, ssDone, ssMask, ssHw, ssHand, ssAop,
            ssVote, ssEdge, ssCrash, ssRecover, ssReport, ssHist>>

SsInit ==
    /\ ssBind = "new" /\ ssQmp = FALSE
    /\ ssState \in {"DETACHED", "OFFLINE"}    \* bit 0 of rmb_gpm
    /\ ssSp = IF ssState = "DETACHED" THEN "boot" ELSE "off"
    /\ ssOp = "none" /\ ssWait = "none" /\ ssDone = 0
    /\ ssMask = TRUE /\ ssIrq = {} /\ ssErr = "none" /\ ssHand = "idle"
    /\ ssAop = "off" /\ ssXo = 0 /\ ssCx = 0 /\ ssEdge = FALSE
    /\ ssCrash = FALSE /\ ssRecover = FALSE
    /\ ssReady = FALSE /\ ssLoose = FALSE /\ ssRefused = 0 /\ ssBoots = 0 /\ ssErrs = 0

SsFail == ssErrs < SsMaxErr /\ ssErrs' = ssErrs + 1
SsFree == ssBind = "bound" /\ ssOp = "none"

-----------------------------------------------------------------------------
(* qcom_spss_probe and qcom_spss_remove.                                   *)

SsProbe ==
    /\ ssBind = "new"
    /\ ssBind' = "bound" /\ ssQmp' = TRUE
    /\ UNCHANGED <<ssState, ssOp, ssWait, ssDone, ssMask, ssHw, ssHand, ssAop, ssVote,
                   ssEdge, ssCrash, ssRecover, ssReport, ssHist>>

\* A step before qmp_get fails, or qmp_get itself, which leaves ret at 0 so that the
\* device stays bound, hollow, or a step after it.  The labels undo what was taken, but
\* for the reference of qmp_get.
SsProbeFails(step) ==
    /\ ssBind = "new" /\ SsFail
    /\ ssBind' = IF step = "qmp" THEN "hollow" ELSE "gone"
    /\ ssQmp' = (step = "after")
    /\ UNCHANGED <<ssState, ssOp, ssWait, ssDone, ssMask, ssHw, ssHand, ssAop, ssVote,
                   ssEdge, ssCrash, ssRecover, ssReport, ssBoots>>

\* Unbinding, after rproc_del has stopped an SP that runs (SsStop); unbinding a
\* crashed SP that was not recovered is left out.
SsRemove ==
    /\ SsFree /\ ssHand = "idle" /\ ~ssCrash
    /\ ssState \in {"DETACHED", "OFFLINE"}
    /\ ssBind' = "gone"
    /\ UNCHANGED <<ssQmp, ssState, ssOp, ssWait, ssDone, ssMask, ssHw, ssHand, ssAop, ssVote,
                   ssEdge, ssCrash, ssRecover, ssReport, ssHist>>

-----------------------------------------------------------------------------
(* spss_start.                                                             *)

\* clk_prepare_enable, enable_regulator, the AOP message and auth_and_reset up to the
\* wait, for which nothing resets start_done.  "clk" and "cx": that step fails; "aop":
\* AOP refuses, and the jump to disable_xo_clk leaves ret at 0 and the regulator
\* enabled; "scm": auth fails.
SsStart(op, outcome) ==
    /\ SsFree
    /\ \/ op = "start" /\ ssState = "OFFLINE"                     \* rproc_boot
       \/ op = "recover" /\ ssState = "CRASHED" /\ ssRecover      \* after spss_stop
          /\ ~ssEdge /\ ssMask
    /\ IF outcome = "ok" THEN ssBoots < SsMaxBoot /\ UNCHANGED ssErrs ELSE SsFail
    /\ ssOp' = op
    /\ ssXo' = IF outcome = "ok" THEN ssXo + 1 ELSE ssXo          \* undone on failure
    /\ ssCx' = IF outcome \in {"ok", "aop"} THEN ssCx + 1 ELSE ssCx
    /\ ssRefused' = IF outcome = "aop" THEN ssRefused + 1 ELSE ssRefused
    /\ ssAop' = CASE outcome = "ok" -> "on" [] outcome = "scm" -> "off" [] OTHER -> ssAop
    /\ ssMask' = (outcome # "ok" /\ ssMask)
    /\ ssWait' = CASE outcome = "ok" -> "wait" [] outcome = "aop" -> "ok" [] OTHER -> "timeout"
    /\ IF outcome = "ok"
       THEN /\ ssSp' = "boot" /\ ssErr' = "none" /\ ssIrq' = {} /\ ssReady' = FALSE
            /\ ssBoots' = ssBoots + 1
       ELSE UNCHANGED <<ssSp, ssErr, ssIrq, ssReady, ssBoots>>
    /\ UNCHANGED <<ssProbeVars, ssState, ssDone, ssHand, ssEdge, ssCrash, ssRecover, ssLoose>>

\* wait_for_completion_timeout takes one completion, then the votes go.
SsWaitDone ==
    /\ ssWait = "wait" /\ ssDone > 0
    /\ ssDone' = ssDone - 1 /\ ssWait' = "ok"
    /\ ssXo' = IF ssOp = "attach" THEN ssXo ELSE ssXo - 1
    /\ ssCx' = IF ssOp = "attach" THEN ssCx ELSE ssCx - 1
    /\ UNCHANGED <<ssProbeVars, ssState, ssOp, ssMask, ssHw, ssHand, ssAop, ssRefused,
                   ssEdge, ssCrash, ssRecover, ssReport, ssHist>>

MutSsWaitTimeout ==
    /\ ssWait = "wait" /\ SsFail
    /\ ssWait' = "timeout" /\ ssAop' = "off" /\ ssLoose' = TRUE
    /\ UNCHANGED <<ssProbeVars, ssState, ssOp, ssDone, ssMask, ssHw, ssHand, ssVote,
                   ssEdge, ssCrash, ssRecover, ssReady, ssBoots>>

\* The wait runs out: AOP is told and the votes go, but the interrupts stay unmasked.
SsWaitTimeout ==
    /\ ssWait = "wait" /\ ssDone = 0 /\ SsFail
    /\ ssWait' = "timeout" /\ ssAop' = "off" /\ ssLoose' = TRUE
    /\ ssXo' = IF ssOp = "attach" THEN ssXo ELSE ssXo - 1
    /\ ssCx' = IF ssOp = "attach" THEN ssCx ELSE ssCx - 1
    /\ UNCHANGED <<ssProbeVars, ssState, ssOp, ssDone, ssMask, ssHw, ssHand, ssRefused,
                   ssEdge, ssCrash, ssRecover, ssReady, ssBoots>>

\* The core acts on the result: glink_spss_subdev_start registers the edge, the
\* state is set.
SsReturn ==
    /\ ssOp \in {"start", "recover", "attach"} /\ ssWait \in {"ok", "timeout"}
    /\ ssOp' = "none" /\ ssWait' = "none"
    /\ ssEdge' = (ssWait = "ok")
    /\ ssState' = IF ssWait = "ok" THEN IF ssOp = "attach" THEN "ATTACHED" ELSE "RUNNING"
                  ELSE ssState
    /\ UNCHANGED <<ssProbeVars, ssDone, ssMask, ssHw, ssHand, ssAop, ssVote, ssCrash,
                   ssRecover, ssReport, ssHist>>

-----------------------------------------------------------------------------
(* spss_stop and spss_attach.                                              *)

\* pas_shutdown may fail and is only logged; the rest is done all the same.
\* The handler is not waited for.
SsStopped == /\ ssMask' = TRUE /\ ssAop' = "off" /\ ssDone' = 0
             /\ ssLoose' = (ssHand # "idle") /\ UNCHANGED ssReady

\* rproc_shutdown: glink_spss_subdev_stop unregisters the edge, spss_stop.
SsStop ==
    /\ SsFree /\ ssState \in {"RUNNING", "ATTACHED"}
    /\ ssEdge' = FALSE
    /\ SsStopped
    /\ ssState' = "OFFLINE"
    /\ \/ ssSp' = "off" /\ UNCHANGED ssErrs
       \/ UNCHANGED ssSp /\ SsFail
    /\ UNCHANGED <<ssProbeVars, ssOp, ssWait, ssIrq, ssErr, ssHand, ssVote, ssCrash, ssRecover,
                   ssBoots>>

\* The edge cannot be registered: the core undoes the boot with spss_stop.
SsEdgeFails ==
    /\ ssOp \in {"start", "recover", "attach"} /\ ssWait = "ok" /\ SsFail
    /\ ssOp' = "none" /\ ssWait' = "none"
    /\ SsStopped
    /\ ssState' = "OFFLINE" /\ ssSp' = "off"
    /\ UNCHANGED <<ssProbeVars, ssIrq, ssErr, ssHand, ssVote, ssEdge, ssCrash, ssRecover,
                   ssBoots>>

\* spss_attach up to its wait: a bite found by check_status is cleared and the
\* SP stopped, with ret still 0; so is an SP with a boot loader error, or one AOP does
\* not accept, with that error.
SsAttach(outcome) ==
    /\ SsFree /\ ssState = "DETACHED"
    /\ LET bitten == "ERR_READY" \in ssIrq /\ ssErr = "wdog"
       IN \/ /\ outcome = "dead" /\ bitten
             /\ ssIrq' = ssIrq \ {"ERR_READY"}
             /\ SsStopped
             /\ ssState' = "OFFLINE" /\ ssWait' = "ok" /\ ssSp' = "off"
             /\ UNCHANGED ssErrs
          \/ /\ outcome \in {"pbl", "aop"} /\ ~bitten /\ SsFail
             /\ SsStopped
             /\ ssState' = "OFFLINE" /\ ssWait' = "timeout" /\ ssSp' = "off"
             /\ UNCHANGED ssIrq
          \/ /\ outcome = "ok" /\ ~bitten
             /\ ssMask' = FALSE /\ ssAop' = "on" /\ ssWait' = "wait"
             /\ UNCHANGED <<ssState, ssDone, ssReport, ssSp, ssIrq, ssErrs>>
    /\ ssOp' = "attach"
    /\ UNCHANGED <<ssProbeVars, ssErr, ssHand, ssVote, ssEdge, ssCrash, ssRecover, ssBoots>>

-----------------------------------------------------------------------------
(* spss_generic_handler, in the two register reads it makes.               *)

SsHandlerEnter ==
    /\ ssBind = "bound" /\ ssHand = "idle" /\ ~ssMask /\ ssIrq # {}
    /\ ssHand' = ssErr
    /\ UNCHANGED <<ssProbeVars, ssState, ssOp, ssWait, ssDone, ssMask, ssHw, ssAop, ssVote,
                   ssEdge, ssCrash, ssRecover, ssReport, ssHist>>

\* clear_err_ready, clear_wdog, clear_sw_init_done_error and clear_pbl_done.
MutSsHandler ==
    /\ ssHand # "idle"
    /\ ssDone' = IF "ERR_READY" \in ssIrq THEN ssDone + 1 ELSE ssDone
    /\ ssCrash' = ssCrash
    /\ ssIrq' = {} /\ ssHand' = "idle"
    /\ UNCHANGED <<ssProbeVars, ssState, ssOp, ssWait, ssMask, ssErr, ssSp, ssAop, ssVote,
                   ssEdge, ssRecover, ssReport, ssHist>>
SsHandler ==
    LET ready == "ERR_READY" \in ssIrq
    IN /\ ssHand # "idle"
       /\ ssDone' = IF ready /\ ssHand = "none" THEN ssDone + 1 ELSE ssDone
       /\ ssCrash' = (ssCrash \/ (ready /\ ssHand = "wdog"))
       /\ ssIrq' = {} /\ ssHand' = "idle"
       /\ UNCHANGED <<ssProbeVars, ssState, ssOp, ssWait, ssMask, ssErr, ssSp, ssAop, ssVote,
                      ssEdge, ssRecover, ssReport, ssHist>>

\* External: rproc_crash_handler_work, and with recovery the stop of the SP.
SsCrashWork ==
    /\ SsFree /\ ssCrash /\ ssCrash' = FALSE
    /\ IF ssState \in {"OFFLINE", "CRASHED"}
       THEN UNCHANGED <<ssState, ssEdge, ssMask, ssAop, ssDone, ssReport, ssSp>>
       ELSE /\ ssState' = "CRASHED"
            /\ IF ssRecover THEN ssEdge' = FALSE /\ SsStopped /\ ssSp' = "off"
               ELSE UNCHANGED <<ssEdge, ssMask, ssAop, ssDone, ssReport, ssSp>>
    /\ UNCHANGED <<ssProbeVars, ssOp, ssWait, ssIrq, ssErr, ssHand, ssVote, ssRecover, ssHist>>

\* SPCOM_ENABLE_SSR or sysfs: the recovery flag; a crashed SP is then stopped.
SsEnableRecovery ==
    /\ SsFree /\ ~ssRecover /\ ssRecover' = TRUE
    /\ IF ssState = "CRASHED" THEN ssEdge' = FALSE /\ SsStopped /\ ssSp' = "off"
       ELSE UNCHANGED <<ssEdge, ssMask, ssAop, ssDone, ssReport, ssSp>>
    /\ UNCHANGED <<ssProbeVars, ssState, ssOp, ssWait, ssIrq, ssErr, ssHand, ssVote, ssCrash,
                   ssHist>>

-----------------------------------------------------------------------------
(* The SP, external.                                                       *)

SsSpReports(what) ==
    /\ ssBind # "gone"
    /\ \/ what = "pbl" /\ ssSp = "boot" /\ ssIrq' = ssIrq \cup {"PBL_DONE"}
          /\ "PBL_DONE" \notin ssIrq /\ UNCHANGED <<ssErr, ssSp>>
       \/ what = "ready" /\ ssSp = "boot" /\ ssIrq' = ssIrq \cup {"ERR_READY"}
          /\ ssSp' = "up" /\ UNCHANGED ssErr
       \/ what = "error" /\ ssSp = "boot" /\ ssIrq' = ssIrq \cup {"ERR_READY"}
          /\ ssSp' = "dead" /\ ssErr' = "other"
       \/ what = "bite" /\ ssSp \in {"boot", "up"} /\ ssIrq' = ssIrq \cup {"ERR_READY"}
          /\ ssSp' = "dead" /\ ssErr' = "wdog"
    /\ ssReady' = (ssReady \/ what = "ready")
    /\ ssLoose' = (ssLoose \/ (what \in {"error", "bite"} /\ ssHand = "none"))
    /\ UNCHANGED <<ssProbeVars, ssState, ssOp, ssWait, ssDone, ssMask, ssHand, ssAop, ssVote,
                   ssEdge, ssCrash, ssRecover, ssHist>>

SsNext ==
    \/ SsProbe \/ SsRemove
    \/ \E s \in {"before", "qmp", "after"} : SsProbeFails(s)
    \/ \E op \in {"start", "recover"}, o \in {"ok", "clk", "cx", "aop", "scm"} : SsStart(op, o)
    \/ \E o \in {"ok", "dead", "pbl", "aop"} : SsAttach(o)
    \/ SsWaitDone \/ SsWaitTimeout \/ SsReturn \/ SsEdgeFails \/ SsStop
    \/ SsHandlerEnter \/ SsHandler \/ SsCrashWork \/ SsEnableRecovery
    \/ \E w \in {"pbl", "ready", "error", "bite"} : SsSpReports(w)

SsSpec == SsInit /\ [][SsNext]_ssVars

-----------------------------------------------------------------------------
(* Properties.                                                             *)

\* The xo and cx votes of spss_start are proxies: both stand while a start waits for the
\* SP, and otherwise none does, whichever way the start ended, but for one cx vote for
\* every start AOP refused: the jump to disable_xo_clk loses it for good, and it is the
\* only way to lose one.
SsVotesCounted ==
    LET starting == IF ssWait = "wait" /\ ssOp # "attach" THEN 1 ELSE 0
    IN ssXo = starting /\ ssCx = starting + ssRefused

\* The wait of a start or of an attach ends well only after the SP has reported
\* SW_INIT_DONE in this very boot, though nothing resets the completion for it: the error
\* and bite branches of the handler, a report of an earlier boot or one dropped by
\* spss_stop never end it.  Excepted is what the code leaves open since the last
\* spss_stop: an earlier wait timed out, spss_stop or a failure of the SP came between
\* the two register reads of the handler.
SsSuccessWasReported ==
    [][(ssWait = "wait" /\ ssWait' = "ok") => ssReady \/ ssLoose]_ssVars

\* The glink edge follows the state of the remoteproc through start, attach, crash,
\* recovery and their failures: no operation finds an edge of an earlier life, an SP
\* that the core takes for running has one, and only an SP that crashed without
\* recovery keeps one.
SsEdgeFollows ==
    /\ ssOp # "none" => ~ssEdge
    /\ ssOp = "none" /\ ssState \in {"RUNNING", "ATTACHED"} => ssEdge
    /\ ssEdge => ssState \in {"RUNNING", "ATTACHED"} \/ (ssState = "CRASHED" /\ ~ssRecover)

\* The lives of the SP are kept apart: a start succeeds by a report of its own, and an
\* edge belongs to the life it was registered in.
SsLifecycle == SsSuccessWasReported /\ []SsEdgeFollows
=============================================================================
