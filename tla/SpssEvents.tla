----------------------------- MODULE SpssEvents -----------------------------
(***************************************************************************)
(* What user space is told about the secure processor (SP): the events of  *)
(* /dev/spss_utils (src/kernel/files/spu/spss_utils.c), kept by the        *)
(* remoteproc callbacks and by ioctls, and the interrupt bridge            *)
(* /dev/qsee_ipc_irq_spss (src/kernel/files/spu/qcom_spss_irq.c).          *)
(***************************************************************************)
EXTENDS Integers

CONSTANTS EvUsers, EvNobody,
          EvUserIds,   \* the events users signal (user_events)
          EvMaxLife,   \* bound: starts of the SP
          EvMaxIrq     \* bound: notifications of the SP

ASSUME EvAssumption == EvNobody \notin EvUsers /\ EvMaxLife \in Nat /\ EvMaxIrq \in Nat

VARIABLES
    evSig,   \* signaled[id], and with it the completion events[id]
    evWait,  \* the event each user waits for, or "none"
    evCore,  \* the remoteproc core: "down", "up", "stopped" (before unprepare)
    evLife,  \* history: the life of the SP in which the event was last signalled
    evLives, \* history: lives so far
    iqPending, iqOwner,   \* spss_irq_pending, who holds spss_irq_opened
    iqPoll,  \* the owner in poll(): "idle", "queued", "asleep"
    iqWoken, \* its wait entry was woken
    iqCount

evEvents == <<evSig, evWait, evCore, evLife, evLives>>
evIrq == <<iqPending, iqOwner, iqPoll, iqWoken, iqCount>>
evVars == <<evEvents, evIrq>>

EvIds == EvUserIds \cup {"SPU_POWER_DOWN", "SPU_POWER_UP"}

EvInit ==
    /\ evSig = [i \in EvIds |-> FALSE] /\ evWait = [u \in EvUsers |-> "none"]
    /\ evCore = "down" /\ evLife = [i \in EvIds |-> 0] /\ evLives = 0
    /\ iqPending = FALSE /\ iqOwner = EvNobody
    /\ iqPoll = "idle" /\ iqWoken = FALSE /\ iqCount = 0

-----------------------------------------------------------------------------
(* spss_utils: the callbacks, each under event_lock.                       *)

\* spss_utils_signal_kernel_event(on) and spss_utils_reset_event(off).
EvFlip(on, off) ==
    /\ evSig' = [evSig EXCEPT ![on] = TRUE, ![off] = FALSE]
    /\ evLife' = [evLife EXCEPT ![on] = evLives']

\* spss_utils_subdev_start.
EvSubdevStart ==
    /\ evCore = "down" /\ evLives < EvMaxLife
    /\ evCore' = "up" /\ UNCHANGED evLives
    /\ EvFlip("SPU_POWER_UP", "SPU_POWER_DOWN")
    /\ UNCHANGED <<evWait, evIrq>>

\* spss_utils_subdev_stop, on shutdown and on a crash.
EvSubdevStop ==
    /\ evCore = "up"
    /\ evCore' = "stopped" /\ evLives' = evLives + 1
    /\ evSig' = [i \in EvIds |-> FALSE]
    /\ UNCHANGED <<evWait, evLife, evIrq>>

\* spss_utils_subdev_unprepare, after a stop or when the SP failed to start.
EvSubdevUnprepare ==
    /\ evCore \in {"stopped", "down"}
    /\ evCore' = "down" /\ UNCHANGED evLives
    /\ EvFlip("SPU_POWER_DOWN", "SPU_POWER_UP")
    /\ UNCHANGED <<evWait, evIrq>>

\* spss_utils_signal_event: refused when the event is already signalled.
EvSignal(u, i) ==
    /\ evWait[u] = "none" /\ i \in EvUserIds /\ ~evSig[i]
    /\ evSig' = [evSig EXCEPT ![i] = TRUE]
    /\ evLife' = [evLife EXCEPT ![i] = evLives]
    /\ UNCHANGED <<evWait, evCore, evLives, evIrq>>

\* spss_utils_wait_for_event, without event_lock: the wait begins; it ends when the
\* completion is found done, with the timeout, or with a signal.
EvWaitBegin(u, i) ==
    /\ evWait[u] = "none"
    /\ evWait' = [evWait EXCEPT ![u] = i]
    /\ UNCHANGED <<evSig, evCore, evLife, evLives, evIrq>>
MutEvWaitEnd(u) ==   \* complete() for complete_all(): one of the waiters is woken
    /\ evWait[u] # "none" /\ evSig[evWait[u]]
    /\ u = CHOOSE w \in EvUsers : TRUE
    /\ evWait' = [evWait EXCEPT ![u] = "none"]
    /\ UNCHANGED <<evSig, evCore, evLife, evLives, evIrq>>
EvWaitEnd(u) ==
    /\ evWait[u] # "none" /\ evSig[evWait[u]]
    /\ evWait' = [evWait EXCEPT ![u] = "none"]
    /\ UNCHANGED <<evSig, evCore, evLife, evLives, evIrq>>
EvWaitAborted(u) ==
    /\ evWait[u] # "none" /\ ~evSig[evWait[u]]
    /\ evWait' = [evWait EXCEPT ![u] = "none"]
    /\ UNCHANGED <<evSig, evCore, evLife, evLives, evIrq>>

-----------------------------------------------------------------------------
(* The interrupt bridge.                                                   *)

\* spss_irq_handler: the flag, then the wake-up of a queued waiter.
IqHandler ==
    /\ iqCount < EvMaxIrq /\ iqCount' = iqCount + 1
    /\ iqPending' = TRUE
    /\ iqWoken' = (iqWoken \/ iqPoll \in {"queued", "asleep"})
    /\ UNCHANGED <<evEvents, iqOwner, iqPoll>>

\* spss_irq_open: the compare-and-exchange admits one.
IqOpen(u) ==
    /\ iqOwner = EvNobody /\ iqOwner' = u
    /\ UNCHANGED <<evEvents, iqPending, iqPoll, iqWoken, iqCount>>

\* spss_irq_release leaves spss_irq_pending as it is.
IqRelease ==
    /\ iqOwner # EvNobody /\ iqPoll = "idle" /\ iqOwner' = EvNobody
    /\ UNCHANGED <<evEvents, iqPending, iqPoll, iqWoken, iqCount>>

\* spss_irq_poll: poll_wait queues the caller, atomic_xchg takes the flag.
IqPollWait ==
    /\ iqOwner # EvNobody /\ iqPoll = "idle"
    /\ iqPoll' = "queued" /\ iqWoken' = FALSE
    /\ UNCHANGED <<evEvents, iqPending, iqOwner, iqCount>>
IqPollTake ==
    /\ iqPoll = "queued"
    /\ iqPoll' = IF iqPending THEN "idle" ELSE "asleep"
    /\ iqPending' = FALSE
    /\ UNCHANGED <<evEvents, iqOwner, iqWoken, iqCount>>

\* The sleeping caller is woken and asks spss_irq_poll again.
IqWake ==
    /\ iqPoll = "asleep" /\ iqWoken
    /\ iqPoll' = IF iqPending THEN "idle" ELSE "asleep"
    /\ iqPending' = FALSE /\ iqWoken' = FALSE
    /\ UNCHANGED <<evEvents, iqOwner, iqCount>>

IqListen == IqPollWait \/ IqPollTake \/ IqWake

EvUtilsNext ==
    \/ EvSubdevStart \/ EvSubdevStop \/ EvSubdevUnprepare
    \/ \E u \in EvUsers : EvWaitEnd(u) \/ EvWaitAborted(u)
                          \/ \E i \in EvIds : EvSignal(u, i) \/ EvWaitBegin(u, i)
EvIrqNext ==
    IqHandler \/ IqRelease \/ IqListen \/ \E u \in EvUsers : IqOpen(u)

EvNext == EvUtilsNext \/ EvIrqNext

\* A waiter whose completion is done runs; the listener keeps polling.
EvFair == WF_evVars(IqListen) /\ \A u \in EvUsers : WF_evVars(EvWaitEnd(u))

EvSpec == EvInit /\ [][EvNext]_evVars /\ EvFair

-----------------------------------------------------------------------------
(* Properties.                                                             *)

\* The power events tell the truth in every state user space can look: SPU_POWER_UP
\* stands exactly while the SP's subdevices run, and SPU_POWER_DOWN never does then,
\* across starts, failed starts, shutdowns and crashes.
EvPowerTruth == /\ evSig["SPU_POWER_UP"] = (evCore = "up")
                /\ evSig["SPU_POWER_DOWN"] => evCore = "down"

\* spss_utils_subdev_stop forgets every event: one that stands was signalled after
\* the last stop, so that no process takes the readiness of an earlier life for its own.
EvOfThisLife == \A i \in EvIds : evSig[i] => evLife[i] = evLives

\* Who waits for SPU_POWER_UP while the SP is up and stays up is told.
EvUpIsHeard ==
    \A u \in EvUsers :
        (evWait[u] = "SPU_POWER_UP" /\ evCore = "up")
        ~> (evWait[u] = "none" \/ evCore # "up")

\* No interrupt is lost on the listener: the order of poll_wait and atomic_xchg makes a
\* notification that comes at any moment of poll() end it, unless the listener closes.
IqNotLost == (iqPending /\ iqOwner # EvNobody) ~> (~iqPending \/ iqOwner = EvNobody)

\* What user space learns of the SP is true and of this life, and whoever waits for it
\* is told: the events and the interrupt bridge lose and invent nothing.
EvHonest == [](EvPowerTruth /\ EvOfThisLife) /\ EvUpIsHeard /\ IqNotLost
=============================================================================
