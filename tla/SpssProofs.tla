----------------------------- MODULE SpssProofs -----------------------------
(***************************************************************************)
(* Proofs about the boot of the secure processor (SpssRproc), about what   *)
(* user space is told of it (SpssEvents) and about the ring its messages   *)
(* travel through (GlinkSpss), for any number of boots, failures, lives,   *)
(* users and interrupts, any length of the ring and any messages.          *)
(***************************************************************************)
EXTENDS SpssRproc, SpssEvents, GlinkSpss, SequenceTheorems, WellFoundedInduction, TLAPS

-----------------------------------------------------------------------------
(* Boot.                                                                   *)

\* The types of what a boot counts and waits for.
SsTypeOK ==
    /\ ssState \in {"DETACHED", "OFFLINE", "RUNNING", "ATTACHED", "CRASHED"}
    /\ ssOp \in {"none", "start", "recover", "attach"}
    /\ ssWait \in {"none", "wait", "ok", "timeout"}
    /\ ssDone \in Nat /\ ssXo \in Int /\ ssCx \in Int /\ ssRefused \in Nat

\* A wait belongs to an operation, and only the wait of a start is paid for with votes.
SsVotesInv == ((ssOp = "none") <=> (ssWait = "none")) /\ SsVotesCounted

\* The edge follows the state, and an operation starts from a state without one.
SsEdgeInv == SsEdgeFollows /\ (ssOp # "none" => ssState \in {"DETACHED", "OFFLINE", "CRASHED"})

\* SW_INIT_DONE stands in the status register, not yet seen by the handler.
SsPending == "ERR_READY" \in ssIrq /\ ssErr = "none"

\* No handler runs and none can be entered.
SsDeaf == ssMask /\ ssHand = "idle"

\* What the registers say of this boot.
SsBootInv ==
    /\ ssSp = "boot" => ~ssReady
    /\ ssSp \in {"boot", "up"} => ssErr = "none"
    /\ SsPending => ssReady

\* While nothing has come loose, a completion stands only for the operation that waits
\* for it, and the report it stands for is taken once: an SP that boots, or whose report
\* is pending, is either waited for or cannot interrupt.
SsReportInv ==
    ~ssLoose =>
        /\ ssHand = "none" => ssErr = "none"
        /\ ssDone = 0 \/ (ssDone = 1 /\ ssReady /\ ssWait = "wait" /\ ~SsPending)
        /\ SsPending \/ ssSp = "boot" => ssWait = "wait" \/ SsDeaf

SsInv == SsTypeOK /\ SsVotesInv /\ SsEdgeInv /\ SsBootInv /\ SsReportInv

\* Nothing is started and nothing has been reported when the module is loaded.
LEMMA SsInitInv == SsInit => SsInv
  BY DEF SsInit, SsInv, SsTypeOK, SsVotesInv, SsVotesCounted, SsEdgeInv, SsEdgeFollows,
         SsPending, SsDeaf, SsBootInv, SsReportInv

\* The votes and the types, step by step.
LEMMA SsVotesStep == SsInv /\ [SsNext]_ssVars => SsTypeOK' /\ SsVotesInv'
<1> SUFFICES ASSUME SsInv, [SsNext]_ssVars PROVE SsTypeOK' /\ SsVotesInv'
  OBVIOUS
<1> USE DEF SsInv, SsTypeOK, SsVotesInv, SsVotesCounted, SsFree, SsStopped, ssVote
<1>1. CASE \/ SsProbe \/ SsRemove \/ SsHandlerEnter \/ UNCHANGED ssVars
           \/ (\E s \in {"before", "qmp", "after"} : SsProbeFails(s))
           \/ (\E w \in {"pbl", "ready", "error", "bite"} : SsSpReports(w))
  <2>1. UNCHANGED <<ssState, ssOp, ssWait, ssDone, ssXo, ssCx, ssRefused>>
    BY <1>1 DEF SsProbe, SsRemove, SsProbeFails, SsHandlerEnter, SsSpReports, ssVars
  <2> QED
    BY <2>1
<1>2. ASSUME NEW op \in {"start", "recover"}, NEW o \in {"ok", "clk", "cx", "aop", "scm"},
             SsStart(op, o)
      PROVE  SsTypeOK' /\ SsVotesInv'
  <2>1. ssOp = "none" /\ ssWait = "none" /\ ssXo = 0 /\ ssCx = ssRefused
    BY <1>2 DEF SsStart
  <2>2. /\ ssOp' = op
        /\ ssWait' = CASE o = "ok" -> "wait" [] o = "aop" -> "ok" [] OTHER -> "timeout"
        /\ ssXo' = IF o = "ok" THEN ssXo + 1 ELSE ssXo
        /\ ssCx' = IF o \in {"ok", "aop"} THEN ssCx + 1 ELSE ssCx
        /\ ssRefused' = IF o = "aop" THEN ssRefused + 1 ELSE ssRefused
        /\ UNCHANGED <<ssState, ssDone>>
    BY <1>2 DEF SsStart
  <2> QED
    BY <2>1, <2>2
<1>3. CASE SsWaitDone
  BY <1>3 DEF SsWaitDone
<1>4. CASE SsWaitTimeout
  BY <1>4 DEF SsWaitTimeout
<1>5. CASE SsReturn
  BY <1>5 DEF SsReturn
<1>6. CASE SsStop \/ SsEdgeFails
  BY <1>6 DEF SsStop, SsEdgeFails
<1>7. CASE SsCrashWork \/ SsEnableRecovery
  BY <1>7 DEF SsCrashWork, SsEnableRecovery
<1>8. ASSUME NEW o \in {"ok", "dead", "pbl", "aop"}, SsAttach(o)
      PROVE  SsTypeOK' /\ SsVotesInv'
  BY <1>8 DEF SsAttach
<1>9. CASE SsHandler
  BY <1>9 DEF SsHandler
<1> QED
  BY <1>1, <1>2, <1>3, <1>4, <1>5, <1>6, <1>7, <1>8, <1>9 DEF SsNext

\* The edge and the state, step by step.
LEMMA SsEdgeStep == SsInv /\ [SsNext]_ssVars => SsEdgeInv'
<1> SUFFICES ASSUME SsInv, [SsNext]_ssVars PROVE SsEdgeInv'
  OBVIOUS
<1> USE DEF SsInv, SsTypeOK, SsEdgeInv, SsEdgeFollows, SsFree, SsStopped
<1>1. CASE \/ SsProbe \/ SsRemove \/ SsHandlerEnter \/ SsHandler \/ UNCHANGED ssVars
           \/ SsWaitDone \/ SsWaitTimeout
           \/ (\E s \in {"before", "qmp", "after"} : SsProbeFails(s))
           \/ (\E w \in {"pbl", "ready", "error", "bite"} : SsSpReports(w))
  <2>1. UNCHANGED <<ssState, ssOp, ssEdge, ssRecover>>
    BY <1>1 DEF SsProbe, SsRemove, SsProbeFails, SsHandlerEnter, SsHandler, SsSpReports,
                SsWaitDone, SsWaitTimeout, ssVars
  <2> QED
    BY <2>1
<1>2. ASSUME NEW op \in {"start", "recover"}, NEW o \in {"ok", "clk", "cx", "aop", "scm"},
             SsStart(op, o)
      PROVE  SsEdgeInv'
  BY <1>2 DEF SsStart
<1>3. CASE SsReturn
  BY <1>3 DEF SsReturn
<1>4. CASE SsStop \/ SsEdgeFails
  BY <1>4 DEF SsStop, SsEdgeFails
<1>5. CASE SsCrashWork
  BY <1>5 DEF SsCrashWork
<1>6. CASE SsEnableRecovery
  BY <1>6 DEF SsEnableRecovery
<1>7. ASSUME NEW o \in {"ok", "dead", "pbl", "aop"}, SsAttach(o) PROVE SsEdgeInv'
  BY <1>7 DEF SsAttach
<1> QED
  BY <1>1, <1>2, <1>3, <1>4, <1>5, <1>6, <1>7 DEF SsNext

\* spss_stop drops the completion and masks the interrupts; unless it overtook the
\* handler, what is left pending cannot be taken before the next start clears it.
LEMMA SsStoppedReports ==
    ASSUME SsInv, SsStopped, UNCHANGED <<ssErr, ssHand>>, ssIrq' \subseteq ssIrq,
           ssSp' \in {"off", ssSp}
    PROVE  SsBootInv' /\ SsReportInv'
  BY DEF SsInv, SsStopped, SsBootInv, SsReportInv, SsPending, SsDeaf

\* The reports of the SP, step by step.
LEMMA SsReportStep == SsInv /\ [SsNext]_ssVars => SsBootInv' /\ SsReportInv'
<1> SUFFICES ASSUME SsInv, [SsNext]_ssVars PROVE SsBootInv' /\ SsReportInv'
  OBVIOUS
<1> USE DEF SsInv, SsTypeOK, SsBootInv, SsReportInv, SsPending, SsDeaf, SsFree, ssHw, ssReport
<1>1. CASE \/ SsProbe \/ SsRemove \/ UNCHANGED ssVars
           \/ (\E s \in {"before", "qmp", "after"} : SsProbeFails(s))
  <2>1. UNCHANGED <<ssIrq, ssErr, ssSp, ssHand, ssMask, ssDone, ssWait, ssReady, ssLoose>>
    BY <1>1 DEF SsProbe, SsRemove, SsProbeFails, ssVars
  <2> QED
    BY <2>1
<1>2. ASSUME NEW op \in {"start", "recover"}, NEW o \in {"ok", "clk", "cx", "aop", "scm"},
             SsStart(op, o)
      PROVE  SsBootInv' /\ SsReportInv'
  <2>1. ssWait = "none"
    BY <1>2 DEF SsStart, SsVotesInv
  <2>2. CASE o = "ok"
    <3>1. ssSp' = "boot" /\ ssErr' = "none" /\ ssIrq' = {} /\ ssReady' = FALSE
          /\ ssWait' = "wait" /\ UNCHANGED <<ssDone, ssHand, ssLoose>>
      BY <1>2, <2>2 DEF SsStart
    <3> QED
      BY <2>1, <3>1
  <2>3. CASE o # "ok"
    <3>1. UNCHANGED <<ssSp, ssErr, ssIrq, ssReady, ssDone, ssHand, ssLoose>>
          /\ (ssMask => ssMask')
      BY <1>2, <2>3 DEF SsStart
    <3> QED
      BY <2>1, <3>1
  <2> QED
    BY <2>2, <2>3
<1>3. CASE SsWaitDone
  BY <1>3 DEF SsWaitDone
<1>4. CASE SsWaitTimeout
  BY <1>4 DEF SsWaitTimeout
<1>5. CASE SsReturn
  BY <1>5 DEF SsReturn
<1>6. CASE SsStop \/ SsEdgeFails
  BY <1>6, SsStoppedReports DEF SsStop, SsEdgeFails
<1>7. CASE SsCrashWork \/ SsEnableRecovery
  <2>1. UNCHANGED <<ssWait, ssIrq, ssErr, ssHand>>
    BY <1>7 DEF SsCrashWork, SsEnableRecovery
  <2>2. \/ SsStopped /\ ssSp' = "off"
        \/ UNCHANGED <<ssMask, ssDone, ssReady, ssLoose, ssSp>>
    BY <1>7 DEF SsCrashWork, SsEnableRecovery
  <2> QED
    BY <2>1, <2>2, SsStoppedReports
<1>8. ASSUME NEW o \in {"ok", "dead", "pbl", "aop"}, SsAttach(o)
      PROVE  SsBootInv' /\ SsReportInv'
  <2>1. UNCHANGED <<ssErr, ssHand>> /\ ssIrq' \subseteq ssIrq /\ ssWait = "none"
    BY <1>8 DEF SsAttach, SsVotesInv
  <2>2. \/ SsStopped /\ ssSp' = "off"
        \/ ssWait' = "wait" /\ UNCHANGED <<ssDone, ssReady, ssLoose, ssSp, ssIrq>>
    BY <1>8 DEF SsAttach
  <2> QED
    BY <2>1, <2>2, SsStoppedReports
<1>9. CASE SsHandlerEnter
  BY <1>9 DEF SsHandlerEnter
<1>10. CASE SsHandler
  <2>1. /\ UNCHANGED <<ssErr, ssSp, ssMask, ssWait, ssReady, ssLoose>>
        /\ ssIrq' = {} /\ ssHand' = "idle" /\ ssHand # "idle"
    BY <1>10 DEF SsHandler
  <2>2. ssDone' = IF "ERR_READY" \in ssIrq /\ ssHand = "none" THEN ssDone + 1 ELSE ssDone
    BY <1>10 DEF SsHandler
  <2> QED
    BY <2>1, <2>2
<1>11. ASSUME NEW w \in {"pbl", "ready", "error", "bite"}, SsSpReports(w)
       PROVE  SsBootInv' /\ SsReportInv'
  <2>1. UNCHANGED <<ssWait, ssDone, ssMask, ssHand>>
    BY <1>11 DEF SsSpReports
  <2>2. CASE w = "pbl"
    <3>1. (ssReady' <=> ssReady) /\ (ssLoose' <=> ssLoose)
      BY ONLY <1>11, <2>2, Zenon DEF SsSpReports
    <3> QED
      BY <1>11, <2>1, <2>2, <3>1 DEF SsSpReports
  <2>3. CASE w = "ready"
    <3>1. ssReady' /\ (ssLoose' <=> ssLoose)
      BY ONLY <1>11, <2>3, Zenon DEF SsSpReports
    <3>2. ssSp = "boot" /\ ssSp' = "up" /\ ssErr' = ssErr /\ ssErr = "none" /\ ~ssReady
      BY <1>11, <2>3 DEF SsSpReports
    <3>3. SsBootInv'
      BY <3>1, <3>2
    <3>4. ~ssLoose => ssDone = 0 /\ (ssWait = "wait" \/ SsDeaf)
      BY <3>2
    <3> QED
      BY <2>1, <3>1, <3>2, <3>3, <3>4
  <2>4. CASE w \in {"error", "bite"}
    <3>1. (ssReady' <=> ssReady) /\ (ssLoose' <=> ssLoose \/ ssHand = "none")
      BY ONLY <1>11, <2>4, Zenon DEF SsSpReports
    <3>2. ssSp' = "dead" /\ ssErr' # "none"
      BY <1>11, <2>4 DEF SsSpReports
    <3> QED
      BY <2>1, <3>1, <3>2
  <2> QED
    BY <2>2, <2>3, <2>4
<1> QED
  BY <1>1, <1>2, <1>3, <1>4, <1>5, <1>6, <1>7, <1>8, <1>9, <1>10, <1>11 DEF SsNext

\* Every step keeps the invariant.
LEMMA SsNextInv == SsInv /\ [SsNext]_ssVars => SsInv'
  BY SsVotesStep, SsEdgeStep, SsReportStep DEF SsInv

\* In any number of boots, whichever step of a start fails, times out or is refused, the
\* proxy votes stand exactly while a start waits; what is lost for good is one cx vote for
\* each start AOP refused, and nothing else.
THEOREM SsVotesSafety == SsSpec => []SsVotesCounted
<1>1. SsInv => SsVotesCounted
  BY DEF SsInv, SsVotesInv
<1> QED
  BY <1>1, SsInitInv, SsNextInv, PTL DEF SsSpec

\* A wait that ends well has been reported to in this boot, unless something came loose;
\* and the edge follows the state of the remoteproc, in any number of lives.
THEOREM SsLifecycleSafety == SsSpec => SsLifecycle
<1>1. SsInv /\ [SsNext]_ssVars
        => [(ssWait = "wait" /\ ssWait' = "ok") => ssReady \/ ssLoose]_ssVars
  <2> SUFFICES ASSUME SsInv, SsNext, ssWait = "wait", ssWait' = "ok"
               PROVE  ssReady \/ ssLoose
    OBVIOUS
  <2> USE DEF SsFree
  <2>1. ssOp # "none"
    BY DEF SsInv, SsVotesInv
  <2>2. SsWaitDone
    BY <2>1 DEF SsNext, SsProbe, SsRemove, SsProbeFails, SsStart, SsAttach, SsWaitTimeout,
                SsReturn, SsEdgeFails, SsStop, SsHandlerEnter, SsHandler, SsCrashWork,
                SsEnableRecovery, SsSpReports
  <2>3. ssDone # 0
    BY <2>2 DEF SsWaitDone, SsInv, SsTypeOK
  <2> QED
    BY <2>3 DEF SsInv, SsReportInv
<1>2. SsInv => SsEdgeFollows
  BY DEF SsInv, SsEdgeInv
<1> QED
  BY <1>1, <1>2, SsInitInv, SsNextInv, PTL DEF SsSpec, SsLifecycle, SsSuccessWasReported

-----------------------------------------------------------------------------
(* The events of spss_utils.                                               *)

EvTypeOK ==
    /\ evSig \in [EvIds -> BOOLEAN] /\ evLife \in [EvIds -> Nat] /\ evLives \in Nat
    /\ evCore \in {"down", "up", "stopped"}

EvInv == EvTypeOK /\ EvPowerTruth /\ EvOfThisLife

\* Users signal their own events only.  (Nothing in spss_utils_signal_event refuses an id
\* of the kernel's own.)
EvOwnIds == EvUserIds \cap {"SPU_POWER_UP", "SPU_POWER_DOWN"} = {}

\* What signalling one event and resetting another does.
LEMMA EvFlipInv ==
    ASSUME EvTypeOK, EvOfThisLife, UNCHANGED evLives, NEW on \in EvIds, NEW off \in EvIds,
           on # off, EvFlip(on, off)
    PROVE  /\ evSig' \in [EvIds -> BOOLEAN] /\ evLife' \in [EvIds -> Nat]
           /\ evSig'[on] = TRUE /\ evSig'[off] = FALSE /\ EvOfThisLife'
<1>1. evSig' = [evSig EXCEPT ![on] = TRUE, ![off] = FALSE]
      /\ evLife' = [evLife EXCEPT ![on] = evLives]
  BY DEF EvFlip
<1>2. /\ evSig' \in [EvIds -> BOOLEAN] /\ evSig'[on] = TRUE /\ evSig'[off] = FALSE
      /\ \A i \in EvIds : i # on /\ i # off => evSig'[i] = evSig[i]
  BY <1>1 DEF EvTypeOK
<1>3. /\ evLife' \in [EvIds -> Nat] /\ evLife'[on] = evLives
      /\ \A i \in EvIds : i # on => evLife'[i] = evLife[i]
  BY <1>1 DEF EvTypeOK
<1>4. EvOfThisLife'
  BY <1>2, <1>3 DEF EvOfThisLife
<1> QED
  BY <1>2, <1>3, <1>4

\* For any users, events, lives and interrupts: SPU_POWER_UP stands exactly while the
\* subdevices run, SPU_POWER_DOWN never does then, and every event that stands was
\* signalled in this life of the SP - as long as users signal only their own events.
THEOREM EvTruth == EvOwnIds => (EvSpec => [](EvPowerTruth /\ EvOfThisLife))
<1> SUFFICES ASSUME EvOwnIds PROVE EvSpec => [](EvPowerTruth /\ EvOfThisLife)
  OBVIOUS
<1>0. "SPU_POWER_UP" \in EvIds /\ "SPU_POWER_DOWN" \in EvIds
  BY DEF EvIds
<1>1. EvInit => EvInv
  <2> SUFFICES ASSUME EvInit PROVE EvInv
    OBVIOUS
  <2>1. evSig = [i \in EvIds |-> FALSE] /\ evLife = [i \in EvIds |-> 0] /\ evLives = 0
        /\ evCore = "down"
    BY DEF EvInit
  <2>2. evSig \in [EvIds -> BOOLEAN] /\ \A i \in EvIds : evSig[i] = FALSE
    BY <2>1, Zenon
  <2>3. evCore # "up"
    BY <2>1
  <2> QED
    BY <1>0, <2>1, <2>2, <2>3 DEF EvInv, EvTypeOK, EvPowerTruth, EvOfThisLife
<1>2. EvInv /\ [EvNext]_evVars => EvInv'
  <2> SUFFICES ASSUME EvInv, [EvNext]_evVars PROVE EvInv'
    OBVIOUS
  <2> USE DEF EvInv, EvTypeOK
  <2>1. CASE EvSubdevStart
    <3>1. EvFlip("SPU_POWER_UP", "SPU_POWER_DOWN") /\ UNCHANGED evLives /\ evCore' = "up"
      BY <2>1 DEF EvSubdevStart
    <3>2. /\ evSig' \in [EvIds -> BOOLEAN] /\ evLife' \in [EvIds -> Nat] /\ EvOfThisLife'
          /\ evSig'["SPU_POWER_UP"] = TRUE /\ evSig'["SPU_POWER_DOWN"] = FALSE
      BY <1>0, <3>1, EvFlipInv
    <3> QED
      BY <3>1, <3>2 DEF EvPowerTruth
  <2>2. CASE EvSubdevStop
    <3>1. evSig' = [i \in EvIds |-> FALSE] /\ UNCHANGED evLife /\ evCore' = "stopped"
          /\ evLives' \in Nat
      BY <2>2 DEF EvSubdevStop
    <3>2. evSig' \in [EvIds -> BOOLEAN] /\ \A i \in EvIds : evSig'[i] = FALSE
      BY <3>1, Zenon
    <3> QED
      BY <1>0, <3>1, <3>2 DEF EvPowerTruth, EvOfThisLife
  <2>3. CASE EvSubdevUnprepare
    <3>1. EvFlip("SPU_POWER_DOWN", "SPU_POWER_UP") /\ UNCHANGED evLives /\ evCore' = "down"
      BY <2>3 DEF EvSubdevUnprepare
    <3>2. /\ evSig' \in [EvIds -> BOOLEAN] /\ evLife' \in [EvIds -> Nat] /\ EvOfThisLife'
          /\ evSig'["SPU_POWER_DOWN"] = TRUE /\ evSig'["SPU_POWER_UP"] = FALSE
      BY <1>0, <3>1, EvFlipInv
    <3> QED
      BY <3>1, <3>2 DEF EvPowerTruth
  <2>4. ASSUME NEW u \in EvUsers, NEW i \in EvIds, EvSignal(u, i) PROVE EvInv'
    <3>1. i # "SPU_POWER_UP" /\ i # "SPU_POWER_DOWN"
      BY <2>4 DEF EvSignal, EvOwnIds
    <3>2. /\ evSig' = [evSig EXCEPT ![i] = TRUE] /\ evLife' = [evLife EXCEPT ![i] = evLives]
          /\ UNCHANGED <<evCore, evLives>>
      BY <2>4 DEF EvSignal
    <3>3. /\ evSig' \in [EvIds -> BOOLEAN] /\ \A j \in EvIds : j # i => evSig'[j] = evSig[j]
          /\ evLife' \in [EvIds -> Nat] /\ evLife'[i] = evLives
          /\ \A j \in EvIds : j # i => evLife'[j] = evLife[j]
      BY <3>2
    <3>4. EvPowerTruth'
      BY <1>0, <3>1, <3>2, <3>3 DEF EvPowerTruth
    <3> QED
      BY <3>2, <3>3, <3>4 DEF EvOfThisLife
  <2>5. CASE UNCHANGED <<evSig, evLife, evLives, evCore>>
    BY <2>5 DEF EvPowerTruth, EvOfThisLife
  <2>6. ASSUME NEW u \in EvUsers, EvWaitEnd(u) \/ EvWaitAborted(u)
                                  \/ \E i \in EvIds : EvWaitBegin(u, i)
        PROVE  EvInv'
    BY <2>5, <2>6 DEF EvWaitBegin, EvWaitEnd, EvWaitAborted
  <2>7. CASE EvIrqNext \/ UNCHANGED evVars
    BY <2>5, <2>7 DEF EvIrqNext, IqHandler, IqRelease, IqListen, IqPollWait, IqPollTake,
       IqWake, IqOpen, evVars, evEvents
  <2> QED
    BY <2>1, <2>2, <2>3, <2>4, <2>6, <2>7 DEF EvNext, EvUtilsNext
<1>3. EvInv => EvPowerTruth /\ EvOfThisLife
  BY DEF EvInv
<1> QED
  BY <1>1, <1>2, <1>3, PTL DEF EvSpec

-----------------------------------------------------------------------------
(***************************************************************************)
(* The ring.  The reader moves by the length it finds in a header, so room *)
(* and framing hold together or not at all: the invariant says that the    *)
(* cells from the reader's index to the writer's are a row of whole        *)
(* messages, and how many cells behind the writer stay free.               *)
(***************************************************************************)

\* The cells from b up to e.
GlDist(b, e) == IF e < b THEN GlLen - b + e ELSE e - b

\* Cell i of ring F holds the first cell of a message; the cells that message takes.
GlStart(F, i) == F[i] # <<>> /\ F[i][2] = 0
GlSize(m) == GlAlign(GlHdr + GlDlen(m))

\* The n cells from b on are a row of whole messages.
GlFramed(F, b, n) ==
    /\ n > 0 => GlStart(F, b)
    /\ \A o \in GlCells : o < n /\ o % 2 = 0 /\ GlStart(F, GlWrap(b + o)) =>
          LET e == o + GlSize(F[GlWrap(b + o)][1])
          IN e \in 0..n /\ (e < n => GlStart(F, GlWrap(b + e)))

\* Every message in those cells has all of its cells.
GlWhole(F, b, n) ==
    \A o \in GlCells : o < n /\ o % 2 = 0 /\ GlStart(F, GlWrap(b + o)) =>
        LET m == F[GlWrap(b + o)][1]
        IN \A k \in Nat : k < GlHdr + GlDlen(m) => F[GlWrap(b + (o + k))] = <<m, k>>

\* Where the writer is: the head, or the head it is about to publish.
GlEnd == IF glPend = -1 THEN glHead ELSE glPend

\* The oldest cell anyone will read: the SP's index is an old one until it is ready.
GlBase == IF glUp = "half" /\ glSide = "tx" THEN 0 ELSE glTail

\* Only an even cell starts a message: old cells left in the padding never do.
GlCellsOK ==
    glFifo \in [GlCells -> {<<>>} \cup ((GlMsgs \cup {GlNotif}) \X GlCells)]
    /\ \A i \in GlCells : glFifo[i] # <<>> => glFifo[i][2] % 2 = i % 2

\* The indices are even cells.
GlTypeOK ==
    /\ glSide \in {"tx", "rx"} /\ glUp \in {"up", "down", "half"}
    /\ glHead \in GlCells /\ glHead % 2 = 0 /\ glTail \in GlCells /\ glTail % 2 = 0
    /\ glPend \in GlCells \cup {-1} /\ (glPend # -1 => glPend % 2 = 0)
    /\ glNotify \in BOOLEAN
    /\ GlCellsOK

\* What an edge that is not up has: nothing half read, no notification sent before it is
\* open, and on the rx pipe the index that the kernel cleared.
GlQuiet ==
    /\ glUp # "up" => glPeek = <<>>
    /\ glPend # -1 \/ glNotify => GlOpen
    /\ glUp = "half" /\ glSide = "rx" => glTail = 0

\* Four cells stay free, two after a read notification.  Before the SP is ready the
\* writer goes by an old tail: as long as no notification meets it, it can only make the
\* room look smaller.
GlRoom ==
    /\ glUp = "up" => GlDist(glTail, GlEnd) <= GlLen - (IF glNotify THEN 2 ELSE 4)
    /\ glUp = "half" /\ glSide = "tx" =>
          \/ glHead = 0 /\ glPend = -1
          \/ GlEnd <= (IF glTail = 0 THEN GlLen ELSE glTail) - (IF glNotify THEN 2 ELSE 4)
    /\ glPend # -1 => glPend # glTail /\ GlDist(GlBase, glHead) < GlDist(GlBase, glPend)
    /\ glUp # "up" => GlRxAvail <= GlLen - 2

\* What the reader will find is a row of whole messages, with and without the one being
\* written.
GlRows ==
    (glUp = "up" \/ (glUp = "half" /\ glSide = "tx")) =>
        /\ GlFramed(glFifo, GlBase, GlDist(GlBase, glHead))
        /\ GlFramed(glFifo, GlBase, GlDist(GlBase, GlEnd))
        /\ GlWhole(glFifo, GlBase, GlDist(GlBase, GlEnd))

\* The header the reader has seen is that of the oldest message.
GlSeen ==
    glPeek # <<>> => GlRxAvail > 0 /\ glPeek = <<glFifo[glTail][1]>>

GlInv == GlTypeOK /\ GlQuiet /\ GlRoom /\ GlRows /\ GlSeen

\* On an edge that the notification has spoilt only the types hold; the next crash ends it.
GlLives ==
    /\ glMet \in BOOLEAN
    /\ ~glMet => GlInv
    /\ glMet => /\ GlTypeOK
                /\ glPeek = <<>> \/ glPeek = <<GlJunk>>
                   \/ \E m \in GlMsgs \cup {GlNotif} : glPeek = <<m>>

\* The ring.
LEMMA GlLenFacts == GlLen \in Nat /\ GlLen >= 6 /\ GlLen % 2 = 0
  BY GlAssumption

\* Where a cell lies seen from the head.
LEMMA GlOffset ==
    ASSUME NEW b \in GlCells, NEW n \in GlCells, NEW o \in GlCells
    PROVE  (GlWrap(b + o) - GlWrap(b + n)) % GlLen = IF o >= n THEN o - n ELSE o - n + GlLen
<1>1. GlLen \in Nat /\ GlLen > 0
  BY GlAssumption DEF GlCells
<1>2. ASSUME NEW x \in GlCells PROVE x % GlLen = x
  BY <1>1, <1>2, Z3 DEF GlCells
<1>3. ASSUME NEW x \in GlCells, x > 0 PROVE (x - GlLen) % GlLen = x
  BY <1>1, <1>3, Z3 DEF GlCells
<1> QED
  BY <1>1, <1>2, <1>3 DEF GlWrap, GlCells

\* A message takes its header, its payload and the padding to an even number of cells.
LEMMA GlSizes ==
    ASSUME NEW m \in GlMsgs \cup {GlNotif}
    PROVE  /\ GlDlen(m) \in Nat /\ GlHdr + GlDlen(m) < GlLen
           /\ GlSize(m) \in Nat /\ GlSize(m) % 2 = 0 /\ GlSize(m) >= 2
           /\ GlSize(m) \in {GlHdr + GlDlen(m), GlHdr + GlDlen(m) + 1}
<1>1. GlDlen(m) \in Nat /\ GlHdr + GlDlen(m) < GlLen
  BY GlAssumption, GlLenFacts DEF GlDlen, GlHdr, GlNotif
<1> QED
  BY <1>1 DEF GlSize, GlAlign, GlHdr

\* The head a write publishes is the cell after the message and its padding.
LEMMA GlWriteHeadIs ==
    ASSUME GlTypeOK, NEW m \in GlMsgs \cup {GlNotif}
    PROVE  GlWriteHead(m) = GlWrap(glHead + GlSize(m))
<1>1. glHead \in 0..GlLen - 1 /\ glHead % 2 = 0
  BY DEF GlTypeOK, GlCells
<1> DEFINE d == GlHdr + GlDlen(m)
<1>2. d \in Nat /\ d < GlLen /\ GlSize(m) = d + (d % 2)
  BY GlSizes DEF GlSize, GlAlign, GlHdr
<1>3. GlWriteHead(m) = GlWrap(GlAlign(GlWrap(glHead + d)))
  BY GlSizes, <1>1 DEF GlWriteHead, GlHdr
<1> HIDE DEF d
<1> QED
  BY <1>1, <1>2, <1>3, GlLenFacts DEF GlWrap, GlAlign


\* Seen from a head n cells after b, the next d cells are those from n to n + d after b.
LEMMA GlWithin ==
    ASSUME NEW b \in GlCells, NEW n \in GlCells, NEW o \in GlCells, NEW d \in Nat,
           n + d <= GlLen, NEW k, k = (GlWrap(b + o) - GlWrap(b + n)) % GlLen
    PROVE  /\ k < d <=> n <= o /\ o < n + d
           /\ n <= o => k = o - n
<1>1. k = IF o >= n THEN o - n ELSE o - n + GlLen
  BY GlOffset
<1>2. GlLen \in Nat /\ n \in 0..GlLen - 1 /\ o \in 0..GlLen - 1
  BY GlLenFacts DEF GlCells
<1>3. CASE o >= n
  <2>1. k = o - n
    BY <1>1, <1>3
  <2> QED
    BY <2>1, <1>2, <1>3
<1>4. CASE ~(o >= n)
  <2>1. k = o - n + GlLen
    BY <1>1, <1>4
  <2> QED
    BY <2>1, <1>2, <1>4
<1> QED
  BY <1>3, <1>4

\* What a copy of message m, n cells after b, leaves in the cell o cells after b.
LEMMA GlCopied ==
    ASSUME NEW b \in GlCells, NEW n \in GlCells, NEW o \in GlCells,
           NEW m, NEW d \in Nat, n + d <= GlLen,
           glFifo' = [i \in GlCells |-> LET k == (i - GlWrap(b + n)) % GlLen
                                  IN IF k < d THEN <<m, k>> ELSE glFifo[i]]
    PROVE  glFifo'[GlWrap(b + o)] =
               IF n <= o /\ o < n + d THEN <<m, o - n>> ELSE glFifo[GlWrap(b + o)]
<1> DEFINE c == GlWrap(b + o)
           k == (c - GlWrap(b + n)) % GlLen
<1>1. c \in GlCells
  BY GlLenFacts DEF GlWrap, GlCells
<1>2. glFifo'[c] = IF k < d THEN <<m, k>> ELSE glFifo[c]
  BY <1>1, Zenon
<1>3. (k < d <=> n <= o /\ o < n + d) /\ (n <= o => k = o - n)
  BY GlWithin
<1> HIDE DEF c, k
<1>4. glFifo'[c] = IF n <= o /\ o < n + d THEN <<m, o - n>> ELSE glFifo[c]
  BY <1>2, <1>3, Zenon
<1> QED
  BY <1>4 DEF c

\* A message written behind a row of messages makes a longer row and leaves the row as
\* it was.
LEMMA GlFrameMore ==
    ASSUME NEW b \in GlCells, NEW n \in GlCells,
           NEW m, NEW d \in Nat, NEW s \in Nat,
           s = GlSize(m), s \in {d, d + 1}, d >= 2, s % 2 = 0,
           n % 2 = 0, n + s <= GlLen - 2, GlFramed(glFifo, b, n),
           \A o \in GlCells : glFifo'[GlWrap(b + o)] =
               IF n <= o /\ o < n + d THEN <<m, o - n>> ELSE glFifo[GlWrap(b + o)]
    PROVE  GlFramed(glFifo', b, n) /\ GlFramed(glFifo', b, n + s)
<1>1. GlLen \in Nat /\ b \in 0..GlLen - 1 /\ n \in 0..GlLen - 1
  BY GlLenFacts DEF GlCells
<1>2. \A o \in GlCells : o < n => glFifo'[GlWrap(b + o)] = glFifo[GlWrap(b + o)]
  <2> SUFFICES ASSUME NEW o \in GlCells, o < n PROVE glFifo'[GlWrap(b + o)] = glFifo[GlWrap(b + o)]
    OBVIOUS
  <2>1. ~(n <= o)
    BY <1>1 DEF GlCells
  <2> QED
    BY <2>1
<1>3. GlWrap(b + 0) = b /\ 0 \in GlCells
  BY <1>1 DEF GlWrap, GlCells
<1>4. glFifo'[GlWrap(b + n)] = <<m, 0>> /\ GlStart(glFifo', GlWrap(b + n))
  <2>1. n <= n /\ n < n + d /\ n - n = 0
    BY <1>1
  <2>2. glFifo'[GlWrap(b + n)] = <<m, 0>>
    BY <2>1
  <2> QED
    BY <2>2 DEF GlStart
<1>5. ASSUME NEW o \in GlCells, o < n, o % 2 = 0, GlStart(glFifo', GlWrap(b + o))
      PROVE  LET e == o + GlSize(glFifo'[GlWrap(b + o)][1])
             IN e \in 0..n /\ (e < n => GlStart(glFifo', GlWrap(b + e)))
  <2> DEFINE e == o + GlSize(glFifo[GlWrap(b + o)][1])
  <2>1. glFifo'[GlWrap(b + o)] = glFifo[GlWrap(b + o)]
    BY <1>2, <1>5
  <2>2. GlStart(glFifo, GlWrap(b + o))
    BY <2>1, <1>5 DEF GlStart
  <2>3. e \in 0..n /\ (e < n => GlStart(glFifo, GlWrap(b + e)))
    BY <2>2, <1>5 DEF GlFramed
  <2> HIDE DEF e
  <2>4. e < n => e \in GlCells
    BY <2>3, <1>1 DEF GlCells
  <2>5. e < n => GlStart(glFifo', GlWrap(b + e))
    BY <2>3, <2>4, <1>2 DEF GlStart
  <2> QED
    BY <2>1, <2>3, <2>5 DEF e
<1>6. GlFramed(glFifo', b, n)
  <2>1. n > 0 => GlStart(glFifo', b)
    BY <1>1, <1>2, <1>3 DEF GlFramed, GlStart
  <2> QED
    BY <2>1, <1>5 DEF GlFramed
<1>7. GlStart(glFifo', b)
  <2>1. CASE n = 0
    BY <2>1, <1>3, <1>4
  <2>2. CASE n > 0
    BY <2>2, <1>6 DEF GlFramed
  <2> QED
    BY <2>1, <2>2, <1>1
<1>8. ASSUME NEW o \in GlCells, o < n + s, o % 2 = 0, GlStart(glFifo', GlWrap(b + o))
      PROVE  LET e == o + GlSize(glFifo'[GlWrap(b + o)][1])
             IN e \in 0..n + s /\ (e < n + s => GlStart(glFifo', GlWrap(b + e)))
  <2> DEFINE e == o + GlSize(glFifo'[GlWrap(b + o)][1])
  <2>1. o \in Nat
    BY DEF GlCells
  <2>2. CASE o < n
    <3>1. e \in 0..n /\ (e < n => GlStart(glFifo', GlWrap(b + e)))
      BY <2>2, <1>5, <1>8
    <3>2. e = n => GlStart(glFifo', GlWrap(b + e))
      BY <1>4
    <3> HIDE DEF e
    <3>3. e \in 0..n + s /\ (e < n + s => GlStart(glFifo', GlWrap(b + e)))
      BY <3>1, <3>2, <1>1
    <3> QED
      BY <3>3 DEF e
  <2>3. CASE o = n
    <3>1. e = n + s
      BY <2>3, <1>4
    <3> QED
      BY <3>1, <1>1
  <2>4. CASE o > n
    <3>1. n <= o /\ o < n + d /\ o - n # 0
      BY <2>4, <2>1, <1>1, <1>8
    <3>2. glFifo'[GlWrap(b + o)] = <<m, o - n>>
      BY <3>1
    <3> QED
      BY <3>1, <3>2, <1>8 DEF GlStart
  <2> QED
    BY <2>1, <2>2, <2>3, <2>4, <1>1
<1> QED
  BY <1>1, <1>6, <1>7, <1>8 DEF GlFramed

\* In the longer row every message is whole if it was in the row.
LEMMA GlWholeMore ==
    ASSUME NEW b \in GlCells, NEW n \in GlCells,
           NEW m, NEW d \in Nat, NEW s \in Nat,
           d = GlHdr + GlDlen(m), s \in {d, d + 1}, s % 2 = 0, d >= 2,
           n % 2 = 0, n + s <= GlLen - 2, GlFramed(glFifo, b, n), GlWhole(glFifo, b, n),
           \A i \in GlCells : GlStart(glFifo, i) =>
               /\ GlSize(glFifo[i][1]) \in Nat /\ GlHdr + GlDlen(glFifo[i][1]) \in Nat
               /\ GlHdr + GlDlen(glFifo[i][1]) <= GlSize(glFifo[i][1]),
           \A o \in GlCells : glFifo'[GlWrap(b + o)] =
               IF n <= o /\ o < n + d THEN <<m, o - n>> ELSE glFifo[GlWrap(b + o)]
    PROVE  GlWhole(glFifo', b, n + s)
<1>1. GlLen \in Nat /\ b \in 0..GlLen - 1 /\ n \in 0..GlLen - 1
  BY GlLenFacts DEF GlCells
<1>2. \A o \in GlCells : o < n => glFifo'[GlWrap(b + o)] = glFifo[GlWrap(b + o)]
  <2> SUFFICES ASSUME NEW o \in GlCells, o < n
               PROVE  glFifo'[GlWrap(b + o)] = glFifo[GlWrap(b + o)]
    OBVIOUS
  <2>1. ~(n <= o)
    BY <1>1 DEF GlCells
  <2> QED
    BY <2>1
<1> SUFFICES ASSUME NEW o \in GlCells, o < n + s, o % 2 = 0, GlStart(glFifo', GlWrap(b + o)),
                    NEW k \in Nat, k < GlHdr + GlDlen(glFifo'[GlWrap(b + o)][1])
             PROVE  glFifo'[GlWrap(b + (o + k))] = <<glFifo'[GlWrap(b + o)][1], k>>
  BY DEF GlWhole
<1>3. o \in Nat /\ GlWrap(b + o) \in GlCells
  BY <1>1 DEF GlCells, GlWrap
<1>4. CASE o < n
  <2> DEFINE x == glFifo[GlWrap(b + o)][1]
  <2>1. glFifo'[GlWrap(b + o)] = glFifo[GlWrap(b + o)]
    BY <1>2, <1>4
  <2>2. GlStart(glFifo, GlWrap(b + o)) /\ k < GlHdr + GlDlen(x)
    BY <2>1 DEF GlStart
  <2>3. o + GlSize(x) \in 0..n
    BY <2>2, <1>4 DEF GlFramed
  <2>4. GlSize(x) \in Nat /\ GlHdr + GlDlen(x) \in Nat /\ GlHdr + GlDlen(x) <= GlSize(x)
    BY <2>2, <1>3
  <2>5. glFifo[GlWrap(b + (o + k))] = <<x, k>>
    BY <2>2, <1>4 DEF GlWhole
  <2> HIDE DEF x
  <2>6. o + k < n /\ o + k \in GlCells
    BY <2>2, <2>3, <2>4, <1>1, <1>3 DEF GlCells
  <2> QED
    BY <2>1, <2>5, <2>6, <1>2 DEF x
<1>5. CASE o = n
  <2>1. n <= n /\ n < n + d /\ n - n = 0
    BY <1>1
  <2>2. glFifo'[GlWrap(b + o)] = <<m, 0>>
    BY <2>1, <1>5
  <2>3. k < d
    BY <2>2
  <2>4. n + k \in GlCells /\ n <= n + k /\ n + k < n + d /\ (n + k) - n = k
    BY <2>3, <1>1 DEF GlCells
  <2>5. glFifo'[GlWrap(b + (n + k))] = <<m, (n + k) - n>>
    BY <2>4
  <2> QED
    BY <2>2, <2>4, <2>5, <1>5
<1>6. CASE o > n
  <2>1. n <= o /\ o < n + d /\ o - n # 0
    BY <1>1, <1>3, <1>6
  <2>2. glFifo'[GlWrap(b + o)] = <<m, o - n>>
    BY <2>1
  <2> QED
    BY <2>1, <2>2 DEF GlStart
<1> QED
  BY <1>1, <1>3, <1>4, <1>5, <1>6

\* A row without its first message is a row.
LEMMA GlFrameLess ==
    ASSUME NEW b \in GlCells, NEW n \in GlCells, NEW s \in Nat,
           s % 2 = 0, s <= n, GlFramed(glFifo, b, n), s < n => GlStart(glFifo, GlWrap(b + s)),
           \A i \in GlCells : GlStart(glFifo, i) => GlSize(glFifo[i][1]) \in Nat
    PROVE  GlFramed(glFifo, GlWrap(b + s), n - s)
<1>1. GlLen \in Nat /\ b \in 0..GlLen - 1 /\ n \in 0..GlLen - 1
  BY GlLenFacts DEF GlCells
<1>2. ASSUME NEW o \in GlCells, o < n - s, o % 2 = 0, GlStart(glFifo, GlWrap(GlWrap(b + s) + o))
      PROVE  LET e == o + GlSize(glFifo[GlWrap(GlWrap(b + s) + o)][1])
             IN e \in 0..n - s /\ (e < n - s => GlStart(glFifo, GlWrap(GlWrap(b + s) + e)))
  <2> DEFINE z == GlSize(glFifo[GlWrap(b + (o + s))][1])
  <2>1. o + s \in GlCells /\ o + s < n /\ (o + s) % 2 = 0 /\ o \in Nat
    BY <1>1, <1>2 DEF GlCells
  <2>2. GlWrap(GlWrap(b + s) + o) = GlWrap(b + (o + s))
    BY <1>1, <2>1 DEF GlWrap, GlCells
  <2>3. (o + s) + z \in 0..n /\ ((o + s) + z < n => GlStart(glFifo, GlWrap(b + ((o + s) + z))))
    BY <2>1, <2>2, <1>2 DEF GlFramed
  <2>4. z \in Nat
    <3>1. GlWrap(b + (o + s)) \in GlCells
      BY <1>1, <2>1 DEF GlWrap, GlCells
    <3> QED
      BY <3>1, <2>2, <1>2
  <2> HIDE DEF z
  <2>5. o + z < n - s => GlWrap(GlWrap(b + s) + (o + z)) = GlWrap(b + ((o + s) + z))
    BY <1>1, <2>1, <2>3, <2>4 DEF GlWrap
  <2>6. o + z \in 0..n - s /\ (o + z < n - s => GlStart(glFifo, GlWrap(GlWrap(b + s) + (o + z))))
    BY <1>1, <2>1, <2>3, <2>4, <2>5
  <2> QED
    BY <2>2, <2>6 DEF z
<1>3. n - s > 0 => GlStart(glFifo, GlWrap(b + s))
  BY <1>1
<1> QED
  BY <1>2, <1>3 DEF GlFramed

\* Nor does the loss of the first message tear another.
LEMMA GlWholeLess ==
    ASSUME NEW b \in GlCells, NEW n \in GlCells, NEW s \in Nat, s % 2 = 0, s <= n,
           GlFramed(glFifo, b, n), GlWhole(glFifo, b, n),
           \A i \in GlCells : GlStart(glFifo, i) =>
               /\ GlSize(glFifo[i][1]) \in Nat /\ GlHdr + GlDlen(glFifo[i][1]) \in Nat
               /\ GlHdr + GlDlen(glFifo[i][1]) <= GlSize(glFifo[i][1])
    PROVE  GlWhole(glFifo, GlWrap(b + s), n - s)
<1>1. GlLen \in Nat /\ b \in 0..GlLen - 1 /\ n \in 0..GlLen - 1
  BY GlLenFacts DEF GlCells
<1> DEFINE t == GlWrap(b + s)
<1> SUFFICES ASSUME NEW o \in GlCells, o < n - s, o % 2 = 0, GlStart(glFifo, GlWrap(t + o)),
                    NEW k \in Nat, k < GlHdr + GlDlen(glFifo[GlWrap(t + o)][1])
             PROVE  glFifo[GlWrap(t + (o + k))] = <<glFifo[GlWrap(t + o)][1], k>>
  BY DEF GlWhole
<1>2. o + s \in GlCells /\ o + s < n /\ (o + s) % 2 = 0 /\ o \in Nat
  BY <1>1 DEF GlCells
<1>3. GlWrap(t + o) = GlWrap(b + (o + s)) /\ GlWrap(b + (o + s)) \in GlCells
  BY <1>1, <1>2 DEF GlWrap, GlCells
<1> DEFINE x == glFifo[GlWrap(b + (o + s))][1]
<1>4. GlStart(glFifo, GlWrap(b + (o + s))) /\ k < GlHdr + GlDlen(x)
  BY <1>3
<1>5. glFifo[GlWrap(b + ((o + s) + k))] = <<x, k>>
  BY <1>2, <1>4 DEF GlWhole
<1>6. (o + s) + GlSize(x) \in 0..n
  BY <1>2, <1>4 DEF GlFramed
<1>7. GlSize(x) \in Nat /\ GlHdr + GlDlen(x) \in Nat /\ GlHdr + GlDlen(x) <= GlSize(x)
  BY <1>3, <1>4
<1> HIDE DEF x
<1>8. GlWrap(t + (o + k)) = GlWrap(b + ((o + s) + k))
  <2>1. (o + s) + k < n
    BY <1>1, <1>2, <1>4, <1>6, <1>7
  <2> QED
    BY <2>1, <1>1, <1>2 DEF GlWrap
<1> QED
  BY <1>3, <1>5, <1>8 DEF x

\* The cells between two indices.
LEMMA GlDists ==
    ASSUME NEW b \in GlCells, NEW e \in GlCells, b % 2 = 0, e % 2 = 0
    PROVE  /\ GlDist(b, e) \in GlCells /\ GlDist(b, e) % 2 = 0
           /\ GlWrap(b + GlDist(b, e)) = e
           /\ \A s \in Nat : s <= GlDist(b, e) =>
                 GlWrap(b + s) \in GlCells /\ GlDist(GlWrap(b + s), e) = GlDist(b, e) - s
           /\ \A s \in Nat : s % 2 = 0 /\ GlDist(b, e) + s < GlLen =>
                 /\ GlWrap(e + s) \in GlCells /\ GlWrap(e + s) % 2 = 0
                 /\ GlDist(b, GlWrap(e + s)) = GlDist(b, e) + s
  BY GlLenFacts DEF GlDist, GlWrap, GlCells

\* A started message has a size.
LEMMA GlStartSizes ==
    ASSUME GlCellsOK, NEW i \in GlCells, GlStart(glFifo, i)
    PROVE  /\ glFifo[i][1] \in GlMsgs \cup {GlNotif}
           /\ GlSize(glFifo[i][1]) \in Nat /\ GlSize(glFifo[i][1]) % 2 = 0
           /\ GlHdr + GlDlen(glFifo[i][1]) \in Nat
           /\ GlHdr + GlDlen(glFifo[i][1]) <= GlSize(glFifo[i][1])
<1>1. glFifo[i][1] \in GlMsgs \cup {GlNotif}
  BY DEF GlCellsOK, GlStart
<1> QED
  BY <1>1, GlSizes DEF GlHdr

\* Wherever the head is, a copy leaves cells of messages.
LEMMA GlCopyCells ==
    ASSUME GlTypeOK, NEW m \in GlMsgs \cup {GlNotif}, glFifo' = GlCopy(m)
    PROVE  GlCellsOK'
<1> DEFINE d == GlHdr + GlDlen(m)
<1>1. GlLen \in Nat /\ GlLen >= 6 /\ GlLen % 2 = 0
  BY GlLenFacts
<1>2. d \in Nat /\ d < GlLen
  BY GlSizes DEF GlHdr
<1>3. glHead \in GlCells /\ glHead % 2 = 0 /\ 0 \in GlCells /\ GlWrap(glHead + 0) = glHead
  BY <1>1 DEF GlTypeOK, GlCells, GlWrap
<1>4. glFifo' = [i \in GlCells |-> LET k == (i - GlWrap(glHead + 0)) % GlLen
                                   IN IF k < d THEN <<m, k>> ELSE glFifo[i]]
  BY <1>3 DEF GlCopy
<1> HIDE DEF d
<1>5. \A o \in GlCells : glFifo'[GlWrap(glHead + o)] =
          IF 0 <= o /\ o < 0 + d THEN <<m, o - 0>> ELSE glFifo[GlWrap(glHead + o)]
  BY <1>1, <1>2, <1>3, <1>4, GlCopied
<1>6. ASSUME NEW i \in GlCells
      PROVE  /\ glFifo'[i] \in {<<>>} \cup ((GlMsgs \cup {GlNotif}) \X GlCells)
             /\ glFifo'[i] # <<>> => glFifo'[i][2] % 2 = i % 2
  <2> DEFINE o == GlDist(glHead, i)
  <2>1. o \in GlCells /\ GlWrap(glHead + o) = i /\ (o % 2 = i % 2)
    BY <1>1, <1>3 DEF GlDist, GlWrap, GlCells
  <2>2. glFifo'[i] = IF 0 <= o /\ o < 0 + d THEN <<m, o - 0>> ELSE glFifo[i]
    BY <2>1, <1>5
  <2> HIDE DEF o
  <2>3. CASE 0 <= o /\ o < 0 + d
    <3>1. glFifo'[i] = <<m, o - 0>> /\ o - 0 = o
      BY <2>1, <2>2, <2>3 DEF GlCells
    <3> QED
      BY <3>1, <2>1
  <2>4. CASE ~(0 <= o /\ o < 0 + d)
    <3>1. glFifo'[i] = glFifo[i]
      BY <2>2, <2>4
    <3> QED
      BY <3>1 DEF GlTypeOK, GlCellsOK
  <2> QED
    BY <2>3, <2>4
<1>7. glFifo' \in [GlCells -> {<<>>} \cup ((GlMsgs \cup {GlNotif}) \X GlCells)]
  <2>1. DOMAIN glFifo' = GlCells /\ glFifo' = [i \in GlCells |-> glFifo'[i]]
    BY <1>4, Zenon
  <2> QED
    BY <2>1, <1>6, Zenon
<1> QED
  BY <1>6, <1>7 DEF GlCellsOK

\* The ring after the copy of a message for which there is room.
LEMMA GlCopyKeeps ==
    ASSUME GlInv, NEW m \in GlMsgs \cup {GlNotif}, glPend = -1,
           glUp = "up" \/ (glUp = "half" /\ glSide = "tx"),
           GlDist(GlBase, glHead) + GlSize(m) <= GlLen - 2,
           glFifo' = GlCopy(m), glPend' = GlWriteHead(m),
           UNCHANGED <<glSide, glHead, glTail, glUp>>
    PROVE  /\ GlCellsOK' /\ GlRows'
           /\ glPend' \in GlCells /\ glPend' % 2 = 0 /\ glPend' # -1
           /\ GlDist(GlBase, glPend') = GlDist(GlBase, glHead) + GlSize(m)
           /\ glPend' = GlWrap(glHead + GlSize(m))
           /\ GlDist(GlBase, glHead) > 0 => glFifo'[GlBase] = glFifo[GlBase]
<1> DEFINE b == GlBase
           n == GlDist(b, glHead)
           s == GlSize(m)
           d == GlHdr + GlDlen(m)
<1>1. GlLen \in Nat /\ GlLen >= 6 /\ GlLen % 2 = 0
  BY GlLenFacts
<1>2. d \in Nat /\ s \in Nat /\ s % 2 = 0 /\ s >= 2 /\ s \in {d, d + 1} /\ d >= 2
  BY GlSizes DEF GlHdr
<1>3. b \in GlCells /\ b % 2 = 0 /\ glHead \in GlCells /\ glHead % 2 = 0
  BY <1>1 DEF GlInv, GlTypeOK, GlBase, GlCells
<1>4. n \in GlCells /\ n % 2 = 0 /\ GlWrap(b + n) = glHead
  BY <1>3, GlDists
<1>5. n + s <= GlLen - 2
  OBVIOUS
<1>6. glPend' = GlWrap(glHead + s)
  BY GlWriteHeadIs DEF GlInv
<1>7. glPend' \in GlCells /\ glPend' % 2 = 0 /\ GlDist(b, glPend') = n + s
  <2> HIDE DEF s, b
  <2>1. n + s < GlLen
    BY <1>1, <1>2, <1>4, <1>5 DEF GlCells
  <2> QED
    BY <2>1, <1>2, <1>3, <1>6, GlDists
<1>8. glFifo' = [i \in GlCells |-> LET k == (i - GlWrap(b + n)) % GlLen
                                   IN IF k < d THEN <<m, k>> ELSE glFifo[i]]
  <2>1. glFifo' = [i \in GlCells |-> LET k == (i - glHead) % GlLen
                                     IN IF k < d THEN <<m, k>> ELSE glFifo[i]]
    BY DEF GlCopy
  <2> QED
    BY <2>1, <1>4
<1>9. b' = b
  BY DEF GlBase
<1>10. GlFramed(glFifo, b, n) /\ GlWhole(glFifo, b, n)
  <2>1. GlEnd = glHead
    BY DEF GlEnd
  <2> QED
    BY <2>1 DEF GlInv, GlRows
<1> HIDE DEF b, n, s, d
<1>11. n + d <= GlLen
  BY <1>1, <1>2, <1>4, <1>5 DEF GlCells
<1>12. \A o \in GlCells : glFifo'[GlWrap(b + o)] =
          IF n <= o /\ o < n + d THEN <<m, o - n>> ELSE glFifo[GlWrap(b + o)]
  BY <1>2, <1>3, <1>4, <1>8, <1>11, GlCopied
<1>13. /\ GlFramed(glFifo', b, n) /\ GlFramed(glFifo', b, n + s)
       /\ GlWhole(glFifo', b, n + s)
  <2>1. GlFramed(glFifo', b, n) /\ GlFramed(glFifo', b, n + s)
    BY <1>2, <1>3, <1>4, <1>5, <1>10, <1>12, GlFrameMore DEF s
  <2>2. GlCellsOK
    BY DEF GlInv, GlTypeOK
  <2>3. \A i \in GlCells : GlStart(glFifo, i) =>
               /\ GlSize(glFifo[i][1]) \in Nat /\ GlHdr + GlDlen(glFifo[i][1]) \in Nat
               /\ GlHdr + GlDlen(glFifo[i][1]) <= GlSize(glFifo[i][1])
    BY <2>2, GlStartSizes
  <2>4. GlWhole(glFifo', b, n + s)
    BY <1>2, <1>3, <1>4, <1>5, <1>10, <1>12, <2>3, GlWholeMore DEF d
  <2> QED
    BY <2>1, <2>4
<1>14. glPend' # -1
  BY <1>7, <1>1 DEF GlCells
<1>15. GlRows'
  <2>1. GlDist(GlBase, glHead)' = n /\ GlDist(GlBase, GlEnd)' = n + s
    BY <1>7, <1>9, <1>14 DEF GlEnd, GlDist, n, b
  <2> QED
    BY <2>1, <1>13, <1>9 DEF GlRows, b
<1>16. n > 0 => glFifo'[b] = glFifo[b]
  <2>1. 0 \in GlCells /\ GlWrap(b + 0) = b
    BY <1>1, <1>3 DEF GlWrap, GlCells
  <2>2. n > 0 => ~(n <= 0)
    BY <1>4 DEF GlCells
  <2> QED
    BY <1>12, <2>1, <2>2
<1>17. GlCellsOK'
  BY GlCopyCells DEF GlInv
<1> QED
  BY <1>6, <1>7, <1>14, <1>15, <1>16, <1>17 DEF b, n, s

\* An empty ring with both indices at its start.
LEMMA GlInvInit == GlInit => GlInv
<1> SUFFICES ASSUME GlInit PROVE GlInv
  OBVIOUS
<1>1. 0 \in GlCells /\ GlDist(0, 0) = 0 /\ GlDist(glTail, glHead) = 0 /\ GlEnd = 0
  BY GlLenFacts DEF GlCells, GlDist, GlInit, GlEnd
<1>2. GlTypeOK
  BY <1>1 DEF GlInit, GlTypeOK, GlCellsOK
<1>3. GlQuiet /\ GlSeen
  BY DEF GlInit, GlQuiet, GlSeen
<1>4. GlRoom
  BY <1>1, GlLenFacts DEF GlInit, GlRoom, GlDist
<1>5. GlRows
  <2>1. GlFramed(glFifo, 0, 0) /\ GlWhole(glFifo, 0, 0)
    BY DEF GlFramed, GlWhole, GlCells
  <2> QED
    BY <1>1, <2>1 DEF GlInit, GlRows, GlBase
<1> QED
  BY <1>2, <1>3, <1>4, <1>5 DEF GlInv

\* A message is written only where it leaves four cells free.
LEMMA GlTxRoom ==
    ASSUME GlInv, NEW m \in GlMsgs, GlTxWrite(m)
    PROVE  /\ GlDist(GlBase, glHead) \in Nat
           /\ GlDist(GlBase, glHead) + GlSize(m) <= GlLen - 4
           /\ glUp = "half" =>
                 /\ GlDist(GlBase, glHead) = glHead
                 /\ (IF glTail = 0 THEN GlLen ELSE glTail) >= glHead + GlSize(m) + 4
<1> DEFINE s == GlSize(m)
           n == GlDist(GlBase, glHead)
<1>1. GlLen \in Nat /\ GlLen >= 6 /\ GlLen % 2 = 0
  BY GlLenFacts
<1>2. GlTypeOK /\ GlQuiet /\ GlRoom
  BY DEF GlInv
<1>3. glHead \in 0..GlLen - 1 /\ glHead % 2 = 0 /\ glTail \in 0..GlLen - 1 /\ glTail % 2 = 0
  BY <1>2 DEF GlTypeOK, GlCells
<1>4. s \in Nat /\ s % 2 = 0 /\ s >= 2 /\ s \in {GlHdr + GlDlen(m), GlHdr + GlDlen(m) + 1}
      /\ GlDlen(m) \in Nat
  BY GlSizes
<1>5. glPend = -1 /\ GlTxAvail >= GlHdr + GlDlen(m)
      /\ (glUp = "up" \/ (glUp = "half" /\ glSide = "tx"))
      /\ glFifo' = GlCopy(m) /\ glPend' = GlWriteHead(m)
      /\ UNCHANGED <<glSide, glHead, glTail, glUp, glPeek>>
      /\ glNotify' = (glNotify /\ m \notin glWant)
  BY DEF GlTxWrite, GlOpen
<1> HIDE DEF s
<1>6. (IF glTail <= glHead THEN GlLen - glHead + glTail ELSE glTail - glHead) >= s + 4
  <2> DEFINE a == IF glTail <= glHead THEN GlLen - glHead + glTail ELSE glTail - glHead
  <2>1. a \in Nat /\ a % 2 = 0 /\ GlTxAvail = IF a < 4 THEN 0 ELSE a - 4
    BY <1>1, <1>3 DEF GlTxAvail
  <2> HIDE DEF a
  <2>2. a >= s + 4
    BY <2>1, <1>4, <1>5 DEF GlHdr
  <2> QED
    BY <2>2 DEF a
<1>7. GlEnd = glHead
  BY <1>5 DEF GlEnd
<1>8. n \in Nat /\ n + s <= GlLen - 4
      /\ (glUp = "half" => n = glHead /\ (IF glTail = 0 THEN GlLen ELSE glTail) >= glHead + s + 4)
  <2>1. CASE glUp = "up"
    BY <2>1, <1>1, <1>3, <1>4, <1>6 DEF GlBase, GlDist
  <2>2. CASE glUp = "half" /\ glSide = "tx"
    <3>1. n = glHead
      BY <2>2, <1>3 DEF GlBase, GlDist
    <3>2. glHead = 0 \/ glHead <= (IF glTail = 0 THEN GlLen ELSE glTail) - 2
      BY <2>2, <1>1, <1>2, <1>3, <1>7 DEF GlRoom
    <3> QED
      BY <3>1, <3>2, <2>2, <1>1, <1>3, <1>4, <1>6
  <2> QED
    BY <2>1, <2>2, <1>5
<1> QED
  BY <1>8 DEF s

\* The writer keeps the invariant.
LEMMA GlTxWriteStep ==
    ASSUME GlInv, NEW m \in GlMsgs, GlTxWrite(m)
    PROVE  GlInv'
<1> DEFINE s == GlSize(m)
           n == GlDist(GlBase, glHead)
<1>1. GlLen \in Nat /\ GlLen >= 6 /\ GlLen % 2 = 0
  BY GlLenFacts
<1>2. GlTypeOK /\ GlQuiet /\ GlRoom
  BY DEF GlInv
<1>3. glHead \in 0..GlLen - 1 /\ glHead % 2 = 0 /\ glTail \in 0..GlLen - 1 /\ glTail % 2 = 0
  BY <1>2 DEF GlTypeOK, GlCells
<1>4. s \in Nat /\ s % 2 = 0 /\ s >= 2 /\ s \in {GlHdr + GlDlen(m), GlHdr + GlDlen(m) + 1}
      /\ GlDlen(m) \in Nat
  BY GlSizes
<1>5. glPend = -1 /\ GlTxAvail >= GlHdr + GlDlen(m)
      /\ (glUp = "up" \/ (glUp = "half" /\ glSide = "tx"))
      /\ glFifo' = GlCopy(m) /\ glPend' = GlWriteHead(m)
      /\ UNCHANGED <<glSide, glHead, glTail, glUp, glPeek>>
      /\ glNotify' = (glNotify /\ m \notin glWant)
  BY DEF GlTxWrite, GlOpen
<1>8. n \in Nat /\ n + s <= GlLen - 4
      /\ (glUp = "half" => n = glHead /\ (IF glTail = 0 THEN GlLen ELSE glTail) >= glHead + s + 4)
  BY GlTxRoom
<1> HIDE DEF s
<1>9. n + s <= GlLen - 2
  BY <1>8, <1>1, <1>4
<1>10. /\ GlCellsOK' /\ GlRows' /\ glPend' \in GlCells /\ glPend' % 2 = 0 /\ glPend' # -1
       /\ GlDist(GlBase, glPend') = n + s /\ glPend' = GlWrap(glHead + s)
       /\ n > 0 => glFifo'[GlBase] = glFifo[GlBase]
  BY <1>5, <1>9, GlCopyKeeps DEF s
<1>11. GlTypeOK'
  BY <1>2, <1>5, <1>10, Zenon DEF GlTypeOK
<1>12. GlQuiet'
  BY <1>2, <1>5 DEF GlQuiet, GlOpen
<1>13. GlBase' = GlBase /\ GlEnd' = glPend' /\ GlRxAvail' = GlRxAvail
  BY <1>5, <1>10 DEF GlBase, GlEnd, GlRxAvail
<1>14. GlRoom'
  <2>1. glUp' = "up" => GlDist(glTail, GlEnd)' <= GlLen - (IF glNotify' THEN 2 ELSE 4)
    <3>1. glUp = "up" => GlBase = glTail
      BY DEF GlBase
    <3>2. glUp = "up" => GlDist(glTail, GlEnd)' = n + s
      BY <3>1, <1>5, <1>10, <1>13 DEF GlDist
    <3> QED
      BY <3>2, <1>1, <1>4, <1>5, <1>8
  <2>2. glUp = "half" => glPend' = glHead + s
    BY <1>1, <1>3, <1>4, <1>8, <1>10 DEF GlWrap
  <2>3. glUp' = "half" =>
           GlEnd' <= (IF glTail' = 0 THEN GlLen ELSE glTail') - (IF glNotify' THEN 2 ELSE 4)
    BY <2>2, <1>1, <1>3, <1>4, <1>5, <1>8, <1>13
  <2>4. glPend' # glTail'
    <3>1. CASE glUp = "up"
      BY <3>1, <1>1, <1>3, <1>4, <1>5, <1>8, <1>10 DEF GlBase, GlDist
    <3>2. CASE glUp = "half"
      BY <3>2, <2>2, <1>1, <1>3, <1>4, <1>5, <1>8
    <3> QED
      BY <3>1, <3>2, <1>5
  <2>5. GlDist(GlBase, glHead)' < GlDist(GlBase, glPend)'
    <3>1. GlDist(GlBase, glHead)' = n /\ GlDist(GlBase, glPend)' = n + s
      BY <1>5, <1>10, <1>13 DEF GlDist
    <3> QED
      BY <3>1, <1>4, <1>8
  <2>6. glUp' # "up" => GlRxAvail' <= GlLen - 2
    BY <1>2, <1>5, <1>13 DEF GlRoom
  <2> QED
    BY <2>1, <2>3, <2>4, <2>5, <2>6 DEF GlRoom
<1>15. GlSeen'
  <2>1. ASSUME glPeek # <<>> PROVE glFifo'[glTail] = glFifo[glTail]
    <3>1. glUp = "up" /\ GlRxAvail > 0
      BY <2>1, <1>2 DEF GlQuiet, GlInv, GlSeen
    <3>2. GlBase = glTail /\ n = GlRxAvail
      BY <3>1 DEF GlBase, GlDist, GlRxAvail
    <3> QED
      BY <3>1, <3>2, <1>10
  <2> QED
    BY <2>1, <1>5, <1>13 DEF GlInv, GlSeen
<1> QED
  BY <1>10, <1>11, <1>12, <1>14, <1>15 DEF GlInv

\* Where the room of a read notification is: on an edge that is up two of the four cells
\* are taken, once; on a half-made one the stale tail may stand right behind it.
LEMMA GlNotifRoom ==
    ASSUME GlInv, glMet' \in BOOLEAN, ~glMet', NEW m \in GlMsgs, GlBlocked(m), ~glNotify
    PROVE  /\ GlDist(GlBase, glHead) + 2 <= GlLen - 2
           /\ glUp = "half" =>
                 /\ GlWriteHead(GlNotif) = glHead + 2 /\ glHead + 2 # glTail
                 /\ glHead + 2 <= (IF glTail = 0 THEN GlLen ELSE glTail) - 2
<1>1. GlLen \in Nat /\ GlLen >= 6 /\ GlLen % 2 = 0
  BY GlLenFacts
<1>2. GlTypeOK /\ GlQuiet /\ GlRoom
  BY DEF GlInv
<1>3. glHead \in 0..GlLen - 1 /\ glHead % 2 = 0 /\ glTail \in 0..GlLen - 1 /\ glTail % 2 = 0
  BY <1>2 DEF GlTypeOK, GlCells
<1>4. glPend = -1 /\ GlOpen /\ glPend' = GlWriteHead(GlNotif) /\ GlEnd = glHead
      /\ ~(glUp = "half" /\ glPend' = glTail)
  BY DEF GlBlocked, GlEnd
<1>5. GlWriteHead(GlNotif) = GlWrap(glHead + 2)
  <2>1. GlSize(GlNotif) = 2
    BY DEF GlSize, GlAlign, GlHdr, GlDlen
  <2> QED
    BY <2>1, <1>2, GlWriteHeadIs
<1>6. CASE glUp = "up"
  <2>1. GlDist(glTail, glHead) \in Int /\ GlDist(glTail, glHead) <= GlLen - 4 /\ GlBase = glTail
    BY <1>1, <1>2, <1>3, <1>4, <1>6 DEF GlRoom, GlBase, GlDist
  <2> QED
    BY <2>1, <1>1, <1>6
<1>7. CASE glUp = "half" /\ glSide = "tx"
  <2>1. GlDist(GlBase, glHead) = glHead
    BY <1>3, <1>7 DEF GlBase, GlDist
  <2>2. glHead = 0 \/ glHead <= (IF glTail = 0 THEN GlLen ELSE glTail) - 4
    BY <1>2, <1>4, <1>7 DEF GlRoom
  <2>3. glHead + 2 < GlLen /\ GlWriteHead(GlNotif) = glHead + 2
    BY <2>2, <1>1, <1>3, <1>5 DEF GlWrap
  <2>4. glHead + 2 # glTail
    BY <2>3, <1>4, <1>7
  <2>5. glHead + 2 <= (IF glTail = 0 THEN GlLen ELSE glTail) - 2
    BY <2>2, <2>4, <1>1, <1>3
  <2> QED
    BY <2>1, <2>3, <2>4, <2>5, <1>1, <1>3
<1> QED
  BY <1>4, <1>6, <1>7 DEF GlOpen

\* A read notification takes two of the four cells, once.
LEMMA GlBlockedStep ==
    ASSUME GlInv, glMet' \in BOOLEAN, ~glMet', NEW m \in GlMsgs, GlBlocked(m)
    PROVE  GlInv'
<1> DEFINE n == GlDist(GlBase, glHead)
<1>1. GlLen \in Nat /\ GlLen >= 6 /\ GlLen % 2 = 0
  BY GlLenFacts
<1>2. GlTypeOK /\ GlQuiet /\ GlRoom /\ GlRows /\ GlSeen
  BY DEF GlInv
<1>3. glPend = -1 /\ GlOpen /\ glNotify' = TRUE
      /\ UNCHANGED <<glSide, glHead, glTail, glUp, glPeek>>
  BY DEF GlBlocked
<1>4. GlBase' = GlBase /\ GlEnd = glHead /\ GlRxAvail' = GlRxAvail
  BY <1>3 DEF GlBase, GlEnd, GlRxAvail
<1>5. n \in GlCells /\ GlBase \in GlCells /\ GlBase % 2 = 0
  <2>1. GlBase \in GlCells /\ GlBase % 2 = 0 /\ glHead \in GlCells /\ glHead % 2 = 0
    BY <1>1, <1>2 DEF GlTypeOK, GlBase, GlCells
  <2> QED
    BY <2>1, GlDists
<1>6. CASE glNotify
  <2>1. UNCHANGED <<glFifo, glPend, glNotify>>
    BY <1>3, <1>6, <1>2 DEF GlBlocked, GlTypeOK
  <2>2. GlEnd' = GlEnd /\ GlBase' = GlBase
    BY <2>1, <1>3 DEF GlEnd, GlBase
  <2>3. GlTypeOK' /\ GlQuiet' /\ GlSeen'
    BY <2>1, <1>2, <1>3, <1>4 DEF GlTypeOK, GlCellsOK, GlQuiet, GlSeen, GlOpen
  <2>4. GlRoom'
    BY <2>1, <2>2, <1>2, <1>3, <1>4 DEF GlRoom
  <2>5. GlRows'
    BY <2>1, <2>2, <1>2, <1>3 DEF GlRows
  <2> QED
    BY <2>3, <2>4, <2>5 DEF GlInv
<1>7. CASE ~glNotify
  <2>1. GlSize(GlNotif) = 2
    BY DEF GlSize, GlAlign, GlHdr, GlDlen
  <2>2. /\ n + 2 <= GlLen - 2
        /\ glUp = "half" => /\ GlWriteHead(GlNotif) = glHead + 2 /\ glHead + 2 # glTail
                            /\ glHead + 2 <= (IF glTail = 0 THEN GlLen ELSE glTail) - 2
    BY <1>7, GlNotifRoom
  <2>3. glFifo' = GlCopy(GlNotif) /\ glPend' = GlWriteHead(GlNotif)
    BY <1>7 DEF GlBlocked
  <2>4. /\ GlCellsOK' /\ GlRows' /\ glPend' \in GlCells /\ glPend' % 2 = 0 /\ glPend' # -1
        /\ GlDist(GlBase, glPend') = n + 2
        /\ n > 0 => glFifo'[GlBase] = glFifo[GlBase]
    <3>1. GlDist(GlBase, glHead) + GlSize(GlNotif) <= GlLen - 2
      BY <2>1, <2>2
    <3> HIDE DEF n
    <3>2. /\ GlCellsOK' /\ GlRows' /\ glPend' \in GlCells /\ glPend' % 2 = 0 /\ glPend' # -1
          /\ GlDist(GlBase, glPend') = GlDist(GlBase, glHead) + GlSize(GlNotif)
          /\ GlDist(GlBase, glHead) > 0 => glFifo'[GlBase] = glFifo[GlBase]
      BY <3>1, <2>3, <1>3, GlCopyKeeps DEF GlOpen
    <3> QED
      BY <3>2, <2>1 DEF n
  <2>5. GlTypeOK'
    BY <1>2, <1>3, <2>4, Zenon DEF GlTypeOK
  <2>6. GlDist(GlBase, glHead)' = n /\ GlDist(GlBase, glPend)' = n + 2 /\ GlEnd' = glPend'
    BY <1>3, <1>4, <2>4 DEF GlDist, GlEnd
  <2>7. glUp = "up" => GlBase = glTail
    BY DEF GlBase
  <2>8. glPend' # glTail'
    <3>1. GlDist(GlBase, GlBase) = 0 /\ n \in Nat
      BY <1>1, <1>5 DEF GlDist, GlCells
    <3> HIDE DEF n
    <3>2. CASE glUp = "up"
      BY <3>1, <3>2, <2>4, <2>7, <1>3
    <3>3. CASE glUp = "half"
      BY <3>3, <2>2, <2>3, <1>3
    <3> QED
      BY <3>2, <3>3, <1>3 DEF GlOpen
  <2>9. GlRoom'
    <3>1. n + 2 <= GlLen - 2 /\ n < n + 2
      BY <2>2, <1>1, <1>5 DEF GlCells
    <3>2. glUp' = "up" => GlDist(glTail, GlEnd)' <= GlLen - (IF glNotify' THEN 2 ELSE 4)
      <4>1. glUp = "up" => GlDist(glTail, GlEnd)' = n + 2
        BY <2>4, <2>6, <2>7, <1>3 DEF GlDist
      <4> QED
        BY <4>1, <3>1, <1>3
    <3>3. glUp' = "half" =>
             GlEnd' <= (IF glTail' = 0 THEN GlLen ELSE glTail') - (IF glNotify' THEN 2 ELSE 4)
      BY <2>2, <2>3, <2>6, <1>3
    <3> HIDE DEF n
    <3> QED
      BY <3>1, <3>2, <3>3, <2>6, <2>8, <1>2, <1>3, <1>4 DEF GlRoom
  <2>10. GlQuiet'
    BY <1>2, <1>3 DEF GlQuiet, GlOpen
  <2>11. GlSeen'
    <3>1. glPeek # <<>> => glUp = "up" /\ GlRxAvail > 0
      BY <1>2 DEF GlQuiet, GlSeen
    <3>2. glUp = "up" => n = GlRxAvail
      BY <2>7 DEF GlDist, GlRxAvail
    <3> QED
      BY <3>1, <3>2, <2>4, <2>7, <1>2, <1>3, <1>4 DEF GlSeen
  <2> QED
    BY <2>4, <2>5, <2>9, <2>10, <2>11 DEF GlInv
<1> QED
  BY <1>6, <1>7

\* The head moves to where the writer is.
LEMMA GlPublishStep ==
    ASSUME GlInv, GlPublish
    PROVE  GlInv'
<1>1. GlLen \in Nat /\ GlLen >= 6 /\ GlLen % 2 = 0
  BY GlLenFacts
<1>2. GlTypeOK /\ GlQuiet /\ GlRoom /\ GlRows /\ GlSeen
  BY DEF GlInv
<1>3. glPend # -1 /\ glHead' = glPend /\ glPend' = -1
      /\ UNCHANGED <<glSide, glTail, glFifo, glNotify, glPeek, glUp>>
  BY DEF GlPublish
<1>4. GlBase' = GlBase /\ GlEnd = glPend /\ GlEnd' = glPend
  BY <1>3 DEF GlBase, GlEnd
<1>5. GlTypeOK'
  BY <1>2, <1>3, Zenon DEF GlTypeOK, GlCellsOK
<1>6. GlQuiet'
  BY <1>2, <1>3 DEF GlQuiet, GlOpen
<1>7. glPend \in 0..GlLen - 1 /\ glPend % 2 = 0 /\ glTail \in 0..GlLen - 1 /\ glTail % 2 = 0
      /\ glHead \in 0..GlLen - 1
  BY <1>2, <1>3 DEF GlTypeOK, GlCells
<1>8. GlRxAvail' = GlDist(glTail, glPend)
  BY <1>3 DEF GlRxAvail, GlDist
<1>9. GlRoom'
  <2>1. GlDist(glTail, GlEnd)' = GlDist(glTail, GlEnd)
    BY <1>3, <1>4 DEF GlDist
  <2>2. glUp = "half" =>
           glPend <= (IF glTail = 0 THEN GlLen ELSE glTail) - (IF glNotify THEN 2 ELSE 4)
    BY <1>2, <1>3, <1>4 DEF GlRoom, GlQuiet, GlOpen
  <2>3. glUp # "up" => GlRxAvail' <= GlLen - 2
    BY <2>2, <1>1, <1>2, <1>3, <1>7, <1>8 DEF GlDist, GlQuiet, GlOpen
  <2> QED
    BY <2>1, <2>2, <2>3, <1>2, <1>3, <1>4 DEF GlRoom
<1>10. GlRows'
  <2>1. GlDist(GlBase, glHead)' = GlDist(GlBase, GlEnd)
        /\ GlDist(GlBase, GlEnd)' = GlDist(GlBase, GlEnd)
    BY <1>3, <1>4 DEF GlDist
  <2> QED
    BY <2>1, <1>2, <1>3, <1>4 DEF GlRows
<1>11. GlSeen'
  <2>1. glPeek # <<>> => GlRxAvail' > 0
    BY <1>1, <1>2, <1>3, <1>7, <1>8 DEF GlRoom, GlDist
  <2> QED
    BY <2>1, <1>2, <1>3 DEF GlSeen
<1> QED
  BY <1>5, <1>6, <1>9, <1>10, <1>11 DEF GlInv

\* The header that the reader sees is the one of the oldest message.
LEMMA GlReadHeaderStep ==
    ASSUME ~GlStaleKick, GlInv, GlReadHeader
    PROVE  GlInv'
<1>1. GlTypeOK /\ GlQuiet /\ GlRoom /\ GlRows /\ GlSeen
  BY DEF GlInv
<1>2. glUp = "up" /\ GlRxAvail > 0
      /\ UNCHANGED <<glSide, glHead, glTail, glFifo, glPend, glNotify, glUp>>
  BY DEF GlReadHeader, GlMayRead
<1>3. GlStart(glFifo, glTail)
  BY <1>1, <1>2 DEF GlRows, GlBase, GlFramed, GlRxAvail, GlDist
<1>4. glPeek' = <<glFifo[glTail][1]>>
  <2>1. GlPeekAt(0, GlHdr)[0] = glFifo[glTail]
    <3>1. GlWrap(glTail + 0 + 0) = glTail
      BY <1>1, GlLenFacts DEF GlWrap, GlTypeOK, GlCells
    <3>2. 0 \in 0..GlHdr - 1
      BY DEF GlHdr
    <3> QED
      BY <3>1, <3>2 DEF GlPeekAt
  <2> QED
    BY <2>1, <1>3 DEF GlReadHeader, GlStart
<1>5. GlRxAvail' = GlRxAvail
  BY <1>2 DEF GlRxAvail
<1>6. GlSeen'
  BY <1>2, <1>4, <1>5 DEF GlSeen
<1> QED
  BY <1>1, <1>2, <1>5, <1>6
  DEF GlInv, GlTypeOK, GlCellsOK, GlQuiet, GlOpen, GlRoom, GlRows, GlEnd, GlBase, GlDist,
      GlFramed, GlWhole, GlStart

\* The tail moves by the whole first message, never past the head.
LEMMA GlReadPayloadStep ==
    ASSUME ~GlStaleKick, GlInv, GlReadPayload
    PROVE  GlInv'
<1> DEFINE s == GlSize(glFifo[glTail][1])
           A == GlDist(glTail, glHead)
           T == GlDist(glTail, GlEnd)
<1>1. GlTypeOK /\ GlQuiet /\ GlRoom /\ GlRows /\ GlSeen
  BY DEF GlInv
<1>2. glUp = "up" /\ GlRxAvail > 0 /\ glPeek # <<>>
      /\ UNCHANGED <<glSide, glHead, glFifo, glPend, glNotify, glUp>> /\ glPeek' = <<>>
      /\ glTail' = GlRxAdvance(GlAlign(GlHdr + GlDlen(glPeek[1])))
  BY DEF GlReadPayload, GlMayRead
<1>3. glTail' = GlWrap(glTail + s)
  <2>1. glPeek[1] = glFifo[glTail][1]
    BY <1>1, <1>2 DEF GlSeen
  <2> QED
    BY <2>1, <1>2 DEF GlRxAdvance, GlSize
<1>4. glHead \in GlCells /\ glHead % 2 = 0 /\ glTail \in GlCells /\ glTail % 2 = 0
      /\ GlEnd \in GlCells /\ GlEnd % 2 = 0 /\ GlCellsOK
  BY <1>1 DEF GlTypeOK, GlEnd
<1>5. A \in GlCells /\ T \in GlCells /\ A > 0 /\ A <= T /\ GlBase = glTail
  <2>1. A \in GlCells /\ T \in GlCells
    BY <1>4, GlDists
  <2>2. A > 0 /\ GlBase = glTail
    BY <1>2 DEF GlRxAvail, GlDist, GlBase
  <2>3. A <= T
    BY <2>1, <2>2, <1>1 DEF GlEnd, GlRoom, GlCells
  <2> QED
    BY <2>1, <2>2, <2>3
<1>6. GlFramed(glFifo, glTail, A) /\ GlFramed(glFifo, glTail, T) /\ GlStart(glFifo, glTail)
  BY <1>1, <1>2, <1>5 DEF GlRows, GlFramed
<1>7. s \in Nat /\ s % 2 = 0
  BY <1>4, <1>6, GlStartSizes
<1>8. GlLen \in Nat /\ GlLen >= 6 /\ GlLen % 2 = 0
  BY GlLenFacts
<1> HIDE DEF A, T
<1>9. 0 \in GlCells /\ 0 < A /\ 0 % 2 = 0 /\ GlWrap(glTail + 0) = glTail /\ 0 + s = s
      /\ 0 < T /\ A \in Nat /\ T \in Nat
  BY <1>4, <1>5, <1>7, <1>8 DEF GlWrap, GlCells
<1>10. s <= A /\ (s < A => GlStart(glFifo, GlWrap(glTail + s)))
  BY <1>6, <1>7, <1>9 DEF GlFramed
<1>11. s <= T /\ (s < T => GlStart(glFifo, GlWrap(glTail + s)))
  BY <1>6, <1>7, <1>9 DEF GlFramed
<1> HIDE DEF s
<1>12. \A i \in GlCells : GlStart(glFifo, i) =>
           /\ GlSize(glFifo[i][1]) \in Nat /\ GlHdr + GlDlen(glFifo[i][1]) \in Nat
           /\ GlHdr + GlDlen(glFifo[i][1]) <= GlSize(glFifo[i][1])
  BY <1>4, GlStartSizes
<1>13. /\ GlFramed(glFifo, glTail', A - s) /\ GlFramed(glFifo, glTail', T - s)
       /\ GlWhole(glFifo, glTail', T - s)
  <2>1. GlFramed(glFifo, GlWrap(glTail + s), A - s)
    BY <1>4, <1>5, <1>6, <1>7, <1>10, <1>12, GlFrameLess
  <2>2. GlFramed(glFifo, GlWrap(glTail + s), T - s)
    BY <1>4, <1>5, <1>6, <1>7, <1>11, <1>12, GlFrameLess
  <2>3. GlWhole(glFifo, glTail, T)
    BY <1>1, <1>2, <1>5 DEF GlRows, T
  <2>4. GlWhole(glFifo, GlWrap(glTail + s), T - s)
    BY <2>3, <1>4, <1>5, <1>6, <1>7, <1>11, <1>12, GlWholeLess
  <2> QED
    BY <2>1, <2>2, <2>4, <1>3
<1>14. glTail' \in GlCells /\ glTail' % 2 = 0
       /\ GlDist(glTail', glHead) = A - s /\ GlDist(glTail', GlEnd) = T - s
  <2>1. GlWrap(glTail + s) \in GlCells /\ GlDist(GlWrap(glTail + s), glHead) = A - s
    BY <1>4, <1>7, <1>10, GlDists DEF A
  <2>2. GlDist(GlWrap(glTail + s), GlEnd) = T - s
    BY <1>4, <1>7, <1>11, GlDists DEF T
  <2>3. GlWrap(glTail + s) % 2 = 0
    BY <1>4, <1>7, <1>8 DEF GlWrap, GlCells
  <2> QED
    BY <2>1, <2>2, <2>3, <1>3
<1>15. GlTypeOK'
  BY <1>1, <1>2, <1>14, Zenon DEF GlTypeOK, GlCellsOK
<1>16. GlQuiet' /\ GlSeen'
  BY <1>1, <1>2 DEF GlQuiet, GlSeen, GlOpen
<1>17. GlEnd' = GlEnd /\ GlBase' = glTail'
  BY <1>2 DEF GlEnd, GlBase
<1>18. GlDist(glTail, glHead)' = A - s /\ GlDist(glTail, GlEnd)' = T - s
  BY <1>2, <1>14, <1>17 DEF GlDist
<1>19. GlRows'
  BY <1>2, <1>13, <1>17, <1>18 DEF GlRows
<1>20. GlRoom'
  <2>1. T <= GlLen - (IF glNotify THEN 2 ELSE 4)
    BY <1>1, <1>2 DEF GlRoom, T
  <2>2. T - s <= GlLen - (IF glNotify THEN 2 ELSE 4)
    BY <2>1, <1>7, <1>8, <1>9
  <2>3. glPend # -1 => A - s < T - s
    BY <1>1, <1>5, <1>7, <1>9 DEF GlRoom, GlEnd, A, T
  <2>4. glPend # -1 => GlDist(glTail, glPend)' = T - s
    BY <1>18, <1>2, <1>17 DEF GlEnd
  <2>5. glPend # -1 => glPend # glTail'
    <3>1. ASSUME glPend # -1, glPend = glTail' PROVE FALSE
      <4>1. GlDist(glTail', GlEnd) = 0
        <5>1. GlEnd = glTail'
          BY <3>1 DEF GlEnd
        <5>2. ASSUME NEW i \in GlCells PROVE GlDist(i, i) = 0
          BY <1>8 DEF GlDist, GlCells
        <5> QED
          BY <5>1, <5>2, <1>14
      <4>2. T - s = 0 /\ A - s < T - s
        BY <4>1, <3>1, <2>3, <1>14
      <4> QED
        BY <4>2, <1>7, <1>9, <1>10
    <3> QED
      BY <3>1
  <2> QED
    BY <2>2, <2>3, <2>4, <2>5, <1>2, <1>17, <1>18 DEF GlRoom
<1> QED
  BY <1>15, <1>16, <1>19, <1>20 DEF GlInv

\* A crash freezes the ring, whatever became of it.
LEMMA GlCrashStep ==
    ASSUME GlTypeOK, GlCrash
    PROVE  GlInv'
<1>1. /\ glUp = "up" /\ glUp' = "down" /\ glPend' = -1 /\ glNotify' = FALSE /\ glPeek' = <<>>
      /\ UNCHANGED <<glSide, glHead, glTail, glFifo>>
  BY DEF GlCrash
<1>2. GlRxAvail' <= GlLen - 2
  BY <1>1, GlLenFacts DEF GlRxAvail, GlTypeOK, GlCells
<1>3. GlTypeOK'
  BY <1>1, Zenon DEF GlTypeOK, GlCellsOK
<1> QED
  BY <1>1, <1>2, <1>3 DEF GlInv, GlQuiet, GlRoom, GlRows, GlSeen

\* An edge clears its own index, and the SP its own.
LEMMA GlEdgeStep ==
    ASSUME GlInv, GlRegister \/ GlPeerReady
    PROVE  GlInv'
<1>1. GlLen \in Nat /\ GlLen >= 6 /\ GlLen % 2 = 0
  BY GlLenFacts
<1>2. GlTypeOK /\ GlQuiet /\ GlRoom /\ GlRows /\ GlSeen
  BY DEF GlInv
<1>3. glHead \in 0..GlLen - 1 /\ glHead % 2 = 0 /\ glTail \in 0..GlLen - 1 /\ glTail % 2 = 0
      /\ 0 \in GlCells
  BY <1>1, <1>2 DEF GlTypeOK, GlCells
<1>4. GlFramed(glFifo, 0, 0) /\ GlWhole(glFifo, 0, 0)
  BY DEF GlFramed, GlWhole, GlCells
<1>6. CASE GlRegister
  <2>1. /\ glUp = "down" /\ glUp' = "half" /\ UNCHANGED <<glSide, glFifo, glPend, glNotify, glPeek>>
        /\ IF glSide = "tx" THEN glHead' = 0 /\ glTail' = glTail
           ELSE glTail' = 0 /\ glHead' = glHead
    BY <1>6 DEF GlRegister
  <2>2. glPend = -1 /\ glPeek = <<>> /\ ~glNotify
    BY <1>2, <2>1 DEF GlQuiet, GlOpen
  <2>3. GlTypeOK'
    <3>1. glHead' \in GlCells /\ glHead' % 2 = 0 /\ glTail' \in GlCells /\ glTail' % 2 = 0
      BY <1>2, <1>3, <2>1 DEF GlTypeOK
    <3> QED
      BY <3>1, <1>2, <2>1, Zenon DEF GlTypeOK, GlCellsOK
  <2>4. GlRoom'
    <3>1. GlRxAvail' <= GlLen - 2
      BY <1>1, <1>3, <2>1 DEF GlRxAvail
    <3> QED
      BY <3>1, <2>1, <2>2 DEF GlRoom
  <2>5. GlRows'
    <3>1. glSide = "tx" => GlDist(GlBase, glHead)' = 0 /\ GlDist(GlBase, GlEnd)' = 0 /\ GlBase' = 0
      BY <2>1, <2>2 DEF GlBase, GlEnd, GlDist
    <3> QED
      BY <3>1, <1>4, <2>1 DEF GlRows
  <2> QED
    BY <2>1, <2>2, <2>3, <2>4, <2>5 DEF GlInv, GlQuiet, GlOpen, GlSeen
<1>7. CASE GlPeerReady
  <2>1. /\ glUp = "half" /\ glUp' = "up" /\ UNCHANGED <<glSide, glFifo, glPend, glNotify, glPeek>>
        /\ IF glSide = "tx" THEN glTail' = 0 /\ glHead' = glHead
           ELSE glHead' = 0 /\ glTail' = glTail
    BY <1>7 DEF GlPeerReady
  <2>2. glPeek = <<>> /\ (glSide # "tx" => ~glNotify)
    BY <1>2, <2>1 DEF GlQuiet, GlOpen
  <2>3. GlTypeOK'
    <3>1. glHead' \in GlCells /\ glHead' % 2 = 0 /\ glTail' \in GlCells /\ glTail' % 2 = 0
      BY <1>2, <1>3, <2>1 DEF GlTypeOK
    <3> QED
      BY <3>1, <1>2, <2>1, Zenon DEF GlTypeOK, GlCellsOK
  <2>4. CASE glSide = "tx"
    <3>1. GlBase = 0 /\ GlBase' = 0 /\ GlEnd' = GlEnd /\ glTail' = 0 /\ glHead' = glHead
      BY <2>1, <2>4 DEF GlBase, GlEnd
    <3>2. /\ GlEnd \in 0..GlLen - 1
          /\ (glPend # -1 => GlEnd = glPend) /\ (glPend = -1 => GlEnd = glHead)
      BY <1>2, <1>3 DEF GlEnd, GlTypeOK, GlCells
    <3>3. GlEnd <= GlLen - (IF glNotify THEN 2 ELSE 4)
      BY <1>1, <1>2, <1>3, <2>1, <2>4, <3>2 DEF GlRoom
    <3>4. GlDist(0, GlEnd) = GlEnd /\ GlDist(0, glHead) = glHead
      BY <1>3, <3>2 DEF GlDist
    <3>5. GlRoom'
      <4>1. glPend # -1 => glPend # 0 /\ GlDist(0, glHead) < GlDist(0, glPend)
        BY <1>2, <1>3, <3>1, <3>2, <3>4 DEF GlRoom
      <4>2. GlDist(glTail, GlEnd)' = GlEnd
        BY <3>1, <3>4 DEF GlDist
      <4>3. glPend # -1 => GlDist(GlBase, glHead)' < GlDist(GlBase, glPend)'
        BY <4>1, <3>1, <2>1
      <4> QED
        BY <4>1, <4>2, <4>3, <3>1, <3>3, <2>1, <2>2 DEF GlRoom
    <3>6. GlRows'
      <4>1. GlDist(GlBase, glHead)' = GlDist(GlBase, glHead)
            /\ GlDist(GlBase, GlEnd)' = GlDist(GlBase, GlEnd)
        BY <3>1 DEF GlDist
      <4> QED
        BY <4>1, <3>1, <1>2, <2>1, <2>4 DEF GlRows
    <3> QED
      BY <2>1, <2>2, <2>3, <3>5, <3>6 DEF GlInv, GlQuiet, GlOpen, GlSeen
  <2>5. CASE glSide # "tx"
    <3>1. glPend = -1 /\ glTail' = 0 /\ glHead' = 0 /\ GlEnd' = 0 /\ GlBase' = 0
      BY <1>2, <2>1, <2>5 DEF GlQuiet, GlOpen, GlTypeOK, GlEnd, GlBase
    <3>2. GlDist(glTail, GlEnd)' = 0 /\ GlDist(GlBase, glHead)' = 0 /\ GlDist(GlBase, GlEnd)' = 0
      BY <3>1 DEF GlDist
    <3>3. GlRoom'
      BY <3>1, <3>2, <2>1, <1>1 DEF GlRoom
    <3>4. GlRows'
      BY <3>1, <3>2, <2>1, <1>4 DEF GlRows
    <3> QED
      BY <2>1, <2>2, <2>3, <3>3, <3>4 DEF GlInv, GlQuiet, GlOpen, GlSeen
  <2> QED
    BY <2>4, <2>5
<1> QED
  BY <1>6, <1>7

\* Writer, reader and the two ends of a new edge, on an edge that is not spoilt.
LEMMA GlInvStep ==
    ASSUME ~GlStaleKick, GlLives, ~glMet, ~glMet', glMet' \in BOOLEAN, [GlNext]_glVars
    PROVE  GlInv'
<1>1. ASSUME UNCHANGED glVars PROVE GlInv'
  BY <1>1 DEF glVars, GlLives, GlInv, GlTypeOK, GlCellsOK, GlQuiet, GlOpen, GlRoom, GlRows,
     GlSeen, GlEnd, GlBase, GlDist, GlFramed, GlWhole, GlStart, GlRxAvail
<1>2. GlInv /\ GlTypeOK
  BY DEF GlLives, GlInv
<1> QED
  BY <1>1, <1>2, GlTxWriteStep, GlBlockedStep, GlPublishStep, GlReadHeaderStep,
     GlReadPayloadStep, GlCrashStep, GlEdgeStep DEF GlNext, GlRead

\* The types survive on a spoilt edge, and the notification that spoils one.
LEMMA GlSpoiltStep ==
    ASSUME GlLives, glMet', [GlNext]_glVars
    PROVE  /\ GlTypeOK'
           /\ \/ glPeek' = <<>> \/ glPeek' = <<GlJunk>>
              \/ \E m \in GlMsgs \cup {GlNotif} : glPeek' = <<m>>
<1> DEFINE Peek == \/ glPeek = <<>> \/ glPeek = <<GlJunk>>
                   \/ \E m \in GlMsgs \cup {GlNotif} : glPeek = <<m>>
<1>1. GlLen \in Nat /\ GlLen >= 6 /\ GlLen % 2 = 0
  BY GlLenFacts
<1>2. GlTypeOK
  BY DEF GlLives, GlInv
<1>3. glHead \in 0..GlLen - 1 /\ glHead % 2 = 0 /\ glTail \in 0..GlLen - 1 /\ glTail % 2 = 0
      /\ 0 \in GlCells
  BY <1>1, <1>2 DEF GlTypeOK, GlCells
<1>4. Peek
  <2>1. CASE ~glMet /\ glPeek # <<>>
    <3>1. GlInv /\ glUp = "up" /\ GlRxAvail > 0 /\ glPeek = <<glFifo[glTail][1]>>
      BY <2>1 DEF GlLives, GlInv, GlQuiet, GlSeen
    <3>2. GlStart(glFifo, glTail)
      BY <3>1 DEF GlInv, GlRows, GlBase, GlFramed, GlRxAvail, GlDist
    <3>3. glTail \in GlCells /\ GlCellsOK
      BY <1>2 DEF GlTypeOK
    <3> QED
      BY <3>1, <3>2, <3>3, GlStartSizes
  <2> QED
    BY <2>1 DEF GlLives
<1>5. ASSUME NEW m \in GlMsgs \cup {GlNotif}
      PROVE  /\ GlWriteHead(m) \in GlCells /\ GlWriteHead(m) % 2 = 0
             /\ GlWrap(glTail + GlSize(m)) \in GlCells /\ GlWrap(glTail + GlSize(m)) % 2 = 0
  <2>1. GlWriteHead(m) = GlWrap(glHead + GlSize(m))
    BY <1>2, GlWriteHeadIs
  <2>2. GlSize(m) \in Nat /\ GlSize(m) % 2 = 0 /\ GlSize(m) <= GlLen
    BY <1>1, GlSizes DEF GlHdr
  <2> QED
    BY <2>1, <2>2, <1>1, <1>3 DEF GlWrap, GlCells
<1>6. ASSUME NEW m \in GlMsgs, GlTxWrite(m) \/ GlBlocked(m) PROVE GlTypeOK' /\ Peek'
  <2>1. UNCHANGED <<glSide, glHead, glTail, glPeek, glUp>> /\ glNotify' \in BOOLEAN
    BY <1>6, <1>2 DEF GlTxWrite, GlBlocked, GlTypeOK
  <2>2. \/ UNCHANGED <<glFifo, glPend>>
        \/ \E x \in GlMsgs \cup {GlNotif} : glFifo' = GlCopy(x) /\ glPend' = GlWriteHead(x)
    BY <1>6 DEF GlTxWrite, GlBlocked
  <2>3. GlCellsOK' /\ glPend' \in GlCells \cup {-1} /\ (glPend' # -1 => glPend' % 2 = 0)
    <3>1. CASE UNCHANGED <<glFifo, glPend>>
      BY <3>1, <1>2 DEF GlTypeOK, GlCellsOK
    <3>2. ASSUME NEW x \in GlMsgs \cup {GlNotif}, glFifo' = GlCopy(x), glPend' = GlWriteHead(x)
          PROVE  GlCellsOK' /\ glPend' \in GlCells \cup {-1} /\ (glPend' # -1 => glPend' % 2 = 0)
      BY <3>2, <1>2, <1>5, GlCopyCells
    <3> QED
      BY <2>2, <3>1, <3>2
  <2>4. GlTypeOK'
    BY <2>1, <2>3, <1>2, Zenon DEF GlTypeOK
  <2> QED
    BY <2>1, <2>4, <1>4
<1>7. CASE GlPublish
  <2>1. glHead' = glPend /\ glPend' = -1 /\ glPend # -1
        /\ UNCHANGED <<glSide, glTail, glFifo, glNotify, glPeek, glUp>>
    BY <1>7 DEF GlPublish
  <2>2. GlTypeOK'
    BY <2>1, <1>2, Zenon DEF GlTypeOK, GlCellsOK
  <2> QED
    BY <2>1, <2>2, <1>4
<1>8. CASE GlReadHeader
  <2>1. UNCHANGED <<glSide, glHead, glTail, glFifo, glPend, glNotify, glUp>>
    BY <1>8 DEF GlReadHeader
  <2>2. GlTypeOK'
    BY <2>1, <1>2, Zenon DEF GlTypeOK, GlCellsOK
  <2>3. GlPeekAt(0, GlHdr)[0] = glFifo[glTail]
    <3>1. GlWrap(glTail + 0 + 0) = glTail
      BY <1>1, <1>3 DEF GlWrap
    <3>2. 0 \in 0..GlHdr - 1
      BY DEF GlHdr
    <3> QED
      BY <3>1, <3>2 DEF GlPeekAt
  <2>4. glPeek' = <<GlJunk>> \/ (glFifo[glTail] # <<>> /\ glPeek' = <<glFifo[glTail][1]>>)
    BY <1>8, <2>3 DEF GlReadHeader
  <2>5. glFifo[glTail] # <<>> => glFifo[glTail][1] \in GlMsgs \cup {GlNotif}
    BY <1>2 DEF GlTypeOK, GlCellsOK
  <2> QED
    BY <2>2, <2>4, <2>5
<1>9. CASE GlReadPayload
  <2>1. /\ UNCHANGED <<glSide, glHead, glFifo, glPend, glNotify, glUp>> /\ glPeek' = <<>>
        /\ glPeek \notin {<<>>, <<GlJunk>>}
        /\ glTail' = GlRxAdvance(GlAlign(GlHdr + GlDlen(glPeek[1])))
    BY <1>9 DEF GlReadPayload
  <2>2. PICK m \in GlMsgs \cup {GlNotif} : glPeek = <<m>>
    BY <2>1, <1>4
  <2>3. glTail' = GlWrap(glTail + GlSize(m))
    BY <2>1, <2>2 DEF GlRxAdvance, GlSize
  <2>4. glTail' \in GlCells /\ glTail' % 2 = 0
    BY <2>3, <1>5
  <2>5. GlTypeOK'
    BY <2>1, <2>4, <1>2, Zenon DEF GlTypeOK, GlCellsOK
  <2> QED
    BY <2>1, <2>5
<1>10. CASE GlRegister \/ GlPeerReady
  <2>1. /\ UNCHANGED <<glSide, glFifo, glPend, glNotify, glPeek>> /\ glUp' \in {"half", "up"}
        /\ glHead' \in {0, glHead} /\ glTail' \in {0, glTail}
    BY <1>10 DEF GlRegister, GlPeerReady
  <2>2. glHead' \in GlCells /\ glHead' % 2 = 0 /\ glTail' \in GlCells /\ glTail' % 2 = 0
    <3>1. ASSUME NEW x \in {0, glHead, glTail} PROVE x \in GlCells /\ x % 2 = 0
      BY <1>2, <1>3 DEF GlTypeOK
    <3> QED
      BY <2>1, <3>1
  <2>3. GlTypeOK'
    BY <2>1, <2>2, <1>2 DEF GlTypeOK, GlCellsOK
  <2> QED
    BY <2>1, <2>3, <1>4
<1>11. CASE UNCHANGED glVars
  BY <1>11, <1>2, <1>4 DEF glVars, GlTypeOK, GlCellsOK
<1>12. ~GlCrash
  BY DEF GlCrash
<1> QED
  BY <1>6, <1>7, <1>8, <1>9, <1>10, <1>11, <1>12 DEF GlNext, GlRead

\* A spoilt edge ends with a crash, and every other step keeps what holds.
LEMMA GlLivesStep == ~GlStaleKick /\ GlLives /\ [GlNext]_glVars => GlLives'
<1> SUFFICES ASSUME ~GlStaleKick, GlLives, [GlNext]_glVars PROVE GlLives'
  OBVIOUS
<1>1. glMet' \in BOOLEAN /\ (glMet => glMet' \/ GlCrash)
  BY DEF GlLives, GlNext, GlRead, GlTxWrite, GlBlocked, GlPublish, GlReadHeader, GlReadPayload,
         GlCrash, GlRegister, GlPeerReady, glVars
<1>2. ~glMet' => GlInv'
  <2>1. CASE ~glMet
    BY <2>1, <1>1, GlInvStep
  <2>2. CASE glMet
    BY <2>2, <1>1, GlCrashStep DEF GlLives
  <2> QED
    BY <2>1, <2>2
<1> QED
  BY <1>1, <1>2, GlSpoiltStep DEF GlLives

\* An empty ring is as it should be.
LEMMA GlLivesInit == GlInit => GlLives
  BY GlInvInit DEF GlInit, GlLives

\* A full ring never looks empty, whatever its length, the messages and the writers that
\* wait or overtake: behind the head and the head under way two cells stay free, on a new
\* edge too as long as no notification is written up to the stale tail, if no interrupt of
\* the SP's old life reaches the new edge.
THEOREM GlReserveSafety == ~GlStaleKick => (GlSpec => []GlReserveKept)
<1> SUFFICES ASSUME ~GlStaleKick PROVE GlSpec => []GlReserveKept
  OBVIOUS
<1>1. GlLives => GlReserveKept
  <2> SUFFICES ASSUME GlInv PROVE GlReserveKept
    BY DEF GlLives, GlReserveKept
  <2>1. glHead % 2 = 0 /\ glTail % 2 = 0 /\ (glPend # -1 => glPend # glTail)
    BY DEF GlInv, GlTypeOK, GlRoom
  <2>2. CASE glUp # "up"
    BY <2>1, <2>2 DEF GlInv, GlRoom, GlReserveKept
  <2>3. CASE glUp = "up"
    <3>1. GlDist(glTail, glHead) \in Int /\ GlDist(glTail, GlEnd) \in Int
      BY GlLenFacts DEF GlInv, GlTypeOK, GlEnd, GlDist, GlCells
    <3>2. GlDist(glTail, glHead) <= GlDist(glTail, GlEnd)
      BY <2>3, <3>1 DEF GlInv, GlRoom, GlEnd, GlBase
    <3>3. GlDist(glTail, GlEnd) <= GlLen - (IF glNotify THEN 2 ELSE 4)
      BY <2>3 DEF GlInv, GlRoom
    <3>4. GlRxAvail = GlDist(glTail, glHead)
      BY DEF GlRxAvail, GlDist
    <3>5. GlRxAvail <= GlLen - 2
      BY <3>1, <3>2, <3>3, <3>4, GlLenFacts
    <3> QED
      BY <2>1, <3>5 DEF GlReserveKept
  <2> QED
    BY <2>2, <2>3
<1> QED
  BY <1>1, GlLivesInit, GlLivesStep, PTL DEF GlSpec

\* What the reader delivers is the message whose header it has seen, whole.
LEMMA GlReadsWhole ==
    ASSUME ~GlStaleKick, GlInv, GlReadPayload
    PROVE  /\ glFifo[glTail][1] \in GlMsgs \cup {GlNotif}
           /\ glOut' = <<glFifo[glTail][1]>>
<1> DEFINE m == glFifo[glTail][1]
<1>1. glUp = "up" /\ GlRxAvail > 0 /\ glPeek = <<m>>
  BY DEF GlReadPayload, GlMayRead, GlInv, GlSeen
<1>2. glTail \in GlCells /\ GlEnd \in GlCells /\ GlCellsOK /\ glTail % 2 = 0 /\ GlEnd % 2 = 0
      /\ glHead \in GlCells
  BY DEF GlInv, GlTypeOK, GlEnd
<1>3. GlBase = glTail /\ GlDist(glTail, glHead) = GlRxAvail
  BY <1>1 DEF GlBase, GlDist, GlRxAvail
<1>4. GlStart(glFifo, glTail) /\ GlWhole(glFifo, glTail, GlDist(glTail, GlEnd))
  BY <1>1, <1>3 DEF GlInv, GlRows, GlFramed
<1>5. m \in GlMsgs \cup {GlNotif} /\ GlHdr + GlDlen(m) \in Nat /\ GlDlen(m) \in Nat
  BY <1>2, <1>4, GlStartSizes, GlSizes
<1>6. GlLen \in Nat /\ GlLen >= 6
  BY GlLenFacts
<1>7. 0 \in GlCells /\ GlWrap(glTail + 0) = glTail
  BY <1>2, <1>6 DEF GlCells, GlWrap
<1>8. 0 < GlDist(glTail, GlEnd)
  <2>1. GlDist(glTail, glHead) \in Int /\ GlDist(glTail, GlEnd) \in Int
    BY <1>2, <1>6 DEF GlDist, GlCells
  <2>2. GlDist(glTail, glHead) <= GlDist(glTail, GlEnd)
    BY <2>1, <1>3 DEF GlInv, GlRoom, GlEnd
  <2> QED
    BY <2>1, <2>2, <1>1, <1>3
<1>9. \A k \in Nat : k < GlHdr + GlDlen(m) => glFifo[GlWrap(glTail + (0 + k))] = <<m, k>>
  BY <1>4, <1>7, <1>8 DEF GlWhole
<1> HIDE DEF m
<1>10. \A k \in 0..GlDlen(m) - 1 : GlPeekAt(GlHdr, GlDlen(m))[k] = <<m, GlHdr + k>>
  <2> SUFFICES ASSUME NEW k \in 0..GlDlen(m) - 1
               PROVE  GlPeekAt(GlHdr, GlDlen(m))[k] = <<m, GlHdr + k>>
    OBVIOUS
  <2>1. GlPeekAt(GlHdr, GlDlen(m))[k] = glFifo[GlWrap(glTail + GlHdr + k)]
    BY DEF GlPeekAt
  <2>2. GlHdr + k \in Nat /\ GlHdr + k < GlHdr + GlDlen(m)
        /\ glTail + GlHdr + k = glTail + (0 + (GlHdr + k))
    BY <1>2, <1>5 DEF GlHdr, GlCells
  <2> QED
    BY <2>1, <2>2, <1>9
<1>11. glOut' = <<m>>
  <2>1. glPeek[1] = m
    BY <1>1
  <2> QED
    BY <2>1, <1>10 DEF GlReadPayload
<1> QED
  BY <1>5, <1>11 DEF m

\* What the reader hands on: nothing yet, or a message as it was written, unless the edge
\* is spoilt.
GlNotTorn == \/ glMet \/ glOut = <<>>
             \/ \E m \in GlMsgs \cup {GlNotif} : glOut = <<m>>

\* No message is delivered torn: on every ring, whatever the wrap, the padding, the
\* notifications and the crashes, the reader finds the cells of the header and of the
\* payload that belong together, as long as no notification met a stale tail.
THEOREM GlTornSafety == ~GlStaleKick => (GlSpec => []GlNotTorn)
<1> SUFFICES ASSUME ~GlStaleKick PROVE GlSpec => []GlNotTorn
  OBVIOUS
<1>1. GlInit => GlNotTorn
  BY DEF GlInit, GlNotTorn
<1>2. GlLives /\ GlNotTorn /\ [GlNext]_glVars => GlNotTorn'
  <2> SUFFICES ASSUME GlLives, GlNotTorn, [GlNext]_glVars, ~glMet' PROVE GlNotTorn'
    BY DEF GlNotTorn
  <2>4. (glMet => glOut' = <<>>) /\ (~glMet => GlInv)
    BY DEF GlLives, GlNext, GlRead, GlTxWrite, GlBlocked, GlPublish, GlReadHeader,
           GlReadPayload, GlCrash, GlRegister, GlPeerReady, glVars
  <2>1. CASE UNCHANGED glOut \/ glOut' = <<>>
    BY <2>1, <2>4 DEF GlNotTorn
  <2>2. CASE GlReadPayload
    BY <2>2, <2>4, GlReadsWhole DEF GlNotTorn
  <2>3. (UNCHANGED glOut \/ glOut' = <<>>) \/ GlReadPayload
    BY DEF GlNext, glVars, GlTxWrite, GlBlocked, GlPublish, GlRead, GlReadHeader, GlCrash,
       GlRegister, GlPeerReady
  <2> QED
    BY <2>1, <2>2, <2>3
<1> QED
  BY <1>1, <1>2, GlLivesInit, GlLivesStep, PTL DEF GlSpec

(***************************************************************************)
(* What a reader takes the ring for.                                       *)
(***************************************************************************)

\* The messages that cells of ring F name are messages.
GlGood(F) == \A i \in GlCells : GlStart(F, i) => F[i][1] \in GlMsgs \cup {GlNotif}

\* What is found at cell t with n cells to go, if f says what is found with fewer.
GlFinds(F, f, n, t) ==
    IF n = 0 THEN <<>>
    ELSE IF ~GlStart(F, t) THEN <<GlJunk>>
    ELSE <<F[t][1]>> \o (IF GlSize(F[t][1]) > n THEN <<GlJunk>>
                         ELSE f[n - GlSize(F[t][1])][GlWrap(t + GlSize(F[t][1]))])
GlBody(F, f, n) == [t \in GlCells |-> GlFinds(F, f, n, t)]

\* A set of natural numbers has a least one.
LEMMA GlLeast ==
    ASSUME NEW S \in SUBSET Nat, S # {}
    PROVE  \E x \in S : \A y \in S : x =< y
<1>1. PICK x \in S : \A y \in S : ~(<<y, x>> \in OpToRel(<, Nat))
  BY NatLessThanWellFounded, WFMin
<1>2. ASSUME NEW y \in S PROVE x =< y
  <2>1. x \in Nat /\ y \in Nat
    OBVIOUS
  <2>2. y < x => <<y, x>> \in {ss \in Nat \X Nat : ss[1] < ss[2]}
    BY <2>1
  <2>3. ~(y < x)
    BY <1>1, <2>2, Zenon DEF OpToRel
  <2> QED
    BY <2>1, <2>3
<1> QED
  BY <1>2

\* The size of a message that a good ring names, and where the next one is.
LEMMA GlGoodSizes ==
    ASSUME NEW F, GlGood(F), NEW t \in GlCells, GlStart(F, t)
    PROVE  /\ F[t][1] \in GlMsgs \cup {GlNotif}
           /\ GlSize(F[t][1]) \in Nat /\ GlSize(F[t][1]) >= 2 /\ GlSize(F[t][1]) <= GlLen
           /\ GlSize(F[t][1]) % 2 = 0
           /\ GlWrap(t + GlSize(F[t][1])) \in GlCells
<1> DEFINE m == F[t][1]
<1>1. m \in GlMsgs \cup {GlNotif}
  BY DEF GlGood
<1>2. GlSize(m) \in Nat /\ GlSize(m) >= 2 /\ GlSize(m) <= GlLen /\ GlSize(m) % 2 = 0
  <2> HIDE DEF m
  <2> QED
    BY <1>1, GlSizes, GlLenFacts DEF GlHdr
<1> HIDE DEF m
<1>3. GlWrap(t + GlSize(m)) \in GlCells
  BY <1>2, GlLenFacts DEF GlWrap, GlCells
<1> QED
  BY <1>1, <1>2, <1>3 DEF m

\* Only what is found with fewer cells matters.
LEMMA GlBodyCongruent ==
    ASSUME NEW F, GlGood(F), NEW n \in 0..GlLen, NEW f, NEW g,
           \A k \in 0..GlLen : k < n => f[k] = g[k]
    PROVE  GlBody(F, f, n) = GlBody(F, g, n)
<1>1. ASSUME NEW t \in GlCells PROVE GlFinds(F, f, n, t) = GlFinds(F, g, n, t)
  <2>1. CASE n = 0 \/ ~GlStart(F, t)
    BY <2>1 DEF GlFinds
  <2>2. CASE n # 0 /\ GlStart(F, t)
    <3> DEFINE c == GlSize(F[t][1])
    <3>1. c \in Nat /\ c >= 2
      BY <2>2, GlGoodSizes
    <3> HIDE DEF c
    <3>2. c > n \/ (n - c \in 0..GlLen /\ n - c < n)
      BY <3>1, GlLenFacts
    <3>3. c > n \/ f[n - c] = g[n - c]
      BY <3>2
    <3> QED
      BY <2>2, <3>3 DEF GlFinds, c
  <2> QED
    BY <2>1, <2>2
<1> QED
  BY <1>1, Zenon DEF GlBody

\* GlParse is what its recursive definition says.
LEMMA GlParseIs ==
    ASSUME NEW F, GlGood(F)
    PROVE  GlParse(F) = [n \in 0..GlLen |-> GlBody(F, GlParse(F), n)]
<1>1. GlLen \in Nat /\ GlLen >= 6
  BY GlLenFacts
<1> DEFINE Upto(k) == \E f : \A n \in 0..GlLen : n <= k => f[n] = GlBody(F, f, n)
           Bad == {k \in Nat : k <= GlLen /\ ~Upto(k)}
<1>2. Upto(0)
  <2> DEFINE f == [n \in 0..GlLen |-> GlBody(F, 0, 0)]
  <2>1. GlBody(F, f, 0) = GlBody(F, 0, 0)
    BY GlBodyCongruent, <1>1
  <2>2. f[0] = GlBody(F, 0, 0)
    BY <1>1
  <2>3. \A n \in 0..GlLen : n <= 0 => n = 0
    BY <1>1
  <2> HIDE DEF f
  <2>4. \A n \in 0..GlLen : n <= 0 => f[n] = GlBody(F, f, n)
    BY <2>1, <2>2, <2>3
  <2> QED
    BY <2>4
<1>3. ASSUME NEW k \in Nat, k + 1 <= GlLen, Upto(k) PROVE Upto(k + 1)
  <2>1. PICK f : \A n \in 0..GlLen : n <= k => f[n] = GlBody(F, f, n)
    BY <1>3
  <2> DEFINE g == [n \in 0..GlLen |-> IF n = k + 1 THEN GlBody(F, f, k + 1) ELSE f[n]]
  <2>2. \A n \in 0..GlLen : g[n] = IF n = k + 1 THEN GlBody(F, f, k + 1) ELSE f[n]
    OBVIOUS
  <2> HIDE DEF g
  <2>3. ASSUME NEW n \in 0..GlLen, n <= k + 1 PROVE g[n] = GlBody(F, g, n)
    <3>1. \A j \in 0..GlLen : j < n => f[j] = g[j]
      <4>1. \A j \in 0..GlLen : j < n => j # k + 1
        BY <2>3, <1>1
      <4> QED
        BY <4>1, <2>2
    <3>2. GlBody(F, f, n) = GlBody(F, g, n)
      BY <3>1, GlBodyCongruent
    <3>3. n = k + 1 \/ n <= k
      BY <2>3, <1>1
    <3>4. g[n] = GlBody(F, f, n)
      BY <3>3, <2>1, <2>2
    <3> QED
      BY <3>2, <3>4
  <2> QED
    BY <2>3
<1> HIDE DEF Upto
<1>4. Bad = {}
  <2> SUFFICES ASSUME Bad # {} PROVE FALSE
    OBVIOUS
  <2>1. PICK k \in Bad : \A y \in Bad : k =< y
    BY GlLeast
  <2>2. k \in Nat /\ k <= GlLen /\ ~Upto(k) /\ k # 0
    BY <1>2
  <2>3. k - 1 \in Nat /\ k - 1 <= GlLen /\ k - 1 + 1 = k /\ ~(k <= k - 1)
    BY <2>2, <1>1
  <2>4. k - 1 \notin Bad
    BY <2>1, <2>3
  <2>5. Upto(k - 1)
    BY <2>3, <2>4
  <2> QED
    BY <2>2, <2>3, <2>5, <1>3
<1>5. Upto(GlLen)
  BY <1>1, <1>4
<1>6. PICK f : \A n \in 0..GlLen : f[n] = GlBody(F, f, n)
  <2>1. \A n \in 0..GlLen : n <= GlLen
    BY <1>1
  <2> QED
    BY <1>5, <2>1 DEF Upto
<1> DEFINE g == [n \in 0..GlLen |-> f[n]]
<1>7. g = [n \in 0..GlLen |-> GlBody(F, g, n)]
  <2>1. ASSUME NEW n \in 0..GlLen PROVE f[n] = GlBody(F, g, n)
    <3>1. \A j \in 0..GlLen : j < n => f[j] = g[j]
      OBVIOUS
    <3> HIDE DEF g
    <3> QED
      BY <1>6, <3>1, GlBodyCongruent
  <2> QED
    BY <2>1, Zenon
<1> HIDE DEF g
<1>8. GlParse(F) = CHOOSE p : p = [n \in 0..GlLen |-> GlBody(F, p, n)]
  BY DEF GlParse, GlBody, GlFinds, GlStart, GlSize
<1> QED
  BY <1>7, <1>8

\* The recursion, one cell at a time.
LEMMA GlParseAt ==
    ASSUME NEW F, GlGood(F), NEW n \in 0..GlLen, NEW t \in GlCells
    PROVE  GlParse(F)[n][t] = GlFinds(F, GlParse(F), n, t)
<1> DEFINE p == GlParse(F)
<1>1. p = [k \in 0..GlLen |-> GlBody(F, p, k)]
  BY GlParseIs
<1> HIDE DEF p
<1>2. p[n] = GlBody(F, p, n)
  BY <1>1
<1>3. p[n][t] = GlFinds(F, p, n, t)
  BY <1>2, Zenon DEF GlBody
<1> QED
  BY <1>3 DEF p

\* What is found is a sequence of messages and junk.
LEMMA GlParseType ==
    ASSUME NEW F, GlGood(F)
    PROVE  \A n \in 0..GlLen : \A t \in GlCells : GlParse(F)[n][t] \in Seq(Int)
<1>1. GlLen \in Nat /\ GlMsgs \subseteq Nat
  BY GlLenFacts, GlAssumption
<1> DEFINE Typed(n) == \A t \in GlCells : GlParse(F)[n][t] \in Seq(Int)
           Bad == {n \in Nat : n <= GlLen /\ ~Typed(n)}
<1>2. ASSUME NEW n \in 0..GlLen, \A k \in 0..GlLen : k < n => Typed(k)
      PROVE  Typed(n)
  <2> SUFFICES ASSUME NEW t \in GlCells PROVE GlParse(F)[n][t] \in Seq(Int)
    OBVIOUS
  <2>1. GlParse(F)[n][t] = GlFinds(F, GlParse(F), n, t)
    BY GlParseAt
  <2>2. CASE n = 0
    BY <2>1, <2>2 DEF GlFinds
  <2>3. CASE n # 0 /\ ~GlStart(F, t)
    BY <2>1, <2>3 DEF GlFinds, GlJunk
  <2>4. CASE n # 0 /\ GlStart(F, t)
    <3> DEFINE m == F[t][1]
               c == GlSize(m)
               w == GlWrap(t + c)
               r == IF c > n THEN <<GlJunk>> ELSE GlParse(F)[n - c][w]
    <3>1. c \in Nat /\ c >= 2 /\ w \in GlCells /\ m \in GlMsgs \cup {GlNotif}
      BY <2>4, GlGoodSizes
    <3>2. GlParse(F)[n][t] = <<m>> \o r
      BY <2>1, <2>4 DEF GlFinds
    <3> HIDE DEF m, c, w
    <3>3. r \in Seq(Int)
      <4>1. CASE c > n
        BY <4>1 DEF GlJunk
      <4>2. CASE ~(c > n)
        <5>1. n - c \in 0..GlLen /\ n - c < n
          BY <4>2, <3>1, <1>1
        <5> QED
          BY <5>1, <4>2, <3>1, <1>2
      <4> QED
        BY <4>1, <4>2
    <3> HIDE DEF r
    <3>4. <<m>> \in Seq(Int)
      BY <3>1, <1>1 DEF GlNotif
    <3> QED
      BY <3>2, <3>3, <3>4, ConcatProperties
  <2> QED
    BY <2>2, <2>3, <2>4
<1> HIDE DEF Typed
<1>3. Bad = {}
  <2> SUFFICES ASSUME Bad # {} PROVE FALSE
    OBVIOUS
  <2>1. PICK n \in Bad : \A y \in Bad : n =< y
    BY GlLeast
  <2>2. n \in 0..GlLen /\ ~Typed(n)
    BY <1>1
  <2>3. ASSUME NEW k \in 0..GlLen, k < n PROVE Typed(k)
    <3>1. k \in Nat /\ k <= GlLen /\ ~(n <= k)
      BY <2>2, <2>3, <1>1
    <3> QED
      BY <2>1, <3>1
  <2> QED
    BY <1>2, <2>2, <2>3
<1>4. \A n \in 0..GlLen : Typed(n)
  <2>1. \A n \in 0..GlLen : n \in Nat /\ n <= GlLen
    BY <1>1
  <2> QED
    BY <1>3, <2>1
<1> QED
  BY <1>4 DEF Typed

\* Nothing is found in no cells.
LEMMA GlParseNone ==
    ASSUME NEW F, GlGood(F), NEW t \in GlCells
    PROVE  GlParse(F)[0][t] = <<>>
<1>1. 0 \in 0..GlLen
  BY GlLenFacts
<1> QED
  BY <1>1, GlParseAt DEF GlFinds

\* Messages are numbers.
LEMMA GlMsgInt == \A m \in GlMsgs \cup {GlNotif} : m \in Int
  BY GlAssumption DEF GlNotif

\* Two cells from one another.
LEMMA GlWraps == \A x \in GlCells, y \in GlCells : GlWrap(x + y) \in GlCells
  BY GlLenFacts DEF GlWrap, GlCells

\* Where the message at offset o from b ends.
GlAfter(F, b, o) == o + GlSize(F[GlWrap(b + o)][1])

\* In a row of messages each is followed by the next.
LEMMA GlFramedAfter ==
    ASSUME NEW F, GlGood(F), NEW b \in GlCells, NEW n \in GlCells, GlFramed(F, b, n),
           NEW o \in GlCells, o < n, o % 2 = 0, GlStart(F, GlWrap(b + o))
    PROVE  /\ GlAfter(F, b, o) \in 0..n /\ GlAfter(F, b, o) > o /\ GlAfter(F, b, o) % 2 = 0
           /\ GlAfter(F, b, o) < n => GlStart(F, GlWrap(b + GlAfter(F, b, o)))
<1> DEFINE c == GlSize(F[GlWrap(b + o)][1])
<1>1. o + c \in 0..n /\ (o + c < n => GlStart(F, GlWrap(b + (o + c))))
  BY DEF GlFramed
<1>2. c \in Nat /\ c >= 2 /\ c % 2 = 0
  BY GlWraps, GlGoodSizes
<1>3. GlAfter(F, b, o) = o + c
  BY DEF GlAfter
<1> HIDE DEF c
<1>4. o + c > o /\ (o + c) % 2 = 0
  BY <1>2, GlLenFacts DEF GlCells
<1> QED
  BY <1>1, <1>3, <1>4

\* A message at offset o of a row of k cells is found first, then what follows it.
LEMMA GlParseOn ==
    ASSUME NEW F, GlGood(F), NEW b \in GlCells, NEW k \in GlCells, NEW o \in GlCells, o < k,
           GlStart(F, GlWrap(b + o)), GlAfter(F, b, o) <= k
    PROVE  GlParse(F)[k - o][GlWrap(b + o)] =
               <<F[GlWrap(b + o)][1]>> \o
                   GlParse(F)[k - GlAfter(F, b, o)][GlWrap(b + GlAfter(F, b, o))]
<1> DEFINE t == GlWrap(b + o)
           c == GlSize(F[t][1])
<1>1. GlLen \in Nat /\ b \in 0..GlLen - 1 /\ k \in 0..GlLen - 1 /\ o \in 0..GlLen - 1
  BY GlLenFacts DEF GlCells
<1>2. t \in GlCells
  BY GlWraps
<1>3. GlStart(F, t) /\ GlAfter(F, b, o) = o + c /\ o + c <= k
  BY DEF GlAfter
<1>4. c \in Nat /\ c >= 2
  BY <1>2, <1>3, GlGoodSizes
<1> HIDE DEF c
<1>5. GlWrap(t + c) = GlWrap(b + (o + c))
  BY <1>1, <1>3, <1>4 DEF GlWrap
<1> HIDE DEF t
<1>6. k - o \in 0..GlLen /\ k - o # 0 /\ ~(c > k - o) /\ (k - o) - c = k - (o + c)
  BY <1>1, <1>3, <1>4
<1>7. GlParse(F)[k - o][t] = GlFinds(F, GlParse(F), k - o, t)
  BY <1>2, <1>6, GlParseAt
<1>8. GlParse(F)[k - o][t] = <<F[t][1]>> \o GlParse(F)[(k - o) - c][GlWrap(t + c)]
  BY <1>3, <1>6, <1>7 DEF GlFinds, c
<1>9. GlParse(F)[k - o][t] =
         <<F[t][1]>> \o GlParse(F)[k - GlAfter(F, b, o)][GlWrap(b + GlAfter(F, b, o))]
  BY <1>3, <1>5, <1>6, <1>8
<1> QED
  BY <1>9 DEF t

\* A reader finds the message at o before the rest.
GlUnfolds(F, b, k, o) ==
    GlParse(F)[k - o][GlWrap(b + o)] =
        <<F[GlWrap(b + o)][1]>> \o
            GlParse(F)[k - GlAfter(F, b, o)][GlWrap(b + GlAfter(F, b, o))]

\* GlParseOn for all lengths and places at once.
LEMMA GlParseStep ==
    ASSUME NEW F, GlGood(F), NEW b \in GlCells
    PROVE  \A k, o \in GlCells :
               o < k /\ GlStart(F, GlWrap(b + o)) /\ GlAfter(F, b, o) <= k =>
                   GlUnfolds(F, b, k, o)
BY GlParseOn DEF GlUnfolds

\* What is found in a row of whole messages depends on the cells of the row alone.
LEMMA GlParseSame ==
    ASSUME NEW F, NEW G, GlGood(F), GlGood(G), NEW b \in GlCells, NEW n \in GlCells, n % 2 = 0,
           GlFramed(F, b, n), \A o \in GlCells : o < n => G[GlWrap(b + o)] = F[GlWrap(b + o)]
    PROVE  GlParse(G)[n][b] = GlParse(F)[n][b]
<1>1. GlLen \in Nat /\ b \in 0..GlLen - 1 /\ n \in 0..GlLen - 1
  BY GlLenFacts DEF GlCells
<1> DEFINE At(o) == o % 2 = 0 /\ (o < n => GlStart(F, GlWrap(b + o)))
           Same(o) == GlParse(G)[n - o][GlWrap(b + o)] = GlParse(F)[n - o][GlWrap(b + o)]
           Bad == {r \in Nat : r <= n /\ At(n - r) /\ ~Same(n - r)}
<1>2. ASSUME NEW o \in 0..n, At(o), \A e \in 0..n : e > o /\ At(e) => Same(e)
      PROVE  Same(o)
  <2>1. GlWrap(b + o) \in GlCells
    BY <1>1 DEF GlWrap, GlCells
  <2>2. CASE o = n
    <3>1. n - o = 0
      BY <2>2, <1>1
    <3> QED
      BY <3>1, <2>1, GlParseNone
  <2>3. CASE o < n
    <3> DEFINE t == GlWrap(b + o)
               d == GlAfter(F, b, o)
    <3>1. o \in GlCells /\ o \in Nat /\ GlStart(F, t) /\ o % 2 = 0
      BY <2>3, <1>1, <1>2 DEF GlCells
    <3>2. d \in 0..n /\ d > o /\ d % 2 = 0 /\ (d < n => GlStart(F, GlWrap(b + d)))
      BY <3>1, <2>3, GlFramedAfter
    <3>3. d <= n
      BY <3>2, <1>1
    <3>4. G[t] = F[t] /\ GlStart(G, t) /\ GlAfter(G, b, o) = d
      BY <3>1, <2>3 DEF GlStart, GlAfter
    <3>5. GlParse(F)[n - o][t] = <<F[t][1]>> \o GlParse(F)[n - d][GlWrap(b + d)]
      BY <3>1, <3>3, <2>3, GlParseOn
    <3>6. GlParse(G)[n - o][t] = <<G[t][1]>> \o GlParse(G)[n - d][GlWrap(b + d)]
      <4>1. GlAfter(G, b, o) <= n /\ GlStart(G, GlWrap(b + o))
        BY <3>3, <3>4
      <4> DEFINE e == GlAfter(G, b, o)
      <4>2. GlParse(G)[n - o][t] = <<G[t][1]>> \o GlParse(G)[n - e][GlWrap(b + e)]
        BY <4>1, <3>1, <2>3, GlParseOn
      <4> HIDE DEF d, e
      <4>3. e = d
        BY <3>4 DEF e
      <4> QED
        BY <4>2, <4>3
    <3> HIDE DEF d
    <3>7. GlParse(G)[n - d][GlWrap(b + d)] = GlParse(F)[n - d][GlWrap(b + d)]
      BY <1>2, <3>2
    <3> HIDE DEF t
    <3>8. GlParse(G)[n - o][t] = GlParse(F)[n - o][t]
      BY <3>4, <3>5, <3>6, <3>7
    <3> QED
      BY <3>8 DEF t
  <2> QED
    BY <2>2, <2>3, <1>1
<1>3. At(0)
  <2>1. GlWrap(b + 0) = b
    BY <1>1 DEF GlWrap
  <2> QED
    BY <2>1, <1>1 DEF GlFramed
<1> HIDE DEF At, Same
<1>4. Bad = {}
  <2> SUFFICES ASSUME Bad # {} PROVE FALSE
    OBVIOUS
  <2>1. PICK r \in Bad : \A y \in Bad : r =< y
    BY GlLeast
  <2>2. r \in Nat /\ r <= n /\ n - r \in 0..n /\ At(n - r) /\ ~Same(n - r)
    BY <1>1
  <2>3. ASSUME NEW e \in 0..n, e > n - r, At(e) PROVE Same(e)
    <3>1. n - e \in Nat /\ n - e <= n /\ n - (n - e) = e /\ ~(r <= n - e)
      BY <2>2, <2>3, <1>1
    <3>2. n - e \notin Bad
      BY <2>1, <3>1
    <3> QED
      BY <2>3, <3>1, <3>2
  <2> QED
    BY <1>2, <2>2, <2>3
<1>5. Same(0)
  <2>1. n \in Nat /\ n <= n /\ n - n = 0
    BY <1>1
  <2>2. n \notin Bad
    BY <1>4
  <2> QED
    BY <2>1, <2>2, <1>3
<1>6. n - 0 = n /\ GlWrap(b + 0) = b
  BY <1>1 DEF GlWrap
<1> QED
  BY <1>5, <1>6 DEF Same

\* A message behind a row of whole messages is found last.
LEMMA GlParseMore ==
    ASSUME NEW F, GlGood(F), NEW b \in GlCells, NEW n \in GlCells, n % 2 = 0,
           GlFramed(F, b, n), GlStart(F, GlWrap(b + n)),
           NEW m \in Int, m = F[GlWrap(b + n)][1], NEW k \in GlCells, k = GlAfter(F, b, n)
    PROVE  GlParse(F)[k][b] = Append(GlParse(F)[n][b], m)
<1>1. GlLen \in Nat /\ b \in 0..GlLen - 1 /\ n \in 0..GlLen - 1 /\ k \in 0..GlLen - 1
  BY GlLenFacts DEF GlCells
<1>2. GlWrap(b + n) \in GlCells
  BY GlWraps
<1>3. n < k
  <2> DEFINE z == GlSize(F[GlWrap(b + n)][1])
  <2>1. z \in Nat /\ z >= 2
    BY <1>2, GlGoodSizes
  <2>2. k = n + z
    BY DEF GlAfter
  <2> HIDE DEF z
  <2> QED
    BY <2>1, <2>2, <1>1
<1> DEFINE At(o) == o % 2 = 0 /\ (o < n => GlStart(F, GlWrap(b + o)))
           More(o) == GlParse(F)[k - o][GlWrap(b + o)] =
                          Append(GlParse(F)[n - o][GlWrap(b + o)], m)
           Bad == {r \in Nat : r <= n /\ At(n - r) /\ ~More(n - r)}
<1>4. ASSUME NEW o \in 0..n, At(o), \A e \in 0..n : e > o /\ At(e) => More(e)
      PROVE  More(o)
  <2>1. GlWrap(b + o) \in GlCells
    BY <1>1 DEF GlWrap, GlCells
  <2>2. CASE o = n
    <3>1. GlAfter(F, b, n) = k
      OBVIOUS
    <3>2. n - o = 0 /\ n < k /\ k - k = 0 /\ k <= k
      BY <2>2, <1>1, <1>3
    <3>3. GlParse(F)[k - n][GlWrap(b + n)] = <<m>> \o GlParse(F)[k - k][GlWrap(b + k)]
      <4> DEFINE e == GlAfter(F, b, n)
      <4>1. e <= k
        BY <3>1, <3>2
      <4>2. GlParse(F)[k - n][GlWrap(b + n)] =
               <<F[GlWrap(b + n)][1]>> \o GlParse(F)[k - e][GlWrap(b + e)]
        BY <4>1, <3>2, GlParseOn
      <4> HIDE DEF e
      <4>3. e = k
        BY <3>1 DEF e
      <4> QED
        BY <4>2, <4>3
    <3>4. GlParse(F)[0][GlWrap(b + k)] = <<>> /\ GlParse(F)[0][GlWrap(b + n)] = <<>>
      BY GlWraps, <1>2, GlParseNone
    <3>5. GlParse(F)[k - n][GlWrap(b + n)] = <<m>> \o <<>>
      BY <3>2, <3>3, <3>4
    <3>6. <<m>> \o <<>> = Append(<<>>, m)
      BY <1>3
    <3> QED
      BY <2>2, <3>2, <3>4, <3>5, <3>6
  <2>3. CASE o < n
    <3> DEFINE t == GlWrap(b + o)
               d == GlAfter(F, b, o)
    <3>1. o \in GlCells /\ o \in Nat /\ GlStart(F, t) /\ o % 2 = 0
      BY <2>3, <1>1, <1>4 DEF GlCells
    <3>2. d \in 0..n /\ d > o /\ d % 2 = 0 /\ (d < n => GlStart(F, GlWrap(b + d)))
      BY <3>1, <2>3, GlFramedAfter
    <3>3. d <= n /\ d <= k /\ o < k
      BY <3>2, <2>3, <1>1, <1>3
    <3>4. GlParse(F)[n - o][t] = <<F[t][1]>> \o GlParse(F)[n - d][GlWrap(b + d)]
      <4>1. d <= n /\ o < n /\ GlStart(F, t) /\ o \in GlCells /\ n \in GlCells
        BY <3>1, <3>3, <2>3
      <4>2. GlUnfolds(F, b, n, o)
        BY <4>1, GlParseStep
      <4> QED
        BY <4>2, Zenon DEF GlUnfolds
    <3>5. GlParse(F)[k - o][t] = <<F[t][1]>> \o GlParse(F)[k - d][GlWrap(b + d)]
      <4>1. d <= k /\ o < k /\ GlStart(F, t) /\ o \in GlCells /\ k \in GlCells
        BY <3>1, <3>3, <2>3
      <4>2. GlUnfolds(F, b, k, o)
        BY <4>1, GlParseStep
      <4> QED
        BY <4>2, Zenon DEF GlUnfolds
    <3>6. F[t][1] \in Int
      <4>1. F[t][1] \in GlMsgs \cup {GlNotif}
        BY <2>1, <3>1, GlGoodSizes
      <4> QED
        BY <4>1, GlMsgInt
    <3> HIDE DEF d
    <3>7. GlParse(F)[k - d][GlWrap(b + d)] = Append(GlParse(F)[n - d][GlWrap(b + d)], m)
      BY <1>4, <3>2
    <3>8. GlParse(F)[n - d][GlWrap(b + d)] \in Seq(Int)
      <4>1. n - d \in 0..GlLen /\ d \in GlCells
        BY <3>2, <1>1 DEF GlCells
      <4> QED
        BY <4>1, GlWraps, GlParseType
    <3> HIDE DEF t
    <3>9. GlParse(F)[k - o][t] = Append(GlParse(F)[n - o][t], m)
      <4>1. ASSUME NEW y \in Int, NEW z \in Seq(Int)
            PROVE  <<y>> \o Append(z, m) = Append(<<y>> \o z, m)
        <5>1. <<y>> \in Seq(Int) /\ <<m>> \in Seq(Int) /\ <<y>> \o z \in Seq(Int)
          BY <1>3, ConcatProperties
        <5>2. Append(z, m) = z \o <<m>> /\ Append(<<y>> \o z, m) = (<<y>> \o z) \o <<m>>
          BY <5>1, <1>3, AppendIsConcat
        <5> QED
          BY <5>1, <5>2, ConcatAssociative
      <4> DEFINE x == F[t][1]
                 rest == GlParse(F)[n - d][GlWrap(b + d)]
      <4>2. <<x>> \o Append(rest, m) = Append(<<x>> \o rest, m)
        BY <4>1, <3>6, <3>8
      <4> QED
        BY <4>2, <3>4, <3>5, <3>7
    <3> QED
      BY <3>9 DEF t
  <2> QED
    BY <2>2, <2>3, <1>1
<1>5. At(0)
  <2>1. GlWrap(b + 0) = b
    BY <1>1 DEF GlWrap
  <2> QED
    BY <2>1, <1>1 DEF GlFramed
<1> HIDE DEF At, More
<1>6. Bad = {}
  <2> SUFFICES ASSUME Bad # {} PROVE FALSE
    OBVIOUS
  <2>1. PICK r \in Bad : \A y \in Bad : r =< y
    BY GlLeast
  <2>2. r \in Nat /\ r <= n /\ n - r \in 0..n /\ At(n - r) /\ ~More(n - r)
    BY <1>1
  <2>3. ASSUME NEW e \in 0..n, e > n - r, At(e) PROVE More(e)
    <3>1. n - e \in Nat /\ n - e <= n /\ n - (n - e) = e /\ ~(r <= n - e)
      BY <2>2, <2>3, <1>1
    <3>2. n - e \notin Bad
      BY <2>1, <3>1
    <3> QED
      BY <2>3, <3>1, <3>2
  <2> QED
    BY <1>4, <2>2, <2>3
<1>7. More(0)
  <2>1. n \in Nat /\ n <= n /\ n - n = 0
    BY <1>1
  <2>2. n \notin Bad
    BY <1>6
  <2> QED
    BY <2>1, <2>2, <1>5
<1>8. n - 0 = n /\ k - 0 = k /\ GlWrap(b + 0) = b
  BY <1>1 DEF GlWrap
<1> QED
  BY <1>7, <1>8 DEF More

(***************************************************************************)
(* The ring implements the queue.                                          *)
(***************************************************************************)

\* The message under way stands at the head, and the head to be published is behind it.
GlPending ==
    glPend # -1 => GlStart(glFifo, glHead) /\ glPend = GlWrap(glHead + GlSize(glFifo[glHead][1]))

\* The queue is what a reader finds between base and head.
LEMMA GlContentsIs ==
    ASSUME GlTypeOK, ~glMet
    PROVE  /\ GlOpen => GlContents = GlParse(glFifo)[GlDist(GlBase, glHead)][GlBase]
           /\ ~GlOpen => GlContents = <<>>
<1>1. glUp = "up" => GlBase = glTail /\ GlRxAvail = GlDist(glTail, glHead)
  BY DEF GlBase, GlRxAvail, GlDist
<1>2. glUp = "half" /\ glSide = "tx" => GlBase = 0 /\ GlDist(0, glHead) = glHead
  BY GlLenFacts DEF GlTypeOK, GlCells, GlBase, GlDist
<1> QED
  BY <1>1, <1>2, Zenon DEF GlContents, GlOpen

\* And so it is after a step.
LEMMA GlContentsIsNext ==
    ASSUME GlTypeOK', ~glMet'
    PROVE  /\ GlOpen' => GlContents' = GlParse(glFifo')[GlDist(GlBase', glHead')][GlBase']
           /\ ~GlOpen' => GlContents' = <<>>
<1>1. glUp' = "up" => GlBase' = glTail' /\ GlRxAvail' = GlDist(glTail', glHead')
  BY DEF GlBase, GlRxAvail, GlDist
<1>2. glUp' = "half" /\ glSide' = "tx" => GlBase' = 0 /\ GlDist(0, glHead') = glHead'
  <2>1. ASSUME NEW i \in GlCells PROVE GlDist(0, i) = i
    BY GlLenFacts DEF GlDist, GlCells
  <2> QED
    BY <2>1 DEF GlTypeOK, GlBase
<1>3. GlContents' =
        IF glUp' = "up" THEN GlParse(glFifo')[GlRxAvail'][glTail']
        ELSE IF glUp' = "half" /\ glSide' = "tx" THEN GlParse(glFifo')[glHead'][0] ELSE <<>>
  BY DEF GlContents
<1> QED
  BY <1>1, <1>2, <1>3, Zenon DEF GlOpen

\* The cells of the ring name messages.
LEMMA GlGoodNow == GlTypeOK => GlGood(glFifo)
  BY DEF GlTypeOK, GlCellsOK, GlGood, GlStart

\* After a step too.
LEMMA GlGoodNext == GlTypeOK' => GlGood(glFifo')
  BY DEF GlTypeOK, GlCellsOK, GlGood, GlStart

\* Base and head.
LEMMA GlBaseHead ==
    ASSUME GlTypeOK
    PROVE  /\ GlBase \in GlCells /\ GlBase % 2 = 0 /\ glHead \in GlCells /\ glHead % 2 = 0
           /\ GlDist(GlBase, glHead) \in GlCells /\ GlDist(GlBase, glHead) % 2 = 0
           /\ GlWrap(GlBase + GlDist(GlBase, glHead)) = glHead
<1>1. GlBase \in GlCells /\ GlBase % 2 = 0 /\ glHead \in GlCells /\ glHead % 2 = 0
  BY GlLenFacts DEF GlTypeOK, GlBase, GlCells
<1> QED
  BY <1>1, GlDists

\* A message being copied behind the head is not seen yet.
LEMMA GlCopyUnseen ==
    ASSUME GlInv, GlInv', ~glMet, ~glMet', NEW m \in GlMsgs \cup {GlNotif}, GlOpen,
           GlDist(GlBase, glHead) + GlSize(m) <= GlLen - 2,
           glFifo' = GlCopy(m), glPend' = GlWriteHead(m),
           UNCHANGED <<glSide, glHead, glTail, glUp>>
    PROVE  GlContents' = GlContents /\ GlPending'
<1> DEFINE b == GlBase
           n == GlDist(b, glHead)
           d == GlHdr + GlDlen(m)
<1>1. GlLen \in Nat /\ GlLen >= 6
  BY GlLenFacts
<1>2. d \in Nat /\ GlSize(m) \in Nat /\ GlSize(m) \in {d, d + 1} /\ d >= 2
  BY GlSizes DEF GlHdr
<1>3. GlTypeOK /\ GlTypeOK' /\ GlFramed(glFifo, b, n)
  BY DEF GlInv, GlRows, GlOpen
<1>4. /\ b \in GlCells /\ b % 2 = 0 /\ n \in GlCells /\ n % 2 = 0 /\ GlWrap(b + n) = glHead
      /\ glHead \in GlCells
  BY <1>3, GlBaseHead
<1>5. b' = b /\ n' = n /\ GlOpen'
  BY DEF GlBase, GlDist, GlOpen
<1>6. glFifo' = [i \in GlCells |-> LET k == (i - GlWrap(b + n)) % GlLen
                                   IN IF k < d THEN <<m, k>> ELSE glFifo[i]]
  <2>1. glFifo' = [i \in GlCells |-> LET k == (i - glHead) % GlLen
                                     IN IF k < d THEN <<m, k>> ELSE glFifo[i]]
    BY DEF GlCopy
  <2> QED
    BY <2>1, <1>4
<1>7. n + d <= GlLen
  <2>1. n + GlSize(m) <= GlLen - 2
    OBVIOUS
  <2> HIDE DEF n, d
  <2> QED
    BY <2>1, <1>1, <1>2, <1>4 DEF GlCells
<1>8. GlContents = GlParse(glFifo)[n][b]
  BY <1>3, GlContentsIs
<1>9. GlContents' = GlParse(glFifo')[n][b]
  <2>1. GlContents' = GlParse(glFifo')[GlDist(GlBase', glHead')][GlBase']
    BY <1>3, <1>5, GlContentsIsNext
  <2> QED
    BY <2>1, <1>5
<1> HIDE DEF b, n, d
<1>10. \A o \in GlCells : glFifo'[GlWrap(b + o)] =
          IF n <= o /\ o < n + d THEN <<m, o - n>> ELSE glFifo[GlWrap(b + o)]
  BY <1>2, <1>4, <1>6, <1>7, GlCopied
<1>11. \A o \in GlCells : o < n => glFifo'[GlWrap(b + o)] = glFifo[GlWrap(b + o)]
  <2>1. \A o \in GlCells : o < n => ~(n <= o)
    BY <1>1, <1>4 DEF GlCells
  <2> QED
    BY <2>1, <1>10
<1>12. GlContents' = GlContents
  BY <1>3, <1>4, <1>8, <1>9, <1>11, GlGoodNow, GlGoodNext, GlParseSame
<1>13. glFifo'[glHead] = <<m, 0>>
  <2>1. n <= n /\ n < n + d /\ n - n = 0
    BY <1>1, <1>2, <1>4 DEF GlCells
  <2> QED
    BY <2>1, <1>4, <1>10
<1>14. GlPending'
  <2>1. GlStart(glFifo', glHead) /\ glFifo'[glHead][1] = m
    BY <1>13 DEF GlStart
  <2>2. glPend' = GlWrap(glHead + GlSize(m))
    BY <1>3, GlWriteHeadIs
  <2> QED
    BY <2>1, <2>2 DEF GlPending
<1> QED
  BY <1>12, <1>14

\* Before it is published a message is not in the queue; the writer has room for it.
LEMMA GlTxWriteUnseen ==
    ASSUME GlInv, GlInv', ~glMet, ~glMet', NEW m \in GlMsgs, GlTxWrite(m)
    PROVE  GlContents' = GlContents /\ GlPending'
<1>1. GlDist(GlBase, glHead) + GlSize(m) <= GlLen - 2
  BY GlTxRoom, GlSizes, GlLenFacts
<1>2. GlOpen /\ glFifo' = GlCopy(m) /\ glPend' = GlWriteHead(m)
      /\ UNCHANGED <<glSide, glHead, glTail, glUp>>
  BY DEF GlTxWrite, GlOpen
<1> QED
  BY <1>1, <1>2, GlCopyUnseen

\* Neither is the read notification of a writer that finds no room.
LEMMA GlBlockedUnseen ==
    ASSUME GlInv, GlInv', ~glMet, glMet' \in BOOLEAN, ~glMet', NEW m \in GlMsgs, GlBlocked(m),
           GlPending
    PROVE  GlContents' = GlContents /\ GlPending'
<1>1. GlOpen /\ glPend = -1 /\ UNCHANGED <<glSide, glHead, glTail, glUp>>
  BY DEF GlBlocked
<1>2. CASE glNotify
  <2>1. UNCHANGED <<glFifo, glPend, glMet>>
    BY <1>2 DEF GlBlocked
  <2> QED
    BY <1>1, <2>1 DEF GlContents, GlRxAvail, GlPending
<1>3. CASE ~glNotify
  <2>1. GlSize(GlNotif) = 2
    BY DEF GlSize, GlAlign, GlHdr, GlDlen
  <2>2. GlDist(GlBase, glHead) + GlSize(GlNotif) <= GlLen - 2
    BY <1>3, <2>1, GlNotifRoom
  <2>3. glFifo' = GlCopy(GlNotif) /\ glPend' = GlWriteHead(GlNotif)
    BY <1>3 DEF GlBlocked
  <2> QED
    BY <1>1, <2>2, <2>3, GlCopyUnseen
<1> QED
  BY <1>2, <1>3

\* The head makes the message part of the queue, as its last.
LEMMA GlPublishSends ==
    ASSUME GlInv, GlInv', ~glMet, ~glMet', GlPending, GlPublish
    PROVE  /\ \E m \in GlMsgs \cup {GlNotif} : GlContents' = Append(GlContents, m)
           /\ GlPending'
<1> DEFINE b == GlBase
           n == GlDist(b, glHead)
           m == glFifo[glHead][1]
           k == GlDist(b, glPend)
<1>1. glPend # -1 /\ glHead' = glPend /\ glPend' = -1
      /\ UNCHANGED <<glSide, glTail, glFifo, glUp>>
  BY DEF GlPublish
<1>2. GlTypeOK /\ GlTypeOK' /\ GlOpen /\ GlOpen'
  BY <1>1 DEF GlInv, GlQuiet, GlOpen
<1>3. /\ b \in GlCells /\ b % 2 = 0 /\ n \in GlCells /\ n % 2 = 0 /\ GlWrap(b + n) = glHead
      /\ glHead \in GlCells /\ glHead % 2 = 0
  BY <1>2, GlBaseHead
<1>4. GlStart(glFifo, glHead) /\ glPend = GlWrap(glHead + GlSize(m))
  BY <1>1 DEF GlPending
<1>5. GlGood(glFifo)
  BY <1>2, GlGoodNow
<1>6. m \in GlMsgs \cup {GlNotif} /\ GlSize(m) \in Nat /\ GlSize(m) >= 2 /\ GlSize(m) <= GlLen
      /\ GlSize(m) % 2 = 0
  BY <1>3, <1>4, <1>5, GlGoodSizes
<1>7. glPend \in GlCells /\ glPend % 2 = 0 /\ n < k
  BY <1>1, <1>2 DEF GlTypeOK, GlInv, GlRoom
<1>8. b' = b /\ GlDist(b', glHead') = k
  BY <1>1 DEF GlBase
<1>9. GlContents = GlParse(glFifo)[n][b] /\ GlContents' = GlParse(glFifo)[k][b]
  <2>1. GlContents' = GlParse(glFifo')[GlDist(GlBase', glHead')][GlBase']
    BY <1>2, GlContentsIsNext
  <2>2. GlContents = GlParse(glFifo)[n][b]
    BY <1>2, GlContentsIs
  <2> QED
    BY <2>1, <2>2, <1>1, <1>8
<1>10. GlFramed(glFifo, b, n)
  BY <1>2 DEF GlInv, GlRows, GlOpen
<1>11. k = GlAfter(glFifo, b, n) /\ k \in GlCells
  <2>1. k \in GlCells /\ GlWrap(b + k) = glPend
    BY <1>3, <1>7, GlDists
  <2>2. GlAfter(glFifo, b, n) = n + GlSize(m)
    BY <1>3 DEF GlAfter
  <2> HIDE DEF m, b, n, k
  <2>3. k = n + GlSize(m)
    BY <2>1, <1>3, <1>4, <1>6, <1>7, GlLenFacts DEF GlWrap, GlCells
  <2> QED
    BY <2>1, <2>2, <2>3
<1>12. m = glFifo[GlWrap(b + n)][1] /\ GlStart(glFifo, GlWrap(b + n)) /\ m \in Int
  BY <1>3, <1>4, <1>6, GlMsgInt
<1> HIDE DEF m, b, n, k
<1>13. GlParse(glFifo)[k][b] = Append(GlParse(glFifo)[n][b], m)
  BY <1>3, <1>5, <1>10, <1>11, <1>12, GlParseMore
<1>14. GlPending'
  BY <1>1 DEF GlPending
<1> QED
  BY <1>6, <1>9, <1>13, <1>14

\* What is delivered is the first message of the queue, and the rest stays.
LEMMA GlReadReceives ==
    ASSUME ~GlStaleKick, GlInv, GlInv', ~glMet, ~glMet', GlPending, GlReadPayload
    PROVE  /\ GlContents # <<>> /\ glOut' = <<Head(GlContents)>>
           /\ GlContents' = Tail(GlContents)
           /\ GlPending'
<1> DEFINE n == GlDist(glTail, glHead)
           m == glFifo[glTail][1]
           s == GlSize(m)
<1>1. glUp = "up" /\ GlRxAvail > 0 /\ glPeek # <<>>
      /\ UNCHANGED <<glSide, glHead, glFifo, glPend, glUp>>
      /\ glTail' = GlRxAdvance(GlAlign(GlHdr + GlDlen(glPeek[1])))
  BY DEF GlReadPayload, GlMayRead
<1>2. GlTypeOK /\ GlTypeOK' /\ GlOpen /\ GlOpen' /\ GlBase = glTail /\ GlBase' = glTail'
  BY <1>1 DEF GlInv, GlOpen, GlBase
<1>3. /\ glTail \in GlCells /\ glTail % 2 = 0 /\ n \in GlCells /\ n % 2 = 0
      /\ glHead \in GlCells /\ glHead % 2 = 0
  BY <1>2, GlBaseHead
<1>4. glPeek = <<m>> /\ n > 0 /\ GlFramed(glFifo, glTail, n) /\ GlStart(glFifo, glTail)
  <2>1. n = GlRxAvail
    BY DEF GlRxAvail, GlDist
  <2>2. glPeek = <<m>> /\ GlFramed(glFifo, glTail, n)
    BY <1>1, <1>2 DEF GlInv, GlSeen, GlRows
  <2> QED
    BY <1>1, <2>1, <2>2 DEF GlFramed
<1>5. GlGood(glFifo)
  BY <1>2, GlGoodNow
<1>6. m \in GlMsgs \cup {GlNotif} /\ m \in Int /\ s \in Nat
  BY <1>3, <1>4, <1>5, GlGoodSizes, GlMsgInt
<1>7. glTail' = GlWrap(glTail + s)
  <2>1. glPeek[1] = m
    BY <1>4
  <2> QED
    BY <2>1, <1>1 DEF GlRxAdvance, GlSize
<1>8. 0 \in GlCells /\ GlWrap(glTail + 0) = glTail /\ 0 < n /\ n - 0 = n /\ 0 % 2 = 0
  BY <1>3, <1>4, GlLenFacts DEF GlCells, GlWrap
<1>9. GlAfter(glFifo, glTail, 0) = s
  <2>1. GlAfter(glFifo, glTail, 0) = 0 + s
    BY <1>8 DEF GlAfter
  <2> HIDE DEF s
  <2> QED
    BY <2>1, <1>6
<1> HIDE DEF m, s, n
<1>10. s \in 0..n /\ s <= n
  <2>1. GlAfter(glFifo, glTail, 0) \in 0..n
    BY <1>3, <1>4, <1>5, <1>8, GlFramedAfter
  <2> QED
    BY <2>1, <1>3, <1>9, GlLenFacts DEF GlCells
<1>11. GlParse(glFifo)[n][glTail] = <<m>> \o GlParse(glFifo)[n - s][GlWrap(glTail + s)]
  <2>1. GlParse(glFifo)[n - 0][GlWrap(glTail + 0)] =
           <<glFifo[GlWrap(glTail + 0)][1]>> \o
               GlParse(glFifo)[n - GlAfter(glFifo, glTail, 0)]
                              [GlWrap(glTail + GlAfter(glFifo, glTail, 0))]
    <3>1. GlStart(glFifo, GlWrap(glTail + 0)) /\ GlAfter(glFifo, glTail, 0) <= n
      BY <1>4, <1>8, <1>9, <1>10
    <3> QED
      BY <3>1, <1>3, <1>5, <1>8, GlParseOn
  <2> QED
    BY <2>1, <1>8, <1>9 DEF m
<1>12. GlDist(glTail', glHead) = n - s /\ glTail' \in GlCells /\ n - s \in 0..GlLen
  <2>1. GlWrap(glTail + s) \in GlCells /\ GlDist(GlWrap(glTail + s), glHead) = n - s
    BY <1>3, <1>6, <1>10, GlDists DEF n
  <2> QED
    BY <2>1, <1>3, <1>6, <1>7, <1>10, GlLenFacts DEF GlCells
<1> DEFINE rest == GlParse(glFifo)[n - s][glTail']
<1>13. GlContents = <<m>> \o rest /\ GlContents' = rest
  <2>1. GlContents' = GlParse(glFifo')[GlDist(GlBase', glHead')][GlBase']
    BY <1>2, GlContentsIsNext
  <2>2. GlContents = GlParse(glFifo)[n][glTail]
    BY <1>2, GlContentsIs DEF n
  <2> QED
    BY <2>1, <2>2, <1>1, <1>2, <1>7, <1>11, <1>12
<1>14. rest \in Seq(Int)
  BY <1>5, <1>12, GlParseType
<1> HIDE DEF rest
<1>15. GlContents # <<>> /\ Head(GlContents) = m /\ Tail(GlContents) = rest
  <2>1. ASSUME NEW y \in Int, NEW z \in Seq(Int)
        PROVE  <<y>> \o z # <<>> /\ Head(<<y>> \o z) = y /\ Tail(<<y>> \o z) = z
    OBVIOUS
  <2> QED
    BY <2>1, <1>6, <1>13, <1>14
<1>16. glOut' = <<m>>
  BY GlReadsWhole DEF m
<1>17. GlPending'
  BY <1>1 DEF GlPending
<1> QED
  BY <1>13, <1>15, <1>16, <1>17

\* A crash empties the queue; until both indices are new nobody reads or writes another.
LEMMA GlEdgeResets ==
    ASSUME GlInv, GlInv', ~glMet, ~glMet', GlPending, GlCrash \/ GlRegister \/ GlPeerReady
    PROVE  /\ \/ GlContents' = <<>> /\ glOut' = <<>>
              \/ GlContents' = GlContents /\ glOut' = glOut
           /\ GlPending'
<1>1. GlTypeOK /\ GlTypeOK' /\ GlQuiet
  BY DEF GlInv
<1>2. GlGood(glFifo) /\ 0 \in GlCells
  BY <1>1, GlGoodNow, GlLenFacts DEF GlCells
<1>3. GlParse(glFifo)[0][0] = <<>>
  BY <1>2, GlParseNone
<1>4. CASE GlCrash
  <2>1. glUp' = "down" /\ glPend' = -1 /\ glOut' = <<>>
    BY <1>4 DEF GlCrash
  <2>2. GlContents' = <<>>
    BY <2>1 DEF GlContents
  <2> QED
    BY <2>1, <2>2 DEF GlPending
<1>5. CASE GlRegister
  <2>1. glUp = "down" /\ glUp' = "half" /\ UNCHANGED <<glSide, glFifo, glPend, glOut>>
        /\ (glSide = "tx" => glHead' = 0)
    BY <1>5 DEF GlRegister
  <2>2. glPend = -1
    BY <2>1, <1>1 DEF GlQuiet, GlOpen
  <2>3. GlContents = <<>> /\ GlContents' = <<>>
    BY <2>1, <1>3 DEF GlContents
  <2> QED
    BY <2>1, <2>2, <2>3 DEF GlPending
<1>6. CASE GlPeerReady
  <2>1. glUp = "half" /\ glUp' = "up" /\ UNCHANGED <<glSide, glFifo, glPend, glOut>>
        /\ IF glSide = "tx" THEN glTail' = 0 /\ glHead' = glHead
           ELSE glHead' = 0 /\ glTail' = glTail
    BY <1>6 DEF GlPeerReady
  <2>2. CASE glSide = "tx"
    <3>1. GlRxAvail' = glHead
      BY <2>1, <2>2, <1>1, GlLenFacts DEF GlRxAvail, GlTypeOK, GlCells
    <3>2. GlContents = GlParse(glFifo)[glHead][0] /\ GlContents' = GlParse(glFifo)[glHead][0]
      BY <3>1, <2>1, <2>2 DEF GlContents
    <3> QED
      BY <3>2, <2>1, <2>2 DEF GlPending
  <2>3. CASE glSide # "tx"
    <3>1. glPend = -1 /\ glTail' = 0 /\ glHead' = 0
      BY <2>1, <2>3, <1>1 DEF GlQuiet, GlOpen, GlTypeOK
    <3>2. GlRxAvail' = 0
      BY <3>1, <1>2 DEF GlRxAvail
    <3>3. GlContents = <<>> /\ GlContents' = <<>>
      BY <3>1, <3>2, <2>1, <2>3, <1>3 DEF GlContents
    <3> QED
      BY <3>1, <3>3, <2>1 DEF GlPending
  <2> QED
    BY <2>2, <2>3
<1> QED
  BY <1>4, <1>5, <1>6

\* Every step of the ring is a step of the queue, or none, as long as it is not spoilt.
LEMMA GlQueueStep ==
    ASSUME ~GlStaleKick, GlInv, GlInv', ~glMet, glMet' \in BOOLEAN, ~glMet', GlPending,
           [GlNext]_glVars
    PROVE  [GlQueue!Next]_<<GlContents, GlGot>> /\ GlPending'
<1>0. GlGot = glOut /\ GlGot' = glOut'
  BY DEF GlGot
<1>1. CASE UNCHANGED glVars
  BY <1>0, <1>1 DEF glVars, GlContents, GlRxAvail, GlPending
<1>2. ASSUME NEW m \in GlMsgs, GlTxWrite(m)
      PROVE  GlContents' = GlContents /\ glOut' = glOut /\ GlPending'
  BY <1>2, GlTxWriteUnseen DEF GlTxWrite
<1>3. ASSUME NEW m \in GlMsgs, GlBlocked(m)
      PROVE  GlContents' = GlContents /\ glOut' = glOut /\ GlPending'
  BY <1>3, GlBlockedUnseen DEF GlBlocked
<1>4. CASE GlPublish
  <2>1. glOut' = glOut
    BY <1>4 DEF GlPublish
  <2> QED
    BY <1>0, <1>4, <2>1, GlPublishSends DEF GlQueue!Next, GlQueue!Send
<1>5. CASE GlReadPayload
  BY <1>0, <1>5, GlReadReceives DEF GlQueue!Next, GlQueue!Receive
<1>6. CASE GlReadHeader
  BY <1>0, <1>6 DEF GlReadHeader, GlContents, GlRxAvail, GlPending
<1>7. CASE GlCrash \/ GlRegister \/ GlPeerReady
  BY <1>0, <1>7, GlEdgeResets DEF GlQueue!Next, GlQueue!Reset
<1> QED
  BY <1>0, <1>1, <1>2, <1>3, <1>4, <1>5, <1>6, <1>7 DEF GlNext, GlRead

\* A notification that meets the stale tail empties the queue, for the rest of that edge.
LEMMA GlQueueLives ==
    ASSUME ~GlStaleKick, GlLives, GlLives', ~glMet => GlPending, [GlNext]_glVars
    PROVE  [GlQueue!Next]_<<GlContents, GlGot>> /\ (~glMet' => GlPending')
<1>1. CASE ~glMet /\ ~glMet'
  BY <1>1, GlQueueStep DEF GlLives
<1>2. CASE glMet'
  <2>1. GlContents' = <<>> /\ GlGot' = <<>>
    BY <1>2 DEF GlContents, GlGot
  <2> QED
    BY <1>2, <2>1 DEF GlQueue!Next, GlQueue!Reset
<1>3. CASE glMet /\ ~glMet'
  <2>1. GlCrash
    BY <1>3 DEF GlLives, GlNext, GlRead, GlTxWrite, GlBlocked, GlPublish, GlReadHeader,
                GlReadPayload, GlRegister, GlPeerReady, glVars
  <2>2. GlContents' = <<>> /\ GlGot' = <<>> /\ GlPending'
    BY <1>3, <2>1 DEF GlCrash, GlContents, GlGot, GlPending
  <2> QED
    BY <2>2 DEF GlQueue!Next, GlQueue!Reset
<1> QED
  BY <1>1, <1>2, <1>3

\* The ring implements the queue of GlinkQueue, whatever its length, the messages and the
\* writers: what is delivered is what was written, whole, in order and once, and a crash
\* loses all of it, if no interrupt of the SP's old life reaches the new edge.  A
\* notification that meets the stale tail of a half-made edge ends the promise until the
\* next crash.
THEOREM GlDelivery == ~GlStaleKick => (GlSpec => GlDelivers)
<1> SUFFICES ASSUME ~GlStaleKick PROVE GlSpec => GlDelivers
  OBVIOUS
<1>1. GlInit => GlPending /\ GlQueue!Init
  <2> SUFFICES ASSUME GlInit PROVE GlPending /\ GlQueue!Init
    OBVIOUS
  <2>1. GlGood(glFifo) /\ 0 \in GlCells
    BY GlInvInit, GlGoodNow, GlLenFacts DEF GlInv, GlCells
  <2>2. glUp = "up" /\ GlRxAvail = 0 /\ glTail = 0 /\ ~glMet
    BY DEF GlInit, GlRxAvail
  <2>3. GlContents = <<>> /\ GlGot = <<>>
    BY <2>1, <2>2, GlParseNone DEF GlContents, GlGot, GlInit
  <2> QED
    BY <2>3 DEF GlInit, GlPending, GlQueue!Init
<1>2. GlLives /\ GlLives' /\ (~glMet => GlPending) /\ [GlNext]_glVars
      => (~glMet' => GlPending') /\ [GlQueue!Next]_<<GlContents, GlGot>>
  BY GlQueueLives
<1> QED
  BY <1>1, <1>2, GlLivesInit, GlLivesStep, PTL DEF GlSpec, GlDelivers, GlQueue!Spec
=============================================================================
