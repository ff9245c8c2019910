---------------------------- MODULE DeviceProofs ----------------------------
(***************************************************************************)
(* Proofs about the fingerprint sensor's driver, the display panel, the    *)
(* rear camera, and pen and touch.                                         *)
(***************************************************************************)
EXTENDS EgisEl721, Ana38407, Cameras, PenTouch, FiniteSetTheorems, TLAPS

(***************************************************************************)
(* The fingerprint sensor.  The structure lives by its reference count, so *)
(* the invariant says what the count counts: one for every file that is    *)
(* not closed and one for the bound driver.  Sysfs writers hold none; they *)
(* are safe because the driver's own goes only after they have left.       *)
(***************************************************************************)

FpOpened == {f \in FpFiles : fpFile[f] # "closed"}

FpTypeOK ==
    /\ fpStage \in {"none", "misc", "bound", "sysfs_gone"}
    /\ fpFile \in [FpFiles -> {"closed", "open", "calling"}]
    /\ fpRef \in Int /\ fpUses \in Int
    /\ fpVdd \in {"none", "dummy", "rail"}

\* Who counts, and what follows for the structure.
FpCounted ==
    /\ fpRef = Cardinality(FpOpened) + (IF fpStage = "none" THEN 0 ELSE 1)
    /\ fpAlive <=> fpRef > 0

\* The stages of removal, and what is still possible in each.
FpStages ==
    /\ fpSysfs => fpStage \in {"bound", "sysfs_gone"}
    /\ fpStage = "sysfs_gone" => fpRemoving
    /\ fpStage = "none" => fpRemoving \/ FpOpened = {}

FpQuiet == ~fpPowered => ~fpEnable

FpInv == FpTypeOK /\ FpCounted /\ FpStages /\ FpQuiet /\ FpSupplyBalanced /\ FpStaysOff

\* The open files are finitely many.
LEMMA FpOpenedFinite == IsFiniteSet(FpOpened) /\ Cardinality(FpOpened) \in Nat
<1>1. FpOpened \subseteq FpFiles
  BY DEF FpOpened
<1>2. IsFiniteSet(FpOpened)
  BY <1>1, FpAssumption, FS_Subset
<1> QED
  BY <1>2, FS_CardinalityType

\* What one transfer, with the device not being removed, keeps of the power's state.
LEMMA FpTransferKeeps ==
  ASSUME FpTypeOK, FpQuiet, FpSupplyBalanced, FpTransfer
  PROVE  /\ fpUses' \in Int /\ fpVdd' \in {"none", "dummy", "rail"}
         /\ FpQuiet' /\ FpSupplyBalanced'
<1>1. ASSUME NEW fail \in {"lines", "vdd", "gpio", "none"}, FpPowerOn(fail)
      PROVE  /\ fpUses' \in Int /\ fpVdd' \in {"none", "dummy", "rail"}
             /\ FpQuiet' /\ FpSupplyBalanced'
  <2>1. fpVdd' \in {"none", "dummy", "rail"}
    BY <1>1 DEF FpPowerOn, FpPrepare, FpTypeOK
  <2>2. CASE fail = "none"
    BY <1>1, <2>1, <2>2 DEF FpPowerOn, FpBalance, FpTypeOK, FpQuiet, FpSupplyBalanced
  <2>3. CASE fail # "none"
    <3>1. ~fpPowered /\ fpPowered' = fpPowered /\ fpUses' = fpUses /\ fpEnable' = fpEnable
      BY <1>1, <2>3, Zenon DEF FpPowerOn
    <3> QED
      BY <2>1, <3>1 DEF FpTypeOK, FpQuiet, FpSupplyBalanced
  <2> QED
    BY <2>2, <2>3
<1>2. CASE FpPowerOff
  BY <1>2 DEF FpPowerOff, FpBalance, fpPower, FpTypeOK, FpQuiet, FpSupplyBalanced
<1>3. CASE UNCHANGED fpPower
  BY <1>3 DEF fpPower, FpTypeOK, FpQuiet, FpSupplyBalanced
<1>4. ASSUME NEW level \in BOOLEAN, FpLine(level)
      PROVE  /\ fpUses' \in Int /\ fpVdd' \in {"none", "dummy", "rail"}
             /\ FpQuiet' /\ FpSupplyBalanced'
  BY <1>4 DEF FpLine, FpTypeOK, FpQuiet, FpSupplyBalanced
<1> QED
  BY <1>1, <1>2, <1>3, <1>4 DEF FpTransfer

\* el721_power_off_locked leaves the sensor off and the supply given back.
LEMMA FpPowerOffEnds ==
  ASSUME FpTypeOK, FpQuiet, FpSupplyBalanced, FpPowerOff
  PROVE  /\ fpUses' \in Int /\ fpVdd' = fpVdd /\ ~fpPowered' /\ ~fpEnable'
         /\ FpQuiet' /\ FpSupplyBalanced'
<1>1. CASE fpPowered
  BY <1>1 DEF FpPowerOff, FpBalance, FpTypeOK, FpQuiet, FpSupplyBalanced
<1>2. CASE ~fpPowered
  BY <1>2 DEF FpPowerOff, fpPower, FpTypeOK, FpQuiet, FpSupplyBalanced
<1> QED
  BY <1>1, <1>2

\* Init and every step of the driver and of its callers keep the invariant.
LEMMA FpInvInit == FpInit => FpInv
<1> SUFFICES ASSUME FpInit PROVE FpInv
  OBVIOUS
<1>1. FpOpened = {}
  BY DEF FpOpened, FpInit
<1>2. Cardinality(FpOpened) = 0
  BY <1>1, FS_EmptySet
<1>3. FpTypeOK
  BY DEF FpInit, FpTypeOK
<1>4. FpCounted
  BY <1>2 DEF FpInit, FpCounted
<1> QED
  BY <1>1, <1>3, <1>4 DEF FpInit, FpInv, FpStages, FpQuiet, FpSupplyBalanced, FpStaysOff

\* One step per operation: the ioctls, sysfs, the files, probe and removal.
LEMMA FpInvStep == FpInv /\ [FpNext]_fpVars => FpInv'
<1> SUFFICES ASSUME FpInv, [FpNext]_fpVars PROVE FpInv'
  OBVIOUS
<1> USE DEF FpInv
<1>1. ASSUME NEW f \in FpFiles, FpOpen(f) PROVE FpInv'
  <2>1. f \notin FpOpened /\ FpOpened' = FpOpened \cup {f}
    BY <1>1 DEF FpOpen, FpOpened, FpTypeOK
  <2>2. Cardinality(FpOpened') = Cardinality(FpOpened) + 1
    BY <2>1, FpOpenedFinite, FS_AddElement
  <2>3. FpTypeOK'
    BY <1>1 DEF FpOpen, FpTypeOK, fpPower
  <2>4. FpCounted'
    BY <1>1, <2>2, FpOpenedFinite DEF FpOpen, FpNode, FpCounted, FpTypeOK
  <2>5. FpStages' /\ FpQuiet' /\ FpSupplyBalanced' /\ FpStaysOff'
    BY <1>1 DEF FpOpen, FpNode, fpPower, FpStages, FpQuiet, FpSupplyBalanced, FpStaysOff
  <2> QED
    BY <2>3, <2>4, <2>5
<1>2. ASSUME NEW f \in FpFiles, FpIoctl(f) PROVE FpInv'
  <2>1. FpOpened' = FpOpened
    BY <1>2 DEF FpIoctl, FpOpened, FpTypeOK
  <2>2. FpTypeOK'
    BY <1>2 DEF FpIoctl, FpTypeOK, fpPower
  <2> QED
    BY <1>2, <2>1, <2>2 DEF FpIoctl, fpPower, FpCounted, FpStages, FpQuiet, FpSupplyBalanced, FpStaysOff
<1>3. ASSUME NEW f \in FpFiles, FpIoctlRun(f) PROVE FpInv'
  <2>1. FpOpened' = FpOpened /\ FpOpened # {}
    BY <1>3 DEF FpIoctlRun, FpOpened, FpTypeOK
  <2>2. /\ fpUses' \in Int /\ fpVdd' \in {"none", "dummy", "rail"}
        /\ FpQuiet' /\ FpSupplyBalanced'
    <3>1. CASE fpRemoving
      BY <1>3, <3>1 DEF FpIoctlRun, fpPower, FpTypeOK, FpQuiet, FpSupplyBalanced
    <3>2. CASE ~fpRemoving
      BY <1>3, <3>2, FpTransferKeeps DEF FpIoctlRun
    <3> QED
      BY <3>1, <3>2
  <2>3. FpTypeOK'
    BY <1>3, <2>2 DEF FpIoctlRun, FpTypeOK
  <2>4. FpStaysOff'
    BY <1>3, <2>1 DEF FpIoctlRun, FpStaysOff, FpStages, fpPower
  <2> QED
    BY <1>3, <2>1, <2>2, <2>3, <2>4 DEF FpIoctlRun, FpCounted, FpStages
<1>4. ASSUME NEW f \in FpFiles, FpRelease(f) PROVE FpInv'
  <2>1. f \in FpOpened /\ FpOpened' = FpOpened \ {f}
    BY <1>4 DEF FpRelease, FpOpened, FpTypeOK
  <2>2. Cardinality(FpOpened') = Cardinality(FpOpened) - 1
    BY <2>1, FpOpenedFinite, FS_RemoveElement
  <2>3. FpTypeOK'
    BY <1>4 DEF FpRelease, FpPutRef, FpTypeOK, fpPower
  <2>4. FpCounted'
    <3>1. fpAlive' <=> fpRef' > 0
      BY <1>4, Zenon DEF FpRelease, FpPutRef
    <3>2. fpRef' = fpRef - 1 /\ fpStage' = fpStage
      BY <1>4 DEF FpRelease, FpPutRef
    <3> QED
      BY <2>2, <3>1, <3>2, FpOpenedFinite DEF FpCounted, FpTypeOK
  <2>5. FpStages' /\ FpQuiet' /\ FpSupplyBalanced' /\ FpStaysOff'
    BY <1>4, <2>1 DEF FpRelease, fpPower, FpStages, FpQuiet, FpSupplyBalanced, FpStaysOff
  <2> QED
    BY <2>3, <2>4, <2>5
<1>5. CASE FpSysfs
  <2>1. FpOpened' = FpOpened
    BY <1>5 DEF FpSysfs, FpOpened
  <2> QED
    BY <1>5, <2>1 DEF FpSysfs, fpPower, FpTypeOK, FpCounted, FpStages, FpQuiet, FpSupplyBalanced, FpStaysOff
<1>6. CASE FpSysfsRun
  <2>1. FpOpened' = FpOpened
    BY <1>6 DEF FpSysfsRun, FpOpened
  <2>2. /\ fpUses' \in Int /\ fpVdd' \in {"none", "dummy", "rail"}
        /\ FpQuiet' /\ FpSupplyBalanced'
    <3>1. CASE fpRemoving
      BY <1>6, <3>1 DEF FpSysfsRun, fpPower, FpTypeOK, FpQuiet, FpSupplyBalanced
    <3>2. CASE ~fpRemoving
      BY <1>6, <3>2, FpTransferKeeps DEF FpSysfsRun
    <3> QED
      BY <3>1, <3>2
  <2>3. FpTypeOK'
    BY <1>6, <2>2 DEF FpSysfsRun, FpTypeOK
  <2>4. FpStaysOff'
    BY <1>6 DEF FpSysfsRun, FpStaysOff, FpStages, fpPower
  <2> QED
    BY <1>6, <2>1, <2>2, <2>3, <2>4 DEF FpSysfsRun, FpCounted, FpStages
<1>7. CASE FpProbe
  <2>1. FpOpened = {} /\ FpOpened' = {}
    BY <1>7 DEF FpProbe, FpOpened
  <2>2. Cardinality(FpOpened') = 0
    BY <2>1, FS_EmptySet
  <2>3. FpTypeOK'
    BY <1>7 DEF FpProbe, FpTypeOK, fpPower
  <2>4. FpCounted'
    BY <1>7, <2>2 DEF FpProbe, FpCounted
  <2>5. FpStages' /\ FpQuiet' /\ FpSupplyBalanced' /\ FpStaysOff'
    BY <1>7, <2>1 DEF FpProbe, fpPower, FpStages, FpQuiet, FpSupplyBalanced, FpStaysOff
  <2> QED
    BY <2>3, <2>4, <2>5
<1>8. CASE FpProbeDone
  <2>1. FpOpened' = FpOpened
    BY <1>8 DEF FpProbeDone, FpOpened
  <2> QED
    BY <1>8, <2>1 DEF FpProbeDone, fpPower, FpTypeOK, FpCounted, FpStages, FpQuiet, FpSupplyBalanced, FpStaysOff
<1>9. CASE FpStop
  <2>1. FpOpened' = FpOpened
    BY <1>9 DEF FpStop, FpOpened
  <2>2. /\ fpUses' \in Int /\ fpVdd' = fpVdd /\ ~fpPowered' /\ ~fpEnable'
        /\ FpQuiet' /\ FpSupplyBalanced'
    BY <1>9, FpPowerOffEnds DEF FpStop
  <2>3. FpTypeOK' /\ FpStaysOff'
    BY <1>9, <2>2 DEF FpStop, FpTypeOK, FpStaysOff
  <2> QED
    BY <1>9, <2>1, <2>2, <2>3 DEF FpStop, FpCounted, FpStages
<1>10. CASE FpRemoved
  <2>1. FpOpened' = FpOpened
    BY <1>10 DEF FpRemoved, FpOpened
  <2>2. FpTypeOK'
    BY <1>10 DEF FpRemoved, FpPutRef, FpTypeOK
  <2>3. FpCounted'
    <3>1. fpAlive' <=> fpRef' > 0
      BY <1>10, Zenon DEF FpRemoved, FpPutRef
    <3>2. fpRef' = fpRef - 1 /\ fpStage = "sysfs_gone" /\ fpStage' = "none"
      BY <1>10 DEF FpRemoved, FpPutRef
    <3> QED
      BY <2>1, <3>1, <3>2, FpOpenedFinite DEF FpCounted, FpTypeOK
  <2> QED
    BY <1>10, <2>1, <2>2, <2>3 DEF FpRemoved, FpStages, FpQuiet, FpSupplyBalanced, FpStaysOff
<1>11. CASE FpSuspend
  <2>1. FpOpened' = FpOpened
    BY <1>11 DEF FpSuspend, fpLife, FpOpened
  <2>2. /\ fpUses' \in Int /\ fpVdd' = fpVdd /\ ~fpPowered' /\ ~fpEnable'
        /\ FpQuiet' /\ FpSupplyBalanced'
    BY <1>11, FpPowerOffEnds DEF FpSuspend
  <2> QED
    BY <1>11, <2>1, <2>2 DEF FpSuspend, fpLife, FpTypeOK, FpCounted, FpStages, FpStaysOff
<1>12. CASE UNCHANGED fpVars
  <2>1. FpOpened' = FpOpened
    BY <1>12 DEF fpVars, fpLife, FpOpened
  <2> QED
    BY <1>12, <2>1 DEF fpVars, fpLife, fpPower, FpTypeOK, FpCounted, FpStages, FpQuiet, FpSupplyBalanced, FpStaysOff
<1> QED
  BY <1>1, <1>2, <1>3, <1>4, <1>5, <1>6, <1>7, <1>8, <1>9, <1>10, <1>11, <1>12 DEF FpNext

\* Supply, power and structure of the fingerprint driver, for any number of files
\* and bindings: enables and disables balance, nothing powers a sensor that removal
\* has switched off, and the structure lives exactly as long as somebody can use it.
THEOREM FpSafety == FpSpec => []FpSafe
<1>1. FpInv => FpSafe
  <2> SUFFICES ASSUME FpInv PROVE FpSafe
    OBVIOUS
  <2>1. Cardinality(FpOpened) = 0 <=> FpOpened = {}
    BY FpOpenedFinite, FS_EmptySet
  <2>2. FpOpened # {} <=> \E f \in FpFiles : fpFile[f] # "closed"
    BY DEF FpOpened
  <2>3. fpRef > 0 <=> fpStage # "none" \/ FpOpened # {}
    BY <2>1, FpOpenedFinite DEF FpInv, FpCounted
  <2>4. FpAliveWhileUsed
    BY <2>2, <2>3 DEF FpInv, FpCounted, FpStages, FpAliveWhileUsed
  <2> QED
    BY <2>4 DEF FpInv, FpSafe
<1> QED
  BY <1>1, FpInvInit, FpInvStep, PTL DEF FpSpec

-----------------------------------------------------------------------------
(***************************************************************************)
(* The panel.  A failed write may leave any part of its sequence behind,   *)
(* and two kinds of damage heal differently: the next successful backlight *)
(* update repairs a wrong level, a wrong fingerprint mode lasts until the  *)
(* panel is prepared again.  The invariant therefore keeps the two apart,  *)
(* and says that the mode is on only while the panel is prepared and       *)
(* enabled: otherwise the watchdog would forget it without a write.        *)
(***************************************************************************)

PnGlasses == [hbm : BOOLEAN, level : PnLevels \cup {PnFod}, circle : BOOLEAN]

PnTypeOK ==
    /\ pnStage \in {"bound", "nosysfs", "quiet", "gone"}
    /\ pnMode \in BOOLEAN /\ pnCircle \in BOOLEAN
    /\ pnUser \in PnLevels /\ pnGlass \in PnGlasses
    /\ pnSpoilt \subseteq {"fod", "level"}

\* What the panel shows, apart from its level.
PnFits(g, mode, circle) == g.hbm = mode /\ (g.circle => circle)
PnLevel(mode, user) == IF mode THEN PnFod ELSE user

PnShown ==
    pnPrepared /\ "fod" \notin pnSpoilt =>
      /\ PnFits(pnGlass, pnMode, pnCircle)
      /\ "level" \notin pnSpoilt => pnGlass.level = PnLevel(pnMode, pnUser)

PnModeEnabled ==
    /\ pnMode \/ pnCircle => pnEnabled
    /\ pnEnabled => pnPrepared

PnDogLeaves == pnStage \in {"quiet", "gone"} => ~pnArmed /\ ~pnWork

PnInv == PnTypeOK /\ PnShown /\ PnModeEnabled /\ PnDogLeaves

\* ana38407_write_fod_locked sets brightness and mode, or a part of them.
LEMMA PnWriteFodSets ==
  ASSUME PnTypeOK, NEW on \in BOOLEAN, NEW g \in PnGlasses, NEW r \in PnWriteFod(on, g)
  PROVE  /\ r.glass \in PnGlasses /\ r.ok \in BOOLEAN /\ r.glass.circle = g.circle
         /\ r.ok => r.glass.hbm = on /\ r.glass.level = PnLevel(on, pnUser)
<1> DEFINE a == [g EXCEPT !.hbm = on]
           b == [a EXCEPT !.level = IF on THEN PnFod ELSE pnUser]
<1>1. a \in PnGlasses /\ a.hbm = on /\ a.circle = g.circle
  BY DEF PnGlasses
<1>2. b \in PnGlasses /\ b.hbm = on /\ b.circle = g.circle /\ b.level = PnLevel(on, pnUser)
  BY DEF PnGlasses, PnTypeOK, PnLevel
<1>3. \/ r = [glass |-> b, ok |-> TRUE]
      \/ \E h \in {g, a, b} : r = [glass |-> h, ok |-> FALSE]
  BY DEF PnWriteFod, PnDone, PnFailed
<1> HIDE DEF a, b
<1>4. CASE r = [glass |-> b, ok |-> TRUE]
  BY <1>2, <1>4
<1>5. ASSUME NEW h \in {g, a, b}, r = [glass |-> h, ok |-> FALSE]
      PROVE  r.glass \in PnGlasses /\ r.ok \in BOOLEAN /\ r.glass.circle = g.circle /\ ~r.ok
  BY <1>1, <1>2, <1>5
<1> QED
  BY <1>3, <1>4, <1>5

\* ana38407_write_fod_circle_locked touches nothing but the circle.
LEMMA PnWriteCircleSets ==
  ASSUME NEW on \in BOOLEAN, NEW g \in PnGlasses, NEW r \in PnWriteCircle(on, g)
  PROVE  /\ r.glass \in PnGlasses /\ r.ok \in BOOLEAN
         /\ r.glass.hbm = g.hbm /\ r.glass.level = g.level
         /\ r.ok => r.glass.circle = on
<1> DEFINE c == [g EXCEPT !.circle = on]
<1>1. c \in PnGlasses /\ c.hbm = g.hbm /\ c.level = g.level /\ c.circle = on
  BY DEF PnGlasses
<1>2. r = [glass |-> c, ok |-> TRUE] \/ \E h \in {g, c} : r = [glass |-> h, ok |-> FALSE]
  BY DEF PnWriteCircle, PnDone, PnFailed
<1> HIDE DEF c
<1>3. CASE r = [glass |-> c, ok |-> TRUE]
  BY <1>1, <1>3
<1>4. ASSUME NEW h \in {g, c}, r = [glass |-> h, ok |-> FALSE]
      PROVE  /\ r.glass \in PnGlasses /\ r.ok \in BOOLEAN /\ ~r.ok
             /\ r.glass.hbm = g.hbm /\ r.glass.level = g.level
  BY <1>1, <1>4
<1> QED
  BY <1>2, <1>3, <1>4

\* A clean-up whose writes all succeed leaves the panel as outside the mode.
LEMMA PnCleanupRestores ==
  ASSUME PnTypeOK, NEW r \in PnCleanup
  PROVE  /\ r.glass \in PnGlasses /\ r.ok \in BOOLEAN
         /\ r.ok /\ PnFits(pnGlass, pnMode, pnCircle) => PnFits(r.glass, FALSE, FALSE)
         /\ r.ok /\ PnFits(pnGlass, pnMode, pnCircle) =>
              r.glass.level = pnUser \/ (~pnMode /\ r.glass.level = pnGlass.level)
<1> DEFINE first == IF pnCircle THEN PnWriteCircle(FALSE, pnGlass) ELSE {PnDone(pnGlass)}
           then(g) == IF pnMode THEN PnWriteFod(FALSE, g) ELSE {PnDone(g)}
<1>1. PICK x \in first : \E y \in then(x.glass) : r = [glass |-> y.glass, ok |-> x.ok /\ y.ok]
  BY DEF PnCleanup
<1>2. PICK y \in then(x.glass) : r = [glass |-> y.glass, ok |-> x.ok /\ y.ok]
  BY <1>1
<1>3. /\ x.glass \in PnGlasses /\ x.ok \in BOOLEAN
      /\ x.glass.hbm = pnGlass.hbm /\ x.glass.level = pnGlass.level
      /\ x.ok /\ (pnGlass.circle => pnCircle) => ~x.glass.circle
  <2>1. CASE pnCircle
    <3>1. pnGlass \in PnGlasses /\ x \in PnWriteCircle(FALSE, pnGlass)
      BY <2>1 DEF PnTypeOK
    <3> QED
      BY <3>1, PnWriteCircleSets
  <2>2. CASE ~pnCircle
    <3>1. x = [glass |-> pnGlass, ok |-> TRUE]
      BY <2>2 DEF PnDone
    <3>2. x.glass = pnGlass /\ x.ok = TRUE
      BY <3>1
    <3> QED
      BY <2>2, <3>2 DEF PnTypeOK
  <2> QED
    BY <2>1, <2>2
<1>4. /\ y.glass \in PnGlasses /\ y.ok \in BOOLEAN /\ y.glass.circle = x.glass.circle
      /\ y.ok /\ pnMode => ~y.glass.hbm /\ y.glass.level = pnUser
      /\ ~pnMode => y.glass.hbm = x.glass.hbm /\ y.glass.level = x.glass.level
  <2>1. CASE pnMode
    <3>1. y \in PnWriteFod(FALSE, x.glass)
      BY <2>1
    <3> QED
      BY <1>3, <2>1, <3>1, PnWriteFodSets DEF PnLevel
  <2>2. CASE ~pnMode
    <3>1. y = [glass |-> x.glass, ok |-> TRUE]
      BY <2>2 DEF PnDone
    <3>2. y.glass = x.glass /\ y.ok = TRUE
      BY <3>1
    <3> QED
      BY <1>3, <2>2, <3>2
  <2> QED
    BY <2>1, <2>2
<1> HIDE DEF first, then
<1>5. r.glass = y.glass /\ r.ok = (x.ok /\ y.ok)
  BY <1>2
<1>6. r.glass \in PnGlasses /\ r.ok \in BOOLEAN
  BY <1>3, <1>4, <1>5
<1>7. r.ok => x.ok /\ y.ok
  BY <1>5, Zenon
<1>8. ASSUME r.ok, PnFits(pnGlass, pnMode, pnCircle)
      PROVE  /\ PnFits(r.glass, FALSE, FALSE)
             /\ r.glass.level = pnUser \/ (~pnMode /\ r.glass.level = pnGlass.level)
  BY <1>3, <1>4, <1>5, <1>7, <1>8 DEF PnFits, PnGlasses, PnTypeOK
<1> QED
  BY <1>6, <1>8

\* Whoever leaves the mode (the store, the watchdog, the display core or removal)
\* leaves what is shown in order, or says that it is spoilt.
LEMMA PnLeaveFodKeeps ==
  ASSUME PnTypeOK, PnShown, pnPrepared, PnLeaveFod
  PROVE  /\ pnMode' = FALSE /\ pnCircle' = FALSE /\ pnGlass' \in PnGlasses
         /\ pnSpoilt' \subseteq {"fod", "level"}
         /\ "fod" \notin pnSpoilt' =>
              /\ PnFits(pnGlass', FALSE, FALSE)
              /\ "level" \notin pnSpoilt' => pnGlass'.level = pnUser
<1>1. PICK r \in PnCleanup : pnGlass' = r.glass /\ PnCount(r.ok) /\ PnSpoil("fod", r.ok)
  BY DEF PnLeaveFod
<1>2. pnMode' = FALSE /\ pnCircle' = FALSE
  BY DEF PnLeaveFod, PnForget
<1>3. pnGlass' \in PnGlasses /\ r.ok \in BOOLEAN
  BY <1>1, PnCleanupRestores
<1>4. pnSpoilt' = IF r.ok THEN pnSpoilt ELSE pnSpoilt \cup {"fod"}
  BY <1>1 DEF PnSpoil
<1>5. pnSpoilt' \subseteq {"fod", "level"}
  BY <1>4 DEF PnTypeOK
<1>6. ASSUME "fod" \notin pnSpoilt'
      PROVE  /\ PnFits(pnGlass', FALSE, FALSE)
             /\ "level" \notin pnSpoilt' => pnGlass'.level = pnUser
  <2>1. r.ok /\ pnSpoilt' = pnSpoilt
    BY <1>4, <1>6
  <2>2. /\ PnFits(pnGlass, pnMode, pnCircle)
        /\ "level" \notin pnSpoilt => pnGlass.level = PnLevel(pnMode, pnUser)
    BY <1>6, <2>1 DEF PnShown
  <2>3. /\ PnFits(r.glass, FALSE, FALSE)
        /\ r.glass.level = pnUser \/ (~pnMode /\ r.glass.level = pnGlass.level)
    BY <2>1, <2>2, PnCleanupRestores
  <2> QED
    BY <1>1, <2>1, <2>2, <2>3 DEF PnLevel
<1> QED
  BY <1>2, <1>3, <1>5, <1>6

\* The panel starts dark, outside the mode.
LEMMA PnInvInit == PnInit => PnInv
<1> SUFFICES ASSUME PnInit PROVE PnInv
  OBVIOUS
<1>1. pnGlass \in PnGlasses
  BY DEF PnInit, PnDark, PnGlasses
<1>2. PnTypeOK
  BY <1>1 DEF PnInit, PnTypeOK
<1> QED
  BY <1>2 DEF PnInit, PnInv, PnShown, PnModeEnabled, PnDogLeaves

\* Every call, timer and work keeps the panel's invariant.
LEMMA PnInvStep == PnInv /\ [PnNext]_pnVars => PnInv'
<1> SUFFICES ASSUME PnInv, [PnNext]_pnVars PROVE PnInv'
  OBVIOUS
<1> USE DEF PnInv
<1>1. ASSUME NEW ok \in BOOLEAN, PnPrepare(ok) PROVE PnInv'
  <2>1. ~pnMode /\ ~pnCircle
    BY <1>1 DEF PnPrepare, PnModeEnabled
  <2>2. CASE ok
    <3>1. pnGlass' = [hbm |-> FALSE, level |-> pnUser, circle |-> FALSE] /\ pnSpoilt' = {}
      BY <1>1, <2>2 DEF PnPrepare
    <3>2. PnTypeOK'
      BY <1>1, <3>1 DEF PnPrepare, pnRest, PnTypeOK, PnGlasses
    <3>3. PnShown'
      BY <1>1, <2>1, <3>1 DEF PnPrepare, PnTypeOK, PnShown, PnFits, PnLevel
    <3> QED
      BY <1>1, <2>1, <3>2, <3>3 DEF PnPrepare, pnRest, pnDog, PnModeEnabled, PnDogLeaves
  <2>3. CASE ~ok
    BY <1>1, <2>3 DEF PnPrepare, pnRest, pnDog, PnTypeOK, PnShown, PnModeEnabled, PnDogLeaves
  <2> QED
    BY <2>2, <2>3
<1>2. ASSUME NEW ok \in BOOLEAN, PnEnable(ok) PROVE PnInv'
  <2>1. ~pnMode /\ ~pnCircle
    BY <1>2 DEF PnEnable, PnModeEnabled
  <2> QED
    BY <1>2, <2>1 DEF PnEnable, pnRest, pnDog, PnTypeOK, PnShown, PnModeEnabled, PnDogLeaves
<1>3. ASSUME NEW v \in PnLevels, NEW ok \in BOOLEAN, PnBacklight(v, ok) PROVE PnInv'
  <2>1. /\ pnMode' = pnMode /\ pnCircle' = pnCircle /\ pnPrepared' = pnPrepared /\ pnEnabled' = pnEnabled
        /\ pnStage' = pnStage /\ pnArmed' = pnArmed /\ pnWork' = pnWork /\ pnUser' = v
    BY <1>3 DEF PnBacklight, pnRest, pnFlags, pnDog
  <2>2. CASE pnPrepared /\ ~pnMode
    <3>1. /\ pnGlass' = IF ok THEN [pnGlass EXCEPT !.level = v] ELSE pnGlass
          /\ pnSpoilt' = IF ok THEN pnSpoilt \ {"level"} ELSE pnSpoilt \cup {"level"}
      BY <1>3, <2>2 DEF PnBacklight
    <3>2. /\ pnGlass' \in PnGlasses /\ pnGlass'.hbm = pnGlass.hbm /\ pnGlass'.circle = pnGlass.circle
          /\ ok => pnGlass'.level = v
      BY <3>1 DEF PnTypeOK, PnGlasses
    <3>3. PnTypeOK'
      BY <2>1, <3>1, <3>2 DEF PnTypeOK
    <3>4. PnShown'
      BY <2>1, <2>2, <3>1, <3>2 DEF PnShown, PnFits, PnLevel
    <3> QED
      BY <2>1, <3>3, <3>4 DEF PnModeEnabled, PnDogLeaves
  <2>3. CASE ~(pnPrepared /\ ~pnMode)
    <3>1. pnGlass' = pnGlass /\ pnSpoilt' = pnSpoilt
      BY <1>3, <2>3 DEF PnBacklight
    <3>2. PnShown'
      BY <2>1, <2>3, <3>1 DEF PnShown, PnFits, PnLevel
    <3> QED
      BY <2>1, <3>1, <3>2 DEF PnTypeOK, PnModeEnabled, PnDogLeaves
  <2> QED
    BY <2>2, <2>3
<1>4. ASSUME NEW on \in BOOLEAN, PnModeStore(on) PROVE PnInv'
  <2>1. /\ pnPrepared /\ pnEnabled /\ pnPrepared' = pnPrepared /\ pnEnabled' = pnEnabled
        /\ pnStage = "bound" /\ pnStage' = pnStage /\ pnUser' = pnUser
    BY <1>4 DEF PnModeStore, PnStore, PnSysfs, pnRest
  <2>2. PnModeEnabled' /\ PnDogLeaves'
    BY <2>1 DEF PnModeEnabled, PnDogLeaves
  <2>3. CASE UNCHANGED <<pnMode, pnCircle, pnGlass, pnSpoilt, pnFails>>
    BY <2>1, <2>2, <2>3 DEF PnTypeOK, PnShown
  <2>4. ASSUME on, ~pnMode, UNCHANGED pnCircle, NEW r \in PnWriteFod(TRUE, pnGlass), r.ok,
               pnMode' = r.ok, pnGlass' = r.glass, UNCHANGED pnSpoilt
        PROVE  PnInv'
    <3>1. /\ r.glass \in PnGlasses /\ r.ok \in BOOLEAN /\ r.glass.circle = pnGlass.circle
          /\ r.ok => r.glass.hbm = TRUE /\ r.glass.level = PnLevel(TRUE, pnUser)
      BY PnWriteFodSets DEF PnTypeOK
    <3>2. pnMode' = TRUE
      BY <2>4, <3>1
    <3>3. PnTypeOK'
      BY <2>1, <2>4, <3>1, <3>2 DEF PnTypeOK
    <3>4. PnShown'
      BY <2>1, <2>4, <3>1, <3>2 DEF PnShown, PnFits, PnLevel
    <3> QED
      BY <2>2, <3>3, <3>4
  <2>5. ASSUME on, ~pnMode, UNCHANGED pnCircle, NEW r \in PnWriteFod(TRUE, pnGlass), ~r.ok,
               pnMode' = r.ok, NEW u \in PnWriteFod(FALSE, r.glass),
               pnGlass' = u.glass, PnSpoil("fod", u.ok)
        PROVE  PnInv'
    <3>1. r.glass \in PnGlasses /\ r.ok \in BOOLEAN /\ r.glass.circle = pnGlass.circle
      BY PnWriteFodSets DEF PnTypeOK
    <3>2. /\ u.glass \in PnGlasses /\ u.ok \in BOOLEAN /\ u.glass.circle = r.glass.circle
          /\ u.ok => u.glass.hbm = FALSE /\ u.glass.level = PnLevel(FALSE, pnUser)
      BY <3>1, PnWriteFodSets
    <3>3. pnMode' = FALSE
      BY <2>5, <3>1
    <3>4. pnSpoilt' = IF u.ok THEN pnSpoilt ELSE pnSpoilt \cup {"fod"}
      BY <2>5 DEF PnSpoil
    <3>5. PnTypeOK'
      BY <2>1, <2>5, <3>2, <3>3, <3>4 DEF PnTypeOK
    <3>6. PnShown'
      BY <2>1, <2>5, <3>1, <3>2, <3>3, <3>4 DEF PnShown, PnFits, PnLevel
    <3> QED
      BY <2>2, <3>5, <3>6
  <2>6. CASE ~on /\ pnMode /\ PnLeaveFod
    <3>1. /\ pnMode' = FALSE /\ pnCircle' = FALSE /\ pnGlass' \in PnGlasses
          /\ pnSpoilt' \subseteq {"fod", "level"}
          /\ "fod" \notin pnSpoilt' =>
               /\ PnFits(pnGlass', FALSE, FALSE)
               /\ "level" \notin pnSpoilt' => pnGlass'.level = pnUser
      BY <2>1, <2>6, PnLeaveFodKeeps
    <3> QED
      BY <2>1, <2>2, <3>1 DEF PnTypeOK, PnShown, PnLevel
  <2> QED
    BY <1>4, <2>3, <2>4, <2>5, <2>6 DEF PnModeStore
<1>5. ASSUME NEW on \in BOOLEAN, PnCircleStore(on) PROVE PnInv'
  <2>1. /\ pnPrepared /\ pnEnabled /\ pnPrepared' = pnPrepared /\ pnEnabled' = pnEnabled
        /\ pnStage = "bound" /\ pnStage' = pnStage /\ pnUser' = pnUser /\ pnMode' = pnMode
    BY <1>5 DEF PnCircleStore, PnStore, PnSysfs, pnRest
  <2>2. PnModeEnabled' /\ PnDogLeaves'
    BY <2>1 DEF PnModeEnabled, PnDogLeaves
  <2>3. CASE UNCHANGED <<pnCircle, pnGlass, pnSpoilt, pnFails>>
    BY <2>1, <2>2, <2>3 DEF PnTypeOK, PnShown
  <2>4. ASSUME pnCircle # on, NEW r \in PnWriteCircle(on, pnGlass),
               pnCircle' = (IF r.ok THEN on ELSE pnCircle), r.ok \/ ~on,
               pnGlass' = r.glass, UNCHANGED pnSpoilt
        PROVE  PnInv'
    <3>1. /\ r.glass \in PnGlasses /\ r.ok \in BOOLEAN
          /\ r.glass.hbm = pnGlass.hbm /\ r.glass.level = pnGlass.level
          /\ r.ok => r.glass.circle = on
      BY PnWriteCircleSets DEF PnTypeOK
    <3>2. pnCircle' \in BOOLEAN /\ (r.glass.circle => pnCircle')
      BY <2>4, <3>1 DEF PnTypeOK
    <3>3. PnTypeOK'
      BY <2>1, <2>4, <3>1, <3>2 DEF PnTypeOK
    <3>4. PnShown'
      BY <2>1, <2>4, <3>1, <3>2 DEF PnShown, PnFits
    <3> QED
      BY <2>2, <3>3, <3>4
  <2>5. ASSUME pnCircle # on, NEW r \in PnWriteCircle(on, pnGlass),
               pnCircle' = (IF r.ok THEN on ELSE pnCircle), ~(r.ok \/ ~on),
               NEW u \in PnWriteCircle(FALSE, r.glass),
               pnGlass' = u.glass, PnSpoil("fod", u.ok)
        PROVE  PnInv'
    <3>1. /\ r.glass \in PnGlasses /\ r.ok \in BOOLEAN
          /\ r.glass.hbm = pnGlass.hbm /\ r.glass.level = pnGlass.level
      BY PnWriteCircleSets DEF PnTypeOK
    <3>2. /\ u.glass \in PnGlasses /\ u.ok \in BOOLEAN
          /\ u.glass.hbm = r.glass.hbm /\ u.glass.level = r.glass.level
          /\ u.ok => u.glass.circle = FALSE
      BY <3>1, PnWriteCircleSets
    <3>3. pnCircle' = pnCircle
      BY <2>5
    <3>4. pnSpoilt' = IF u.ok THEN pnSpoilt ELSE pnSpoilt \cup {"fod"}
      BY <2>5 DEF PnSpoil
    <3>5. PnTypeOK'
      BY <2>1, <2>5, <3>2, <3>3, <3>4 DEF PnTypeOK
    <3>6. PnShown'
      BY <2>1, <2>5, <3>1, <3>2, <3>3, <3>4 DEF PnShown, PnFits
    <3> QED
      BY <2>2, <3>5, <3>6
  <2> QED
    BY <1>5, <2>3, <2>4, <2>5 DEF PnCircleStore
<1>6. CASE PnDisable
  <2>1. pnPrepared
    BY <1>6 DEF PnDisable, PnModeEnabled
  <2>2. /\ pnMode' = FALSE /\ pnCircle' = FALSE /\ pnGlass' \in PnGlasses
        /\ pnSpoilt' \subseteq {"fod", "level"}
        /\ "fod" \notin pnSpoilt' =>
             /\ PnFits(pnGlass', FALSE, FALSE)
             /\ "level" \notin pnSpoilt' => pnGlass'.level = pnUser
    BY <1>6, <2>1, PnLeaveFodKeeps DEF PnDisable
  <2> QED
    BY <1>6, <2>2 DEF PnDisable, pnRest, pnDog, PnTypeOK, PnShown, PnLevel, PnModeEnabled, PnDogLeaves
<1>7. CASE PnUnprepare
  <2>1. pnGlass' \in PnGlasses
    BY <1>7 DEF PnUnprepare, PnDark, PnGlasses
  <2> QED
    BY <1>7, <2>1 DEF PnUnprepare, PnForget, pnRest, pnDog, PnTypeOK, PnShown, PnModeEnabled, PnDogLeaves
<1>8. CASE PnCancel
  BY <1>8 DEF PnCancel, pnRest, pnFlags, PnTypeOK, PnShown, PnModeEnabled, PnDogLeaves
<1>9. CASE PnServiceTurns
  BY <1>9 DEF PnServiceTurns, pnFlags, pnDog, PnTypeOK, PnShown, PnModeEnabled, PnDogLeaves
<1>10. CASE PnDogFires
  BY <1>10 DEF PnDogFires, pnRest, pnFlags, PnTypeOK, PnShown, PnModeEnabled, PnDogLeaves
<1>11. CASE PnDogWork
  <2>1. CASE pnPrepared /\ pnEnabled
    <3>1. /\ pnMode' = FALSE /\ pnCircle' = FALSE /\ pnGlass' \in PnGlasses
          /\ pnSpoilt' \subseteq {"fod", "level"}
          /\ "fod" \notin pnSpoilt' =>
               /\ PnFits(pnGlass', FALSE, FALSE)
               /\ "level" \notin pnSpoilt' => pnGlass'.level = pnUser
      BY <1>11, <2>1, PnLeaveFodKeeps DEF PnDogWork
    <3> QED
      BY <1>11, <3>1 DEF PnDogWork, pnRest, PnTypeOK, PnShown, PnLevel, PnModeEnabled, PnDogLeaves
  <2>2. CASE ~(pnPrepared /\ pnEnabled)
    <3>1. pnMode = FALSE /\ pnCircle = FALSE
      BY <2>2 DEF PnModeEnabled, PnTypeOK
    <3>2. UNCHANGED <<pnMode, pnCircle, pnGlass, pnSpoilt>>
      BY <1>11, <2>2, <3>1 DEF PnDogWork, PnForget
    <3> QED
      BY <1>11, <3>2 DEF PnDogWork, pnRest, PnTypeOK, PnShown, PnModeEnabled, PnDogLeaves
  <2> QED
    BY <2>1, <2>2
<1>12. CASE PnRemove
  BY <1>12 DEF PnRemove, pnFlags, pnDog, PnTypeOK, PnShown, PnModeEnabled, PnDogLeaves
<1>13. CASE PnRemoveStep
  <2>1. CASE /\ pnStage = "nosysfs" /\ ~pnWork /\ pnStage' = "quiet" /\ pnArmed' = FALSE
             /\ UNCHANGED <<pnService, pnFlags, pnUser, pnGlass, pnWork, pnDrm, pnSpoilt, pnFails>>
    BY <2>1 DEF pnFlags, PnTypeOK, PnShown, PnModeEnabled, PnDogLeaves
  <2>2. CASE /\ pnStage = "quiet" /\ pnDrm = "idle" /\ pnStage' = "gone"
             /\ IF pnPrepared THEN PnLeaveFod
                ELSE UNCHANGED <<pnMode, pnCircle, pnGlass, pnSpoilt, pnFails>>
             /\ UNCHANGED <<pnService, pnPrepared, pnEnabled, pnUser, pnDog, pnDrm>>
    <3>1. CASE pnPrepared
      <4>1. /\ pnMode' = FALSE /\ pnCircle' = FALSE /\ pnGlass' \in PnGlasses
            /\ pnSpoilt' \subseteq {"fod", "level"}
            /\ "fod" \notin pnSpoilt' =>
                 /\ PnFits(pnGlass', FALSE, FALSE)
                 /\ "level" \notin pnSpoilt' => pnGlass'.level = pnUser
        BY <2>2, <3>1, PnLeaveFodKeeps
      <4> QED
        BY <2>2, <4>1 DEF pnDog, PnTypeOK, PnShown, PnLevel, PnModeEnabled, PnDogLeaves
    <3>2. CASE ~pnPrepared
      BY <2>2, <3>2 DEF pnDog, PnTypeOK, PnShown, PnModeEnabled, PnDogLeaves
    <3> QED
      BY <3>1, <3>2
  <2> QED
    BY <1>13, <2>1, <2>2 DEF PnRemoveStep
<1>14. CASE UNCHANGED pnVars
  BY <1>14 DEF pnVars, pnRest, pnFlags, pnDog, PnTypeOK, PnShown, PnModeEnabled, PnDogLeaves
<1> QED
  BY <1>1, <1>2, <1>3, <1>4, <1>5, <1>6, <1>7, <1>8, <1>9, <1>10, <1>11, <1>12, <1>13, <1>14 DEF PnNext

\* The panel, for any brightness values and any number of failed writes: it shows
\* the fingerprint's brightness exactly in fingerprint mode and the desktop's last
\* value otherwise, unless a write that is still unrepaired failed, and the watchdog
\* is dead once the driver is gone.
THEOREM PnSafety == PnSpec => []PnSafe
<1>1. PnInv => PnSafe
  BY DEF PnInv, PnTypeOK, PnShown, PnFits, PnLevel, PnDogLeaves, PnSafe, PnSampleExact, PnDogDead
<1> QED
  BY <1>1, PnInvInit, PnInvStep, PTL DEF PnSpec

-----------------------------------------------------------------------------
(***************************************************************************)
(* The rear camera.  Two arguments that meet only in the rail: what the    *)
(* sensor holds and exposes, and what the motor's flag inited is worth     *)
(* while the sensor may power the chip down behind it.                     *)
(***************************************************************************)

CmTypeOK ==
    /\ cmCall \in {"none", "start"} /\ cmProbing \in {"no", "alone", "visible"}
    /\ cmCtrl \in [vblank : Int, exposure : Int, max : Int]
    /\ cmReg \in [frame : Int, exposure : Int]

\* A call in progress has powered everything, and nobody else's call is; the pointers
\* know what is held unless a start met the end of probe.
CmPowerKnown ==
    /\ cmPtr \in {CmLines, {"reset"}, {}}
    /\ cmBound => cmProbing = "no"
    /\ cmStream => cmCall = "none"
    /\ cmStream \/ cmCall = "start" => cmBound /\ cmHeld = CmAll /\ cmPtr = CmLines
    /\ cmProbing # "no" => cmHeld = CmAll /\ (cmPtr = CmLines \/ cmClash)
    /\ cmProbing = "no" /\ cmCall = "none" /\ ~cmStream => cmPtr = {} /\ (cmHeld = {} \/ cmClash)

\* While the sensor streams and every register write has succeeded, its registers are
\* what the framework remembers, and the range of the exposure is the frame.
CmInStep ==
    cmStream /\ ~cmSpoilt =>
      /\ cmCtrl.max = cmCtrl.vblank /\ cmCtrl.exposure <= cmCtrl.max
      /\ cmReg.frame = cmCtrl.vblank /\ cmReg.exposure = cmCtrl.exposure

\* A motor that is not active is not initialised, a position is written only to one
\* that is, and inited is right about a powered chip unless the rail came back unseen,
\* which it cannot while the motor holds it.
CmLensKnows ==
    /\ cmPm # "active" => ~cmInited
    /\ cmFocus # "idle" => cmPm = "active"
    /\ cmFocus = "write" => cmInited
    /\ cmInited /\ CmRail(cmHeld, cmHolds) => cmChip \/ (cmCycled /\ ~cmHolds)

CmInv == CmTypeOK /\ CmPowerKnown /\ CmInStep /\ CmLensKnows

\* A step of the sensor may move the rail under the motor: either the chip keeps what
\* it had, or it lost its power, or the rail's return is noted.
LEMMA CmRailMovesKnown ==
  ASSUME CmLensKnows, CmRailMoves, UNCHANGED cmLens
  PROVE  CmLensKnows'
<1>1. cmChip /\ CmRail(cmHeld', cmHolds') => cmChip'
  BY Zenon DEF CmRailMoves, CmChipIf
<1>2. cmCycled \/ (cmInited /\ ~CmRail(cmHeld, cmHolds) /\ CmRail(cmHeld', cmHolds)) => cmCycled'
  BY Zenon DEF CmRailMoves
<1>3. cmPm' = cmPm /\ cmFocus' = cmFocus /\ cmInited' = cmInited /\ cmHolds' = cmHolds
  BY DEF cmLens
<1>4. cmHolds => CmRail(cmHeld, cmHolds)
  BY DEF CmRail
<1>5. cmInited' /\ CmRail(cmHeld', cmHolds') => cmChip' \/ (cmCycled' /\ ~cmHolds')
  <2>1. CASE CmRail(cmHeld, cmHolds)
    BY <1>1, <1>2, <1>3, <2>1 DEF CmLensKnows
  <2>2. CASE ~CmRail(cmHeld, cmHolds)
    BY <1>2, <1>3, <1>4, <2>2
  <2> QED
    BY <2>1, <2>2
<1> QED
  BY <1>3, <1>5 DEF CmLensKnows

\* The camera starts unpowered.
LEMMA CmInvInit == CmInit => CmInv
<1> SUFFICES ASSUME CmInit PROVE CmInv
  OBVIOUS
<1>1. CmTypeOK
  BY DEF CmInit, CmTypeOK
<1> QED
  BY <1>1 DEF CmInit, CmInv, CmPowerKnown, CmInStep, CmLensKnows

\* hi1337_power_off with the pointers it needs gives everything back; without them, or
\* without the one of the enable line, the pointers go all the same.
LEMMA CmPowerOffGives ==
  ASSUME cmPtr \in {CmLines, {"reset"}, {}}, CmPowerOff
  PROVE  /\ cmPtr' = {} /\ cmClash' = cmClash
         /\ cmPtr = CmLines /\ cmHeld = CmAll => cmHeld' = {}
<1>1. "reset" \in CmLines
  BY CmLinesAssumption
<1>2. cmPtr' = {} /\ cmClash' = cmClash
  BY <1>1 DEF CmPowerOff
<1>3. ASSUME cmPtr = CmLines, cmHeld = CmAll PROVE cmHeld' = {}
  <2>1. cmHeld' = cmHeld \ ({"rail", "clk"} \cup cmPtr)
    BY <1>1, <1>3 DEF CmPowerOff
  <2> QED
    BY <1>3, <2>1 DEF CmAll
<1> QED
  BY <1>2, <1>3

\* Power of the sensor: the calls that take or give back its resources, together
\* with what they leave alone, keep CmPowerKnown.
LEMMA CmPowerKept ==
  ASSUME CmTypeOK, CmPowerKnown,
         \/ CmProbe \/ CmRegister \/ CmStart \/ CmStop \/ CmRemove
         \/ \E ok \in BOOLEAN : CmProbed(ok) \/ CmStarted(ok)
  PROVE  /\ cmCall' \in {"none", "start"} /\ cmProbing' \in {"no", "alone", "visible"}
         /\ CmPowerKnown'
<1>0. "reset" \in CmLines /\ CmLines \subseteq CmAll
  BY CmLinesAssumption DEF CmAll
<1>1. CASE CmProbe
  <2>1. cmProbing = "no" /\ ~cmBound /\ ~cmStream /\ cmCall = "none"
        /\ cmBound' = cmBound /\ cmStream' = cmStream /\ cmCall' = cmCall
    BY <1>1 DEF CmProbe, CmPowerKnown, CmTypeOK
  <2>2. CASE CmPowered /\ cmProbing' = "alone"
    BY <2>1, <2>2 DEF CmPowerKnown, CmPowered
  <2>3. CASE UNCHANGED <<cmHeld, cmClash, cmProbing>> /\ cmPtr' = {}
    BY <2>1, <2>3 DEF CmPowerKnown
  <2> QED
    BY <1>1, <2>1, <2>2, <2>3 DEF CmProbe
<1>2. CASE CmRegister
  BY <1>2 DEF CmRegister, cmPower, CmPowerKnown, CmTypeOK
<1>3. CASE CmStart
  <2>1. CmInUse /\ ~cmStream /\ cmCall = "none"
        /\ cmBound' = cmBound /\ cmStream' = cmStream /\ cmProbing' = cmProbing
    BY <1>3 DEF CmStart
  <2>2. CASE CmPowered /\ cmCall' = "start"
    <3>1. cmHeld # CmAll
      BY <1>0, <2>2 DEF CmPowered
    <3>2. cmBound /\ cmProbing = "no"
      BY <2>1, <3>1 DEF CmInUse, CmPowerKnown
    <3> QED
      BY <2>1, <2>2, <3>2 DEF CmPowerKnown, CmPowered
  <2>3. CASE CmPowerFails(cmPtr) /\ UNCHANGED cmCall
    <3>1. cmHeld' = cmHeld /\ cmPtr' \in {cmPtr, cmPtr \ {"enable"}, {}}
      BY <2>3 DEF CmPowerFails
    <3>2. cmPtr' # cmPtr \/ cmClash => cmClash'
      BY <2>3, Zenon DEF CmPowerFails
    <3>3. cmPtr' \in {CmLines, {"reset"}, {}}
      BY <3>1, CmLinesAssumption DEF CmPowerKnown
    <3>4. cmPtr = {} => cmPtr' = {}
      BY <3>1
    <3> QED
      BY <2>1, <2>3, <3>1, <3>2, <3>3, <3>4 DEF CmPowerKnown, CmInUse
  <2> QED
    BY <1>3, <2>1, <2>2, <2>3 DEF CmStart, CmTypeOK
<1>4. CASE CmStop
  <2>1. cmHeld' = {} /\ cmPtr' = {}
    BY <1>4, CmPowerOffGives DEF CmStop, CmPowerKnown
  <2> QED
    BY <1>4, <2>1 DEF CmStop, CmPowerKnown, CmTypeOK
<1>5. CASE CmRemove
  <2>1. cmCall' = "none" /\ cmProbing' = "no" /\ ~cmBound' /\ ~cmStream'
    BY <1>5 DEF CmRemove, CmPowerKnown
  <2>2. CASE cmStream
    <3>1. cmHeld' = {} /\ cmPtr' = {}
      BY <1>5, <2>2, CmPowerOffGives DEF CmRemove, CmPowerKnown
    <3> QED
      BY <2>1, <3>1 DEF CmPowerKnown
  <2>3. CASE ~cmStream
    BY <1>5, <2>1, <2>3 DEF CmRemove, CmPowerKnown, cmPower
  <2> QED
    BY <2>1, <2>2, <2>3
<1>6. ASSUME NEW ok \in BOOLEAN, CmProbed(ok)
      PROVE  /\ cmCall' \in {"none", "start"} /\ cmProbing' \in {"no", "alone", "visible"}
             /\ CmPowerKnown'
  <2>1. cmProbing # "no" /\ ~cmStream /\ cmCall = "none" /\ cmHeld = CmAll
    BY <1>6 DEF CmProbed, CmPowerKnown, CmTypeOK
  <2>2. cmProbing' = "no" /\ cmStream' = cmStream /\ cmCall' = cmCall
    BY <1>6 DEF CmProbed
  <2>3. cmPtr' = {} /\ cmClash' = cmClash /\ (cmPtr = CmLines => cmHeld' = {})
    BY <1>6, <2>1, CmPowerOffGives DEF CmProbed, CmPowerKnown
  <2> QED
    BY <2>1, <2>2, <2>3 DEF CmPowerKnown
<1>7. ASSUME NEW ok \in BOOLEAN, CmStarted(ok)
      PROVE  /\ cmCall' \in {"none", "start"} /\ cmProbing' \in {"no", "alone", "visible"}
             /\ CmPowerKnown'
  <2>1. cmBound /\ cmHeld = CmAll /\ cmPtr = CmLines /\ cmProbing = "no"
    BY <1>7 DEF CmStarted, CmPowerKnown
  <2>2. cmCall' = "none" /\ cmStream' = ok /\ cmBound' = cmBound /\ cmProbing' = cmProbing
    BY <1>7 DEF CmStarted
  <2>3. CASE ok
    BY <1>7, <2>1, <2>2, <2>3 DEF CmStarted, CmPowerKnown, cmPower
  <2>4. CASE ~ok
    <3>1. cmHeld' = {} /\ cmPtr' = {}
      BY <1>7, <2>1, <2>4, CmPowerOffGives DEF CmStarted
    <3> QED
      BY <2>1, <2>2, <2>4, <3>1 DEF CmPowerKnown
  <2> QED
    BY <2>3, <2>4
<1> QED
  BY <1>1, <1>2, <1>3, <1>4, <1>5, <1>6, <1>7

\* hi1337_set_ctrl for the exposure keeps registers and remembered values in step.
LEMMA CmExposureStep ==
  ASSUME CmTypeOK, CmInStep, NEW e \in 0 .. CmTop, NEW ok \in BOOLEAN, CmSetExposure(e, ok)
  PROVE  CmTypeOK' /\ CmInStep'
<1>1. /\ cmStream' = cmStream /\ cmCall' = cmCall /\ cmProbing' = cmProbing /\ e \in Int /\ e <= cmCtrl.max
      /\ cmCtrl' = IF ok THEN [cmCtrl EXCEPT !.exposure = e] ELSE cmCtrl
  BY CmAssumption DEF CmSetExposure, cmSensor
<1>2. ~cmSpoilt' => ~cmSpoilt /\ ok
  BY Zenon DEF CmSetExposure
<1>3. cmCtrl' \in [vblank : Int, exposure : Int, max : Int]
  BY <1>1 DEF CmTypeOK
<1>4. cmReg' = cmReg \/ (cmStream /\ \E w \in CmTaken("exposure", e, ok) : cmReg' = [cmReg EXCEPT !["exposure"] = w])
  BY DEF CmSetExposure, CmWritten
<1>5. \A w \in CmTaken("exposure", e, ok) : w \in Int /\ (ok => w = e)
  BY <1>1 DEF CmTaken, CmTypeOK
<1>6. cmReg' \in [frame : Int, exposure : Int]
  BY <1>4, <1>5 DEF CmTypeOK
<1>7. CmInStep'
  <2> SUFFICES ASSUME cmStream', ~cmSpoilt'
               PROVE  /\ cmCtrl'.max = cmCtrl'.vblank /\ cmCtrl'.exposure <= cmCtrl'.max
                      /\ cmReg'.frame = cmCtrl'.vblank /\ cmReg'.exposure = cmCtrl'.exposure
    BY DEF CmInStep
  <2>1. ok /\ cmStream /\ cmCtrl.max = cmCtrl.vblank /\ cmReg.frame = cmCtrl.vblank
    BY <1>1, <1>2 DEF CmInStep
  <2>2. PICK w \in CmTaken("exposure", e, ok) : cmReg' = [cmReg EXCEPT !["exposure"] = w]
    BY <2>1 DEF CmSetExposure, CmWritten
  <2>3. cmReg'.frame = cmReg.frame /\ cmReg'.exposure = e
    BY <1>5, <2>1, <2>2 DEF CmTypeOK
  <2>4. cmCtrl'.exposure = e /\ cmCtrl'.max = cmCtrl.max /\ cmCtrl'.vblank = cmCtrl.vblank
    BY <1>1, <2>1 DEF CmTypeOK
  <2> QED
    BY <1>1, <2>1, <2>3, <2>4
<1> QED
  BY <1>1, <1>3, <1>6, <1>7 DEF CmTypeOK

\* What s_ctrl of vblank makes of the exposure's range.
LEMMA CmRangedFits ==
  ASSUME CmTypeOK, NEW v \in Int
  PROVE  /\ CmRanged(v) \in [vblank : Int, exposure : Int, max : Int]
         /\ CmRanged(v).vblank = cmCtrl.vblank /\ CmRanged(v).max = v
         /\ CmRanged(v).exposure <= v
         /\ CmRanged(v).exposure = cmCtrl.exposure \/ CmRanged(v).exposure = v
<1>1. cmCtrl \in [vblank : Int, exposure : Int, max : Int]
  BY DEF CmTypeOK
<1> DEFINE e == IF cmCtrl.exposure > v THEN v ELSE cmCtrl.exposure
<1>2. e \in Int /\ e <= v /\ (e = cmCtrl.exposure \/ e = v)
  BY <1>1
<1>3. CmRanged(v) = [cmCtrl EXCEPT !.max = v, !.exposure = e]
  BY <1>1 DEF CmRanged
<1> HIDE DEF e
<1>4. CmRanged(v) = [vblank |-> cmCtrl.vblank, exposure |-> e, max |-> v]
  BY <1>1, <1>3
<1> QED
  BY <1>1, <1>2, <1>4

\* hi1337_set_ctrl for vblank, whichever of its two register writes fails.
LEMMA CmVblankStep ==
  ASSUME CmTypeOK, CmInStep, NEW v \in 0 .. CmTop, NEW ok \in BOOLEAN, CmSetVblank(v, ok)
  PROVE  CmTypeOK' /\ CmInStep'
<1> DEFINE set == CmRanged(v)
           shorter == set.exposure # cmCtrl.exposure
           after(okExposure, okFrame) ==
               [vblank |-> IF okFrame THEN v ELSE cmCtrl.vblank, max |-> v,
                exposure |-> IF okExposure THEN set.exposure ELSE cmCtrl.exposure]
<1>0. v \in Int
  BY CmAssumption
<1>1. /\ set.exposure \in Int /\ set.exposure <= v
      /\ set.exposure = cmCtrl.exposure \/ set.exposure = v
  BY <1>0, CmRangedFits
<1>2. cmCtrl.vblank \in Int /\ cmCtrl.exposure \in Int /\ cmReg.frame \in Int /\ cmReg.exposure \in Int
  BY DEF CmTypeOK
<1>3. cmStream' = cmStream /\ cmCall' = cmCall /\ cmProbing' = cmProbing
  BY DEF CmSetVblank, cmSensor
<1>4. ASSUME NEW a \in BOOLEAN, NEW b \in BOOLEAN
      PROVE  /\ after(a, b) \in [vblank : Int, exposure : Int, max : Int]
             /\ after(a, b).max = v
             /\ a => after(a, b).exposure = set.exposure
             /\ b => after(a, b).vblank = v
  <2> HIDE DEF set
  <2> QED
    BY <1>0, <1>1, <1>2
<1>5. CASE ~cmStream
  <2>1. cmCtrl' = after(TRUE, TRUE) /\ cmReg' = cmReg
    BY <1>5 DEF CmSetVblank
  <2>2. cmCtrl' \in [vblank : Int, exposure : Int, max : Int]
    BY <1>4, <2>1
  <2> QED
    BY <1>3, <1>5, <2>1, <2>2 DEF CmTypeOK, CmInStep
<1>6. CASE cmStream
  <2>1. PICK okE \in BOOLEAN, okF \in BOOLEAN :
          /\ ok = (okE /\ okF) /\ (~shorter => okE)
          /\ cmCtrl' = after(okE, okF) /\ cmSpoilt' = (cmSpoilt \/ ~ok)
          /\ cmReg' \in [frame : CmTaken("frame", v, okF),
                         exposure : IF shorter THEN CmTaken("exposure", v, okE)
                                    ELSE {cmReg.exposure}]
    BY <1>6 DEF CmSetVblank
  <2>2. \A w \in CmTaken("frame", v, okF) : w \in Int /\ (okF => w = v)
    BY <1>0, <1>2 DEF CmTaken
  <2>3. \A w \in CmTaken("exposure", v, okE) : w \in Int /\ (okE => w = v)
    BY <1>0, <1>2 DEF CmTaken
  <2>4. cmReg' \in [frame : Int, exposure : Int] /\ (okF => cmReg'.frame = v)
    BY <1>2, <2>1, <2>2, <2>3
  <2>5. /\ cmReg'.exposure \in (IF shorter THEN CmTaken("exposure", v, okE) ELSE {cmReg.exposure})
    BY <2>1
  <2>6. cmCtrl' \in [vblank : Int, exposure : Int, max : Int]
    BY <1>4, <2>1
  <2>7. ~cmSpoilt' => ~cmSpoilt /\ okE /\ okF
    BY <2>1, Zenon
  <2>8. ASSUME ~cmSpoilt' PROVE CmInStep'
    <3>1. okE /\ okF /\ cmReg.exposure = cmCtrl.exposure
      BY <1>6, <2>7, <2>8 DEF CmInStep
    <3>2. cmReg'.exposure = set.exposure
      <4>1. CASE shorter
        BY <1>1, <2>3, <2>5, <3>1, <4>1
      <4>2. CASE ~shorter
        BY <2>5, <3>1, <4>2
      <4> QED
        BY <4>1, <4>2
    <3>3. cmCtrl'.max = v /\ cmCtrl'.vblank = v /\ cmCtrl'.exposure = set.exposure
      BY <1>4, <2>1, <3>1
    <3> HIDE DEF set
    <3> QED
      BY <1>1, <2>4, <3>1, <3>2, <3>3 DEF CmInStep
  <2>9. CmInStep'
    BY <2>8 DEF CmInStep
  <2> QED
    BY <1>3, <2>4, <2>6, <2>9 DEF CmTypeOK
<1> QED
  BY <1>5, <1>6

\* hi1337_start_streaming writes exposure and frame together, whatever was remembered.
LEMMA CmStartedStep ==
  ASSUME CmTypeOK, NEW ok \in BOOLEAN, CmStarted(ok)
  PROVE  CmTypeOK' /\ CmInStep'
<1> DEFINE set == CmRanged(cmCtrl.vblank)
<1>1. /\ set \in [vblank : Int, exposure : Int, max : Int]
      /\ set.vblank = cmCtrl.vblank /\ set.max = cmCtrl.vblank /\ set.exposure <= cmCtrl.vblank
  <2>1. cmCtrl.vblank \in Int
    BY DEF CmTypeOK
  <2> QED
    BY <2>1, CmRangedFits
<1>2. cmCall' = "none" /\ cmStream' = ok /\ cmProbing' = cmProbing
  BY DEF CmStarted
<1>3. CASE ok
  <2>1. cmCtrl' = set /\ cmReg' = [frame |-> set.vblank, exposure |-> set.exposure]
    BY <1>3 DEF CmStarted
  <2> HIDE DEF set
  <2>2. cmReg' \in [frame : Int, exposure : Int] /\ cmReg'.frame = set.vblank /\ cmReg'.exposure = set.exposure
    BY <1>1, <2>1
  <2>3. CmTypeOK'
    BY <1>1, <1>2, <2>1, <2>2 DEF CmTypeOK
  <2> QED
    BY <1>1, <2>1, <2>2, <2>3 DEF CmInStep
<1>4. CASE ~ok
  <2>1. cmCtrl' \in {cmCtrl, set} /\ cmReg' = cmReg
    BY <1>4 DEF CmStarted
  <2> HIDE DEF set
  <2>2. CmTypeOK'
    BY <1>1, <1>2, <2>1 DEF CmTypeOK
  <2> QED
    BY <1>2, <1>4, <2>2 DEF CmInStep
<1> QED
  BY <1>3, <1>4

\* Every step of the motor's driver knows what the chip is worth.
LEMMA CmLensStep ==
  ASSUME CmLensKnows, UNCHANGED <<cmSensor, cmControls>>,
         cmCycled' = (cmCycled /\ cmInited'),
         \/ CmOpen \/ CmOpenFails \/ CmClose \/ CmSuspend
         \/ CmFocusLook \/ CmFocusInit \/ CmFocusWrite
  PROVE  CmLensKnows'
<1>0. cmHeld' = cmHeld
  BY DEF cmSensor, cmPower
<1>1. cmCycled /\ cmInited' => cmCycled'
  BY Zenon
<1>2. CASE CmOpen
  <2>1. cmFocus' = cmFocus
    BY <1>2 DEF CmOpen
  <2>2. CASE cmPm = "active" /\ UNCHANGED <<cmPm, cmHolds, cmInited>> /\ CmChipIf(cmChip)
    <3>1. cmChip /\ CmRail(cmHeld', cmHolds') => cmChip'
      BY <2>2, Zenon DEF CmChipIf
    <3> QED
      BY <1>0, <1>1, <2>1, <2>2, <3>1, Zenon DEF CmLensKnows
  <2>3. CASE /\ cmPm = "suspended" /\ cmPm' = "active"
             /\ cmHolds' = TRUE /\ cmInited' = TRUE /\ CmChipIf(cmChip \/ ~cmInited)
    <3>1. CmRail(cmHeld', cmHolds')
      BY <2>3 DEF CmRail
    <3>2. ~cmInited
      BY <2>3 DEF CmLensKnows
    <3>3. cmChip'
      BY <2>3, <3>1, <3>2, Zenon DEF CmChipIf
    <3>4. cmInited'
      BY <2>3
    <3> QED
      BY <2>1, <2>3, <3>3, <3>4 DEF CmLensKnows
  <2>4. CASE /\ cmPm = "suspended" /\ cmPm' = "active"
             /\ ~cmInited /\ UNCHANGED <<cmHolds, cmInited>> /\ CmChipIf(cmChip)
    BY <2>1, <2>4 DEF CmLensKnows
  <2> QED
    BY <1>2, <2>2, <2>3, <2>4 DEF CmOpen
<1>3. CASE CmOpenFails
  BY <1>0, <1>1, <1>3 DEF CmOpenFails, CmLensKnows
<1>4. CASE CmClose
  BY <1>0, <1>1, <1>4 DEF CmClose, CmLensKnows
<1>5. CASE CmSuspend
  <2>1. cmFocus' = "idle" /\ ~cmInited'
    BY <1>5 DEF CmSuspend
  <2> QED
    BY <2>1 DEF CmLensKnows
<1>6. CASE CmFocusLook
  <2>1. UNCHANGED <<cmPm, cmHolds, cmChip>> /\ cmPm = "active"
    BY <1>6 DEF CmFocusLook
  <2>2. cmInited' <=> cmInited /\ CmRail(cmHeld, cmHolds)
    BY <1>6, Zenon DEF CmFocusLook
  <2>3. cmFocus' = CASE ~CmRail(cmHeld, cmHolds) -> "idle"
                     [] CmRail(cmHeld, cmHolds) /\ cmInited -> "write"
                     [] OTHER -> "init"
    BY <1>6 DEF CmFocusLook
  <2>4. cmFocus' = "write" => cmInited'
    <3>1. CASE ~CmRail(cmHeld, cmHolds)
      BY <2>3, <3>1
    <3>2. CASE CmRail(cmHeld, cmHolds) /\ cmInited
      BY <2>2, <3>2
    <3>3. CASE CmRail(cmHeld, cmHolds) /\ ~cmInited
      BY <2>3, <3>3
    <3> QED
      BY <3>1, <3>2, <3>3
  <2>5. cmInited' => cmChip' \/ (cmCycled' /\ ~cmHolds')
    BY <1>1, <2>1, <2>2 DEF CmLensKnows
  <2> QED
    BY <2>1, <2>4, <2>5 DEF CmLensKnows
<1>7. CASE CmFocusInit
  <2>1. cmPm = "active" /\ cmPm' = cmPm /\ cmHolds' = cmHolds
    BY <1>7 DEF CmFocusInit, CmLensKnows
  <2>2. CASE cmFocus' = "write" /\ cmInited' = TRUE /\ cmChip' = TRUE
    BY <2>1, <2>2 DEF CmLensKnows
  <2>3. CASE cmFocus' = "idle" /\ UNCHANGED <<cmInited, cmChip>>
    BY <1>0, <1>1, <2>1, <2>3 DEF CmLensKnows
  <2> QED
    BY <1>7, <2>2, <2>3 DEF CmFocusInit
<1>8. CASE CmFocusWrite
  BY <1>0, <1>1, <1>8 DEF CmFocusWrite, CmLensKnows
<1> QED
  BY <1>2, <1>3, <1>4, <1>5, <1>6, <1>7, <1>8

\* Every step of sensor and motor keeps the camera's invariant.
LEMMA CmInvStep == CmInv /\ [CmNext]_cmVars => CmInv'
<1> SUFFICES ASSUME CmInv, [CmNext]_cmVars PROVE CmInv'
  OBVIOUS
<1> USE DEF CmInv
<1>1. CASE CmProbe \/ CmStart \/ CmStop \/ CmRemove
  <2>1. /\ cmCall' \in {"none", "start"} /\ cmProbing' \in {"no", "alone", "visible"}
        /\ CmPowerKnown'
    BY <1>1, CmPowerKept
  <2>2. CmRailMoves /\ UNCHANGED cmLens /\ UNCHANGED cmControls
    BY <1>1 DEF CmProbe, CmStart, CmStop, CmRemove
  <2>3. CmLensKnows'
    BY <2>2, CmRailMovesKnown
  <2>4. CmTypeOK'
    BY <2>1, <2>2 DEF CmTypeOK, cmControls
  <2>5. ~cmStream' \/ cmStream' = cmStream
    BY <1>1 DEF CmProbe, CmStart, CmStop, CmRemove
  <2>6. CmInStep'
    BY <2>2, <2>5 DEF CmInStep, cmControls
  <2> QED
    BY <2>1, <2>3, <2>4, <2>6
<1>2. CASE CmRegister
  <2>1. /\ cmCall' \in {"none", "start"} /\ cmProbing' \in {"no", "alone", "visible"}
        /\ CmPowerKnown'
    BY <1>2, CmPowerKept
  <2>2. ~cmStream /\ cmStream' = cmStream
    BY <1>2 DEF CmRegister, CmPowerKnown
  <2>3. CmLensKnows'
    BY <1>2 DEF CmRegister, CmLensKnows, CmRail, cmLens, cmPower
  <2>4. CmTypeOK'
    BY <1>2, <2>1 DEF CmTypeOK, CmRegister
  <2> QED
    BY <2>1, <2>2, <2>3, <2>4 DEF CmInStep
<1>3. ASSUME NEW ok \in BOOLEAN, CmProbed(ok) PROVE CmInv'
  <2>1. /\ cmCall' \in {"none", "start"} /\ cmProbing' \in {"no", "alone", "visible"}
        /\ CmPowerKnown'
    BY <1>3, CmPowerKept
  <2>2. CmRailMoves /\ UNCHANGED cmLens /\ UNCHANGED cmControls /\ cmStream' = cmStream
    BY <1>3 DEF CmProbed
  <2>3. CmLensKnows'
    BY <2>2, CmRailMovesKnown
  <2> QED
    BY <2>1, <2>2, <2>3 DEF CmInStep, CmTypeOK, cmControls
<1>4. ASSUME NEW ok \in BOOLEAN, CmStarted(ok) PROVE CmInv'
  <2>1. CmPowerKnown'
    BY <1>4, CmPowerKept
  <2>2. CmRailMoves /\ UNCHANGED cmLens
    BY <1>4 DEF CmStarted
  <2> QED
    BY <1>4, <2>1, <2>2, CmRailMovesKnown, CmStartedStep
<1>5. ASSUME NEW v \in 0 .. CmTop, NEW ok \in BOOLEAN, CmSetExposure(v, ok) \/ CmSetVblank(v, ok)
      PROVE  CmInv'
  <2>1. UNCHANGED <<cmSensor, cmLens, cmChip, cmCycled>>
    BY <1>5 DEF CmSetExposure, CmSetVblank
  <2>2. CmTypeOK' /\ CmInStep'
    BY <1>5, CmExposureStep, CmVblankStep
  <2> QED
    BY <2>1, <2>2 DEF cmSensor, cmPower, cmLens, CmPowerKnown, CmLensKnows, CmRail
<1>6. CASE /\ UNCHANGED <<cmSensor, cmControls>>
           /\ \/ CmOpen \/ CmOpenFails \/ CmClose \/ CmSuspend
              \/ CmFocusLook \/ CmFocusInit \/ CmFocusWrite
           /\ cmCycled' = (cmCycled /\ cmInited')
  <2>1. CmLensKnows'
    BY <1>6, CmLensStep
  <2> QED
    BY <1>6, <2>1 DEF cmSensor, cmPower, cmControls, CmTypeOK, CmPowerKnown, CmInStep
<1>7. CASE UNCHANGED cmVars
  BY <1>7 DEF cmVars, cmSensor, cmPower, cmControls, cmLens, CmTypeOK, CmPowerKnown, CmInStep, CmLensKnows, CmRail
<1> QED
  BY <1>1, <1>2, <1>3, <1>4, <1>5, <1>6, <1>7 DEF CmNext

\* The sensor, for any range of its controls and with an enable line or without: one
\* that does not stream holds nothing, at whatever step a start was refused, unless a
\* start met the end of probe; and one that streams never exposes longer than its
\* frame unless a register write failed since the start.
THEOREM CmSensorSafety == CmSpec => []CmSensorSafe
<1>1. CmInv => CmSensorSafe
  BY DEF CmInv, CmPowerKnown, CmInStep, CmTypeOK, CmSensorSafe, CmIdleHoldsNothing, CmExposureFits
<1> QED
  BY <1>1, CmInvInit, CmInvStep, PTL DEF CmSpec

\* The motor gets no position before its initialisation, unless it does not hold the
\* rail itself and the sensor had it back before the motor's driver looked at it.
THEOREM CmFocusSafety == CmSpec => CmFocusNotBlind
<1>1. CmInv /\ [CmNext]_cmVars =>
        [cmFocus = "write" /\ cmFocus' = "idle" /\ CmRail(cmHeld, cmHolds)
         => cmChip \/ (cmCycled /\ ~cmHolds)]_cmVars
  BY DEF CmInv, CmLensKnows
<1> QED
  BY <1>1, CmInvInit, CmInvStep, PTL DEF CmSpec, CmFocusNotBlind

-----------------------------------------------------------------------------
(***************************************************************************)
(* Pen and touch.  Three arguments.  The pen's thread and its timer race   *)
(* to release the tool, so the invariant says what each stage of the       *)
(* callback still owes.  The touch frame follows the glass through two     *)
(* queues: the last event of whichever is filled tells where the finger    *)
(* is.  And sleep, awake and broken determine what is switched on.         *)
(***************************************************************************)

PtToolInv ==
    /\ ptIrq \in {"idle", "reported"} /\ ptCb \in {"idle", "took", "released"}
    /\ ~ptInside /\ ptCb = "released" => ~ptTool
    /\ ~ptInside /\ ptIrq = "idle" /\ ptCb = "took" => (ptTool => ptProx)
    /\ ~ptInside /\ ptIrq = "idle" /\ ptCb = "idle" => (ptTool => ptNear /\ ptProx)

PtSleepInv ==
    /\ PtSleepExact
    /\ ptDepth \in Int
    /\ ptUp => ~ptLpm /\ (ptWake => ptArming)
    /\ ~ptUp => ptScan # "normal"
    /\ ptArming => ptUp /\ ptWake
    /\ ~ptUp /\ ~ptBroken => ptDepth = IF ptLpm THEN 0 ELSE 1

PtTouchTypeOK ==
    /\ ptNear \in BOOLEAN
    /\ ptRun \in [on : BOOLEAN, todo : Seq({"down", "up"}), thru : BOOLEAN]
    /\ ptEvents \in Seq({"down", "up"})

\* Where the last thing known of the finger is: in the controller, in the frame
\* under way, or in the slot.
PtFollows == PtHeard(ptEvents, ptRun.todo, ptPend) => ptGlass

PtTouchInv ==
    /\ PtTouchTypeOK
    /\ ~ptRun.on => ptRun.todo = <<>>
    /\ ptRun.todo = <<>> /\ ptRun.thru => ~ptSlot /\ ~ptPend
    /\ ~ptLost => PtFollows
    /\ ~ptRun.on /\ ptSlot => ptPend \/ ptOwed

PtInv == PtToolInv /\ PtSleepInv /\ PtTouchInv

\* What the drivers have after probe.
LEMMA PtInvInit == PtInit => PtInv
<1> SUFFICES ASSUME PtInit PROVE PtInv
  OBVIOUS
<1>1. PtToolInv
  BY DEF PtInit, PtToolInv
<1>2. PtSleepInv
  BY DEF PtInit, PtSleepInv, PtSleepExact
<1>3. ptRun = [on |-> FALSE, todo |-> <<>>, thru |-> FALSE] /\ ptEvents = <<>>
  BY DEF PtInit, PtIdle
<1>4. PtTouchTypeOK
  <2>1. <<>> \in Seq({"down", "up"})
    OBVIOUS
  <2>2. ptRun \in [on : BOOLEAN, todo : Seq({"down", "up"}), thru : BOOLEAN]
    BY <1>3, <2>1
  <2> QED
    BY <1>3, <2>1, <2>2 DEF PtInit, PtTouchTypeOK
<1>5. ~ptRun.on /\ ptRun.todo = <<>> /\ ~ptRun.thru
  BY <1>3
<1>6. PtTouchInv
  BY <1>3, <1>4, <1>5 DEF PtInit, PtTouchInv, PtFollows, PtHeard
<1> QED
  BY <1>1, <1>2, <1>6 DEF PtInv

\* wacom_wez01_leave_range releases the tool when nothing runs beside it.
LEMMA PtLeaveRangeReleases ==
  ASSUME PtToolInv, ptIrq = "idle", ptCb = "idle", PtLeaveRange
  PROVE  ~ptNear' /\ (~ptInside => ~ptTool')
<1>1. ptTool' => ptTool /\ ~(ptNear /\ ptProx)
  BY Zenon DEF PtLeaveRange
<1>2. ~ptNear'
  BY DEF PtLeaveRange
<1> QED
  BY <1>1, <1>2 DEF PtToolInv

\* The race between the pen's interrupt thread and the silence timer.
LEMMA PtToolStep == PtToolInv /\ [PtNext]_ptVars => PtToolInv'
<1> SUFFICES ASSUME PtToolInv, [PtNext]_ptVars PROVE PtToolInv'
  OBVIOUS
<1>1. CASE PtPenMoves \/ PtPenLost \/ PtPenResume
  BY <1>1 DEF PtPenMoves, PtPenLost, PtPenResume, PtToolInv
<1>2. CASE PtPenOut
  BY <1>2, PtLeaveRangeReleases DEF PtPenOut, PtToolInv
<1>3. CASE PtPenReport
  <2>1. ~ptInside' => ptCb = "idle"
    BY <1>3, Zenon DEF PtPenReport
  <2> QED
    BY <1>3, <2>1 DEF PtPenReport, PtToolInv
<1>4. CASE PtPenArm
  <2>1. ptProx' /\ ptNear'
    BY <1>4 DEF PtPenArm
  <2> QED
    BY <1>4, <2>1 DEF PtPenArm, PtToolInv
<1>5. CASE PtTimerFires
  <2>1. CASE ptNear
    BY <1>5, <2>1 DEF PtTimerFires, PtToolInv
  <2>2. CASE ~ptNear
    BY <1>5, <2>2 DEF PtTimerFires, PtToolInv
  <2> QED
    BY <2>1, <2>2
<1>6. CASE PtTimerRelease
  <2>1. ptTool' => ptTool /\ ~ptProx
    BY <1>6, Zenon DEF PtTimerRelease
  <2> QED
    BY <1>6, <2>1 DEF PtTimerRelease, PtToolInv
<1>7. CASE PtTimerClear
  BY <1>7 DEF PtTimerClear, PtToolInv
<1>8. CASE PtPenSuspend
  BY <1>8, PtLeaveRangeReleases DEF PtPenSuspend, PtToolInv
<1>9. CASE PtFinger \/ PtTouchStep \/ PtDtwStore \/ PtSuspendRelease \/ PtSuspendArmed
           \/ PtResumeArmed \/ PtResumeOff
  BY <1>9 DEF PtFinger, PtTouchStep, PtTouchIrq, PtTouchEvent, PtTouchEnd, PtDtwStore,
     PtSuspendRelease, PtSuspendArmed, PtResumeArmed, PtResumeOff, ptPenVars, PtToolInv
<1>10. ASSUME NEW f \in {"none", "irq_wake", "arm"}, PtSuspendOff(f) PROVE PtToolInv'
  BY <1>10 DEF PtSuspendOff, ptPenVars, PtToolInv
<1>11. CASE UNCHANGED ptVars
  BY <1>11 DEF ptVars, ptPenVars, PtToolInv
<1> QED
  BY <1>1, <1>2, <1>3, <1>4, <1>5, <1>6, <1>7, <1>8, <1>9, <1>10, <1>11
     DEF PtNext, PtPenStep, PtTimerStep

\* What is switched on, through suspends and resumes of both kinds.
LEMMA PtSleepStep == PtSleepInv /\ [PtNext]_ptVars => PtSleepInv'
<1> SUFFICES ASSUME PtSleepInv, [PtNext]_ptVars PROVE PtSleepInv'
  OBVIOUS
<1> USE DEF PtSleepInv, PtSleepExact
<1>1. CASE UNCHANGED ptPmVars
  BY <1>1 DEF ptPmVars
<1>2. CASE PtDtwStore
  BY <1>2 DEF PtDtwStore
<1>3. CASE PtSuspendRelease \/ PtSuspendArmed
  BY <1>3 DEF PtSuspendRelease, PtSuspendArmed
<1>4. CASE PtResumeArmed
  BY <1>4 DEF PtResumeArmed, PtMayFail
<1>5. CASE PtResumeOff
  <2>1. ptUp' /\ ptLpm' = ptLpm /\ ptWake' = ptWake /\ ptArming' = ptArming /\ ~ptUp /\ ~ptLpm
    BY <1>5 DEF PtResumeOff
  <2>2. CASE /\ ptRails' = TRUE /\ ptScan' = "normal" /\ ptDepth' = ptDepth - 1
             /\ UNCHANGED <<ptFails, ptBroken>>
    BY <2>1, <2>2
  <2>3. CASE ptBroken' = TRUE /\ UNCHANGED <<ptScan, ptDepth>>
    <3>1. ptBroken'
      BY <2>3
    <3> QED
      BY <2>1, <2>3, <3>1
  <2> QED
    BY <1>5, <2>2, <2>3 DEF PtResumeOff
<1>6. ASSUME NEW f \in {"none", "irq_wake", "arm"}, PtSuspendOff(f) PROVE PtSleepInv'
  BY <1>6 DEF PtSuspendOff
<1>7. CASE PtPenMoves \/ PtPenLost \/ PtPenStep \/ PtTimerStep \/ PtPenSuspend \/ PtPenResume
           \/ PtFinger \/ PtTouchStep
  BY <1>1, <1>7 DEF PtPenMoves, PtPenLost, PtPenStep, PtPenOut, PtPenReport, PtPenArm, PtTimerStep,
     PtTimerFires, PtTimerRelease, PtTimerClear, PtPenSuspend, PtPenResume, PtFinger, PtTouchStep,
     PtTouchIrq, PtTouchEvent, PtTouchEnd
<1>8. CASE UNCHANGED ptVars
  BY <1>1, <1>8 DEF ptVars
<1> QED
  BY <1>2, <1>3, <1>4, <1>5, <1>6, <1>7, <1>8 DEF PtNext

\* PtLose owns up to a contact whose end is lost.
LEMMA PtLosing == PtLose => (~ptLost' => PtFollows')
<1> SUFFICES ASSUME PtLose, ~ptLost' PROVE PtFollows'
  OBVIOUS
<1>1. ~(PtHeard(ptEvents', ptRun'.todo, ptPend') /\ ~ptGlass')
  BY Zenon DEF PtLose
<1> QED
  BY <1>1 DEF PtFollows

\* The controller's queue, the frame and the slot keep up with the glass.
LEMMA PtTouchStepKeeps == PtTouchInv /\ [PtNext]_ptVars => PtTouchInv'
<1> SUFFICES ASSUME PtTouchInv, [PtNext]_ptVars PROVE PtTouchInv'
  OBVIOUS
<1> USE DEF PtTouchInv
<1> DEFINE Ev == {"down", "up"}
<1>0. /\ ptRun.on \in BOOLEAN /\ ptRun.todo \in Seq(Ev) /\ ptRun.thru \in BOOLEAN
      /\ ptEvents \in Seq(Ev) /\ ptNear \in BOOLEAN
  BY DEF PtTouchTypeOK
<1>1. CASE PtPenMoves \/ PtPenLost \/ PtPenStep \/ PtTimerStep \/ PtPenSuspend \/ PtPenResume
  <2>1. UNCHANGED ptTouchVars /\ UNCHANGED ptPmVars
    BY <1>1 DEF PtPenMoves, PtPenLost, PtPenStep, PtPenOut, PtPenReport, PtPenArm, PtTimerStep,
       PtTimerFires, PtTimerRelease, PtTimerClear, PtPenSuspend, PtPenResume
  <2>2. ptNear' \in BOOLEAN
    BY <1>0, <1>1 DEF PtPenMoves, PtPenLost, PtPenStep, PtPenOut, PtPenReport, PtPenArm, PtTimerStep,
       PtTimerFires, PtTimerRelease, PtTimerClear, PtPenSuspend, PtPenResume, PtLeaveRange
  <2> QED
    BY <2>1, <2>2 DEF ptTouchVars, ptPmVars, PtTouchTypeOK, PtFollows, PtHeard
<1>2. CASE PtFinger
  <2>1. /\ ptRun' = ptRun /\ ptPend' = ptPend /\ ptSlot' = ptSlot /\ ptOwed' = ptOwed
        /\ ptNear' = ptNear
    BY <1>2 DEF PtFinger, ptPenVars
  <2>2. CASE ptScan = "normal"
    <3> DEFINE e == IF ptGlass' THEN "down" ELSE "up"
    <3>1. ptEvents' = Append(ptEvents, e) /\ e \in Ev /\ (e = "down" => ptGlass') /\ ptLost' = ptLost
      BY <1>2, <2>2 DEF PtFinger
    <3> HIDE DEF e
    <3>2. ptEvents' \in Seq(Ev) /\ ptEvents' # <<>> /\ ptEvents'[Len(ptEvents')] = e
      BY <1>0, <3>1
    <3>3. PtFollows'
      BY <3>1, <3>2 DEF PtFollows, PtHeard
    <3> QED
      BY <2>1, <3>2, <3>3 DEF PtTouchTypeOK
  <2>3. CASE ptScan # "normal"
    <3>1. ptEvents' = ptEvents /\ PtLose
      BY <1>2, <2>3 DEF PtFinger
    <3>2. ~ptLost' => PtFollows'
      BY <3>1, PtLosing
    <3> QED
      BY <2>1, <3>1, <3>2 DEF PtTouchTypeOK
  <2> QED
    BY <2>2, <2>3
<1>3. CASE PtTouchIrq
  <2>1. PICK all \in BOOLEAN :
          ptRun' = [on |-> TRUE, todo |-> IF all THEN ptEvents ELSE <<Head(ptEvents)>>, thru |-> ptNear]
    BY <1>3 DEF PtTouchIrq
  <2>2. /\ ptEvents # <<>> /\ ptEvents' = <<>> /\ ptPend' = ptPend
        /\ ptSlot' = ptSlot /\ ptNear' = ptNear /\ PtLose
    BY <1>3 DEF PtTouchIrq, ptPenVars
  <2> DEFINE t == IF all THEN ptEvents ELSE <<Head(ptEvents)>>
  <2>3. Head(ptEvents) \in Ev /\ Len(ptEvents) \in Nat \ {0}
    BY <1>0, <2>2
  <2>4. t \in Seq(Ev) /\ t # <<>>
    <3>1. CASE all
      BY <1>0, <2>2, <3>1
    <3>2. CASE ~all
      <4>1. <<Head(ptEvents)>> \in Seq(Ev) /\ <<Head(ptEvents)>> # <<>>
        BY <2>3
      <4> QED
        BY <3>2, <4>1
    <3> QED
      BY <3>1, <3>2
  <2> HIDE DEF t
  <2>7. ptRun'.on /\ ptRun'.todo = t /\ ptRun' = [on |-> TRUE, todo |-> t, thru |-> ptNear]
    BY <2>1 DEF t
  <2>8. ~ptLost' => PtFollows'
    BY <2>2, PtLosing
  <2>9. PtTouchTypeOK'
    BY <1>0, <2>2, <2>4, <2>7 DEF PtTouchTypeOK
  <2> QED
    BY <2>2, <2>4, <2>7, <2>8, <2>9
<1>4. CASE PtTouchEvent
  <2> DEFINE t == IF ptNear THEN <<>> ELSE Tail(ptRun.todo)
  <2>1. /\ ptRun' = [ptRun EXCEPT !.todo = IF ptNear THEN <<>> ELSE Tail(@), !.thru = @ /\ ptNear]
        /\ ptRun.todo # <<>> /\ ptEvents' = ptEvents /\ ptGlass' = ptGlass
        /\ ptNear' = ptNear
    BY <1>4 DEF PtTouchEvent, ptPenVars
  <2>2. ptPend' => ~ptNear /\ Head(ptRun.todo) = "down"
    BY <1>4, Zenon DEF PtTouchEvent
  <2>3. ptSlot' => ptSlot /\ ~ptNear
    BY <1>4, Zenon DEF PtTouchEvent
  <2>4. t \in Seq(Ev)
    BY <1>0, <2>1
  <2>5. t # <<>> => t[Len(t)] = ptRun.todo[Len(ptRun.todo)]
    BY <1>0, <2>1
  <2>6. t = <<>> /\ ~ptNear => Head(ptRun.todo) = ptRun.todo[Len(ptRun.todo)]
    <3>1. Len(Tail(ptRun.todo)) = Len(ptRun.todo) - 1 /\ Len(ptRun.todo) \in Nat
      BY <1>0, <2>1
    <3>2. ASSUME t = <<>>, ~ptNear PROVE Len(ptRun.todo) = 1
      <4>1. Tail(ptRun.todo) = <<>>
        BY <3>2
      <4>2. Len(<<>>) = 0
        OBVIOUS
      <4>3. Len(Tail(ptRun.todo)) = 0
        BY <4>1, <4>2, Zenon
      <4> QED
        BY <3>1, <4>3
    <3>3. Head(ptRun.todo) = ptRun.todo[1]
      BY <1>0, <2>1
    <3> QED
      BY <3>2, <3>3
  <2>7. ptRun'.on = ptRun.on /\ ptRun'.todo = t /\ ptRun'.thru = (ptRun.thru /\ ptNear)
        /\ ptRun' = [on |-> ptRun.on, todo |-> t, thru |-> ptRun.thru /\ ptNear]
    BY <2>1 DEF PtTouchTypeOK
  <2> HIDE DEF t
  <2>8. ~ptLost' => PtFollows'
    <3>1. ~ptLost' => ~ptLost \/ ~PtHeard(ptEvents', ptRun'.todo, ptPend')
      BY <1>4, <2>1, Zenon DEF PtTouchEvent
    <3>2. PtHeard(ptEvents', ptRun'.todo, ptPend') => PtHeard(ptEvents, ptRun.todo, ptPend)
      BY <2>1, <2>2, <2>5, <2>6, <2>7 DEF PtHeard
    <3> QED
      BY <2>1, <3>1, <3>2 DEF PtFollows
  <2>9. PtTouchTypeOK'
    BY <1>0, <2>1, <2>4, <2>7 DEF PtTouchTypeOK
  <2>10. ptRun'.thru => ptNear
    BY <2>7, Zenon
  <2>11. ptRun.on
    BY <1>0, <2>1
  <2>12. ptRun'.on
    BY <2>7, <2>11
  <2> QED
    BY <2>1, <2>2, <2>3, <2>8, <2>9, <2>10, <2>11, <2>12
<1>5. CASE PtTouchEnd
  <2>1. /\ ptRun.on /\ ptRun.todo = <<>> /\ ptRun' = [ptRun EXCEPT !.on = FALSE]
        /\ ptSlot' = (IF ptNear THEN ptSlot ELSE ptPend) /\ ptEvents' = ptEvents /\ ptGlass' = ptGlass
        /\ ptLost' = ptLost /\ ptPend' = ptPend /\ ptNear' = ptNear
    BY <1>5 DEF PtTouchEnd, ptPenVars
  <2>2. ptRun'.todo = <<>> /\ ptRun'.thru = ptRun.thru /\ ptRun'.on = FALSE
        /\ ptRun' = [on |-> FALSE, todo |-> <<>>, thru |-> ptRun.thru]
    BY <2>1 DEF PtTouchTypeOK
  <2>3. PtTouchTypeOK'
    BY <1>0, <2>1, <2>2 DEF PtTouchTypeOK
  <2>4. ~ptLost' => PtFollows'
    BY <2>1, <2>2 DEF PtFollows, PtHeard
  <2>5. ptSlot' => ptPend' \/ ptOwed'
    <3>1. CASE ptNear
      <4>1. ptOwed' = (ptNear /\ (ptOwed \/ ~(ptSlot <=> ptPend)))
        BY <1>5 DEF PtTouchEnd
      <4>2. ~(ptSlot <=> ptPend) => ptOwed'
        BY <3>1, <4>1, Zenon
      <4>3. ptSlot' = ptSlot /\ ptPend' = ptPend
        BY <2>1, <3>1
      <4> QED
        BY <4>2, <4>3
    <3>2. CASE ~ptNear
      BY <2>1, <3>2
    <3> QED
      BY <3>1, <3>2
  <2> QED
    BY <2>1, <2>2, <2>3, <2>4, <2>5
<1>6. CASE PtDtwStore \/ PtSuspendArmed \/ PtResumeOff
  BY <1>6 DEF PtDtwStore, PtSuspendArmed, PtResumeOff, ptPenVars, ptTouchVars, PtTouchTypeOK, PtFollows, PtHeard
<1>7. CASE PtSuspendRelease
  <2>1. /\ ptRun' = ptRun /\ ptPend' = FALSE /\ ptSlot' = FALSE /\ ptEvents' = ptEvents
        /\ ptGlass' = ptGlass /\ ptLost' = ptLost /\ ptNear' = ptNear
    BY <1>7 DEF PtSuspendRelease, ptPenVars
  <2> QED
    BY <1>0, <2>1 DEF PtTouchTypeOK, PtFollows, PtHeard
<1>8. CASE PtResumeArmed
  <2>1. /\ ptRun' = ptRun /\ ptPend' = ptPend /\ ptSlot' = ptSlot /\ ptOwed' = ptOwed
        /\ ptGlass' = ptGlass /\ ptNear' = ptNear
    BY <1>8 DEF PtResumeArmed, ptPenVars
  <2>2. CASE ptEvents' = ptEvents /\ ptLost' = ptLost
    BY <2>1, <2>2 DEF PtTouchTypeOK, PtFollows, PtHeard
  <2>3. CASE ptEvents' = <<>> /\ PtLose
    BY <1>0, <2>1, <2>3, PtLosing DEF PtTouchTypeOK
  <2> QED
    BY <1>8, <2>2, <2>3 DEF PtResumeArmed
<1>9. ASSUME NEW f \in {"none", "irq_wake", "arm"}, PtSuspendOff(f) PROVE PtTouchInv'
  <2>1. /\ ptRun' = ptRun /\ ptEvents' = <<>> /\ ptPend' = ptPend /\ ptSlot' = ptSlot
        /\ ptOwed' = ptOwed /\ ptNear' = ptNear /\ PtLose
    BY <1>9 DEF PtSuspendOff, ptPenVars
  <2> QED
    BY <1>0, <2>1, PtLosing DEF PtTouchTypeOK
<1>10. CASE UNCHANGED ptVars
  BY <1>10 DEF ptVars, ptPenVars, ptTouchVars, ptPmVars, PtTouchTypeOK, PtFollows, PtHeard
<1> QED
  BY <1>1, <1>2, <1>3, <1>4, <1>5, <1>6, <1>7, <1>8, <1>9, <1>10 DEF PtNext, PtTouchStep

\* Pen and touch, for any length of the controller's queue and any number of
\* failures: the tool is released by the thread or the timer, a palm under the pen
\* leaves no contact, a finger that has lifted is neither reported nor shown (but for lost
\* events and frames that end under the pen), and a sleeping touchscreen has on what its wake gesture needs, or nothing.
THEOREM PtSafety == PtSpec => []PtSafe
<1>1. PtInv => PtSafe
  BY DEF PtInv, PtToolInv, PtSleepInv, PtTouchInv, PtFollows, PtHeard, PtSafe, PtToolReleased, PtPalmRejected, PtNoPhantom
<1>2. PtInv /\ [PtNext]_ptVars => PtInv'
  BY PtToolStep, PtSleepStep, PtTouchStepKeeps DEF PtInv
<1> QED
  BY <1>1, <1>2, PtInvInit, PTL DEF PtSpec
=============================================================================
