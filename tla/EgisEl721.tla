----------------------------- MODULE EgisEl721 -----------------------------
(***************************************************************************)
(* The fingerprint sensor's companion driver, src/kernel/files/            *)
(* egis_el721.c: lazily acquired supply and lines, power sequencing under  *)
(* one mutex from ioctls and sysfs, and a structure that open files keep   *)
(* alive after the device is gone.                                         *)
(*                                                                         *)
(* A call is two steps, entering it and running it under the mutex, so     *)
(* that removal may come in between.                                       *)
(***************************************************************************)
EXTENDS Integers, FiniteSets

CONSTANTS FpFiles,   \* file descriptors user space may open
          FpMaxBind  \* bound: how often the driver is bound

ASSUME FpAssumption == IsFiniteSet(FpFiles) /\ FpMaxBind \in Nat

VARIABLES
    fpStage,    \* where probe or remove is
    fpBinds,    \* how often the driver was bound
    fpFile,     \* each file: "closed", "open", or inside el721_ioctl: "calling"
    fpSysfs,    \* a writer is inside power_store or reset_store
    fpRef,      \* refcount
    fpAlive,    \* the structure is allocated
    fpRemoving, \* removing
    fpPowered,  \* powered
    fpVdd,      \* vdd: "none", the "dummy" regulator, or the "rail"
    fpLines,    \* ldo_gpio and enable_gpio have been requested
    fpUses,     \* enables of vdd not yet undone
    fpEnable,   \* level of the enable line
    fpPublished \* the rail's nodes are in the live device tree

fpLife == <<fpStage, fpBinds, fpFile, fpSysfs, fpRef, fpAlive, fpRemoving>>
fpPower == <<fpPowered, fpVdd, fpLines, fpUses, fpEnable, fpPublished>>
fpVars == <<fpLife, fpPower>>

FpInit ==
    /\ fpStage = "none" /\ fpBinds = 0 /\ fpFile = [f \in FpFiles |-> "closed"]
    /\ fpSysfs = FALSE /\ fpRef = 0 /\ fpAlive = FALSE /\ fpRemoving = FALSE
    /\ fpPowered = FALSE /\ fpVdd = "none" /\ fpLines = FALSE /\ fpUses = 0
    /\ fpEnable = FALSE /\ fpPublished = FALSE

-----------------------------------------------------------------------------
(* Power, under the mutex.                                                 *)

FpBalance(n) == fpUses' = IF fpVdd' = "none" THEN fpUses ELSE fpUses + n

\* el721_prepare_hardware_locked.  Publishing the rail may fail (el721_publish_rail
\* undoes its own steps); a device without a supply gets the dummy regulator, and a
\* regulator that does not come up in time none.  The lines may be refused.
FpPrepare(ok) ==
    /\ IF fpVdd # "none" THEN UNCHANGED <<fpVdd, fpPublished>>
       ELSE /\ fpPublished' \in {fpPublished, TRUE}
            /\ fpVdd' \in IF fpPublished' THEN {"rail", "none"} ELSE {"dummy"}
    /\ fpLines' = (fpLines \/ ok)
    /\ ok \/ ~fpLines

\* el721_power_on_locked, by the step that fails: requesting ("lines"), the
\* supply ("vdd"), a line ("gpio", where the supply is given back), or none.
FpPowerOn(fail) ==
    /\ ~fpPowered
    /\ \/ fail = "lines" /\ FpPrepare(FALSE) /\ UNCHANGED <<fpPowered, fpUses, fpEnable>>
       \/ fail = "vdd" /\ FpPrepare(TRUE) /\ fpVdd' # "none" /\ UNCHANGED <<fpPowered, fpUses, fpEnable>>
       \/ fail = "gpio" /\ FpPrepare(TRUE) /\ UNCHANGED <<fpPowered, fpUses, fpEnable>>
       \/ fail = "none" /\ FpPrepare(TRUE) /\ FpBalance(1) /\ fpPowered' = TRUE /\ fpEnable' = TRUE

\* el721_power_off_locked.
FpPowerOff ==
    IF ~fpPowered THEN UNCHANGED fpPower
    ELSE /\ fpEnable' = FALSE /\ fpPowered' = FALSE
         /\ UNCHANGED <<fpVdd, fpLines, fpPublished>> /\ FpBalance(-1)

\* el721_reset_locked leaves the line high, el721_reset_control_locked as asked.
FpLine(level) ==
    /\ fpPowered /\ fpEnable' = level
    /\ UNCHANGED <<fpPowered, fpVdd, fpLines, fpUses, fpPublished>>

\* el721_run_transfer_locked: the transfers that change power, and the others.
FpTransfer ==
    \/ \E fail \in {"lines", "vdd", "gpio", "none"} : FpPowerOn(fail)
    \/ FpPowerOff \/ UNCHANGED fpPower
    \/ \E level \in BOOLEAN : FpLine(level)

-----------------------------------------------------------------------------
(* Files and sysfs.                                                        *)

FpNode == fpStage \in {"misc", "bound", "sysfs_gone"}   \* /dev/esfp0 exists

\* el721_open takes a reference.
FpOpen(f) ==
    /\ FpNode /\ fpFile[f] = "closed" /\ ~fpRemoving
    /\ fpFile' = [fpFile EXCEPT ![f] = "open"] /\ fpRef' = fpRef + 1
    /\ UNCHANGED <<fpStage, fpBinds, fpSysfs, fpAlive, fpRemoving, fpPower>>
\* el721_ioctl before and after the mutex is taken; a removed device is -ENODEV.
FpIoctl(f) ==
    /\ fpFile[f] = "open" /\ fpFile' = [fpFile EXCEPT ![f] = "calling"]
    /\ UNCHANGED <<fpStage, fpBinds, fpSysfs, fpRef, fpAlive, fpRemoving, fpPower>>
MutFpIoctlRun(f) ==
    /\ fpFile[f] = "calling" /\ fpFile' = [fpFile EXCEPT ![f] = "open"]
    /\ FpTransfer
    /\ UNCHANGED <<fpStage, fpBinds, fpSysfs, fpRef, fpAlive, fpRemoving>>
FpIoctlRun(f) ==
    /\ fpFile[f] = "calling" /\ fpFile' = [fpFile EXCEPT ![f] = "open"]
    /\ IF fpRemoving THEN UNCHANGED fpPower ELSE FpTransfer
    /\ UNCHANGED <<fpStage, fpBinds, fpSysfs, fpRef, fpAlive, fpRemoving>>
\* kref_put frees with the last reference.
FpPutRef == fpRef' = fpRef - 1 /\ fpAlive' = (fpRef' > 0)
FpRelease(f) ==
    /\ fpFile[f] = "open" /\ fpFile' = [fpFile EXCEPT ![f] = "closed"] /\ FpPutRef
    /\ UNCHANGED <<fpStage, fpBinds, fpSysfs, fpRemoving, fpPower>>

\* power_store and reset_store.
FpSysfs ==
    /\ fpStage = "bound" /\ ~fpSysfs /\ fpSysfs' = TRUE
    /\ UNCHANGED <<fpStage, fpBinds, fpFile, fpRef, fpAlive, fpRemoving, fpPower>>
FpSysfsRun ==
    /\ fpSysfs /\ fpSysfs' = FALSE
    /\ IF fpRemoving THEN UNCHANGED fpPower ELSE FpTransfer
    /\ UNCHANGED <<fpStage, fpBinds, fpFile, fpRef, fpAlive, fpRemoving>>

-----------------------------------------------------------------------------
(* Probe, suspend, shutdown and remove.                                    *)

\* el721_probe: the node is there before the attributes, which may fail.  A
\* second binding, with a structure of its own, is followed only once the files of
\* the first are closed.
FpProbe ==
    /\ fpStage = "none" /\ fpBinds < FpMaxBind
    /\ \A f \in FpFiles : fpFile[f] = "closed"
    /\ fpStage' = "misc" /\ fpBinds' = fpBinds + 1
    /\ fpRef' = 1 /\ fpAlive' = TRUE /\ fpRemoving' = FALSE
    /\ UNCHANGED <<fpFile, fpSysfs, fpPower>>
FpProbeDone ==
    /\ fpStage = "misc" /\ fpStage' = "bound"
    /\ UNCHANGED <<fpBinds, fpFile, fpSysfs, fpRef, fpAlive, fpRemoving, fpPower>>

\* The first step of el721_remove and of probe's error path; el721_shutdown
\* is this step alone.
FpStop ==
    /\ fpStage \in {"misc", "bound"} /\ ~fpRemoving
    /\ fpRemoving' = TRUE /\ FpPowerOff
    /\ fpStage' = "sysfs_gone"
    /\ UNCHANGED <<fpBinds, fpFile, fpSysfs, fpRef, fpAlive>>
\* device_remove_group waits for writers; misc_deregister; the last kref_put of
\* the driver; devres gives back supply and lines.
FpRemoved ==
    /\ fpStage = "sysfs_gone" /\ ~fpSysfs
    /\ fpStage' = "none" /\ FpPutRef
    /\ fpVdd' = "none" /\ fpLines' = FALSE
    /\ UNCHANGED <<fpBinds, fpFile, fpSysfs, fpRemoving, fpPowered, fpUses, fpEnable, fpPublished>>

\* el721_suspend; nothing is restored on resume.
FpSuspend ==
    /\ fpStage = "bound" /\ fpPowered /\ FpPowerOff
    /\ UNCHANGED fpLife

FpNext ==
    \/ \E f \in FpFiles : FpOpen(f) \/ FpIoctl(f) \/ FpIoctlRun(f) \/ FpRelease(f)
    \/ FpSysfs \/ FpSysfsRun \/ FpProbe \/ FpProbeDone \/ FpStop \/ FpRemoved \/ FpSuspend

FpSpec == FpInit /\ [][FpNext]_fpVars

-----------------------------------------------------------------------------
(* Properties.                                                             *)

\* The supply is enabled exactly while the sensor is powered, whichever step of
\* power-on failed, whoever asked, and whatever regulator each attempt found.
FpSupplyBalanced ==
    /\ ~fpPowered => fpUses = 0
    /\ fpPowered => fpUses = IF fpVdd = "none" THEN 0 ELSE 1

\* Once removal has switched the sensor off it stays off: a call that was already
\* on its way does not power it again.
FpStaysOff == fpRemoving \/ fpStage = "none" => ~fpPowered /\ ~fpEnable

\* The structure outlives the device for files that are open and calls in
\* progress, and no longer.
FpAliveWhileUsed ==
    fpAlive <=> (fpStage # "none" \/ fpSysfs \/ \E f \in FpFiles : fpFile[f] # "closed")

\* Power, supply and structure fit one another, whoever calls while the device goes.
FpSafe == FpSupplyBalanced /\ FpStaysOff /\ FpAliveWhileUsed
=============================================================================
