----------------------------- MODULE SpHlosHeap -----------------------------
(***************************************************************************)
(* The heap of buffers shared with the secure processor,                   *)
(* src/kernel/files/spu/qcom_sp_hlos_heap.c: allocation from CMA, the      *)
(* change of the pages' owners by the hypervisor (SCM), attachments, CPU   *)
(* access, kernel mappings, and release, with any of its calls failing.    *)
(***************************************************************************)
EXTENDS Integers, FiniteSets

CONSTANTS HpBlocks,   \* page ranges cma_alloc can give out
          HpDevs,     \* devices that attach to a buffer
          HpCpus,     \* processes that access buffers
          HpMaxMap,   \* bound: vmap_count
          HpNone

ASSUME HpAssumption == HpMaxMap \in Nat /\ HpNone \notin HpBlocks \cup HpDevs

VARIABLES
    hpPlace,  \* each block: "pool", "taken" (allocation under way), "buffer", "lost"
    hpOwners, \* who the hypervisor lets see it
    hpDirty,  \* it holds data of the kernel's
    hpAtt,    \* buffer->attachments: the devices in the list
    hpMapped, \* their a->mapped
    hpVmap,   \* vmap_count
    hpVaddr,  \* buffer->vaddr is set
    hpSync,   \* per process: [b, left] the loop of begin_ or end_cpu_access, under lock
    hpStep    \* the allocation under way: [b, at], at \in cma, pages, shared

hpVars == <<hpPlace, hpOwners, hpDirty, hpAtt, hpMapped, hpVmap, hpVaddr, hpSync, hpStep>>

HpNoSync == [b |-> HpNone, left |-> {}]
HpNoStep == [b |-> HpNone, at |-> "none"]

HpInit ==
    /\ hpPlace = [b \in HpBlocks |-> "pool"] /\ hpOwners = [b \in HpBlocks |-> {"HLOS"}]
    /\ hpDirty = [b \in HpBlocks |-> TRUE]
    /\ hpAtt = [b \in HpBlocks |-> {}] /\ hpMapped = [b \in HpBlocks |-> {}]
    /\ hpVmap = [b \in HpBlocks |-> 0] /\ hpVaddr = [b \in HpBlocks |-> FALSE]
    /\ hpSync = [p \in HpCpus |-> HpNoSync] /\ hpStep = HpNoStep

-----------------------------------------------------------------------------
(* sp_hlos_allocate.                                                       *)

\* cma_alloc and the clearing of the pages.
HpCma(b) ==
    /\ hpStep = HpNoStep /\ hpPlace[b] = "pool"
    /\ hpPlace' = [hpPlace EXCEPT ![b] = "taken"]
    /\ hpDirty' = [hpDirty EXCEPT ![b] = FALSE]
    /\ hpStep' = [b |-> b, at |-> "cma"]
    /\ UNCHANGED <<hpOwners, hpAtt, hpMapped, hpVmap, hpVaddr, hpSync>>

\* qcom_scm_assign_mem to HLOS and SPSS.
HpShare ==
    LET b == hpStep.b
    IN /\ hpStep.at = "cma"
       /\ hpOwners' = [hpOwners EXCEPT ![b] = {"HLOS", "SPSS"}]
       /\ hpStep' = [hpStep EXCEPT !.at = "shared"]
       /\ UNCHANGED <<hpPlace, hpDirty, hpAtt, hpMapped, hpVmap, hpVaddr, hpSync>>

\* No memory for the page list, or SCM refuses: free_pages, free_cma.
HpShareFails ==
    /\ hpStep.at = "cma"
    /\ hpPlace' = [hpPlace EXCEPT ![hpStep.b] = "pool"]
    /\ hpDirty' = [hpDirty EXCEPT ![hpStep.b] = TRUE]    \* the pool uses it again
    /\ hpStep' = HpNoStep
    /\ UNCHANGED <<hpOwners, hpAtt, hpMapped, hpVmap, hpVaddr, hpSync>>

HpExport ==
    /\ hpStep.at = "shared"
    /\ hpPlace' = [hpPlace EXCEPT ![hpStep.b] = "buffer"]
    /\ hpStep' = HpNoStep
    /\ UNCHANGED <<hpOwners, hpDirty, hpAtt, hpMapped, hpVmap, hpVaddr, hpSync>>

\* Giving pages back: reclaimed by SCM they return to CMA; otherwise they are
\* quarantined, neither used nor released.
MutHpGiveBack(b, scm) ==
    /\ hpOwners' = [hpOwners EXCEPT ![b] = IF scm THEN {"HLOS"} ELSE @]
    /\ hpPlace' = [hpPlace EXCEPT ![b] = "pool"]
    /\ hpDirty' = [hpDirty EXCEPT ![b] = TRUE]
HpGiveBack(b, scm) ==
    /\ hpOwners' = [hpOwners EXCEPT ![b] = IF scm THEN {"HLOS"} ELSE @]
    /\ hpPlace' = [hpPlace EXCEPT ![b] = IF scm THEN "pool" ELSE "lost"]
    /\ hpDirty' = [hpDirty EXCEPT ![b] = scm]

\* dma_buf_export fails: the pages are reclaimed, or quarantined.
HpExportFails(scm) ==
    /\ hpStep.at = "shared"
    /\ HpGiveBack(hpStep.b, scm)
    /\ hpStep' = HpNoStep
    /\ UNCHANGED <<hpAtt, hpMapped, hpVmap, hpVaddr, hpSync>>

\* sp_hlos_release, when the last reference of the dma_buf goes: nobody is attached
\* or inside an access; a kernel mapping left behind is unmapped.
HpRelease(b, scm) ==
    /\ hpPlace[b] = "buffer" /\ hpAtt[b] = {} /\ \A p \in HpCpus : hpSync[p].b # b
    /\ HpGiveBack(b, scm)
    /\ hpVmap' = [hpVmap EXCEPT ![b] = 0] /\ hpVaddr' = [hpVaddr EXCEPT ![b] = FALSE]
    /\ UNCHANGED <<hpAtt, hpMapped, hpSync, hpStep>>

-----------------------------------------------------------------------------
(* Users of a buffer.                                                      *)

HpLocked(b) == \E p \in HpCpus : hpSync[p].b = b

HpAttach(b, d) ==
    /\ hpPlace[b] = "buffer" /\ d \notin hpAtt[b] /\ ~HpLocked(b)
    /\ hpAtt' = [hpAtt EXCEPT ![b] = @ \cup {d}]
    /\ UNCHANGED <<hpPlace, hpOwners, hpDirty, hpMapped, hpVmap, hpVaddr, hpSync, hpStep>>

HpDetach(b, d) ==
    /\ d \in hpAtt[b] /\ d \notin hpMapped[b] /\ ~HpLocked(b)
    /\ hpAtt' = [hpAtt EXCEPT ![b] = @ \ {d}]
    /\ UNCHANGED <<hpPlace, hpOwners, hpDirty, hpMapped, hpVmap, hpVaddr, hpSync, hpStep>>

\* sp_hlos_map_dma_buf and sp_hlos_unmap_dma_buf, which take no lock.
HpMap(b, d) ==
    /\ d \in hpAtt[b] \ hpMapped[b]
    /\ hpMapped' = [hpMapped EXCEPT ![b] = @ \cup {d}]
    /\ UNCHANGED <<hpPlace, hpOwners, hpDirty, hpAtt, hpVmap, hpVaddr, hpSync, hpStep>>
HpUnmap(b, d) ==
    /\ d \in hpMapped[b]
    /\ hpMapped' = [hpMapped EXCEPT ![b] = @ \ {d}]
    /\ UNCHANGED <<hpPlace, hpOwners, hpDirty, hpAtt, hpVmap, hpVaddr, hpSync, hpStep>>

\* sp_hlos_begin_cpu_access and sp_hlos_end_cpu_access: the loop over the list.
HpSyncBegin(p, b) ==
    /\ hpSync[p] = HpNoSync /\ hpPlace[b] = "buffer" /\ ~HpLocked(b)
    /\ hpSync' = [hpSync EXCEPT ![p] = [b |-> b, left |-> hpAtt[b]]]
    /\ UNCHANGED <<hpPlace, hpOwners, hpDirty, hpAtt, hpMapped, hpVmap, hpVaddr, hpStep>>
HpSyncOne(p, d) ==
    /\ d \in hpSync[p].left
    /\ hpSync' = [hpSync EXCEPT ![p].left = @ \ {d}]
    /\ UNCHANGED <<hpPlace, hpOwners, hpDirty, hpAtt, hpMapped, hpVmap, hpVaddr, hpStep>>
HpSyncEnd(p) ==
    /\ hpSync[p] # HpNoSync /\ hpSync[p].left = {}
    /\ hpSync' = [hpSync EXCEPT ![p] = HpNoSync]
    /\ UNCHANGED <<hpPlace, hpOwners, hpDirty, hpAtt, hpMapped, hpVmap, hpVaddr, hpStep>>

HpVmap(b) ==
    /\ hpPlace[b] = "buffer" /\ ~HpLocked(b) /\ hpVmap[b] < HpMaxMap
    /\ hpVmap' = [hpVmap EXCEPT ![b] = @ + 1]
    /\ hpVaddr' = [hpVaddr EXCEPT ![b] = TRUE]
    /\ UNCHANGED <<hpPlace, hpOwners, hpDirty, hpAtt, hpMapped, hpSync, hpStep>>
HpVunmap(b) ==
    /\ hpVmap[b] > 0 /\ ~HpLocked(b)
    /\ hpVmap' = [hpVmap EXCEPT ![b] = @ - 1]
    /\ hpVaddr' = [hpVaddr EXCEPT ![b] = hpVmap'[b] # 0]
    /\ UNCHANGED <<hpPlace, hpOwners, hpDirty, hpAtt, hpMapped, hpSync, hpStep>>

HpNext ==
    \/ HpShare \/ HpShareFails \/ HpExport
    \/ \E scm \in BOOLEAN : HpExportFails(scm) \/ \E b \in HpBlocks : HpRelease(b, scm)
    \/ \E b \in HpBlocks : HpCma(b) \/ HpVmap(b) \/ HpVunmap(b)
    \/ \E b \in HpBlocks, d \in HpDevs :
           HpAttach(b, d) \/ HpDetach(b, d) \/ HpMap(b, d) \/ HpUnmap(b, d)
    \/ \E p \in HpCpus : HpSyncEnd(p) \/ (\E b \in HpBlocks : HpSyncBegin(p, b))
                                     \/ (\E d \in HpDevs : HpSyncOne(p, d))

HpSpec == HpInit /\ [][HpNext]_hpVars

-----------------------------------------------------------------------------
(* Properties.                                                             *)

\* Memory the secure processor may still see never returns to the general pool,
\* whichever call fails: sp_hlos_release and the export error quarantine it.
HpPoolIsPrivate == \A b \in HpBlocks : hpPlace[b] = "pool" => hpOwners[b] = {"HLOS"}

\* Pages are cleared before they are shared: the secure processor never sees what
\* the kernel kept in them.
HpSharedIsCleared == \A b \in HpBlocks : "SPSS" \in hpOwners[b] => ~hpDirty[b]

\* The loops of begin_ and end_cpu_access, holding buffer->lock, never reach an
\* attachment that sp_hlos_detach has freed, and nobody is attached to a released buffer.
HpSyncAlive == /\ \A p \in HpCpus : hpSync[p].left \subseteq (IF hpSync[p].b = HpNone THEN {}
                                                              ELSE hpAtt[hpSync[p].b])
               /\ \A b \in HpBlocks : hpPlace[b] # "buffer" => hpAtt[b] = {}

\* The kernel mapping lives exactly as long as somebody uses it, across nested vmaps.
HpVmapCounted == \A b \in HpBlocks : hpVaddr[b] = (hpVmap[b] > 0)

\* The secure processor sees a page only between its clearing and its return, and no
\* attachment or kernel mapping outlives the buffer it belongs to.
HpSafe == HpPoolIsPrivate /\ HpSharedIsCleared /\ HpSyncAlive /\ HpVmapCounted
=============================================================================
