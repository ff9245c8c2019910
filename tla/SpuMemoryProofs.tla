-------------------------- MODULE SpuMemoryProofs --------------------------
(***************************************************************************)
(* Proofs about the memory shared with the secure processor: the heap its  *)
(* buffers come from (SpHlosHeap) and the references a channel keeps on    *)
(* them (SpcomDmabuf), for any number of buffers, devices and processes.   *)
(***************************************************************************)
EXTENDS SpHlosHeap, SpcomDmabuf, FiniteSetTheorems, WellFoundedInduction, TLAPS

-----------------------------------------------------------------------------
(* The heap.                                                               *)

\* The types of the heap's variables.
HpTypeOK ==
    /\ hpPlace \in [HpBlocks -> {"pool", "taken", "buffer", "lost"}]
    /\ hpOwners \in [HpBlocks -> SUBSET {"HLOS", "SPSS"}]
    /\ hpDirty \in [HpBlocks -> BOOLEAN]
    /\ hpAtt \in [HpBlocks -> SUBSET HpDevs]
    /\ hpMapped \in [HpBlocks -> SUBSET HpDevs]
    /\ hpVmap \in [HpBlocks -> Nat]
    /\ hpVaddr \in [HpBlocks -> BOOLEAN]
    /\ hpSync \in [HpCpus -> [b : HpBlocks \cup {HpNone}, left : SUBSET HpDevs]]
    /\ hpStep \in [b : HpBlocks \cup {HpNone}, at : {"none", "cma", "shared"}]

\* The allocation under way holds a cleared block, that nobody else has and that, up to
\* the call of the hypervisor, only the kernel sees.
HpStepInv ==
    /\ hpStep.at # "none" => /\ hpStep.b \in HpBlocks
                             /\ hpPlace[hpStep.b] = "taken" /\ ~hpDirty[hpStep.b]
    /\ hpStep.at = "cma" => hpOwners[hpStep.b] = {"HLOS"}

\* Only a buffer is being accessed or is mapped in the kernel, and the loops of
\* begin_ and end_cpu_access go over its list.
HpUseInv ==
    /\ \A p \in HpCpus :
         IF hpSync[p].b = HpNone THEN hpSync[p].left = {}
         ELSE hpPlace[hpSync[p].b] = "buffer" /\ hpSync[p].left \subseteq hpAtt[hpSync[p].b]
    /\ \A b \in HpBlocks : hpPlace[b] # "buffer" => hpAtt[b] = {} /\ hpVmap[b] = 0

\* HpVmapCounted as an equivalence.
HpCounted == \A b \in HpBlocks : hpVaddr[b] <=> hpVmap[b] > 0

HpInv == HpTypeOK /\ HpStepInv /\ HpUseInv /\ HpPoolIsPrivate /\ HpSharedIsCleared
                  /\ HpCounted

\* What the heap starts with.
LEMMA HpInitInv == HpInit => HpInv
<1> SUFFICES ASSUME HpInit PROVE HpInv
  OBVIOUS
<1> USE HpAssumption DEF HpInit, HpNoSync, HpNoStep
<1>1. HpTypeOK
  BY DEF HpTypeOK
<1>2. HpStepInv /\ HpUseInv
  BY DEF HpStepInv, HpUseInv
<1>3. HpPoolIsPrivate /\ HpSharedIsCleared
  BY DEF HpPoolIsPrivate, HpSharedIsCleared
<1>4. HpCounted
  BY DEF HpCounted
<1> QED
  BY <1>1, <1>2, <1>3, <1>4 DEF HpInv

\* Every call of the heap keeps the invariant.
LEMMA HpNextInv == HpInv /\ [HpNext]_hpVars => HpInv'
<1> SUFFICES ASSUME HpInv, [HpNext]_hpVars PROVE HpInv'
  OBVIOUS
<1> USE HpAssumption DEF HpInv, HpTypeOK, HpStepInv, HpUseInv, HpPoolIsPrivate,
        HpSharedIsCleared, HpCounted, HpNoSync, HpNoStep
<1>1. CASE HpShare
  BY <1>1 DEF HpShare
<1>2. CASE HpShareFails
  BY <1>2 DEF HpShareFails
<1>3. CASE HpExport
  BY <1>3 DEF HpExport
<1>4. ASSUME NEW scm \in BOOLEAN, HpExportFails(scm) PROVE HpInv'
<2> USE <1>4 DEF HpExportFails, HpGiveBack
<2>1. HpTypeOK'
  OBVIOUS
<2>2. HpStepInv' /\ HpUseInv'
  OBVIOUS
<2>3. HpPoolIsPrivate' /\ HpSharedIsCleared' /\ HpCounted'
  OBVIOUS
<2> QED
  BY <2>1, <2>2, <2>3
<1>5. ASSUME NEW scm \in BOOLEAN, NEW b \in HpBlocks, HpRelease(b, scm) PROVE HpInv'
<2> USE <1>5 DEF HpRelease, HpGiveBack
<2>1. HpTypeOK'
  OBVIOUS
<2>2. HpStepInv' /\ HpUseInv'
  OBVIOUS
<2>3. HpPoolIsPrivate' /\ HpSharedIsCleared' /\ HpCounted'
  OBVIOUS
<2> QED
  BY <2>1, <2>2, <2>3
<1>6. ASSUME NEW b \in HpBlocks, HpCma(b) PROVE HpInv'
  BY <1>6 DEF HpCma
<1>7. ASSUME NEW b \in HpBlocks, HpVmap(b) PROVE HpInv'
<2> USE <1>7 DEF HpVmap
<2>1. HpTypeOK'
  OBVIOUS
<2>2. HpCounted'
  OBVIOUS
<2> QED
  BY <2>1, <2>2
<1>8. ASSUME NEW b \in HpBlocks, HpVunmap(b) PROVE HpInv'
<2> USE <1>8 DEF HpVunmap
<2>1. HpTypeOK'
  OBVIOUS
<2>2. HpCounted'
  <3> SUFFICES ASSUME NEW x \in HpBlocks PROVE (hpVaddr[x] <=> hpVmap[x] > 0)'
    OBVIOUS
  <3>1. CASE x = b
    <4>1. hpVmap'[b] \in Nat
      OBVIOUS
    <4>2. hpVaddr'[b] = (hpVmap'[b] # 0)
      OBVIOUS
    <4>3. hpVmap'[b] # 0 <=> hpVmap'[b] > 0
      BY ONLY <4>1, SMT
    <4> QED
      BY ONLY <3>1, <4>2, <4>3, Zenon
  <3>2. CASE x # b
    BY <3>2
  <3> QED
    BY <3>1, <3>2
<2>3. HpUseInv'
  OBVIOUS
<2> QED
  BY <2>1, <2>2, <2>3
<1>9. ASSUME NEW b \in HpBlocks, NEW d \in HpDevs, HpAttach(b, d) PROVE HpInv'
  BY <1>9 DEF HpAttach
<1>10. ASSUME NEW b \in HpBlocks, NEW d \in HpDevs, HpDetach(b, d) PROVE HpInv'
  BY <1>10 DEF HpDetach, HpLocked
<1>11. ASSUME NEW b \in HpBlocks, NEW d \in HpDevs, HpMap(b, d) \/ HpUnmap(b, d) PROVE HpInv'
  BY <1>11 DEF HpMap, HpUnmap
<1>12. ASSUME NEW p \in HpCpus, HpSyncEnd(p) PROVE HpInv'
  BY <1>12 DEF HpSyncEnd
<1>13. ASSUME NEW p \in HpCpus, NEW b \in HpBlocks, HpSyncBegin(p, b) PROVE HpInv'
  BY <1>13 DEF HpSyncBegin
<1>14. ASSUME NEW p \in HpCpus, NEW d \in HpDevs, HpSyncOne(p, d) PROVE HpInv'
  BY <1>14 DEF HpSyncOne
<1>15. CASE UNCHANGED hpVars
  BY <1>15 DEF hpVars
<1> QED
  BY <1>1, <1>2, <1>3, <1>4, <1>5, <1>6, <1>7, <1>8, <1>9, <1>10, <1>11, <1>12, <1>13,
     <1>14, <1>15 DEF HpNext

\* sp_hlos_allocate, the attachments, the CPU accesses, the kernel mappings and
\* sp_hlos_release keep HpSafe, whichever of them fails: no block the secure processor
\* sees is in the pool or holds the kernel's data, and nothing outlives its buffer.
THEOREM HpSafety == HpSpec => []HpSafe
<1>1. HpInv => HpSafe
<2> SUFFICES ASSUME HpInv PROVE HpSafe
  OBVIOUS
<2>1. HpSyncAlive
  BY HpAssumption DEF HpInv, HpSyncAlive, HpUseInv, HpTypeOK
<2>2. ASSUME NEW b \in HpBlocks PROVE hpVaddr[b] = (hpVmap[b] > 0)
  <3>1. hpVaddr[b] \in BOOLEAN /\ hpVmap[b] \in Nat
    BY DEF HpInv, HpTypeOK
  <3>2. hpVaddr[b] <=> hpVmap[b] > 0
    BY DEF HpInv, HpCounted
  <3> QED
    BY <3>1, <3>2
<2> QED
  BY <2>1, <2>2 DEF HpInv, HpSafe, HpVmapCounted
<1> QED
  BY <1>1, HpInitInv, HpNextInv, PTL DEF HpSpec

-----------------------------------------------------------------------------
(* The buffers of a channel.                                               *)

DbEntry == [handle : DbBufs \cup {DbNone}, tee : DbTees \cup {DbNone},
            owner : DbProcs \cup {DbNone}, attach : BOOLEAN]

\* The types, and: only an entry with a DMA-BUF keeps a mapping.
DbShape ==
    /\ dbSlot \in [DbI -> DbEntry]
    /\ dbRefs \in [DbBufs \cup DbTees -> Int] /\ dbOver \in [DbBufs \cup DbTees -> Nat]
    /\ dbMaps \in [DbBufs -> Int]
    /\ dbSent \subseteq DbBufs /\ dbUp \in BOOLEAN
    /\ \A i \in DbI : dbSlot[i].attach => dbSlot[i].handle # DbNone

\* Where the write command meets no QTEE entry, no entry holds two buffers, and a buffer
\* the SP was told of has an entry.
DbSentInv ==
    /\ \A i \in DbI : dbSlot[i].handle = DbNone \/ dbSlot[i].tee = DbNone
    /\ \A b \in dbSent : \E i \in DbI : dbSlot[i].handle = b

DbHolding(b) == {i \in DbI : DbHolds(dbSlot[i], b)}
DbMapping(b) == {i \in DbI : dbSlot[i].handle = b /\ dbSlot[i].attach}

\* The first free entry is a free entry.
LEMMA DbMinIn ==
    ASSUME NEW F \in SUBSET DbI, F # {}
    PROVE  Min(F) \in F
<1>1. F \subseteq Nat
  BY DbAssumption DEF DbI
<1>2. PICK x \in F : \A y \in F : ~(<<y, x>> \in OpToRel(<, Nat))
  BY <1>1, NatLessThanWellFounded, WFMin
<1>3. ASSUME NEW y \in F PROVE x =< y
  <2>1. x \in Nat /\ y \in Nat
    BY <1>1
  <2>2. y < x => <<y, x>> \in {ss \in Nat \X Nat : ss[1] < ss[2]}
    BY <2>1
  <2>3. ~(y < x)
    BY <1>2, <2>2, Zenon DEF OpToRel
  <2> QED
    BY <2>1, <2>3
<1> QED
  BY <1>3 DEF Min

\* Counting entries: adding one, and taking some away.
LEMMA DbCount ==
    ASSUME NEW A \in SUBSET DbI
    PROVE  /\ IsFiniteSet(A) /\ Cardinality(A) \in Nat
           /\ \A k \in DbI \ A : Cardinality(A \cup {k}) = Cardinality(A) + 1
           /\ \A S : Cardinality(A \ S) = Cardinality(A) - Cardinality(A \cap S)
<1>1. IsFiniteSet(DbI)
  BY DbAssumption, FS_Interval DEF DbI
<1>2. IsFiniteSet(A)
  BY <1>1, FS_Subset
<1> QED
  BY <1>2, FS_CardinalityType, FS_AddElement, FS_Difference

\* spcom_dmabuf_unlock takes the released entries from both counts.
LEMMA DbReleaseSets ==
    ASSUME DbShape, NEW S \in SUBSET DbI, DbRelease(S)
    PROVE  /\ \A b \in DbBufs \cup DbTees : DbHolding(b)' = DbHolding(b) \ S
           /\ \A b \in DbBufs : DbMapping(b)' = DbMapping(b) \ S
           /\ \A b \in DbBufs \cup DbTees :
                 dbRefs'[b] = dbRefs[b] - Cardinality(DbHolding(b) \cap S)
           /\ \A b \in DbBufs : dbMaps'[b] = dbMaps[b] - Cardinality(DbMapping(b) \cap S)
<1>1. \A i \in DbI : dbSlot'[i] = IF i \in S THEN DbEmpty ELSE dbSlot[i]
  BY DEF DbRelease
<1>2. ASSUME NEW b \in DbBufs \cup DbTees PROVE DbHolding(b)' = DbHolding(b) \ S
  BY <1>1, DbAssumption DEF DbHolding, DbHolds, DbEmpty
<1>3. ASSUME NEW b \in DbBufs PROVE DbMapping(b)' = DbMapping(b) \ S
  BY <1>1, DbAssumption DEF DbMapping, DbEmpty
<1>4. ASSUME NEW b \in DbBufs \cup DbTees
      PROVE  dbRefs'[b] = dbRefs[b] - Cardinality(DbHolding(b) \cap S)
  <2>1. {i \in S : DbHolds(dbSlot[i], b)} = DbHolding(b) \cap S
    BY DEF DbHolding
  <2> QED
    BY <2>1 DEF DbRelease, DbPut, DbShape
<1>5. ASSUME NEW b \in DbBufs
      PROVE  dbMaps'[b] = dbMaps[b] - Cardinality(DbMapping(b) \cap S)
  <2>1. {i \in S : dbSlot[i].handle = b /\ dbSlot[i].attach} = DbMapping(b) \cap S
    BY DEF DbMapping
  <2> QED
    BY <2>1 DEF DbRelease, DbUnmap
<1> QED
  BY <1>2, <1>3, <1>4, <1>5

\* The entry a lock fills: the ioctl's first free one, or the write command's first one
\* without a DMA-BUF.
LEMMA DbLockSets ==
    ASSUME DbShape, NEW b \in DbBufs \cup DbTees, NEW k \in DbI,
           DbShape', dbRefs' = [dbRefs EXCEPT ![b] = @ + 1], UNCHANGED dbOver,
           \A i \in DbI \ {k} : dbSlot'[i] = dbSlot[i],
           dbSlot[k].handle = DbNone, DbHolds(dbSlot[k], b)', ~DbHolds(dbSlot[k], b),
           \A c \in (DbBufs \cup DbTees) \ {b} : DbHolds(dbSlot[k], c)' <=> DbHolds(dbSlot[k], c),
           ~dbSlot'[k].attach
    PROVE  /\ DbRefsBalanced => DbRefsBalanced'
           /\ \A c \in DbBufs : DbMapping(c)' = DbMapping(c)
<1>1. DbHolding(b)' = DbHolding(b) \cup {k} /\ k \notin DbHolding(b)
  BY DEF DbHolding, DbHolds
<1>2. ASSUME NEW c \in (DbBufs \cup DbTees) \ {b} PROVE DbHolding(c)' = DbHolding(c)
  BY DEF DbHolding, DbHolds
<1>3. ASSUME NEW c \in DbBufs PROVE DbMapping(c)' = DbMapping(c)
  BY DbAssumption DEF DbMapping
<1>4. ASSUME DbRefsBalanced PROVE DbRefsBalanced'
  <2> SUFFICES ASSUME NEW c \in DbBufs \cup DbTees
               PROVE  dbRefs'[c] + dbOver'[c] = Cardinality(DbHolding(c)')
    BY DEF DbRefsBalanced, DbHolding
  <2>1. dbRefs[c] + dbOver[c] = Cardinality(DbHolding(c))
    BY <1>4 DEF DbRefsBalanced, DbHolding
  <2>2. CASE c = b
    <3>1. Cardinality(DbHolding(b) \cup {k}) = Cardinality(DbHolding(b)) + 1
      BY <1>1, DbCount DEF DbHolding
    <3>2. dbRefs[b] \in Int /\ dbOver[b] \in Nat /\ dbRefs'[b] = dbRefs[b] + 1
      BY DEF DbShape
    <3>3. Cardinality(DbHolding(b)) \in Nat
      BY DbCount DEF DbHolding
    <3>4. Cardinality(DbHolding(c)') = Cardinality(DbHolding(b)) + 1
      BY <1>1, <2>2, <3>1
    <3>5. dbRefs[b] + dbOver[b] = Cardinality(DbHolding(b)) /\ dbOver'[c] = dbOver[b]
          /\ dbRefs'[c] = dbRefs[b] + 1
      BY <2>1, <2>2, <3>2
    <3> QED
      BY ONLY <3>2, <3>3, <3>4, <3>5
  <2>3. CASE c # b
    BY <1>2, <2>1, <2>3 DEF DbShape
  <2> QED
    BY <2>2, <2>3
<1> QED
  BY <1>3, <1>4

\* Every operation keeps the shape of the table.
LEMMA DbShapeNext == DbShape /\ [DbNext]_dbVars => DbShape'
<1> SUFFICES ASSUME DbShape, [DbNext]_dbVars PROVE DbShape'
  OBVIOUS
<1> USE DbAssumption DEF DbShape, DbEntry
<1>1. ASSUME NEW S \in SUBSET DbI, DbRelease(S), dbSent' \subseteq dbSent, dbUp' \in BOOLEAN
      PROVE  DbShape'
  <2>1. dbSlot' \in [DbI -> DbEntry]
        /\ \A i \in DbI : dbSlot'[i].attach => dbSlot'[i].handle # DbNone
    BY <1>1 DEF DbRelease, DbEmpty
  <2>2. dbRefs' \in [DbBufs \cup DbTees -> Int] /\ dbMaps' \in [DbBufs -> Int]
    <3>1. \A b \in DbBufs \cup DbTees : Cardinality({i \in S : DbHolds(dbSlot[i], b)}) \in Nat
      BY DbCount
    <3>2. \A b \in DbBufs :
             Cardinality({i \in S : dbSlot[i].handle = b /\ dbSlot[i].attach}) \in Nat
      BY DbCount
    <3> QED
      BY <1>1, <3>1, <3>2 DEF DbRelease, DbPut, DbUnmap
  <2>3. UNCHANGED dbOver
    BY <1>1 DEF DbRelease
  <2> QED
    BY <1>1, <2>1, <2>2, <2>3
<1>2. ASSUME NEW p \in DbProcs, NEW b \in DbBufs \cup DbTees, DbLock(p, b) PROVE DbShape'
  <2> DEFINE free == {i \in DbI : ~DbInUse(dbSlot[i])}
  <2>1. CASE free = {} \/ \E i \in DbI : DbHolds(dbSlot[i], b)
    BY <1>2, <2>1 DEF DbLock, DbGiveBack
  <2>2. CASE ~(free = {} \/ \E i \in DbI : DbHolds(dbSlot[i], b))
    <3> DEFINE e == [handle |-> IF b \in DbBufs THEN b ELSE DbNone,
                     tee |-> IF b \in DbTees THEN b ELSE DbNone,
                     owner |-> p, attach |-> FALSE]
    <3>1. Min(free) \in DbI
      BY <2>2, DbMinIn
    <3>2. e \in DbEntry /\ ~e.attach
      OBVIOUS
    <3>3. dbSlot' = [dbSlot EXCEPT ![Min(free)] = e] /\ dbRefs' = [dbRefs EXCEPT ![b] = @ + 1]
          /\ UNCHANGED <<dbOver, dbMaps, dbSent, dbUp>>
      BY <1>2, <2>2 DEF DbLock
    <3> HIDE DEF free, e
    <3> QED
      BY <3>1, <3>2, <3>3
  <2> QED
    BY <2>1, <2>2
<1>3. ASSUME NEW b \in DbBufs, DbIonLock(b) PROVE DbShape'
  <2> DEFINE free == {i \in DbI : dbSlot[i].handle = DbNone}
  <2>1. CASE free = {} \/ \E i \in DbI : dbSlot[i].handle = b
    BY <1>3, <2>1 DEF DbIonLock, DbGiveBack
  <2>2. CASE ~(free = {} \/ \E i \in DbI : dbSlot[i].handle = b)
    <3>1. Min(free) \in DbI
      BY <2>2, DbMinIn
    <3>2. dbSlot' = [dbSlot EXCEPT ![Min(free)].handle = b] /\ UNCHANGED dbOver
          /\ dbRefs' = [dbRefs EXCEPT ![b] = @ + 1] /\ UNCHANGED <<dbMaps, dbSent, dbUp>>
      BY <1>3, <2>2 DEF DbIonLock
    <3> HIDE DEF free
    <3> QED
      BY <3>1, <3>2
  <2> QED
    BY <2>1, <2>2
<1>4. ASSUME NEW p \in DbProcs, NEW b \in DbBufs \cup DbTees, DbUnlock(p, b) PROVE DbShape'
  BY <1>1, <1>4 DEF DbUnlock, DbOwned
<1>5. ASSUME NEW p \in DbProcs, DbUnlockAll(p) PROVE DbShape'
  BY <1>1, <1>5 DEF DbUnlockAll, DbOwned
<1>6. ASSUME NEW b \in DbBufs, DbSendModified(b) PROVE DbShape'
  <2>1. PICK i \in DbI : dbSlot[i].handle = b /\ dbSlot' = [dbSlot EXCEPT ![i].attach = TRUE]
    BY <1>6 DEF DbSendModified
  <2>2. dbSlot' \in [DbI -> DbEntry]
        /\ \A j \in DbI : dbSlot'[j].attach => dbSlot'[j].handle # DbNone
    BY <2>1
  <2> QED
    BY <1>6, <2>2 DEF DbSendModified
<1>7. CASE DbRemove
  BY <1>1, <1>7 DEF DbRemove
<1>8. CASE DbProbe \/ UNCHANGED dbVars
  BY <1>8 DEF DbProbe, dbVars
<1>9. ASSUME NEW b \in DbBufs, DbMapFails(b) \/ DbAttachFails(b) PROVE DbShape'
  BY <1>9 DEF DbMapFails, DbGiveBack, DbAttachFails
<1> QED
  BY <1>2, <1>3, <1>4, <1>5, <1>6, <1>7, <1>8, <1>9 DEF DbNext

\* Both locks fill one entry with one buffer.
LEMMA DbLocksNext ==
    ASSUME DbShape, DbShape', NEW b \in DbBufs \cup DbTees,
           (\E p \in DbProcs : DbLock(p, b)) \/ (b \in DbBufs /\ DbIonLock(b))
    PROVE  /\ DbRefsBalanced => DbRefsBalanced'
           /\ \A c \in DbBufs : DbMapping(c)' = DbMapping(c)
           /\ UNCHANGED dbMaps
<1> USE DbAssumption DEF DbShape, DbEntry
<1>1. ASSUME UNCHANGED <<dbSlot, dbRefs, dbOver, dbMaps>>
      PROVE  /\ DbRefsBalanced => DbRefsBalanced'
             /\ \A c \in DbBufs : DbMapping(c)' = DbMapping(c)
  BY <1>1 DEF DbRefsBalanced, DbMapping
<1>2. ASSUME NEW p \in DbProcs, DbLock(p, b), ~UNCHANGED <<dbSlot, dbRefs, dbOver, dbMaps>>
      PROVE  /\ DbRefsBalanced => DbRefsBalanced'
             /\ \A c \in DbBufs : DbMapping(c)' = DbMapping(c)
  <2> DEFINE free == {i \in DbI : ~DbInUse(dbSlot[i])}
  <2>1. free # {} /\ ~\E i \in DbI : DbHolds(dbSlot[i], b)
    BY <1>2 DEF DbLock, DbGiveBack
  <2>2. PICK k \in DbI : k = Min(free) /\ ~DbInUse(dbSlot[k])
    <3>1. Min(free) \in free
      BY <2>1, DbMinIn
    <3> QED
      BY <3>1
  <2>3. /\ dbRefs' = [dbRefs EXCEPT ![b] = @ + 1] /\ UNCHANGED dbOver
        /\ dbSlot' = [dbSlot EXCEPT ![k] =
                        [handle |-> IF b \in DbBufs THEN b ELSE DbNone,
                         tee |-> IF b \in DbTees THEN b ELSE DbNone,
                         owner |-> p, attach |-> FALSE]]
    BY <1>2, <2>1, <2>2 DEF DbLock
  <2>4. /\ dbSlot'[k].handle = (IF b \in DbBufs THEN b ELSE DbNone)
        /\ dbSlot'[k].tee = (IF b \in DbTees THEN b ELSE DbNone)
        /\ dbSlot'[k].attach = FALSE
        /\ \A i \in DbI \ {k} : dbSlot'[i] = dbSlot[i]
    BY <2>3
  <2>5. dbSlot[k].handle = DbNone /\ dbSlot[k].tee = DbNone
    BY <2>2 DEF DbInUse
  <2>6. DbHolds(dbSlot[k], b)' /\ ~DbHolds(dbSlot[k], b)
        /\ \A c \in (DbBufs \cup DbTees) \ {b} :
               DbHolds(dbSlot[k], c)' <=> DbHolds(dbSlot[k], c)
    BY <2>4, <2>5 DEF DbHolds
  <2> QED
    BY <2>3, <2>4, <2>5, <2>6, DbLockSets
<1>3. ASSUME b \in DbBufs, DbIonLock(b), ~UNCHANGED <<dbSlot, dbRefs, dbOver, dbMaps>>
      PROVE  /\ DbRefsBalanced => DbRefsBalanced'
             /\ \A c \in DbBufs : DbMapping(c)' = DbMapping(c)
  <2> DEFINE free == {i \in DbI : dbSlot[i].handle = DbNone}
  <2>1. free # {} /\ ~\E i \in DbI : dbSlot[i].handle = b
    BY <1>3 DEF DbIonLock, DbGiveBack
  <2>2. PICK k \in DbI : k = Min(free) /\ dbSlot[k].handle = DbNone
    <3>1. Min(free) \in free
      BY <2>1, DbMinIn
    <3> QED
      BY <3>1
  <2>3. dbRefs' = [dbRefs EXCEPT ![b] = @ + 1] /\ dbSlot' = [dbSlot EXCEPT ![k].handle = b]
        /\ UNCHANGED dbOver
    BY <1>3, <2>1, <2>2 DEF DbIonLock
  <2>4. /\ dbSlot'[k].handle = b /\ dbSlot'[k].tee = dbSlot[k].tee
        /\ dbSlot'[k].attach = dbSlot[k].attach
        /\ \A i \in DbI \ {k} : dbSlot'[i] = dbSlot[i]
    BY <2>3
  <2>5. dbSlot[k].tee # b /\ ~dbSlot'[k].attach
    BY <1>3, <2>2, <2>4
  <2>6. DbHolds(dbSlot[k], b)' /\ ~DbHolds(dbSlot[k], b)
        /\ \A c \in (DbBufs \cup DbTees) \ {b} :
               DbHolds(dbSlot[k], c)' <=> DbHolds(dbSlot[k], c)
    BY <1>3, <2>2, <2>4, <2>5 DEF DbHolds
  <2> QED
    BY <2>2, <2>3, <2>4, <2>5, <2>6, DbLockSets
<1>4. UNCHANGED dbMaps
  BY DEF DbLock, DbIonLock
<1> QED
  BY <1>1, <1>2, <1>3, <1>4

\* No operation leaks or over-releases a reference.
LEMMA DbRefsNext == DbShape /\ DbRefsBalanced /\ [DbNext]_dbVars => DbRefsBalanced'
<1> SUFFICES ASSUME DbShape, DbRefsBalanced, [DbNext]_dbVars PROVE DbRefsBalanced'
  OBVIOUS
<1>1. DbShape'
  BY DbShapeNext
<1>2. ASSUME NEW S \in SUBSET DbI, DbRelease(S) PROVE DbRefsBalanced'
  <2> SUFFICES ASSUME NEW b \in DbBufs \cup DbTees
               PROVE  dbRefs'[b] + dbOver'[b] = Cardinality(DbHolding(b)')
    BY DEF DbRefsBalanced, DbHolding
  <2>1. Cardinality(DbHolding(b) \ S) = Cardinality(DbHolding(b)) - Cardinality(DbHolding(b) \cap S)
    BY DbCount DEF DbHolding
  <2>2. dbRefs[b] + dbOver[b] = Cardinality(DbHolding(b)) /\ UNCHANGED dbOver
    BY <1>2 DEF DbRefsBalanced, DbHolding, DbRelease
  <2>3. dbRefs'[b] = dbRefs[b] - Cardinality(DbHolding(b) \cap S)
        /\ DbHolding(b)' = DbHolding(b) \ S
    BY <1>2, DbReleaseSets
  <2>4. Cardinality(DbHolding(b) \cap S) \in Nat /\ dbRefs[b] \in Int /\ dbOver[b] \in Nat
    BY DbCount DEF DbHolding, DbShape
  <2> QED
    BY <2>1, <2>2, <2>3, <2>4
<1>3. ASSUME NEW p \in DbProcs, NEW b \in DbBufs \cup DbTees, DbLock(p, b) PROVE DbRefsBalanced'
  BY <1>1, <1>3, DbLocksNext
<1>4. ASSUME NEW b \in DbBufs, DbIonLock(b) PROVE DbRefsBalanced'
  BY <1>1, <1>4, DbLocksNext
<1>5. ASSUME NEW p \in DbProcs, NEW b \in DbBufs \cup DbTees, DbUnlock(p, b) PROVE DbRefsBalanced'
  BY <1>2, <1>5 DEF DbUnlock, DbOwned
<1>6. ASSUME NEW p \in DbProcs, DbUnlockAll(p) PROVE DbRefsBalanced'
  BY <1>2, <1>6 DEF DbUnlockAll, DbOwned
<1>7. ASSUME NEW b \in DbBufs, DbSendModified(b) PROVE DbRefsBalanced'
  <2>1. \A c \in DbBufs \cup DbTees : DbHolding(c)' = DbHolding(c)
    BY <1>7 DEF DbSendModified, DbHolding, DbHolds, DbShape, DbEntry
  <2> QED
    BY <1>7, <2>1 DEF DbSendModified, DbRefsBalanced, DbHolding
<1>8. CASE DbRemove
  BY <1>2, <1>8 DEF DbRemove
<1>9. CASE DbProbe \/ UNCHANGED dbVars
  BY <1>9 DEF DbProbe, dbVars, DbRefsBalanced
<1>10. ASSUME NEW b \in DbBufs, DbMapFails(b) \/ DbAttachFails(b) PROVE DbRefsBalanced'
  <2>1. \A c \in DbBufs \cup DbTees : dbRefs'[c] + dbOver'[c] = dbRefs[c] + dbOver[c]
    BY <1>10 DEF DbMapFails, DbGiveBack, DbAttachFails, DbShape
  <2>2. UNCHANGED dbSlot
    BY <1>10 DEF DbMapFails, DbAttachFails
  <2> QED
    BY <2>1, <2>2 DEF DbRefsBalanced
<1> QED
  BY <1>3, <1>4, <1>5, <1>6, <1>7, <1>8, <1>9, <1>10 DEF DbNext

\* Without a message that names a mapped buffer again, every mapping is in an entry.
LEMMA DbMapsNext ==
    ASSUME "resend" \notin DbHabits, DbShape, DbMapsRecorded, [DbNext]_dbVars
    PROVE  DbMapsRecorded'
<1>1. DbShape'
  BY DbShapeNext
<1>2. ASSUME NEW S \in SUBSET DbI, DbRelease(S) PROVE DbMapsRecorded'
  <2> SUFFICES ASSUME NEW b \in DbBufs
               PROVE  dbMaps'[b] = Cardinality(DbMapping(b)')
    BY DEF DbMapsRecorded, DbMapping
  <2>1. Cardinality(DbMapping(b) \ S) = Cardinality(DbMapping(b)) - Cardinality(DbMapping(b) \cap S)
    BY DbCount DEF DbMapping
  <2>2. dbMaps[b] = Cardinality(DbMapping(b))
    BY DEF DbMapsRecorded, DbMapping
  <2> QED
    BY <1>2, <2>1, <2>2, DbReleaseSets
<1>3. ASSUME NEW p \in DbProcs, NEW b \in DbBufs \cup DbTees, DbLock(p, b) PROVE DbMapsRecorded'
  BY <1>1, <1>3, DbLocksNext DEF DbMapsRecorded, DbMapping
<1>4. ASSUME NEW b \in DbBufs, DbIonLock(b) PROVE DbMapsRecorded'
  BY <1>1, <1>4, DbLocksNext DEF DbMapsRecorded, DbMapping
<1>5. ASSUME NEW p \in DbProcs, NEW b \in DbBufs \cup DbTees, DbUnlock(p, b) PROVE DbMapsRecorded'
  BY <1>2, <1>5 DEF DbUnlock, DbOwned
<1>6. ASSUME NEW p \in DbProcs, DbUnlockAll(p) PROVE DbMapsRecorded'
  BY <1>2, <1>6 DEF DbUnlockAll, DbOwned
<1>7. ASSUME NEW b \in DbBufs, DbSendModified(b) PROVE DbMapsRecorded'
  <2>1. PICK i \in DbI : dbSlot[i].handle = b /\ ~dbSlot[i].attach
                         /\ dbSlot' = [dbSlot EXCEPT ![i].attach = TRUE]
    BY <1>7 DEF DbSendModified
  <2>2. dbSlot'[i].handle = b /\ dbSlot'[i].attach
        /\ \A j \in DbI \ {i} : dbSlot'[j] = dbSlot[j]
    BY <2>1 DEF DbShape, DbEntry
  <2>3. DbMapping(b)' = DbMapping(b) \cup {i} /\ i \notin DbMapping(b)
    BY <2>1, <2>2 DEF DbMapping
  <2>4. \A c \in DbBufs \ {b} : DbMapping(c)' = DbMapping(c)
    BY <2>1, <2>2 DEF DbMapping
  <2>5. Cardinality(DbMapping(b) \cup {i}) = Cardinality(DbMapping(b)) + 1
    BY <2>3, DbCount DEF DbMapping
  <2>6. \A c \in DbBufs : dbMaps[c] = Cardinality(DbMapping(c))
    BY DEF DbMapsRecorded, DbMapping
  <2>7. \A c \in DbBufs : dbMaps'[c] = IF c = b THEN dbMaps[c] + 1 ELSE dbMaps[c]
    BY <1>7 DEF DbSendModified, DbShape
  <2>8. \A c \in DbBufs : dbMaps'[c] = Cardinality(DbMapping(c)')
    BY <2>3, <2>4, <2>5, <2>6, <2>7
  <2> QED
    BY <2>8 DEF DbMapsRecorded, DbMapping
<1>8. CASE DbRemove
  BY <1>2, <1>8 DEF DbRemove
<1>9. CASE DbProbe \/ UNCHANGED dbVars
  BY <1>9 DEF DbProbe, dbVars, DbMapsRecorded
<1>10. ASSUME NEW b \in DbBufs, DbMapFails(b) \/ DbAttachFails(b) PROVE DbMapsRecorded'
  BY <1>10 DEF DbMapFails, DbAttachFails, DbMapsRecorded
<1> QED
  BY <1>3, <1>4, <1>5, <1>6, <1>7, <1>8, <1>9, <1>10 DEF DbNext

\* Where no entry gets two buffers, what the SP was told of keeps its entry.
LEMMA DbSentNext ==
    ASSUME "beside_tee" \notin DbHabits, DbShape, DbSentInv, [DbNext]_dbVars
    PROVE  DbSentInv'
<1> USE DbAssumption DEF DbShape, DbEntry, DbSentInv
<1>1. DbShape'
  BY DbShapeNext
<1>2. ASSUME NEW S \in SUBSET DbI, DbRelease(S), dbSent' \subseteq dbSent,
             \A b \in dbSent' : \A i \in DbI : dbSlot[i].handle = b => i \notin S
      PROVE  DbSentInv'
  <2>1. \A i \in DbI : dbSlot'[i] = IF i \in S THEN DbEmpty ELSE dbSlot[i]
    BY <1>2 DEF DbRelease
  <2> QED
    BY <1>2, <2>1 DEF DbEmpty
<1>3. ASSUME NEW p \in DbProcs, NEW b \in DbBufs \cup DbTees, DbLock(p, b) PROVE DbSentInv'
  <2> DEFINE free == {i \in DbI : ~DbInUse(dbSlot[i])}
  <2>1. CASE UNCHANGED <<dbSlot, dbSent>>
    BY <2>1
  <2>2. CASE ~UNCHANGED <<dbSlot, dbSent>>
    <3>1. free # {}
      BY <1>3, <2>2 DEF DbLock
    <3>2. Min(free) \in free
      BY <3>1, DbMinIn
    <3>3. PICK k \in DbI : k = Min(free) /\ ~DbInUse(dbSlot[k])
      BY <3>2
    <3>4. dbSlot' = [dbSlot EXCEPT ![k] =
                        [handle |-> IF b \in DbBufs THEN b ELSE DbNone,
                         tee |-> IF b \in DbTees THEN b ELSE DbNone,
                         owner |-> p, attach |-> FALSE]] /\ dbSent' = dbSent
      BY <1>3, <2>2, <3>3 DEF DbLock
    <3>5. /\ dbSlot'[k].handle = (IF b \in DbBufs THEN b ELSE DbNone)
          /\ dbSlot'[k].tee = (IF b \in DbTees THEN b ELSE DbNone)
          /\ \A i \in DbI \ {k} : dbSlot'[i] = dbSlot[i]
      BY <3>4
    <3> QED
      BY <3>3, <3>4, <3>5 DEF DbInUse
  <2> QED
    BY <2>1, <2>2
<1>4. ASSUME NEW b \in DbBufs, DbIonLock(b) PROVE DbSentInv'
  <2> DEFINE free == {i \in DbI : dbSlot[i].handle = DbNone}
  <2>1. CASE UNCHANGED <<dbSlot, dbSent>>
    BY <2>1
  <2>2. CASE ~UNCHANGED <<dbSlot, dbSent>>
    <3>1. free # {}
      BY <1>4, <2>2 DEF DbIonLock
    <3>2. Min(free) \in free
      BY <3>1, DbMinIn
    <3>3. PICK k \in DbI : k = Min(free) /\ dbSlot[k].handle = DbNone
      BY <3>2
    <3>4. dbSlot[k].tee = DbNone /\ dbSlot' = [dbSlot EXCEPT ![k].handle = b] /\ dbSent' = dbSent
      BY <1>4, <2>2, <3>3 DEF DbIonLock
    <3>5. /\ dbSlot'[k].handle = b /\ dbSlot'[k].tee = DbNone
          /\ \A i \in DbI \ {k} : dbSlot'[i] = dbSlot[i]
      BY <3>4
    <3> QED
      BY <3>3, <3>4, <3>5
  <2> QED
    BY <2>1, <2>2
<1>5. ASSUME NEW p \in DbProcs, NEW b \in DbBufs \cup DbTees, DbUnlock(p, b) PROVE DbSentInv'
  <2> DEFINE S == {i \in DbOwned(p) : DbHolds(dbSlot[i], b)}
  <2>1. S # {} /\ DbRelease(S) /\ dbSent' = dbSent \ DbGivesUp(p, {b}) /\ S \in SUBSET DbI
    BY <1>5 DEF DbUnlock, DbOwned
  <2>2. ASSUME NEW c \in dbSent', NEW i \in DbI, dbSlot[i].handle = c PROVE i \notin S
    <3>1. c \in DbBufs /\ c # DbNone
      BY <2>1
    <3>2. ASSUME i \in S PROVE FALSE
      <4>1. dbSlot[i].owner = p /\ (c = b \/ dbSlot[i].tee = b)
        BY <3>2, <2>2 DEF DbOwned, DbHolds
      <4>2. c = b
        BY <2>2, <3>1, <4>1
      <4> QED
        BY <2>1, <2>2, <3>1, <4>1, <4>2 DEF DbGivesUp
    <3> QED
      BY <3>2
  <2> QED
    BY <1>2, <2>1, <2>2
<1>6. ASSUME NEW p \in DbProcs, DbUnlockAll(p) PROVE DbSentInv'
  <2>1. DbRelease(DbOwned(p)) /\ dbSent' = dbSent \ DbGivesUp(p, DbBufs)
        /\ DbOwned(p) \in SUBSET DbI
    BY <1>6 DEF DbUnlockAll, DbOwned
  <2>2. ASSUME NEW c \in dbSent', NEW i \in DbI, dbSlot[i].handle = c PROVE i \notin DbOwned(p)
    BY <2>1, <2>2 DEF DbOwned, DbGivesUp
  <2> QED
    BY <1>2, <2>1, <2>2
<1>7. ASSUME NEW b \in DbBufs, DbSendModified(b) PROVE DbSentInv'
  <2>1. PICK i \in DbI : dbSlot[i].handle = b /\ dbSlot' = [dbSlot EXCEPT ![i].attach = TRUE]
    BY <1>7 DEF DbSendModified
  <2>2. \A j \in DbI : dbSlot'[j].handle = dbSlot[j].handle /\ dbSlot'[j].tee = dbSlot[j].tee
    BY <2>1
  <2> QED
    BY <1>7, <2>1, <2>2 DEF DbSendModified
<1>8. CASE DbRemove
  BY <1>2, <1>8 DEF DbRemove
<1>9. CASE DbProbe \/ UNCHANGED dbVars
  BY <1>9 DEF DbProbe, dbVars
<1>10. ASSUME NEW b \in DbBufs, DbMapFails(b) \/ DbAttachFails(b) PROVE DbSentInv'
  BY <1>10 DEF DbMapFails, DbAttachFails
<1> QED
  BY <1>3, <1>4, <1>5, <1>6, <1>7, <1>8, <1>9, <1>10 DEF DbNext

\* The table starts empty, with nothing counted.
LEMMA DbInitInv == DbInit => DbShape /\ DbSentInv /\ DbRefsBalanced /\ DbMapsRecorded
<1> SUFFICES ASSUME DbInit PROVE DbShape /\ DbSentInv /\ DbRefsBalanced /\ DbMapsRecorded
  OBVIOUS
<1> USE DbAssumption DEF DbInit, DbEmpty
<1>1. DbShape /\ DbSentInv
  BY DEF DbShape, DbEntry, DbSentInv
<1>2. ASSUME NEW b \in DbBufs \cup DbTees PROVE dbRefs[b] + dbOver[b] = Cardinality(DbHolding(b))
  <2>1. DbHolding(b) = {}
    BY DEF DbHolding, DbHolds
  <2> QED
    BY <2>1, FS_EmptySet
<1>3. ASSUME NEW b \in DbBufs PROVE dbMaps[b] = Cardinality(DbMapping(b))
  <2>1. DbMapping(b) = {}
    BY DEF DbMapping
  <2> QED
    BY <2>1, FS_EmptySet
<1> QED
  BY <1>1, <1>2, <1>3 DEF DbRefsBalanced, DbMapsRecorded, DbHolding, DbMapping

\* Whatever a channel's users do with their buffers, the two habits included, the driver
\* holds one reference per entry that names a buffer, less one for every dma_buf_attach
\* that failed in modify_dma_buf_addr (its buffer is put twice): spcom_dmabuf_unlock, the
\* failed locks, the failed mappings and spcom_rpdev_remove neither leak nor over-release.
THEOREM DbRefsSafety == DbSpec => []DbRefsBalanced
<1>1. DbShape /\ DbRefsBalanced /\ [DbNext]_dbVars => DbShape' /\ DbRefsBalanced'
  BY DbShapeNext, DbRefsNext
<1> QED
  BY <1>1, DbInitInv, PTL DEF DbSpec

\* Users that neither name a mapped buffer again nor lock with the write command beside
\* a QTEE entry have every mapping in an entry that undoes it, and a buffer the SP was
\* told of stays referenced unless one of its attachments has failed: DbSafe.
THEOREM DbSafety == DbHabits = {} => (DbSpec => []DbSafe)
<1> SUFFICES ASSUME DbHabits = {} PROVE DbSpec => []DbSafe
  OBVIOUS
<1> DEFINE Inv == DbShape /\ DbRefsBalanced /\ DbMapsRecorded /\ DbSentInv
<1>1. DbInit => Inv
  BY DbInitInv
<1>2. Inv /\ [DbNext]_dbVars => Inv'
  BY DbShapeNext, DbRefsNext, DbMapsNext, DbSentNext
<1>3. Inv => DbSafe
  <2> SUFFICES ASSUME Inv, NEW b \in dbSent, dbOver[b] = 0 PROVE dbRefs[b] > 0
    BY DEF DbSafe, DbSentStaysLocked
  <2>1. DbHolding(b) # {} /\ b \in DbBufs
    BY DEF DbSentInv, DbHolding, DbHolds, DbShape
  <2>2. IsFiniteSet(DbHolding(b)) /\ Cardinality(DbHolding(b)) \in Nat
    BY DbCount DEF DbHolding
  <2>3. Cardinality(DbHolding(b)) # 0
    BY <2>1, <2>2, FS_EmptySet
  <2>4. dbRefs[b] = Cardinality(DbHolding(b))
    <3>1. dbRefs[b] + dbOver[b] = Cardinality(DbHolding(b)) /\ dbRefs[b] \in Int
      BY <2>1 DEF DbRefsBalanced, DbHolding, DbShape
    <3> QED
      BY <3>1
  <2> QED
    BY <2>2, <2>3, <2>4
<1> HIDE DEF Inv
<1> QED
  BY <1>1, <1>2, <1>3, PTL DEF DbSpec
=============================================================================
