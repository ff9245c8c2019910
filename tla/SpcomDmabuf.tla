---------------------------- MODULE SpcomDmabuf ----------------------------
(***************************************************************************)
(* The shared buffers a channel of src/kernel/files/spu/spcom.c keeps      *)
(* referenced while the secure processor (SP) may use them: dmabuf_array.  *)
(* A buffer is a DMA-BUF or a QTEE shared-memory file; it is locked by an  *)
(* ioctl or, DMA-BUFs only, by a write command; a "modified" message hands *)
(* its address to the SP.  Everything runs under ch->lock.                 *)
(***************************************************************************)
EXTENDS Integers, FiniteSets, FiniteSetsExt

CONSTANTS DbBufs,    \* DMA-BUFs
          DbTees,    \* QTEE shared-memory files
          DbProcs,   \* processes
          DbSlots,   \* entries of dmabuf_array
          DbHabits,  \* "resend": a message names a mapped buffer again;
                     \* "beside_tee": the write command meets a QTEE entry
          DbMaxOver, \* bound: failed attachments of a buffer
          DbNone

ASSUME DbAssumption ==
    /\ DbSlots \in Nat \ {0} /\ DbMaxOver \in Nat
    /\ DbNone \notin DbBufs \cup DbTees \cup DbProcs
    /\ DbBufs \cap DbTees = {} /\ DbHabits \subseteq {"resend", "beside_tee"}

VARIABLES dbSlot,  \* dmabuf_array: handle, tee_shm_file, owner_pid, attach
          dbRefs,  \* references the driver holds on each buffer
          dbOver,  \* ghost: references of it that failed attachments put once too often
          dbMaps,  \* attachments of each DMA-BUF that are mapped
          dbSent,  \* buffers whose address the SP has been given
          dbUp     \* the SP is connected

dbVars == <<dbSlot, dbRefs, dbOver, dbMaps, dbSent, dbUp>>

DbI == 1..DbSlots
DbEmpty == [handle |-> DbNone, tee |-> DbNone, owner |-> DbNone, attach |-> FALSE]
DbHolds(e, b) == e.handle = b \/ e.tee = b
DbInUse(e) == e.handle # DbNone \/ e.tee # DbNone

DbInit ==
    /\ dbSlot = [i \in DbI |-> DbEmpty]
    /\ dbRefs = [b \in DbBufs \cup DbTees |-> 0]
    /\ dbOver = [b \in DbBufs \cup DbTees |-> 0]
    /\ dbMaps = [b \in DbBufs |-> 0]
    /\ dbSent = {} /\ dbUp = TRUE

\* A lock that finds the buffer locked, or no entry, gives its reference back.
DbGiveBack(b) == UNCHANGED dbRefs

\* spcom_ioctl_handle_lock_dmabuf_command.
DbLock(p, b) ==
    LET free == {i \in DbI : ~DbInUse(dbSlot[i])}
    IN IF free = {} \/ \E i \in DbI : DbHolds(dbSlot[i], b)
         THEN DbGiveBack(b) /\ UNCHANGED <<dbSlot, dbOver, dbMaps, dbSent, dbUp>>
         ELSE /\ dbSlot' = [dbSlot EXCEPT ![Min(free)] =
                   [handle |-> IF b \in DbBufs THEN b ELSE DbNone,
                    tee |-> IF b \in DbTees THEN b ELSE DbNone,
                    owner |-> p, attach |-> FALSE]]
              /\ dbRefs' = [dbRefs EXCEPT ![b] = @ + 1]
              /\ UNCHANGED <<dbOver, dbMaps, dbSent, dbUp>>

\* spcom_handle_lock_ion_buf_command: it looks at the handles only, and leaves
\* owner_pid as it is.
DbIonLock(b) ==
    LET free == {i \in DbI : dbSlot[i].handle = DbNone}
    IN IF free = {} \/ \E i \in DbI : dbSlot[i].handle = b
         THEN DbGiveBack(b) /\ UNCHANGED <<dbSlot, dbOver, dbMaps, dbSent, dbUp>>
         ELSE /\ dbSlot[Min(free)].tee # DbNone => "beside_tee" \in DbHabits
              /\ dbSlot' = [dbSlot EXCEPT ![Min(free)].handle = b]
              /\ dbRefs' = [dbRefs EXCEPT ![b] = @ + 1]
              /\ UNCHANGED <<dbOver, dbMaps, dbSent, dbUp>>

\* spcom_dmabuf_unlock of the entries S: unmap, drop the references, clear.
DbPut(S) == [b \in DOMAIN dbRefs |->
                 dbRefs[b] - Cardinality({i \in S : DbHolds(dbSlot[i], b)})]
DbUnmap(S) == [b \in DbBufs |->
                 dbMaps[b] - Cardinality({i \in S : dbSlot[i].handle = b /\ dbSlot[i].attach})]
DbRelease(S) ==
    /\ dbSlot' = [i \in DbI |-> IF i \in S THEN DbEmpty ELSE dbSlot[i]]
    /\ dbRefs' = DbPut(S) /\ dbMaps' = DbUnmap(S)
    /\ UNCHANGED dbOver

\* The entries spcom_dmabuf_unlock lets process p release: its own.  An entry
\* locked by the write command has no owner and is never released this way.
MutDbOwned(p) == {i \in DbI : DbInUse(dbSlot[i])}
DbOwned(p) == {i \in DbI : DbInUse(dbSlot[i]) /\ dbSlot[i].owner = p}

\* By unlocking a buffer it locked a process says that the SP is done with it.
DbGivesUp(p, B) == B \cap {b \in DbBufs : \E i \in DbI : dbSlot[i].handle = b
                                                       /\ dbSlot[i].owner = p}

\* spcom_ioctl_handle_unlock_dmabuf_command of one buffer, which is what the
\* write command spcom_handle_unlock_ion_buf_command does for a DMA-BUF.
DbUnlock(p, b) ==
    LET S == {i \in DbOwned(p) : DbHolds(dbSlot[i], b)}
    IN /\ S # {} /\ DbRelease(S)
       /\ dbSent' = dbSent \ DbGivesUp(p, {b})
       /\ UNCHANGED dbUp

\* The ioctl with SPCOM_DMABUF_FD_UNLOCK_ALL.
DbUnlockAll(p) ==
    /\ DbOwned(p) # {} /\ DbRelease(DbOwned(p))
    /\ dbSent' = dbSent \ DbGivesUp(p, DbBufs)
    /\ UNCHANGED dbUp

\* spcom_handle_send_modified_command and spcom_send_message call
\* modify_dma_buf_addr: get, attach, map, keep the mapping in the buffer's entry, put.
\* The connection was checked before ch->lock.  The message itself may then fail, at its
\* next buffer or in rpmsg_trysend, and the mapping stays.
DbSendModified(b) ==
    /\ \E i \in DbI :
         /\ dbSlot[i].handle = b
         /\ dbSlot[i].attach => "resend" \in DbHabits
         /\ dbSlot' = [dbSlot EXCEPT ![i].attach = TRUE]
    /\ dbMaps' = [dbMaps EXCEPT ![b] = @ + 1]
    /\ dbSent' \in IF dbUp THEN {dbSent, dbSent \cup {b}} ELSE {dbSent}
    /\ UNCHANGED <<dbRefs, dbOver, dbUp>>

\* mem_map_sg_failed and mem_map_table_failed: the buffer cannot be mapped or is not
\* locked; it is unmapped, detached and put.
DbMapFails(b) == DbGiveBack(b) /\ UNCHANGED <<dbSlot, dbOver, dbMaps, dbSent, dbUp>>

\* A failed dma_buf_attach puts the buffer and jumps to the label that, past
\* dma_buf_detach of what is no attachment, puts it once more.
DbAttachFails(b) ==
    /\ dbOver[b] < DbMaxOver
    /\ dbRefs' = [dbRefs EXCEPT ![b] = @ - 1]
    /\ dbOver' = [dbOver EXCEPT ![b] = @ + 1]
    /\ UNCHANGED <<dbSlot, dbMaps, dbSent, dbUp>>

\* spcom_rpdev_remove of sp_kernel: every entry that holds a DMA-BUF is unlocked,
\* whoever owns it.
DbRemove ==
    /\ dbUp /\ dbUp' = FALSE
    /\ DbRelease({i \in DbI : dbSlot[i].handle # DbNone})
    /\ dbSent' = {}

\* spcom_rpdev_probe: the SP is back.
DbProbe ==
    /\ ~dbUp /\ dbUp' = TRUE
    /\ UNCHANGED <<dbSlot, dbRefs, dbOver, dbMaps, dbSent>>

DbNext ==
    \/ \E p \in DbProcs, b \in DbBufs \cup DbTees : DbLock(p, b) \/ DbUnlock(p, b)
    \/ \E p \in DbProcs : DbUnlockAll(p)
    \/ \E b \in DbBufs :
         DbIonLock(b) \/ DbSendModified(b) \/ DbMapFails(b) \/ DbAttachFails(b)
    \/ DbRemove \/ DbProbe

DbSpec == DbInit /\ [][DbNext]_dbVars

-----------------------------------------------------------------------------
(* Properties.                                                             *)

\* The driver holds one reference per entry that names the buffer, less one for every
\* attachment that failed: no failed lock, failed mapping, unlock or removal leaks or
\* over-releases one, and the second put of a failed dma_buf_attach is the only one
\* that takes a reference the driver does not own.
DbRefsBalanced ==
    \A b \in DbBufs \cup DbTees :
        dbRefs[b] + dbOver[b] = Cardinality({i \in DbI : DbHolds(dbSlot[i], b)})

\* Every mapping that is still up is remembered by an entry that will undo it.
DbMapsRecorded ==
    \A b \in DbBufs :
        dbMaps[b] = Cardinality({i \in DbI : dbSlot[i].handle = b /\ dbSlot[i].attach})

\* A buffer whose address the SP was given stays referenced until the process
\* that locked it unlocks it or the SP goes down ("prevent it from being free if
\* the userspace App crash, while it is used by the remote subsystem"), unless an
\* attachment of it has failed.
DbSentStaysLocked == \A b \in dbSent : dbOver[b] = 0 => dbRefs[b] > 0

\* References, mappings and what the SP was told agree, however locks, mappings and
\* messages fail, processes die and the SP restarts, up to the references that failed
\* attachments put twice.
DbSafe == DbRefsBalanced /\ DbMapsRecorded /\ DbSentStaysLocked
=============================================================================
