----------------------------- MODULE SpcomTable -----------------------------
(***************************************************************************)
(* The channel table of src/kernel/files/spu/spcom.c: how channels are     *)
(* created by the write command ("legacy", under chdev_count_lock) and by  *)
(* ioctls (under ch_list_lock), how processes join and leave them through  *)
(* the reference-counted control device, how the rpmsg devices of the      *)
(* secure processor (SP) come and go, the link-state poll, and removal.    *)
(***************************************************************************)
EXTENDS Integers, FiniteSets, FiniteSetsExt

CONSTANTS TbNames, TbProcs,
          TbSlots,    \* SPCOM_MAX_CHANNELS
          TbMaxRef,   \* bound: control files of a process
          TbOnward,   \* bound, TRUE: creations go on after two have overlapped
          TbNo

ASSUME TbAssumption ==
    /\ TbSlots \in Nat \ {0} /\ TbMaxRef \in Nat \ {0}
    /\ TbOnward \in BOOLEAN /\ TbNo \notin TbNames \cup TbProcs

VARIABLES
    tbName,   \* name of each entry, TbNo when free
    tbShar,   \* is_sharable
    tbDrv,    \* rpdrv: the rpmsg driver is registered
    tbPids,   \* pid[]
    tbCtl,    \* ref_cnt of each process's control channel
    tbJob,    \* per process: the creation it is in the middle of
    tbMixed,  \* ghost: creations under the two locks have overlapped
    tbUp,     \* the SP runs
    tbDev,    \* the rpmsg device of each entry: "off", "counted" or "on"
    tbCount,  \* rpmsg_dev_count
    tbChange, \* completion rpmsg_state_change
    tbPoll,   \* the poller: "idle", or the link state it went to sleep with
    tbGone    \* spcom_remove has run

tbTable == <<tbName, tbShar, tbDrv, tbPids>>
tbLink == <<tbDev, tbUp, tbCount, tbChange, tbPoll>>
tbMade == <<tbJob, tbMixed>>
tbVars == <<tbTable, tbLink, tbCtl, tbMade, tbGone>>

TbI == 1..TbSlots
TbNoJob == [api |-> "none", slot |-> 1, name |-> TbNo, shar |-> FALSE, new |-> FALSE]
TbIdle(p) == tbJob[p] = TbNoJob
TbBusy(A) == \E p \in TbProcs : tbJob[p].api \in A

\* ch_list_lock, and chdev_count_lock.
TbListFree == ~TbBusy({"register", "shared"})
TbChdevFree == ~TbBusy({"legacy"})

\* spcom_probe: the table is empty but for the predefined channel, which
\* spcom_create_predefined_channels_chardev made.
TbInit ==
    /\ \E n \in TbNames : tbName = [i \in TbI |-> IF i = 1 THEN n ELSE TbNo]
    /\ tbShar = [i \in TbI |-> FALSE]
    /\ tbDrv = [i \in TbI |-> i = 1]
    /\ tbDev = [i \in TbI |-> "off"]
    /\ tbPids = [i \in TbI |-> {}]
    /\ tbCtl = [p \in TbProcs |-> 0] /\ tbJob = [p \in TbProcs |-> TbNoJob]
    /\ tbMixed = FALSE /\ tbUp = FALSE /\ tbCount = 0
    /\ tbChange = FALSE /\ tbPoll = "idle" /\ tbGone = FALSE

-----------------------------------------------------------------------------
(* The control device.                                                     *)

\* spom_control_channel_add_client.
TbControlOpen(p) ==
    /\ TbIdle(p) /\ TbListFree /\ tbCtl[p] < TbMaxRef
    /\ tbCtl' = [tbCtl EXCEPT ![p] = @ + 1]
    /\ UNCHANGED <<tbTable, tbLink, tbMade, tbGone>>

\* spom_control_channel_remove_client: with the last control file all channels
\* of the process go (spcom_release_all_channels_of_process).
MutTbControlClose(p) ==
    /\ TbIdle(p) /\ TbListFree /\ tbCtl[p] > 0
    /\ tbCtl' = [tbCtl EXCEPT ![p] = 0]
    /\ tbPids' = IF tbCtl[p] = 1 THEN [i \in TbI |-> tbPids[i] \ {p}] ELSE tbPids
    /\ UNCHANGED <<tbName, tbShar, tbDrv, tbLink, tbMade, tbGone>>
TbControlClose(p) ==
    /\ TbIdle(p) /\ TbListFree /\ tbCtl[p] > 0
    /\ tbCtl' = [tbCtl EXCEPT ![p] = @ - 1]
    /\ tbPids' = IF tbCtl'[p] = 0 THEN [i \in TbI |-> tbPids[i] \ {p}] ELSE tbPids
    /\ UNCHANGED <<tbName, tbShar, tbDrv, tbLink, tbMade, tbGone>>

-----------------------------------------------------------------------------
(* Creating and joining channels.                                          *)

TbFind(n) == {i \in TbI : tbName[i] = n}

\* The scan of the table: spcom_create_channel for the ioctls, and
\* spcom_create_channel_chardev for the write command, which refuses a name that
\* exists.  A shared create of an existing name returns at once.
TbScan(p, api, n, sh) ==
    /\ TbIdle(p) /\ tbCtl[p] > 0
    /\ IF api = "legacy" THEN TbChdevFree ELSE TbListFree
    /\ api = "shared" => sh
    /\ api = "register" => ~sh
    /\ tbMixed => TbOnward
    /\ tbMixed' = (tbMixed \/ \E q \in TbProcs : ~TbIdle(q))
    /\ \/ /\ TbFind(n) = {} /\ TbFind(TbNo) # {}
          /\ tbJob' = [tbJob EXCEPT ![p] = [api |-> api, slot |-> Min(TbFind(TbNo)),
                                            name |-> n, shar |-> sh, new |-> TRUE]]
       \/ /\ TbFind(n) # {} /\ api = "register"
          /\ tbJob' = [tbJob EXCEPT ![p] = [api |-> api, slot |-> Min(TbFind(n)),
                                            name |-> n, shar |-> sh, new |-> FALSE]]
    /\ UNCHANGED <<tbTable, tbLink, tbCtl, tbGone>>

\* spcom_init_channel wipes the entry, whatever it holds by now.
TbInitChannel(p) ==
    LET j == tbJob[p]
    IN /\ j.new
       /\ tbName' = [tbName EXCEPT ![j.slot] = j.name]
       /\ tbShar' = [tbShar EXCEPT ![j.slot] = j.shar]
       /\ tbDrv' = [tbDrv EXCEPT ![j.slot] = FALSE]
       /\ tbPids' = [tbPids EXCEPT ![j.slot] = {}]
       /\ tbJob' = [tbJob EXCEPT ![p] = IF j.api = "shared" THEN TbNoJob
                                        ELSE [j EXCEPT !.new = FALSE]]
       /\ UNCHANGED <<tbLink, tbMixed, tbCtl, tbGone>>

\* spcom_register_rpmsg_drv, which the ioctl leaves out for an open channel and which
\* fails on one, and, for the ioctl, spcom_register_channel.
TbRegistered(p) ==
    LET j == tbJob[p]
        full == Cardinality(tbPids[j.slot]) >= IF tbShar[j.slot] THEN 5 ELSE 1
    IN /\ ~TbIdle(p) /\ ~j.new
       /\ j.api = "legacy" => ~tbDrv[j.slot]
       /\ tbDrv' = [tbDrv EXCEPT ![j.slot] = TRUE]
       /\ tbPids' = IF j.api = "legacy" \/ full THEN tbPids
                    ELSE [tbPids EXCEPT ![j.slot] = @ \cup {p}]
       /\ tbJob' = [tbJob EXCEPT ![p] = TbNoJob]
       /\ UNCHANGED <<tbName, tbShar, tbLink, tbMixed, tbCtl, tbGone>>

\* The driver is not registered, or the character device not made: the write command
\* frees the entry again.
TbRegisterFails(p) ==
    LET j == tbJob[p]
    IN /\ ~TbIdle(p) /\ ~j.new
       /\ j.api = "legacy" \/ ~tbDrv[j.slot]
       /\ tbName' = IF j.api = "legacy" THEN [tbName EXCEPT ![j.slot] = TbNo] ELSE tbName
       /\ tbJob' = [tbJob EXCEPT ![p] = TbNoJob]
       /\ UNCHANGED <<tbShar, tbDrv, tbPids, tbLink, tbMixed, tbCtl, tbGone>>

\* spcom_ioctl_handle_channel_unregister_command.
TbUnregister(p, i) ==
    /\ TbIdle(p) /\ tbCtl[p] > 0 /\ TbListFree
    /\ tbName[i] # TbNo /\ p \in tbPids[i] /\ tbDrv[i]
    /\ tbPids' = [tbPids EXCEPT ![i] = @ \ {p}]
    /\ UNCHANGED <<tbName, tbShar, tbDrv, tbLink, tbCtl, tbMade, tbGone>>

-----------------------------------------------------------------------------
(* rpmsg devices and the link state.                                       *)

tbRest == <<tbTable, tbCtl, tbMade, tbGone>>

\* The SP boots, or goes down; the devices follow.
TbSpBoots ==
    /\ ~tbUp /\ (\A i \in TbI : tbDev[i] = "off") /\ tbUp' = TRUE
    /\ UNCHANGED <<tbRest, tbDev, tbCount, tbChange, tbPoll>>
TbSpDies ==
    /\ tbUp /\ tbUp' = FALSE
    /\ UNCHANGED <<tbRest, tbDev, tbCount, tbChange, tbPoll>>

\* spcom_rpdev_probe counts the device and then reads the count to signal the link.
\* Devices are probed by whoever registers a driver and by the transport, so the
\* probes of two entries may be interleaved.
TbProbe(i) ==
    /\ tbUp /\ tbDrv[i] /\ tbDev[i] = "off" /\ tbName[i] # TbNo
    /\ tbDev' = [tbDev EXCEPT ![i] = "counted"]
    /\ tbCount' = tbCount + 1
    /\ UNCHANGED <<tbRest, tbUp, tbChange, tbPoll>>
TbProbed(i) ==
    /\ tbDev[i] = "counted" /\ tbDev' = [tbDev EXCEPT ![i] = "on"]
    /\ tbChange' = (tbChange \/ tbCount = 1)
    /\ UNCHANGED <<tbRest, tbUp, tbCount, tbPoll>>

\* spcom_rpdev_remove, as far as the table goes: atomic_dec_and_test.
TbRpdevRemove(i) ==
    /\ ~tbUp /\ tbDev[i] = "on" /\ tbDev' = [tbDev EXCEPT ![i] = "off"]
    /\ tbCount' = tbCount - 1
    /\ tbChange' = (tbChange \/ tbCount' = 0)
    /\ UNCHANGED <<tbRest, tbUp, tbPoll>>

\* spcom_ioctl_handle_poll_event and SPCOM_LINK_STATE_REQ of handle_poll, with
\* wait: sleep until the link state changes, then report it.
TbPollSleep ==
    /\ tbPoll = "idle"
    /\ tbChange' = FALSE
    /\ tbPoll' = IF tbCount > 0 THEN "up" ELSE "down"
    /\ UNCHANGED <<tbRest, tbDev, tbUp, tbCount>>
TbPollWake ==
    /\ tbPoll # "idle" /\ tbChange
    /\ tbPoll' = "idle"
    /\ UNCHANGED <<tbRest, tbDev, tbUp, tbCount, tbChange>>

\* spcom_remove: shuts the SP down and destroys the channels up to the first
\* free entry (spcom_destroy_channel_chardev, spcom_unregister_rpmsg_drv).
TbRemove ==
    LET last == {i \in TbI : \A k \in 1..i : tbName[k] # TbNo}
    IN /\ \A p \in TbProcs : TbIdle(p) /\ tbCtl[p] = 0
       /\ tbPoll = "idle" /\ \A i \in TbI : tbDev[i] # "counted"
       /\ tbGone' = TRUE /\ tbUp' = FALSE
       /\ tbDrv' = [i \in TbI |-> tbDrv[i] /\ i \notin last]
       /\ tbDev' = [i \in TbI |-> "off"]
       /\ tbCount' = 0
       /\ UNCHANGED <<tbName, tbShar, tbPids, tbChange, tbPoll, tbCtl, tbMade>>

TbNext ==
    /\ ~tbGone
    /\ \/ \E p \in TbProcs :
            \/ TbControlOpen(p) \/ TbControlClose(p)
            \/ \E n \in TbNames, api \in {"legacy", "shared", "register"}, sh \in BOOLEAN :
                 TbScan(p, api, n, sh)
            \/ TbInitChannel(p) \/ TbRegistered(p) \/ TbRegisterFails(p)
            \/ \E i \in TbI : TbUnregister(p, i)
       \/ TbSpBoots \/ TbSpDies \/ TbPollSleep \/ TbPollWake \/ TbRemove
       \/ \E i \in TbI : TbProbe(i) \/ TbProbed(i) \/ TbRpdevRemove(i)

TbSpec == TbInit /\ [][TbNext]_tbVars

-----------------------------------------------------------------------------
(* Properties.                                                             *)

\* A name has one entry: two processes that create it find the same channel.
TbNamesUnique ==
    \A i, k \in TbI : tbName[i] = tbName[k] /\ tbName[i] # TbNo => i = k

\* An entry in use is never given to another name, nor wiped while processes are
\* its clients ("The channel list is protected by a single lock during the create
\* and register flow").
TbEntryKept ==
    [][\A i \in TbI :
         /\ tbName[i] # TbNo /\ tbName'[i] # tbName[i] => tbName'[i] = TbNo /\ tbPids[i] = {}
         /\ tbDrv[i] /\ ~tbDrv'[i] => tbGone']_tbVars

\* A process without a control file is a client of nothing, however often it
\* opened and closed the control device: its place is free for the next instance.
TbNoGhosts == \A p \in TbProcs : tbCtl[p] = 0 => \A i \in TbI : p \notin tbPids[i]

\* A poller never sleeps through the loss of the link: the last device that goes,
\* whatever others are being probed or removed meanwhile, wakes it.
TbLinkDownSeen == tbPoll = "up" /\ tbCount = 0 => tbChange

\* After removal no rpmsg driver with callbacks into the module is left.
TbRemovesAll == tbGone => \A i \in TbI : ~tbDrv[i]

\* The channel table fits what the processes and the link have done, after any
\* sequence of creations, opens, closes, probes, removals and polls.  That names have
\* one entry and that removal finds every driver holds until a creation by the write
\* command and one by an ioctl overlap.
TbSafe == TbNoGhosts /\ TbLinkDownSeen /\ (~tbMixed => TbNamesUnique /\ TbRemovesAll)
=============================================================================
