---------------------------- MODULE SpcomChannel ----------------------------
(***************************************************************************)
(* One spcom channel between user processes and the secure processor (SP): *)
(* src/kernel/files/spu/spcom.c.  A process sends a request and reads its  *)
(* answer through the channel's character device (FileClients) or through  *)
(* the ioctls of the control device (the other Clients); packets of the SP *)
(* go through one list and one worker; the SP may crash at any point and   *)
(* come back.  ch->lock sections are atomic, every unlock is a new step.   *)
(*                                                                         *)
(* A packet is [txn, req, sess]: the transaction id of its header, and two *)
(* ghosts: the request it carries or answers, and the spell of the link    *)
(* (odd while it is up) in which its header was made.                      *)
(***************************************************************************)
EXTENDS Integers, Sequences, FiniteSets

CONSTANTS Clients,      \* processes, one thread each
          FileClients,  \* those that use the character device
          Kinds,        \* kinds of channel: "shared", "client", "server"
          MaxReq,       \* bound: requests of a behaviour
          MaxCrowd,     \* bound: the same, once an exclusive channel has two users
          MaxCrash,     \* bound: crashes of the SP
          MaxDrift,     \* bound: nobody joins once num_clients is further below zero
          ReadsAgain,   \* TRUE: users read also when they have nothing to expect
          NoOne

INITIAL_TXN_ID == 1
SPCOM_MAX_CHANNEL_CLIENTS == 5

ASSUME ClientsAssumption ==
    /\ FileClients \subseteq Clients /\ NoOne \notin Clients
    /\ Kinds \subseteq {"shared", "client", "server"}
    /\ MaxReq \in Nat /\ MaxCrowd \in Nat /\ MaxCrash \in Nat /\ MaxDrift \in Nat
    /\ ReadsAgain \in BOOLEAN

VARIABLES
    kind,       \* which channel this is; never changes
    rpdev,      \* TRUE: the SP side is connected
    abort,      \* rpmsg_abort
    txn,        \* txn_id
    rxTxn,      \* rx_buf_txn_id
    rxBuf,      \* actual_rx_size and the data, a sequence of 0 or 1 packet
    stale,      \* rpmsg_rx_buf still points to a buffer that was freed
    rxDone,     \* completion rx_done
    role,       \* "undefined", "client", "server"
    members,    \* pid[]
    numClients, \* num_clients
    isBusy,     \* is_busy
    files,      \* processes that have the channel's file open
    crowded,    \* ghost: somebody joined an exclusive channel that had a user
    active,     \* active_pid
    sync,       \* owner of shared_sync_lock
    rxList,     \* rx_list_head, oldest first
    pending,    \* the worker is scheduled
    running,    \* the worker runs
    pc, hdr, asked, got,  \* per process: step, tx header, open request, packet being read
    sp,         \* requests the SP has to answer, or the answers it was given
    sess, reqs  \* spell of the link, requests so far

chan == <<kind, rpdev, abort, txn, rxTxn, rxBuf, stale, rxDone, role>>
club == <<members, numClients, isBusy, files, crowded>>
lock == <<active, sync>>
work == <<rxList, pending, running>>
proc == <<pc, hdr, asked, got>>
peer == <<sp, sess, reqs>>
vars == <<chan, club, lock, work, proc, peer>>

NoPacket == [txn |-> -1, req |-> 0, sess |-> 0]

Sharable == kind = "shared"
max_clients == IF Sharable THEN SPCOM_MAX_CHANNEL_CLIENTS ELSE 1
Step(p, s) == pc' = [pc EXCEPT ![p] = s]
IoctlClient(p) == p \notin FileClients

\* Who may call: the holder of an open file, and for an ioctl a registered client.
MayCall(p) == IF IoctlClient(p) THEN p \in members ELSE p \in files
Users == files \cup members

\* The channel is created and its rpmsg driver registered.
Init ==
    /\ kind \in Kinds
    /\ rpdev = FALSE /\ abort = FALSE
    /\ txn = INITIAL_TXN_ID /\ rxTxn = INITIAL_TXN_ID
    /\ rxBuf = <<>> /\ stale = FALSE /\ rxDone = FALSE /\ role = "undefined"
    /\ members = {} /\ numClients = 0 /\ isBusy = FALSE /\ files = {} /\ crowded = FALSE
    /\ active = NoOne /\ sync = NoOne
    /\ rxList = <<>> /\ pending = FALSE /\ running = FALSE
    /\ pc = [p \in Clients |-> "idle"]
    /\ hdr = [p \in Clients |-> NoPacket]
    /\ asked = [p \in Clients |-> 0]
    /\ got = [p \in Clients |-> NoPacket]
    /\ sp = <<>> /\ sess = 0 /\ reqs = 0

-----------------------------------------------------------------------------
(* Becoming and ceasing to be a client.                                    *)

\* pid[]: a free place of a shared channel (a file that finds none is opened all the
\* same), the one place of another.
Enrol(p) ==
    /\ numClients <= SPCOM_MAX_CHANNEL_CLIENTS \/ numClients >= 256 - MaxDrift
    /\ members' = IF ~Sharable THEN {p}
                  ELSE IF Cardinality(members) < max_clients THEN members \cup {p} ELSE members
    /\ crowded' = (crowded \/ (~Sharable /\ Users \ {p} # {}))

\* spcom_device_open of the channel's file.  num_clients is a uint8_t.
DeviceOpen(p) ==
    /\ pc[p] = "idle" /\ p \in FileClients \ files
    /\ ~isBusy /\ p \notin members
    /\ Enrol(p)
    /\ numClients' = IF Sharable THEN (numClients + 1) % 256 ELSE 1
    /\ isBusy' = IF Sharable THEN numClients' >= SPCOM_MAX_CHANNEL_CLIENTS ELSE TRUE
    /\ files' = files \cup {p}
    /\ UNCHANGED <<chan, lock, work, proc, peer>>

\* spcom_register_channel, from the register ioctl (which relies on is_busy for a
\* free place).
RegisterChannel(p) ==
    /\ pc[p] = "idle" /\ IoctlClient(p)
    /\ ~isBusy /\ p \notin members
    /\ Sharable => Cardinality(members) < max_clients
    /\ Enrol(p)
    /\ numClients' = (numClients + 1) % 256
    /\ isBusy' = (numClients' = max_clients)
    /\ UNCHANGED <<files, chan, lock, work, proc, peer>>

\* The unconsumed packet is freed.
DropBuffer ==
    /\ rxBuf' = <<>> /\ stale' = FALSE
    /\ UNCHANGED <<kind, rpdev, abort, txn, rxTxn, rxDone, role>>

MutReleaseSync(p) ==
    IF active = p THEN sync' = NoOne /\ UNCHANGED active ELSE UNCHANGED lock

\* Drops active_pid and the lock held for it.
ReleaseSync(p) ==
    IF active = p
      THEN active' = NoOne /\ sync' = NoOne
      ELSE UNCHANGED lock

\* A process that leaves forgets its open request.
Forget(p) ==
    /\ asked' = [asked EXCEPT ![p] = 0]
    /\ got' = [got EXCEPT ![p] = NoPacket]

\* spcom_device_release, by close or by the death of the process.  The last client by
\* num_clients clears active_pid and unlocks nothing.
DeviceRelease(p) ==
    /\ pc[p] = "idle" /\ p \in files
    /\ members' = members \ {p}
    /\ isBusy' = FALSE
    /\ files' = files \ {p}
    /\ IF numClients > 1
         THEN /\ numClients' = numClients - 1
              /\ ReleaseSync(p)
              /\ UNCHANGED chan
         ELSE /\ numClients' = 0
              /\ active' = NoOne
              /\ DropBuffer
              /\ UNCHANGED sync
    /\ Forget(p)
    /\ UNCHANGED <<crowded, pc, hdr, work, peer>>

\* spcom_channel_deinit_locked, from the unregister ioctl or from closing the control
\* device.  A file client has that open too, and its exit closes both.
ChannelDeinit(p) ==
    /\ pc[p] = "idle" /\ p \in members
    /\ members' = members \ {p}
    /\ ReleaseSync(p)
    /\ numClients' = (numClients - 1) % 256
    /\ isBusy' = FALSE
    /\ DropBuffer
    /\ Forget(p)
    /\ UNCHANGED <<files, crowded, pc, hdr, work, peer>>

Membership(p) ==
    DeviceOpen(p) \/ RegisterChannel(p) \/ DeviceRelease(p) \/ ChannelDeinit(p)

-----------------------------------------------------------------------------
(* Sending: spcom_handle_write and spcom_handle_send_command for a file,   *)
(* spcom_send_message for an ioctl.                                        *)

\* spcom_handle_send_command checks the connection a second time.
AfterSync(p) == IF IoctlClient(p) THEN "prepare" ELSE "check"

\* A process asks again once it is not waiting for an answer, and answers what
\* it has read; connected is checked before any lock is taken.
SendStart(p) ==
    /\ pc[p] = "idle" /\ MayCall(p)
    /\ IF role = "server" THEN got[p] # NoPacket /\ asked[p] = 0
                          ELSE asked[p] = 0 /\ reqs < MaxReq
    /\ crowded => reqs < MaxCrowd
    /\ kind = "server" => role = "server"
    /\ rpdev
    /\ Step(p, IF Sharable THEN "sync" ELSE AfterSync(p))
    /\ UNCHANGED <<chan, club, lock, work, hdr, asked, got, peer>>

\* mutex_lock(shared_sync_lock); the file path names the holder at once.
SendSync(p) ==
    /\ pc[p] = "sync" /\ sync = NoOne
    /\ sync' = p
    /\ active' = IF IoctlClient(p) THEN active ELSE p
    /\ Step(p, AfterSync(p))
    /\ UNCHANGED <<chan, club, work, hdr, asked, got, peer>>

\* The second check; on failure spcom_device_write cleans up.
SendRecheck(p) ==
    /\ pc[p] = "check"
    /\ IF rpdev THEN Step(p, "prepare") /\ UNCHANGED lock
                 ELSE Step(p, "idle") /\ ReleaseSync(p)
    /\ UNCHANGED <<chan, club, work, hdr, asked, got, peer>>

\* The header is built under ch->lock: the role, the id and, for an ioctl, the holder.
SendPrepare(p) ==
    /\ pc[p] = "prepare"
    /\ role' = IF role = "undefined" THEN "client" ELSE role
    /\ active' = IF Sharable /\ IoctlClient(p) THEN p ELSE active
    /\ txn' = IF role' = "client" THEN txn + 1 ELSE txn
    /\ reqs' = IF role' = "client" THEN reqs + 1 ELSE reqs
    /\ asked' = [asked EXCEPT ![p] = IF role' = "client" THEN reqs' ELSE got[p].req]
    /\ hdr' = [hdr EXCEPT ![p] = [txn |-> txn', req |-> asked'[p], sess |-> sess]]
    /\ got' = IF role' = "client" THEN [got EXCEPT ![p] = NoPacket] ELSE got
    /\ Step(p, "try")
    /\ UNCHANGED <<kind, rpdev, abort, rxTxn, rxBuf, stale, rxDone, sync, club, work, sp, sess>>

\* rpmsg_trysend accepts the message.
SendAccepted(p) ==
    /\ pc[p] = "try" /\ ~abort
    /\ sp' = Append(sp, hdr[p])
    /\ hdr' = [hdr EXCEPT ![p] = NoPacket]
    /\ Step(p, IF role = "server" THEN "sent" ELSE "idle")
    /\ UNCHANGED <<chan, club, lock, work, asked, got, sess, reqs>>

MutSendFailed(p) ==
    /\ pc[p] = "try" /\ abort
    /\ IF IoctlClient(p)
         THEN UNCHANGED <<lock, asked>>
         ELSE ReleaseSync(p) /\ asked' = [asked EXCEPT ![p] = 0]
    /\ hdr' = [hdr EXCEPT ![p] = NoPacket]
    /\ Step(p, IF role = "server" THEN "sent" ELSE "idle")
    /\ UNCHANGED <<chan, club, work, got, peer>>

\* The attempts end without success.  spcom_handle_send_command reports it and
\* spcom_device_write releases the shared lock; spcom_send_message overwrites
\* the error with the size, so the caller goes on to read.  (An attempt that is
\* repeated after the msleep is the step SendAccepted or this one, later.)
SendFailed(p) ==
    /\ pc[p] = "try"
    /\ IF IoctlClient(p)
         THEN UNCHANGED <<lock, asked>>
         ELSE ReleaseSync(p) /\ asked' = [asked EXCEPT ![p] = 0]
    /\ hdr' = [hdr EXCEPT ![p] = NoPacket]
    /\ Step(p, IF role = "server" THEN "sent" ELSE "idle")
    /\ UNCHANGED <<chan, club, work, got, peer>>

\* A server is done with the request once its answer has been sent or has failed.
SendServerDone(p) ==
    /\ pc[p] = "sent"
    /\ Forget(p)
    /\ Step(p, "idle")
    /\ UNCHANGED <<chan, club, lock, work, hdr, peer>>

Send(p) ==
    \/ SendStart(p) \/ SendSync(p) \/ SendRecheck(p) \/ SendPrepare(p)
    \/ SendAccepted(p) \/ SendFailed(p) \/ SendServerDone(p)

-----------------------------------------------------------------------------
(* Receiving: spcom_get_next_request_size, spcom_rx and their callers.     *)

\* A server asks for the size of the next request, which makes it a server.
NextRequestSize(p) ==
    /\ kind = "server" /\ pc[p] = "idle" /\ MayCall(p) /\ got[p] = NoPacket
    /\ role' = "server"
    /\ rxDone' = FALSE
    /\ Step(p, IF rxBuf # <<>> THEN "sized" ELSE "waitsize")
    /\ UNCHANGED <<kind, rpdev, abort, txn, rxTxn, rxBuf, stale, club, lock, work,
                   hdr, asked, got, peer>>

\* The wait for a request ends: data, or none (-EFAULT).
NextRequestWake(p) ==
    /\ pc[p] = "waitsize" /\ rxDone
    /\ Step(p, IF rxBuf # <<>> THEN "sized" ELSE "idle")
    /\ UNCHANGED <<chan, club, lock, work, hdr, asked, got, peer>>

NextRequestInterrupted(p) ==
    /\ pc[p] = "waitsize" /\ ~rxDone
    /\ Step(p, "idle")
    /\ UNCHANGED <<chan, club, lock, work, hdr, asked, got, peer>>

\* The caller of spcom_rx found the SP connected, or leaves.
GetStart(p) ==
    /\ \/ pc[p] = "sized"
       \/ /\ pc[p] = "idle" /\ role = "client" /\ MayCall(p)
          /\ asked[p] # 0 \/ ReadsAgain
    /\ Step(p, IF rpdev THEN "rx" ELSE "out")
    /\ UNCHANGED <<chan, club, lock, work, hdr, asked, got, peer>>

\* The packet is copied to the caller and freed.
Take(p) ==
    /\ got' = [got EXCEPT ![p] = rxBuf[1]]
    /\ rxBuf' = <<>> /\ stale' = FALSE
    /\ Step(p, IF role = "server" THEN "settxn" ELSE "out")

MutRxEnter(p) ==
    /\ pc[p] = "rx"
    /\ IF rxBuf # <<>>
         THEN Take(p) /\ UNCHANGED rxDone
         ELSE rxBuf' = <<>> /\ stale' = FALSE /\ rxDone' = FALSE /\ Step(p, "wait") /\ UNCHANGED got
    /\ UNCHANGED <<kind, rpdev, abort, txn, rxTxn, role, club, lock, work,
                   hdr, asked, peer>>

\* spcom_rx up to the wait: a packet of another transaction is discarded.
RxEnter(p) ==
    /\ pc[p] = "rx"
    /\ IF rxTxn = txn /\ rxBuf # <<>>
         THEN Take(p) /\ UNCHANGED rxDone
         ELSE /\ rxBuf' = <<>> /\ stale' = FALSE
              /\ rxDone' = FALSE
              /\ Step(p, "wait")
              /\ UNCHANGED got
    /\ UNCHANGED <<kind, rpdev, abort, txn, rxTxn, role, club, lock, work,
                   hdr, asked, peer>>

\* rx_done: aborted, data, or a buffer somebody else dropped (-EFAULT).
RxWake(p) ==
    /\ pc[p] = "wait" /\ rxDone
    /\ IF abort \/ rxBuf = <<>>
         THEN Step(p, "out") /\ UNCHANGED <<rxBuf, stale, got>>
         ELSE Take(p)
    /\ UNCHANGED <<kind, rpdev, abort, txn, rxTxn, rxDone, role, club, lock, work,
                   hdr, asked, peer>>

\* The client's wait runs out ...
RxExpire(p) ==
    /\ pc[p] = "wait" /\ ~rxDone /\ role = "client"
    /\ Step(p, "expired")
    /\ UNCHANGED <<chan, club, lock, work, hdr, asked, got, peer>>

\* ... and under the lock the id moves on, so that a late answer is dropped.
RxExpired(p) ==
    /\ pc[p] = "expired"
    /\ txn' = txn + 1
    /\ Step(p, "out")
    /\ UNCHANGED <<kind, rpdev, abort, rxTxn, rxBuf, stale, rxDone, role, club, lock, work,
                   hdr, asked, got, peer>>

\* A signal ends the wait, and nothing moves the id.
RxInterrupted(p) ==
    /\ pc[p] = "wait" /\ ~rxDone
    /\ Step(p, "out")
    /\ UNCHANGED <<chan, club, lock, work, hdr, asked, got, peer>>

\* A server takes over the id of the request after ch->lock is dropped.
SetServerTxn(p) ==
    /\ pc[p] = "settxn"
    /\ txn' = got[p].txn
    /\ Step(p, "out")
    /\ UNCHANGED <<kind, rpdev, abort, rxTxn, rxBuf, stale, rxDone, role, club, lock, work,
                   hdr, asked, got, peer>>

\* The call returns; the shared lock goes if it is held for this process.
GetOut(p) ==
    /\ pc[p] = "out"
    /\ ReleaseSync(p)
    /\ asked' = [asked EXCEPT ![p] = 0]
    /\ got' = IF role = "client" THEN [got EXCEPT ![p] = NoPacket] ELSE got
    /\ Step(p, "idle")
    /\ UNCHANGED <<chan, club, work, hdr, peer>>

GetStep(p) ==
    \/ GetStart(p) \/ RxEnter(p) \/ RxWake(p) \/ RxExpire(p) \/ RxExpired(p)
    \/ SetServerTxn(p) \/ GetOut(p)
Receive(p) ==
    \/ NextRequestSize(p) \/ NextRequestWake(p) \/ NextRequestInterrupted(p)
    \/ GetStep(p) \/ RxInterrupted(p)

-----------------------------------------------------------------------------
(* Packets and the SP.                                                     *)

\* spcom_rpdev_cb: the packet is queued and the worker scheduled.
RpdevCb(k) ==
    /\ rxList' = Append(rxList, k)
    /\ pending' = TRUE
    /\ UNCHANGED <<chan, club, lock, running, proc>>

\* The SP answers its oldest request.
SpAnswers ==
    /\ kind # "server" /\ rpdev /\ sp # <<>>
    /\ RpdevCb(Head(sp))
    /\ sp' = Tail(sp)
    /\ UNCHANGED <<sess, reqs>>

\* The SP, as a client, sends a request when it is not waiting for an answer;
\* its ids are far from ours.
SpId(req) == 10 + req
SpRequests ==
    /\ kind = "server" /\ rpdev /\ reqs < MaxReq
    /\ sp # <<>>
    /\ reqs' = reqs + 1
    /\ RpdevCb([txn |-> SpId(reqs'), req |-> reqs', sess |-> sess])
    /\ sp' = <<>>
    /\ UNCHANGED sess

\* The worker starts.
WorkStart ==
    /\ pending /\ ~running
    /\ pending' = FALSE /\ running' = TRUE
    /\ UNCHANGED <<rxList, chan, club, lock, proc, peer>>

\* spcom_signal_rx_done handles one packet.  A packet that is dropped ends the
\* run of the worker, whatever is still listed.  After an abort the old buffer is
\* freed and its size cleared, but the pointer stays.
WorkPacket ==
    /\ running /\ rxList # <<>>
    /\ LET k == Head(rxList)
           first == role = "undefined"
           id == IF first THEN k.txn ELSE txn
           dropped == abort \/ (~first /\ role = "client" /\ k.txn # txn)
       IN /\ role' = IF first THEN "server" ELSE role
          /\ txn' = id
          /\ rxList' = Tail(rxList)
          /\ running' = ~dropped
          /\ rxBuf' = IF dropped THEN <<>> ELSE <<k>>
          /\ stale' = (abort /\ (stale \/ rxBuf # <<>>))
          /\ rxTxn' = IF dropped THEN rxTxn ELSE id
          /\ rxDone' = (rxDone \/ ~dropped)
    /\ UNCHANGED <<kind, rpdev, abort, pending, club, lock, proc, peer>>

WorkEnd ==
    /\ running /\ rxList = <<>>
    /\ running' = FALSE
    /\ UNCHANGED <<rxList, pending, chan, club, lock, proc, peer>>

\* spcom_rpdev_probe: the SP has booted and opened its end.
RpdevProbe ==
    /\ ~rpdev
    /\ rpdev' = TRUE /\ abort' = FALSE
    /\ txn' = INITIAL_TXN_ID
    /\ sess' = sess + 1
    /\ sp' = IF kind = "server" THEN <<NoPacket>> ELSE sp
    /\ UNCHANGED <<kind, rxTxn, rxBuf, stale, rxDone, role, club, lock, work, proc, reqs>>

\* spcom_rpdev_remove: the SP went down; every waiter is woken.
RpdevRemove ==
    /\ rpdev /\ sess < 2 * MaxCrash
    /\ rpdev' = FALSE /\ abort' = TRUE
    /\ txn' = 0
    /\ rxDone' = TRUE
    /\ sess' = sess + 1 /\ sp' = <<>>
    /\ UNCHANGED <<kind, rxTxn, rxBuf, stale, role, club, lock, work, proc, reqs>>

WorkStep == WorkStart \/ WorkPacket \/ WorkEnd
Next ==
    \/ \E p \in Clients : Membership(p) \/ Send(p) \/ Receive(p)
    \/ SpAnswers \/ SpRequests
    \/ WorkStep
    \/ RpdevProbe \/ RpdevRemove

Spec == Init /\ [][Next]_vars

\* A call that has begun goes on, timers run out, the attempts to send end, the worker
\* runs and the mutex is handed over.  No process owes a call: neither the read that
\* fetches an answer nor the closing of a channel; nor are signals, the SP's answers
\* or its crashes owed.
SendOn(p) == SendRecheck(p) \/ SendPrepare(p) \/ SendFailed(p) \/ SendServerDone(p)
GetOn(p) == pc[p] # "idle" /\ GetStep(p)
Fairness ==
    /\ \A p \in Clients : SF_vars(SendSync(p)) /\ WF_vars(SendOn(p)) /\ WF_vars(GetOn(p))
    /\ WF_vars(WorkStep)

LiveSpec == Spec /\ Fairness

-----------------------------------------------------------------------------
(* Properties.                                                             *)

\* A client that reads a packet of the present spell of the link reads the answer
\* to its own last request, whatever timed out, was interrupted or was sent by
\* another client of the channel in between (txn_id, rx_buf_txn_id, the shared
\* lock held from request to answer).
OwnAnswer ==
    \A p \in Clients :
        pc[p] = "out" /\ role = "client" /\ got[p] # NoPacket /\ got[p].sess = sess
            => got[p].req = asked[p]

\* An answer that names a request of the SP is the answer to that request, even
\* when the SP restarted while the server was working on it.
ReplyNamesRequest ==
    kind = "server" =>
        \A i \in 1..Len(sp) : sp[i].txn > SpId(0) => sp[i].txn = SpId(sp[i].req)

\* Requests and answers belong together on both sides of a channel, however its clients
\* come, go and die, as long as an exclusive channel has had one user at a time (is_busy
\* does not see to that: the exit of a file client clears it twice).
PacketsMatch == ~crowded => OwnAnswer /\ ReplyNamesRequest

\* rpmsg_trysend is given a connected device: connected was checked before the
\* locks, and every attempt of the loop relies on rpmsg_abort.
SendHasDevice == \A p \in Clients : pc[p] = "try" /\ ~abort => rpdev

\* Whoever active_pid names owns shared_sync_lock, so that dropping the lock for it
\* never drops another's; and a process outside the driver is named only while the
\* answer to its request is still to be read.
ActiveOwnsLock ==
    \A p \in Clients : active = p => sync = p /\ (pc[p] = "idle" => asked[p] # 0)

\* active_pid is given up together with the lock.  The one step that keeps the lock
\* for nobody is the close of a channel file that num_clients takes for the last.
LockGivenUp ==
    [][active # NoOne /\ active' # active /\ sync' = sync
         => \E p \in files : p \notin files' /\ numClients' = 0]_vars

\* The lock of a shared channel and its device stay consistent whichever way a client
\* leaves: by its answer, a timeout, a signal, a failed send, an unregister, a close of
\* its files in any order, or its death.
ChannelLocks == [](SendHasDevice /\ ActiveOwnsLock) /\ LockGivenUp

\* The driver never sits on the shared lock: a process waits for it for ever only if the
\* holder stays out of the driver from some time on (it does not fetch its answer, or
\* has died as the last client) or waits for the lock it left behind itself.
SharedLockPasses ==
    \A p \in Clients :
        pc[p] = "sync" ~> \/ pc[p] # "sync"
                          \/ [](sync # NoOne /\ pc[sync] \in {"idle", "sync"})
=============================================================================
