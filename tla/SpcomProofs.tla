---------------------------- MODULE SpcomProofs ----------------------------
(***************************************************************************)
(* Proofs about spcom.c: the locks of one channel and the packets on it    *)
(* (SpcomChannel), and the table of the channels (SpcomTable), for any set *)
(* of processes, any number of requests, crashes, entries and names.       *)
(***************************************************************************)
EXTENDS SpcomChannel, SpcomTable, FiniteSetTheorems, WellFoundedInduction, TLAPS

-----------------------------------------------------------------------------
(* The types of a channel.                                                 *)

Packet == [txn : Int, req : Nat, sess : Nat]
Elems(s) == {s[i] : i \in 1..Len(s)}

\* The types of what packets depend on.
PacketTypeOK ==
    /\ txn \in Int /\ rxTxn \in Int /\ role \in {"undefined", "client", "server"}
    /\ rxBuf \in Seq(Packet) /\ rxList \in Seq(Packet) /\ sp \in Seq(Packet)
    /\ hdr \in [Clients -> Packet] /\ got \in [Clients -> Packet]
    /\ asked \in [Clients -> Nat] /\ sess \in Nat /\ reqs \in Nat

\* What appending, taking the head and the tail of a list of packets do to its elements.
LEMMA ElemsFacts ==
    ASSUME NEW s \in Seq(Packet)
    PROVE  /\ Elems(s) \subseteq Packet /\ Elems(<<>>) = {}
           /\ \A k \in Packet : /\ Append(s, k) \in Seq(Packet) /\ Append(s, k) # <<>>
                                /\ Elems(Append(s, k)) = Elems(s) \cup {k}
                                /\ <<k>> \in Seq(Packet) /\ Elems(<<k>>) = {k}
           /\ s # <<>> => /\ Head(s) \in Elems(s) /\ s[1] \in Elems(s)
                          /\ Tail(s) \in Seq(Packet) /\ Elems(Tail(s)) \subseteq Elems(s)
<1>1. Elems(s) \subseteq Packet /\ Elems(<<>>) = {}
  BY DEF Elems
<1>2. ASSUME NEW k \in Packet
      PROVE  /\ Append(s, k) \in Seq(Packet) /\ Append(s, k) # <<>>
             /\ <<k>> \in Seq(Packet) /\ Elems(<<k>>) = {k}
  BY DEF Elems
<1>3. ASSUME NEW k \in Packet PROVE Elems(Append(s, k)) = Elems(s) \cup {k}
  <2>1. Len(Append(s, k)) = Len(s) + 1 /\ Append(s, k)[Len(s) + 1] = k /\ Len(s) \in Nat
        /\ \A i \in 1..Len(s) : Append(s, k)[i] = s[i]
    OBVIOUS
  <2> QED
    BY <2>1 DEF Elems
<1>4. ASSUME s # <<>>
      PROVE  /\ Head(s) \in Elems(s) /\ s[1] \in Elems(s)
             /\ Tail(s) \in Seq(Packet) /\ Elems(Tail(s)) \subseteq Elems(s)
  <2>1. Len(s) >= 1 /\ Head(s) = s[1] /\ Tail(s) \in Seq(Packet) /\ Len(Tail(s)) = Len(s) - 1
        /\ \A i \in 1..Len(Tail(s)) : Tail(s)[i] = s[i + 1]
    BY <1>4
  <2> QED
    BY <2>1 DEF Elems
<1> QED
  BY <1>1, <1>2, <1>3, <1>4

\* The types are kept.
LEMMA PacketTypeNext ==
    ASSUME PacketTypeOK, [Next]_vars
    PROVE  PacketTypeOK'
<1> USE DEF PacketTypeOK, chan, club, lock, work, proc, peer
<1>1. NoPacket \in Packet
  BY DEF NoPacket, Packet
<1>2. (rxBuf # <<>> => rxBuf[1] \in Packet) /\ rxBuf \in Seq(Packet) /\ <<>> \in Seq(Packet)
  BY ElemsFacts
<1>3. ASSUME NEW p \in Clients, Membership(p) PROVE PacketTypeOK'
  <2>1. CASE DeviceOpen(p) \/ RegisterChannel(p)
    BY <2>1 DEF DeviceOpen, RegisterChannel
  <2>2. CASE DeviceRelease(p)
    <3>1. rxBuf' = <<>> \/ rxBuf' = rxBuf
      BY <2>2 DEF DeviceRelease, DropBuffer
    <3>2. UNCHANGED <<txn, rxTxn, role, hdr, work, peer>> /\ Forget(p)
      BY <2>2 DEF DeviceRelease, DropBuffer
    <3>3. rxBuf' \in Seq(Packet)
      BY <1>2, <3>1, Zenon
    <3>4. asked' \in [Clients -> Nat] /\ got' \in [Clients -> Packet]
      BY <1>1, <3>2 DEF Forget
    <3> QED
      BY <3>2, <3>3, <3>4
  <2>3. CASE ChannelDeinit(p)
    BY <1>1, <2>3 DEF ChannelDeinit, DropBuffer, Forget
  <2> QED
    BY <1>3, <2>1, <2>2, <2>3 DEF Membership
<1>4. ASSUME NEW p \in Clients, SendPrepare(p) PROVE PacketTypeOK'
  <2>1. /\ role' \in {"undefined", "client", "server"} /\ txn' \in Int /\ reqs' \in Nat
    BY <1>4 DEF SendPrepare
  <2>2. got[p].req \in Nat
    BY DEF Packet
  <2>3. asked' \in [Clients -> Nat] /\ got' \in [Clients -> Packet]
    BY <1>1, <1>4, <2>1, <2>2 DEF SendPrepare
  <2>4. [txn |-> txn', req |-> asked'[p], sess |-> sess] \in Packet
    BY <2>1, <2>3 DEF Packet
  <2>5. hdr' \in [Clients -> Packet]
    BY <1>4, <2>4 DEF SendPrepare
  <2> QED
    BY <1>4, <2>1, <2>3, <2>5 DEF SendPrepare
<1>5. ASSUME NEW p \in Clients, SendAccepted(p) PROVE PacketTypeOK'
  <2>1. sp' \in Seq(Packet) /\ hdr' \in [Clients -> Packet]
    BY <1>1, <1>5, ElemsFacts DEF SendAccepted
  <2> QED
    BY <1>5, <2>1 DEF SendAccepted
<1>6. ASSUME NEW p \in Clients, SendStart(p) \/ SendSync(p) \/ SendRecheck(p) \/ SendFailed(p)
             \/ SendServerDone(p)
      PROVE  PacketTypeOK'
  <2>1. CASE SendStart(p) \/ SendSync(p) \/ SendRecheck(p)
    BY <2>1 DEF SendStart, SendSync, SendRecheck
  <2>2. CASE SendFailed(p)
    BY <1>1, <2>2 DEF SendFailed
  <2>3. CASE SendServerDone(p)
    BY <1>1, <2>3 DEF SendServerDone, Forget
  <2> QED
    BY <1>6, <2>1, <2>2, <2>3
<1>7. ASSUME NEW p \in Clients, RxEnter(p) \/ RxWake(p) PROVE PacketTypeOK'
  <2>1. \/ UNCHANGED got /\ (rxBuf' = rxBuf \/ rxBuf' = <<>>)
        \/ rxBuf # <<>> /\ got' = [got EXCEPT ![p] = rxBuf[1]] /\ rxBuf' = <<>>
    <3>1. CASE RxEnter(p)
      BY <3>1 DEF RxEnter, Take
    <3>2. CASE RxWake(p)
      BY <3>2 DEF RxWake, Take
    <3> QED
      BY <1>7, <3>1, <3>2
  <2>2. rxBuf' \in Seq(Packet)
    BY <1>2, <2>1, Zenon
  <2>3. got' \in [Clients -> Packet]
    BY <1>2, <2>1
  <2> QED
    BY <1>7, <2>2, <2>3 DEF RxEnter, RxWake
<1>8. ASSUME NEW p \in Clients, SetServerTxn(p) \/ RxExpired(p) PROVE PacketTypeOK'
  BY <1>8, SMTT(30) DEF SetServerTxn, RxExpired, Packet
<1>9. ASSUME NEW p \in Clients,
             \/ NextRequestSize(p) \/ NextRequestWake(p) \/ NextRequestInterrupted(p)
             \/ GetStart(p) \/ RxExpire(p) \/ RxInterrupted(p) \/ GetOut(p)
      PROVE  PacketTypeOK'
  <2>1. CASE NextRequestSize(p) \/ NextRequestWake(p) \/ NextRequestInterrupted(p)
    BY <2>1 DEF NextRequestSize, NextRequestWake, NextRequestInterrupted
  <2>2. CASE GetStart(p) \/ RxExpire(p) \/ RxInterrupted(p)
    BY <2>2 DEF GetStart, RxExpire, RxInterrupted
  <2>3. CASE GetOut(p)
    BY <1>1, <2>3 DEF GetOut
  <2> QED
    BY <1>9, <2>1, <2>2, <2>3
<1>10. CASE SpAnswers
  <2>1. rxList' \in Seq(Packet) /\ sp' \in Seq(Packet)
    BY <1>10, ElemsFacts DEF SpAnswers, RpdevCb
  <2> QED
    BY <1>10, <2>1 DEF SpAnswers, RpdevCb
<1>11. CASE SpRequests
  <2>1. reqs' \in Nat /\ [txn |-> SpId(reqs'), req |-> reqs', sess |-> sess] \in Packet
    BY <1>11 DEF SpRequests, SpId, Packet
  <2>2. rxList' \in Seq(Packet)
    BY <1>11, <2>1, ElemsFacts DEF SpRequests, RpdevCb
  <2> QED
    BY <1>11, <2>1, <2>2 DEF SpRequests, RpdevCb
<1>12. CASE WorkPacket
  <2>1. Head(rxList) \in Packet /\ Tail(rxList) \in Seq(Packet)
    BY <1>12, ElemsFacts DEF WorkPacket
  <2>2. Head(rxList).txn \in Int /\ <<Head(rxList)>> \in Seq(Packet)
    BY <2>1, ElemsFacts DEF Packet
  <2> QED
    BY <1>12, <2>1, <2>2 DEF WorkPacket
<1>13. CASE WorkStart \/ WorkEnd \/ UNCHANGED vars
  BY <1>13 DEF WorkStart, WorkEnd, vars
<1>14. CASE RpdevProbe
  <2>1. <<NoPacket>> \in Seq(Packet)
    BY <1>1, ElemsFacts
  <2> QED
    BY <1>14, <2>1 DEF RpdevProbe, INITIAL_TXN_ID
<1>15. CASE RpdevRemove
  BY <1>15 DEF RpdevRemove
<1> QED
  BY <1>3, <1>4, <1>5, <1>6, <1>7, <1>8, <1>9, <1>10, <1>11, <1>12, <1>13, <1>14, <1>15
     DEF Next, Send, Receive, GetStep, WorkStep

\* A new channel carries nothing.
LEMMA TypeInit == Init => PacketTypeOK
  BY DEF Init, PacketTypeOK, NoPacket, Packet, INITIAL_TXN_ID

-----------------------------------------------------------------------------
(* The locks of a channel.                                                 *)

\* The steps of a call.
Steps == {"idle", "sync", "check", "prepare", "try", "sent", "waitsize", "sized", "rx", "wait",
          "expired", "settxn", "out"}

\* The types of what the locks depend on.
LocksTypeOK ==
    /\ kind \in {"shared", "client", "server"}
    /\ rpdev \in BOOLEAN /\ abort \in BOOLEAN /\ crowded \in BOOLEAN
    /\ members \subseteq Clients /\ files \subseteq FileClients
    /\ active \in Clients \cup {NoOne} /\ sync \in Clients \cup {NoOne}
    /\ pc \in [Clients -> Steps]

\* Where processes ask and the SP answers nobody becomes a server: before the first
\* request nothing is on its way.
RoleInv ==
    kind # "server" =>
        /\ role # "server"
        /\ role = "undefined" => /\ sp = <<>> /\ rxList = <<>>
                                 /\ \A p \in Clients : pc[p] \in {"idle", "sync", "check", "prepare"}
        /\ \A p \in Clients : pc[p] \notin {"sent", "waitsize", "sized", "settxn"}

\* Who has taken shared_sync_lock and not yet built its header holds it; a channel that
\* is not shared has no holder.
PrepareHolds ==
    /\ \A p \in Clients : Sharable /\ pc[p] \in {"check", "prepare"} => sync = p
    /\ \A p \in Clients : pc[p] = "sync" => Sharable
    /\ ~Sharable => active = NoOne /\ sync = NoOne

\* The process active_pid names owns the lock, and is sending or has asked.
ActiveInv ==
    \A p \in Clients : active = p => /\ sync = p
                                     /\ pc[p] \in {"check", "prepare"} \/ asked[p] # 0

\* Whoever is sending has met a connected device; since then it is there or aborted.
SenderMetDevice ==
    \A p \in Clients : pc[p] \in {"sync", "check", "prepare", "try"} => rpdev \/ abort

\* A process inside a call is a user of the channel, the only one unless it is shared.
UsersInv ==
    ~crowded => /\ \A p \in Clients : pc[p] # "idle" => MayCall(p)
                /\ ~Sharable => \A p, q \in Users : p = q

LocksInv ==
    /\ LocksTypeOK /\ RoleInv /\ PrepareHolds /\ ActiveInv /\ SenderMetDevice /\ UsersInv

\* A new channel has no clients and no holder.
LEMMA LocksInit == Init => LocksInv
<1> SUFFICES ASSUME Init PROVE LocksInv
  OBVIOUS
<1> USE ClientsAssumption DEF Init
<1>1. LocksTypeOK /\ RoleInv
  BY DEF LocksTypeOK, RoleInv, Steps
<1>2. PrepareHolds /\ ActiveInv /\ SenderMetDevice /\ UsersInv
  BY DEF PrepareHolds, ActiveInv, SenderMetDevice, UsersInv, Users
<1> QED
  BY <1>1, <1>2 DEF LocksInv

\* A client joins: spcom_device_open and spcom_register_channel.
LEMMA JoinKeepsLocks ==
    ASSUME LocksInv, NEW p \in Clients, DeviceOpen(p) \/ RegisterChannel(p)
    PROVE  LocksInv'
<1> USE ClientsAssumption DEF LocksInv
<1>1. /\ UNCHANGED <<chan, lock, work, proc, peer>>
      /\ members' \in {{p}, members \cup {p}, members}
      /\ ~Sharable => members' = {p}
      /\ Sharable => members \subseteq members'
      /\ files' \in {files, files \cup {p}} /\ files' \subseteq FileClients
      /\ crowded' = (crowded \/ (~Sharable /\ Users \ {p} # {}))
  BY DEF DeviceOpen, RegisterChannel, Enrol, LocksTypeOK
<1>2. LocksTypeOK' /\ RoleInv' /\ PrepareHolds' /\ ActiveInv' /\ SenderMetDevice'
  BY <1>1 DEF LocksTypeOK, RoleInv, PrepareHolds, ActiveInv, SenderMetDevice, Sharable,
     chan, lock, work, proc, peer
<1>3. UsersInv'
  <2> SUFFICES ASSUME ~crowded' PROVE UsersInv'
    BY DEF UsersInv
  <2>1. ~crowded /\ (~Sharable => Users \subseteq {p})
    BY <1>1 DEF LocksTypeOK
  <2>2. Sharable' = Sharable /\ pc' = pc
    BY <1>1 DEF Sharable, chan, proc
  <2>3. CASE Sharable
    BY <1>1, <2>1, <2>2, <2>3 DEF UsersInv, MayCall, IoctlClient
  <2>4. CASE ~Sharable
    <3>1. Users' \subseteq {p}
      BY <1>1, <2>1, <2>4 DEF Users
    <3>2. ASSUME NEW q \in Clients, pc[q] # "idle" PROVE MayCall(q)'
      <4>1. MayCall(q) /\ q \in Users
        BY <2>1, <3>2 DEF UsersInv, MayCall, Users
      <4> QED
        BY <1>1, <2>1, <2>4, <4>1 DEF MayCall, IoctlClient
    <3> QED
      BY <2>2, <3>1, <3>2 DEF UsersInv
  <2> QED
    BY <2>3, <2>4
<1> QED
  BY <1>2, <1>3

\* A client leaves: spcom_device_release and spcom_channel_deinit_locked.
LEMMA LeaveKeepsLocks ==
    ASSUME PacketTypeOK, LocksInv, NEW p \in Clients, DeviceRelease(p) \/ ChannelDeinit(p)
    PROVE  LocksInv'
<1> USE ClientsAssumption DEF LocksInv
<1>1. /\ UNCHANGED <<kind, rpdev, abort, role, crowded, pc, work, peer>> /\ pc[p] = "idle"
      /\ members' = members \ {p} /\ files' \in {files, files \ {p}}
      /\ asked' = [asked EXCEPT ![p] = 0]
  BY DEF DeviceRelease, ChannelDeinit, DropBuffer, Forget, chan
<1>2. \/ UNCHANGED lock /\ active # p
      \/ active' = NoOne /\ sync' \in {NoOne, sync}
  <2>1. CASE ChannelDeinit(p)
    BY <2>1 DEF ChannelDeinit, ReleaseSync
  <2>2. CASE DeviceRelease(p)
    BY <2>2 DEF DeviceRelease, ReleaseSync
  <2> QED
    BY <2>1, <2>2
<1>3. LocksTypeOK'
  BY <1>1, <1>2 DEF LocksTypeOK, lock
<1>4. RoleInv' /\ SenderMetDevice'
  BY <1>1 DEF RoleInv, SenderMetDevice, work, peer
<1>5. PrepareHolds'
  <2>1. \A q \in Clients : Sharable /\ pc[q] \in {"check", "prepare"} => sync' = q
    <3> SUFFICES ASSUME NEW q \in Clients, Sharable, pc[q] \in {"check", "prepare"}
                 PROVE  sync' = q
      OBVIOUS
    <3>1. sync = q /\ q # p
      BY <1>1 DEF PrepareHolds
    <3>2. active # p
      BY <3>1 DEF ActiveInv
    <3>3. sync' = sync
      BY <3>2 DEF DeviceRelease, ChannelDeinit, ReleaseSync, lock
    <3> QED
      BY <3>1, <3>3
  <2> QED
    BY <1>1, <1>2, <2>1 DEF PrepareHolds, Sharable, lock
<1>6. ActiveInv'
  BY <1>1, <1>2 DEF ActiveInv, PacketTypeOK, lock
<1>7. UsersInv'
  BY <1>1 DEF UsersInv, Users, MayCall, IoctlClient, Sharable
<1> QED
  BY <1>3, <1>4, <1>5, <1>6, <1>7

\* What a step of a call leaves alone.
LEMMA UsersKept ==
    ASSUME LocksInv, UNCHANGED <<kind, club>>, NEW p \in Clients,
           pc[p] # "idle" \/ MayCall(p), NEW s \in Steps, pc' = [pc EXCEPT ![p] = s]
    PROVE  UsersInv'
  BY DEF LocksInv, LocksTypeOK, UsersInv, Users, MayCall, IoctlClient, Sharable, club

\* A client sends.
LEMMA SendKeepsLocks ==
    ASSUME PacketTypeOK, LocksInv, NEW p \in Clients, Send(p)
    PROVE  LocksInv'
<1> USE ClientsAssumption DEF LocksInv, LocksTypeOK, RoleInv, PrepareHolds,
        ActiveInv, SenderMetDevice, Sharable, chan, club, lock, work, peer
<1> HIDE DEF UsersInv
<1>1. UNCHANGED <<kind, rpdev, abort, club, rxList>>
  BY DEF Send, SendStart, SendSync, SendRecheck, SendPrepare, SendAccepted, SendFailed,
     SendServerDone
<1>2. CASE SendStart(p)
  <2>1. /\ \E s \in {"sync", "check", "prepare"} : /\ pc' = [pc EXCEPT ![p] = s]
                                                   /\ s = "sync" <=> Sharable
        /\ pc[p] = "idle" /\ MayCall(p) /\ rpdev
        /\ UNCHANGED <<role, sp, lock, asked>>
    BY <1>2 DEF SendStart, Step, AfterSync
  <2>2. UsersInv'
    BY <1>1, <2>1, UsersKept DEF Steps
  <2> QED
    BY <1>1, <2>1, <2>2 DEF Steps
<1>3. CASE SendSync(p)
  <2>1. /\ \E s \in {"check", "prepare"} : pc' = [pc EXCEPT ![p] = s]
        /\ pc[p] = "sync" /\ sync = NoOne /\ sync' = p
        /\ active' = active \/ active' = p
        /\ UNCHANGED <<role, sp, asked>>
    BY <1>3 DEF SendSync, Step, AfterSync
  <2>2. active = NoOne
    BY <2>1
  <2>3. UsersInv'
    BY <1>1, <2>1, UsersKept DEF Steps
  <2> QED
    BY <1>1, <2>1, <2>2, <2>3 DEF Steps
<1>4. CASE SendRecheck(p)
  <2>1. /\ pc[p] = "check" /\ UNCHANGED <<role, sp, asked>>
        /\ \/ pc' = [pc EXCEPT ![p] = "prepare"] /\ UNCHANGED lock
           \/ pc' = [pc EXCEPT ![p] = "idle"] /\ ReleaseSync(p)
    BY <1>4 DEF SendRecheck, Step
  <2>2. UsersInv'
    BY <1>1, <2>1, UsersKept DEF Steps
  <2> QED
    BY <1>1, <2>1, <2>2 DEF Steps, ReleaseSync
<1>5. CASE SendPrepare(p)
  <2>1. /\ pc[p] = "prepare" /\ pc' = [pc EXCEPT ![p] = "try"]
        /\ role' = (IF role = "undefined" THEN "client" ELSE role)
        /\ active' = (IF Sharable /\ IoctlClient(p) THEN p ELSE active)
        /\ \A q \in Clients : q # p => asked'[q] = asked[q]
        /\ kind # "server" => asked'[p] # 0
        /\ UNCHANGED <<sync, sp>>
    BY <1>5 DEF SendPrepare, Step, PacketTypeOK
  <2>2. UsersInv'
    BY <1>1, <2>1, UsersKept DEF Steps
  <2> QED
    BY <1>1, <2>1, <2>2 DEF Steps
<1>6. CASE SendAccepted(p)
  <2>1. /\ pc[p] = "try" /\ \E s \in {"sent", "idle"} : /\ pc' = [pc EXCEPT ![p] = s]
                                                        /\ s = "sent" => role = "server"
        /\ UNCHANGED <<role, lock, asked>>
    BY <1>6 DEF SendAccepted, Step
  <2>2. UsersInv'
    BY <1>1, <2>1, UsersKept DEF Steps
  <2> QED
    BY <1>1, <2>1, <2>2 DEF Steps
<1>7. CASE SendFailed(p)
  <2>1. /\ pc[p] = "try" /\ \E s \in {"sent", "idle"} : /\ pc' = [pc EXCEPT ![p] = s]
                                                        /\ s = "sent" => role = "server"
        /\ UNCHANGED <<role, sp>>
        /\ \/ UNCHANGED <<lock, asked>>
           \/ ReleaseSync(p) /\ asked' = [asked EXCEPT ![p] = 0]
    BY <1>7 DEF SendFailed, Step
  <2>2. UsersInv'
    BY <1>1, <2>1, UsersKept DEF Steps
  <2> QED
    BY <1>1, <2>1, <2>2 DEF Steps, ReleaseSync, PacketTypeOK
<1>8. CASE SendServerDone(p)
  <2>1. /\ pc[p] = "sent" /\ pc' = [pc EXCEPT ![p] = "idle"] /\ UNCHANGED <<role, sp, lock>>
        /\ kind = "server"
    BY <1>8 DEF SendServerDone, Step
  <2>2. UsersInv'
    BY <1>1, <2>1, UsersKept DEF Steps
  <2> QED
    BY <1>1, <2>1, <2>2 DEF Steps
<1> QED
  BY <1>2, <1>3, <1>4, <1>5, <1>6, <1>7, <1>8 DEF Send

\* A client, or a server, receives.
LEMMA ReceiveKeepsLocks ==
    ASSUME PacketTypeOK, LocksInv, NEW p \in Clients, Receive(p)
    PROVE  LocksInv'
<1> USE ClientsAssumption DEF LocksInv, LocksTypeOK, RoleInv, PrepareHolds,
        ActiveInv, SenderMetDevice, Sharable, chan, club, lock, work, peer
<1> HIDE DEF UsersInv
<1>1. UNCHANGED <<kind, rpdev, abort, club, rxList, sp>>
  BY DEF Receive, NextRequestSize, NextRequestWake, NextRequestInterrupted, GetStep, GetStart,
     RxEnter, RxWake, RxExpire, RxExpired, RxInterrupted, SetServerTxn, GetOut
<1>2. ASSUME UNCHANGED <<lock, asked>>, pc[p] # "idle" \/ MayCall(p),
             role' = role \/ kind = "server",
             NEW s \in Steps \ {"sync", "check", "prepare", "try", "sent"},
             pc' = [pc EXCEPT ![p] = s], pc[p] \notin {"check", "prepare"},
             kind # "server" => role # "undefined" /\ s \in {"idle", "rx", "wait", "expired", "out"}
      PROVE  LocksInv'
  <2>1. UsersInv'
    BY <1>1, <1>2, UsersKept
  <2> QED
    BY <1>1, <1>2, <2>1
<1>3. CASE NextRequestSize(p)
  BY <1>2, <1>3 DEF NextRequestSize, Step, Steps
<1>4. CASE NextRequestWake(p) \/ NextRequestInterrupted(p) \/ SetServerTxn(p)
  <2>1. kind = "server" /\ pc[p] \in {"waitsize", "settxn"}
        /\ UNCHANGED <<role, lock, asked>>
        /\ \E s \in {"sized", "idle", "out"} : pc' = [pc EXCEPT ![p] = s]
    BY <1>4 DEF NextRequestWake, NextRequestInterrupted, SetServerTxn, Step
  <2> QED
    BY <1>2, <2>1 DEF Steps
<1>5. CASE GetStart(p)
  <2>1. /\ \E s \in {"rx", "out"} : pc' = [pc EXCEPT ![p] = s]
        /\ UNCHANGED <<role, lock, asked>> /\ pc[p] \in {"sized", "idle"}
        /\ pc[p] = "idle" => MayCall(p) /\ role = "client"
    BY <1>5 DEF GetStart, Step
  <2> QED
    BY <1>2, <2>1 DEF Steps
<1>6. CASE RxEnter(p) \/ RxWake(p) \/ RxExpire(p) \/ RxExpired(p) \/ RxInterrupted(p)
  <2>1. /\ UNCHANGED <<role, lock, asked>> /\ pc[p] \in {"rx", "wait", "expired"}
        /\ \E s \in {"settxn", "wait", "expired", "out"} : /\ pc' = [pc EXCEPT ![p] = s]
                                                           /\ s = "settxn" => role = "server"
    BY <1>6 DEF RxEnter, RxWake, RxExpire, RxExpired, RxInterrupted, Take, Step
  <2> QED
    BY <1>2, <2>1 DEF Steps
<1>7. CASE GetOut(p)
  <2>1. /\ pc[p] = "out" /\ pc' = [pc EXCEPT ![p] = "idle"] /\ UNCHANGED role
        /\ ReleaseSync(p) /\ asked' = [asked EXCEPT ![p] = 0]
    BY <1>7 DEF GetOut, Step
  <2>2. UsersInv'
    BY <1>1, <2>1, UsersKept DEF Steps
  <2> QED
    BY <1>1, <2>1, <2>2 DEF ReleaseSync, Steps, PacketTypeOK
<1> QED
  BY <1>3, <1>4, <1>5, <1>6, <1>7 DEF Receive, GetStep

\* The SP and the worker touch none of it but the link and the role.
LEMMA PeerKeepsLocks ==
    ASSUME LocksInv,
           SpAnswers \/ SpRequests \/ WorkStep \/ RpdevProbe \/ RpdevRemove \/ UNCHANGED vars
    PROVE  LocksInv'
<1>1. UNCHANGED <<kind, club, lock, pc, asked>>
  BY DEF SpAnswers, SpRequests, RpdevCb, WorkStep, WorkStart, WorkPacket, WorkEnd,
     RpdevProbe, RpdevRemove, vars, chan, proc
<1>2. rpdev' \in BOOLEAN /\ abort' \in BOOLEAN /\ (rpdev \/ abort => rpdev' \/ abort')
  BY DEF SpAnswers, SpRequests, RpdevCb, WorkStep, WorkStart, WorkPacket, WorkEnd,
     RpdevProbe, RpdevRemove, vars, chan, LocksInv, LocksTypeOK
<1>3. RoleInv'
  <2> SUFFICES ASSUME kind # "server" PROVE RoleInv'
    BY <1>1 DEF RoleInv
  <2>1. role # "undefined" => role' = role
    BY DEF SpAnswers, SpRequests, RpdevCb, WorkStep, WorkStart, WorkPacket, WorkEnd,
       RpdevProbe, RpdevRemove, vars, chan
  <2>2. role = "undefined" => role' = role /\ sp' = <<>> /\ rxList' = <<>>
    BY DEF SpAnswers, SpRequests, WorkStep, WorkStart, WorkPacket, WorkEnd,
       RpdevProbe, RpdevRemove, vars, chan, work, peer, LocksInv, RoleInv
  <2> QED
    BY <1>1, <2>1, <2>2 DEF LocksInv, RoleInv
<1> QED
  BY <1>1, <1>2, <1>3 DEF LocksInv, LocksTypeOK, PrepareHolds, ActiveInv,
     SenderMetDevice, UsersInv, Users, MayCall, IoctlClient, Sharable, club, lock

\* Every step of a channel keeps the invariant.
LEMMA LocksNext ==
    ASSUME PacketTypeOK, LocksInv, [Next]_vars
    PROVE  LocksInv'
  BY JoinKeepsLocks, LeaveKeepsLocks, SendKeepsLocks, ReceiveKeepsLocks, PeerKeepsLocks
     DEF Next, Membership

\* Only the close of the last file leaves the lock with nobody.
LEMMA GivenUpStep ==
    ASSUME PacketTypeOK, LocksInv, [Next]_vars, active # NoOne, active' # active, sync' = sync
    PROVE  \E p \in files : p \notin files' /\ numClients' = 0
<1> USE ClientsAssumption
<1>1. active \in Clients /\ sync = active
  BY DEF LocksInv, LocksTypeOK, ActiveInv
<1>2. \A p \in Clients : ~(active = p /\ active' = NoOne /\ sync' = NoOne)
  BY <1>1
<1>3. ASSUME NEW p \in Clients, Membership(p) PROVE DeviceRelease(p) /\ ~(numClients > 1)
  BY <1>2, <1>3 DEF Membership, DeviceOpen, RegisterChannel, DeviceRelease, ChannelDeinit,
     ReleaseSync, lock
<1>4. ASSUME NEW p \in Clients, Send(p) PROVE FALSE
  <2>1. CASE SendSync(p)
    BY <1>1, <2>1 DEF SendSync
  <2>2. CASE SendPrepare(p)
    BY <1>1, <2>2 DEF SendPrepare, LocksInv, PrepareHolds
  <2>3. CASE SendRecheck(p) \/ SendFailed(p)
    BY <1>2, <2>3 DEF SendRecheck, SendFailed, ReleaseSync, lock
  <2> QED
    BY <1>4, <2>1, <2>2, <2>3 DEF Send, SendStart, SendAccepted, SendServerDone, lock
<1>5. ASSUME NEW p \in Clients, Receive(p) PROVE FALSE
  BY <1>2, <1>5 DEF Receive, NextRequestSize, NextRequestWake, NextRequestInterrupted, GetStep,
     GetStart, RxEnter, RxWake, RxExpire, RxExpired, RxInterrupted, SetServerTxn, GetOut,
     ReleaseSync, lock
<1>6. ~(SpAnswers \/ SpRequests \/ WorkStep \/ RpdevProbe \/ RpdevRemove \/ UNCHANGED vars)
  BY DEF SpAnswers, SpRequests, RpdevCb, WorkStep, WorkStart, WorkPacket, WorkEnd,
     RpdevProbe, RpdevRemove, vars, lock
<1>7. PICK p \in Clients : DeviceRelease(p) /\ ~(numClients > 1)
  BY <1>3, <1>4, <1>5, <1>6 DEF Next
<1> QED
  BY <1>7 DEF DeviceRelease

\* Whichever way clients of a channel leave - by an answer, a timeout, a signal, a failed
\* send, an unregister, a close of their files in any order, their death - the process
\* active_pid names owns shared_sync_lock and waits for an answer, only the close of the
\* last file gives up active_pid without the lock, and rpmsg_trysend meets a device.
THEOREM ChannelSafety == Spec => ChannelLocks
<1>1. PacketTypeOK /\ LocksInv /\ [Next]_vars => PacketTypeOK' /\ LocksInv'
  BY LocksNext, PacketTypeNext
<1>2. LocksInv => SendHasDevice /\ ActiveOwnsLock
  BY DEF LocksInv, SenderMetDevice, SendHasDevice, ActiveInv, ActiveOwnsLock
<1>3. PacketTypeOK /\ LocksInv /\ [Next]_vars =>
        [active # NoOne /\ active' # active /\ sync' = sync
           => \E p \in files : p \notin files' /\ numClients' = 0]_vars
  BY GivenUpStep
<1> QED
  BY <1>1, <1>2, <1>3, LocksInit, TypeInit, PTL DEF Spec, ChannelLocks, LockGivenUp

-----------------------------------------------------------------------------
(* The packets of a channel.                                               *)

\* The headers on their way to the SP or back.
Headers == {hdr[p] : p \in {q \in Clients : pc[q] = "try"}}
Wire == Elems(sp) \cup Elems(rxList) \cup Elems(rxBuf) \cup Headers

\* Within a spell of the link ids only grow, so that the present id is the one of the
\* request of whoever waits for an answer.
Fresh(k) ==
    /\ k.sess <= sess
    /\ k.sess = sess => k.txn <= txn
    /\ k.sess = sess /\ k.txn = txn => \A p \in Clients : asked[p] # 0 => k.req = asked[p]

\* Where processes ask and the SP answers: who has asked is a user, and holds a
\* shared channel; it has read nothing until its call returns; and the buffered packet
\* is of rx_buf_txn_id and, while somebody waits, of the present id.
ClientInv ==
    /\ role # "server"
    /\ role = "undefined" => sp = <<>> /\ rxList = <<>> /\ rxBuf = <<>>
    /\ \A p \in Clients : role = "undefined" => pc[p] \in {"idle", "sync", "check", "prepare"}
                                                /\ asked[p] = 0
    /\ \A p \in Clients : pc[p] \notin {"sent", "waitsize", "sized", "settxn"}
    /\ \A p \in Clients : asked[p] # 0 => IF Sharable THEN sync = p ELSE p \in Users
    /\ \A p \in Clients : pc[p] \in {"sync", "check", "prepare"} => asked[p] = 0
    /\ \A p \in Clients : pc[p] \in {"try", "rx", "wait", "expired", "out"} => asked[p] # 0
    /\ \A p \in Clients : asked[p] # 0 /\ pc[p] # "out" => got[p] = NoPacket
    /\ \A p \in Clients : got[p].sess <= sess
    /\ \A p \in Clients : pc[p] = "out" /\ got[p] # NoPacket /\ got[p].sess = sess
                              => got[p].req = asked[p]
    /\ \A k \in Wire : Fresh(k)
    /\ rxBuf # <<>> => rxBuf[1].txn = rxTxn
    /\ \A p \in Clients : pc[p] = "wait" /\ rxBuf # <<>> /\ rxBuf[1].sess = sess
                              => rxBuf[1].txn = txn

Names(k) == k.txn = SpId(k.req)
Answers(k) == k.txn <= SpId(0) \/ Names(k)

\* Where the SP asks and a process answers: the process answers what it has read, under
\* the id it has taken over or the one a restart of the SP has left.
ServerInv ==
    /\ role # "client"
    /\ \A p \in Clients : role = "undefined" => pc[p] = "idle" /\ got[p] = NoPacket
    /\ \A k \in Elems(rxList) \cup Elems(rxBuf) : Names(k)
    /\ \A k \in Elems(sp) \cup Headers : Answers(k)
    /\ \A p \in Clients : got[p] # NoPacket => p \in Users /\ Names(got[p])
    /\ \A p \in Clients : got[p] # NoPacket /\ pc[p] # "settxn"
                              => txn \in {0, 1} \/ txn = got[p].txn
    /\ \A p \in Clients : pc[p] \in {"check", "prepare"} => got[p] # NoPacket
    /\ \A p \in Clients : pc[p] \notin {"sync", "expired"}

PacketInv ==
    /\ PacketTypeOK
    /\ ~crowded => IF kind = "server" THEN ServerInv ELSE ClientInv

\* One process at a time is between its request and the return of its read: the shared
\* lock, or being the only user, sees to it.
LEMMA OneAsker ==
    ASSUME LocksInv, ClientInv, ~crowded, NEW p \in Clients, NEW q \in Clients, asked[q] # 0,
           asked[p] # 0 \/ pc[p] = "prepare"
    PROVE  p = q
<1>1. CASE Sharable
  BY <1>1 DEF ClientInv, LocksInv, PrepareHolds
<1>2. CASE ~Sharable
  <2>1. p \in Users /\ q \in Users
    BY <1>2 DEF ClientInv, LocksInv, UsersInv, MayCall, Users
  <2> QED
    BY <1>2, <2>1 DEF LocksInv, UsersInv
<1> QED
  BY <1>1, <1>2

\* Every packet on the wire is one.
LEMMA WireType == PacketTypeOK => Wire \subseteq Packet
  BY ElemsFacts DEF PacketTypeOK, Wire, Headers

\* Nothing new is on the wire and no request is new: all stays fresh.
LEMMA FreshKept ==
    ASSUME PacketTypeOK, ClientInv, UNCHANGED <<sp, rxList, txn, sess>>,
           rxBuf' = rxBuf \/ rxBuf' = <<>>,
           \A q \in Clients : pc'[q] = "try" => pc[q] = "try" /\ hdr'[q] = hdr[q],
           \A q \in Clients : asked'[q] # 0 => asked'[q] = asked[q]
    PROVE  (\A k \in Wire : Fresh(k))'
<1>1. Elems(<<>>) = {} /\ Headers' \subseteq Headers
  BY DEF Elems, Headers
<1>2. Wire' \subseteq Wire
  BY <1>1 DEF Wire, Elems
<1> QED
  BY <1>2 DEF ClientInv, Fresh

\* The SP goes down or comes back: no packet is of the new spell.
LEMMA FreshNewSpell ==
    ASSUME PacketTypeOK, ClientInv, UNCHANGED <<rxList, rxBuf, hdr, pc>>, sess' = sess + 1,
           sp' = sp \/ sp' = <<>>
    PROVE  /\ (\A k \in Wire : Fresh(k))' /\ \A k \in Wire' : k.sess < sess'
           /\ \A q \in Clients : got[q].sess < sess'
<1>1. Elems(<<>>) = {} /\ Headers' = Headers
  BY DEF Elems, Headers
<1>2. Wire' \subseteq Wire
  BY <1>1 DEF Wire, Elems
<1>3. \A k \in Wire : k.sess \in Nat /\ k.sess <= sess
  BY WireType DEF ClientInv, Fresh, Packet
<1>4. \A k \in Wire' : k.sess < sess'
  BY <1>2, <1>3 DEF PacketTypeOK
<1>5. \A q \in Clients : got[q].sess < sess'
  BY DEF PacketTypeOK, ClientInv, Packet
<1>6. \A k \in Wire' : k.sess \in Nat
  BY <1>2, <1>3
<1> QED
  BY <1>4, <1>5, <1>6 DEF Fresh, PacketTypeOK

\* A client joins or leaves.
LEMMA MembershipKeepsClient ==
    ASSUME LocksInv, LocksInv', PacketTypeOK, ClientInv, ~crowded', NEW p \in Clients, Membership(p)
    PROVE  ClientInv'
<1> USE DEF PacketTypeOK
<1>1. CASE DeviceOpen(p) \/ RegisterChannel(p)
  <2>1. UNCHANGED <<chan, lock, work, proc, peer>> /\ (~Sharable => Users \subseteq {p} /\ p \in Users')
    BY <1>1 DEF DeviceOpen, RegisterChannel, Enrol, Users
  <2>2. (\A k \in Wire : Fresh(k))'
    BY <2>1, FreshKept DEF chan, work, proc, peer
  <2>3. \A q \in Clients : asked'[q] # 0 => IF Sharable' THEN sync' = q ELSE q \in Users'
    BY <2>1 DEF ClientInv, Sharable, chan, lock, proc
  <2> QED
    BY <2>1, <2>2, <2>3 DEF ClientInv, chan, lock, work, proc, peer
<1>2. CASE DeviceRelease(p) \/ ChannelDeinit(p)
  <2>1. /\ UNCHANGED <<kind, txn, rxTxn, role, pc, hdr, work, peer>>
        /\ Forget(p) /\ members' = members \ {p} /\ files' \in {files, files \ {p}}
        /\ pc[p] = "idle"
        /\ \/ rxBuf' = rxBuf
           \/ rxBuf' = <<>>
    BY <1>2 DEF DeviceRelease, ChannelDeinit, DropBuffer, chan
  <2>2. /\ asked' = [asked EXCEPT ![p] = 0] /\ got' = [got EXCEPT ![p] = NoPacket]
        /\ NoPacket.sess = 0
    BY <2>1 DEF Forget, NoPacket
  <2>3. (\A k \in Wire : Fresh(k))'
    BY <2>1, <2>2, FreshKept DEF work, peer
  <2>4. \A q \in Clients : asked'[q] # 0 => q # p /\ asked[q] # 0
    BY <2>2
  <2>5. \A q \in Clients : asked'[q] # 0 => IF Sharable' THEN sync' = q ELSE q \in Users'
    <3> SUFFICES ASSUME NEW q \in Clients, asked'[q] # 0
                 PROVE  IF Sharable' THEN sync' = q ELSE q \in Users'
      OBVIOUS
    <3>1. q # p /\ asked[q] # 0 /\ IF Sharable THEN sync = q ELSE q \in Users
      BY <2>4 DEF ClientInv
    <3>2. Sharable => sync' = sync
      <4>1. Sharable => active # p
        BY <3>1 DEF LocksInv, ActiveInv
      <4> QED
        BY <1>2, <4>1 DEF DeviceRelease, ChannelDeinit, ReleaseSync, lock
    <3> QED
      BY <2>1, <3>1, <3>2 DEF Sharable, Users
  <2> QED
    BY <2>1, <2>2, <2>3, <2>4, <2>5 DEF ClientInv, work, peer
<1> QED
  BY <1>1, <1>2 DEF Membership

\* A request is sent.
LEMMA SendKeepsClient ==
    ASSUME LocksInv, LocksInv', PacketTypeOK, PacketTypeOK', ClientInv, kind # "server", ~crowded,
           NEW p \in Clients, Send(p)
    PROVE  ClientInv'
<1> USE DEF PacketTypeOK
<1>0. pc \in [Clients -> Steps]
  BY DEF LocksInv, LocksTypeOK
<1>1. CASE SendStart(p) \/ SendSync(p) \/ SendRecheck(p)
  <2>1. /\ UNCHANGED <<chan, club, work, hdr, asked, got, peer>>
        /\ pc[p] \in {"idle", "sync", "check"}
        /\ \E s \in {"idle", "sync", "check", "prepare"} : pc' = [pc EXCEPT ![p] = s]
    BY <1>1 DEF SendStart, SendSync, SendRecheck, AfterSync, Step, lock
  <2>2. (\A k \in Wire : Fresh(k))'
    BY <1>0, <2>1, FreshKept DEF chan, work, peer
  <2>3. \A q \in Clients : asked[q] # 0 => (Sharable => sync' = q)
    <3>1. CASE SendStart(p)
      BY <3>1 DEF SendStart, ClientInv, lock
    <3>2. CASE SendSync(p)
      BY <3>2, ClientsAssumption DEF SendSync, ClientInv
    <3>3. CASE SendRecheck(p)
      <4>1. asked[p] # 0 => sync' = sync \/ active = p
        BY <3>3 DEF SendRecheck, ReleaseSync, lock
      <4>2. \A q \in Clients : asked[q] # 0 /\ Sharable => q = p
        BY <3>3 DEF SendRecheck, ClientInv, LocksInv, PrepareHolds
      <4>3. asked[p] = 0
        BY <3>3 DEF SendRecheck, ClientInv
      <4> QED
        BY <4>2, <4>3
    <3> QED
      BY <1>1, <3>1, <3>2, <3>3
  <2>4. asked[p] = 0
    BY <1>1 DEF SendStart, SendSync, SendRecheck, ClientInv
  <2> QED
    BY <1>0, <2>1, <2>2, <2>3, <2>4 DEF ClientInv, Sharable, Users, chan, club, work, peer
<1>2. CASE SendPrepare(p)
  <2>1. /\ role' = "client" /\ txn' = txn + 1 /\ reqs' = reqs + 1
        /\ asked' = [asked EXCEPT ![p] = reqs']
        /\ got' = [got EXCEPT ![p] = NoPacket]
        /\ pc' = [pc EXCEPT ![p] = "try"] /\ pc[p] = "prepare"
        /\ UNCHANGED <<kind, rxTxn, rxBuf, sync, club, work, sp, sess>>
    BY <1>2 DEF SendPrepare, ClientInv, Step
  <2>2. hdr' = [hdr EXCEPT ![p] = [txn |-> txn', req |-> asked'[p], sess |-> sess]]
    BY <1>2 DEF SendPrepare
  <2>3. asked'[p] = reqs + 1 /\ asked'[p] # 0 /\ \A q \in Clients : q # p => asked'[q] = 0
    <3>1. \A q \in Clients : q # p => asked[q] = 0
      BY <2>1, OneAsker
    <3> QED
      BY <2>1, <3>1
  <2>4. \A k \in Wire : Fresh(k)'
    <3> SUFFICES ASSUME NEW k \in Wire PROVE Fresh(k)'
      OBVIOUS
    <3>1. k.txn \in Int /\ Fresh(k)
      BY WireType DEF ClientInv, Packet
    <3> QED
      BY <2>1, <3>1 DEF Fresh
  <2>5. Fresh(hdr[p])'
    <3>1. hdr'[p] = [txn |-> txn', req |-> asked'[p], sess |-> sess]
      BY <2>2
    <3>2. hdr'[p].txn = txn' /\ hdr'[p].req = asked'[p] /\ hdr'[p].sess = sess
      BY <3>1
    <3> QED
      BY <2>1, <2>3, <3>2 DEF Fresh
  <2>6. \A k \in Wire' : k \in Wire \/ k = hdr'[p]
    BY <1>0, <2>1, <2>2 DEF Wire, Headers, Elems, work
  <2>7. (\A k \in Wire : Fresh(k))'
    BY <2>4, <2>5, <2>6
  <2>8. \A q \in Clients : pc[q] \in {"try", "rx", "wait", "expired", "out"} => q = p
    BY <2>1, OneAsker DEF ClientInv
  <2>9. IF Sharable THEN sync = p ELSE p \in Users
    BY <2>1 DEF LocksInv, PrepareHolds, UsersInv, MayCall, Users
  <2>10. \A q \in Clients : q # p => pc'[q] \notin {"try", "rx", "wait", "expired", "out"}
    BY <1>0, <2>1, <2>8
  <2>11. NoPacket.sess = 0
    BY DEF NoPacket
  <2>12. /\ role' # "server"
         /\ \A q \in Clients : pc'[q] \notin {"sent", "waitsize", "sized", "settxn"}
         /\ \A q \in Clients : asked'[q] # 0 => IF Sharable' THEN sync' = q ELSE q \in Users'
         /\ \A q \in Clients : pc'[q] \in {"try", "rx", "wait", "expired", "out"} => asked'[q] # 0
    BY <1>0, <2>1, <2>3, <2>9, <2>10 DEF ClientInv, Sharable, Users, club
  <2>13. /\ \A q \in Clients : asked'[q] # 0 /\ pc'[q] # "out" => got'[q] = NoPacket
         /\ \A q \in Clients : got'[q].sess <= sess'
         /\ \A q \in Clients : pc'[q] # "out" /\ pc'[q] # "wait"
    BY <1>0, <2>1, <2>3, <2>10, <2>11 DEF ClientInv
  <2>14. (rxBuf # <<>> => rxBuf[1].txn = rxTxn)'
    BY <2>1 DEF ClientInv
  <2>15. \A q \in Clients : pc'[q] \in {"sync", "check", "prepare"} => asked'[q] = 0
    BY <1>0, <2>1, <2>3
  <2> QED
    BY <2>1, <2>7, <2>12, <2>13, <2>14, <2>15 DEF ClientInv
<1>3. CASE SendAccepted(p)
  <2>1. /\ sp' = Append(sp, hdr[p]) /\ pc[p] = "try" /\ pc' = [pc EXCEPT ![p] = "idle"]
        /\ hdr' = [hdr EXCEPT ![p] = NoPacket]
        /\ UNCHANGED <<chan, club, lock, work, asked, got, sess, reqs>>
    BY <1>3 DEF SendAccepted, ClientInv, Step
  <2>2. Elems(sp') = Elems(sp) \cup {hdr[p]}
    BY <2>1, ElemsFacts
  <2>3. hdr[p] \in Headers /\ Headers' \subseteq Headers
    BY <1>0, <2>1 DEF Headers
  <2>4. Wire' \subseteq Wire
    BY <2>1, <2>2, <2>3 DEF Wire, Elems, chan, work
  <2>5. (\A k \in Wire : Fresh(k))'
    BY <2>1, <2>4 DEF ClientInv, Fresh, chan
  <2>6. role # "undefined"
    BY <2>1 DEF ClientInv
  <2> QED
    BY <1>0, <2>1, <2>5, <2>6 DEF ClientInv, Sharable, Users, chan, club, lock, work
<1>4. CASE SendFailed(p)
  <2>1. /\ pc[p] = "try" /\ pc' = [pc EXCEPT ![p] = "idle"]
        /\ UNCHANGED <<chan, club, work, got, peer>> /\ hdr' = [hdr EXCEPT ![p] = NoPacket]
        /\ \/ UNCHANGED <<lock, asked>>
           \/ asked' = [asked EXCEPT ![p] = 0] /\ (sync' = sync \/ active = p)
    BY <1>4 DEF SendFailed, ReleaseSync, ClientInv, Step, lock
  <2>2. (\A k \in Wire : Fresh(k))'
    BY <1>0, <2>1, FreshKept DEF chan, work, peer
  <2>3. \A q \in Clients : asked'[q] # 0 => asked'[q] = asked[q] /\ (Sharable => sync' = q)
    BY <2>1 DEF ClientInv, LocksInv, ActiveInv, lock
  <2> QED
    BY <1>0, <2>1, <2>2, <2>3 DEF ClientInv, Sharable, Users, chan, club, work, peer
<1>5. CASE SendServerDone(p)
  BY <1>5 DEF SendServerDone, ClientInv
<1> QED
  BY <1>1, <1>2, <1>3, <1>4, <1>5 DEF Send

\* An answer is awaited and read, or given up.
LEMMA ReceiveKeepsClient ==
    ASSUME LocksInv, LocksInv', PacketTypeOK, PacketTypeOK', ClientInv, kind # "server",
           ~ReadsAgain, ~crowded, NEW p \in Clients, Receive(p)
    PROVE  ClientInv'
<1> USE DEF PacketTypeOK
<1>0. pc \in [Clients -> Steps]
  BY DEF LocksInv, LocksTypeOK
<1>1. ASSUME UNCHANGED <<kind, txn, rxTxn, role, club, lock, work, hdr, asked, peer>>,
             rxBuf' = rxBuf \/ rxBuf' = <<>>, UNCHANGED got,
             asked[p] # 0,
             NEW s \in {"rx", "wait", "expired", "out"}, pc' = [pc EXCEPT ![p] = s],
             s = "wait" => rxBuf' = <<>> \/ pc[p] = "wait",
             pc[p] # "out"
      PROVE  ClientInv'
  <2>1. (\A k \in Wire : Fresh(k))'
    BY <1>0, <1>1, FreshKept DEF work, peer
  <2>2. got[p] = NoPacket /\ role # "undefined"
    BY <1>1 DEF ClientInv
  <2>3. /\ role' # "server" /\ role' # "undefined"
        /\ \A q \in Clients : pc'[q] \notin {"sent", "waitsize", "sized", "settxn"}
        /\ \A q \in Clients : asked'[q] # 0 => IF Sharable' THEN sync' = q ELSE q \in Users'
        /\ \A q \in Clients : pc'[q] \in {"try", "rx", "wait", "expired", "out"} => asked'[q] # 0
    BY <1>0, <1>1, <2>2 DEF ClientInv, Sharable, Users, club, lock
  <2>4. /\ \A q \in Clients : asked'[q] # 0 /\ pc'[q] # "out" => got'[q] = NoPacket
        /\ \A q \in Clients : got'[q].sess <= sess'
        /\ \A q \in Clients : pc'[q] = "out" /\ got'[q] # NoPacket /\ got'[q].sess = sess'
                                  => got'[q].req = asked'[q]
    BY <1>0, <1>1, <2>2 DEF ClientInv, peer
  <2>5. /\ rxBuf' # <<>> => rxBuf'[1].txn = rxTxn'
        /\ \A q \in Clients : pc'[q] = "wait" /\ rxBuf' # <<>> /\ rxBuf'[1].sess = sess'
                              => rxBuf'[1].txn = txn'
    <3>1. CASE rxBuf' = <<>>
      BY <3>1
    <3>2. CASE rxBuf' = rxBuf /\ rxBuf' # <<>>
      <4>1. \A q \in Clients : pc'[q] = "wait" => pc[q] = "wait"
        BY <1>0, <1>1, <3>2
      <4> QED
        BY <1>1, <3>2, <4>1 DEF ClientInv, peer
    <3> QED
      BY <1>1, <3>1, <3>2
  <2>6. \A q \in Clients : pc'[q] \in {"sync", "check", "prepare"} => asked'[q] = 0
    BY <1>0, <1>1 DEF ClientInv
  <2> QED
    BY <2>1, <2>3, <2>4, <2>5, <2>6 DEF ClientInv
<1>2. ASSUME rxBuf # <<>>, rxBuf[1].sess = sess => rxBuf[1].txn = txn, pc[p] \in {"rx", "wait"},
             got' = [got EXCEPT ![p] = rxBuf[1]], rxBuf' = <<>>, pc' = [pc EXCEPT ![p] = "out"],
             UNCHANGED <<kind, txn, rxTxn, role, club, lock, work, hdr, asked, peer>>
      PROVE  ClientInv'
  <2>1. (\A k \in Wire : Fresh(k))'
    BY <1>0, <1>2, FreshKept DEF work, peer
  <2>2. asked[p] # 0 /\ role # "undefined"
    BY <1>2 DEF ClientInv
  <2>3. Fresh(rxBuf[1]) /\ rxBuf[1] \in Packet
    <3>1. rxBuf[1] \in Elems(rxBuf)
      BY <1>2, ElemsFacts
    <3> QED
      BY <3>1, WireType DEF ClientInv, Wire
  <2>4. got'[p] = rxBuf[1] /\ \A q \in Clients : q # p => got'[q] = got[q]
    BY <1>2
  <2>5. got'[p].sess = sess => got'[p].req = asked[p]
    BY <1>2, <2>2, <2>3, <2>4 DEF Fresh
  <2>6. /\ role' # "server" /\ role' # "undefined"
        /\ \A q \in Clients : pc'[q] \notin {"sent", "waitsize", "sized", "settxn"}
        /\ \A q \in Clients : asked'[q] # 0 => IF Sharable' THEN sync' = q ELSE q \in Users'
        /\ \A q \in Clients : pc'[q] \in {"try", "rx", "wait", "expired", "out"} => asked'[q] # 0
    BY <1>0, <1>2, <2>2 DEF ClientInv, Sharable, Users, club, lock
  <2>7. /\ \A q \in Clients : asked'[q] # 0 /\ pc'[q] # "out" => got'[q] = NoPacket
        /\ \A q \in Clients : got'[q].sess <= sess'
        /\ \A q \in Clients : pc'[q] = "out" /\ got'[q] # NoPacket /\ got'[q].sess = sess'
                                  => got'[q].req = asked'[q]
    BY <1>0, <1>2, <2>3, <2>4, <2>5 DEF ClientInv, Fresh, peer
  <2> QED
    BY <1>2, <2>1, <2>6, <2>7 DEF ClientInv
<1>3. CASE NextRequestSize(p) \/ NextRequestWake(p) \/ NextRequestInterrupted(p)
           \/ SetServerTxn(p)
  BY <1>3 DEF NextRequestSize, NextRequestWake, NextRequestInterrupted, SetServerTxn, ClientInv
<1>4. CASE GetStart(p)
  <2>1. asked[p] # 0 /\ pc[p] = "idle"
    BY <1>4 DEF GetStart, ClientInv
  <2>2. \E s \in {"rx", "out"} : pc' = [pc EXCEPT ![p] = s]
    BY <1>4 DEF GetStart, Step
  <2> QED
    BY <1>1, <1>4, <2>1, <2>2 DEF GetStart, chan
<1>5. CASE RxEnter(p)
  <2>1. pc[p] = "rx" /\ asked[p] # 0 /\ role # "server"
        /\ UNCHANGED <<kind, txn, rxTxn, role, club, lock, work, hdr, asked, peer>>
    BY <1>5 DEF RxEnter, ClientInv
  <2>2. CASE rxTxn = txn /\ rxBuf # <<>>
    <3>1. /\ got' = [got EXCEPT ![p] = rxBuf[1]] /\ rxBuf' = <<>>
          /\ pc' = [pc EXCEPT ![p] = "out"]
      BY <1>5, <2>1, <2>2 DEF RxEnter, Take, Step
    <3>2. rxBuf[1].txn = txn
      BY <2>2 DEF ClientInv
    <3> QED
      BY <1>2, <2>1, <2>2, <3>1, <3>2
  <2>3. CASE ~(rxTxn = txn /\ rxBuf # <<>>)
    <3>1. UNCHANGED got /\ rxBuf' = <<>> /\ pc' = [pc EXCEPT ![p] = "wait"]
      BY <1>5, <2>3 DEF RxEnter, Step
    <3> QED
      BY <1>1, <2>1, <3>1
  <2> QED
    BY <2>2, <2>3
<1>6. CASE RxWake(p)
  <2>1. pc[p] = "wait" /\ asked[p] # 0 /\ role # "server"
        /\ UNCHANGED <<kind, txn, rxTxn, role, club, lock, work, hdr, asked, peer>>
    BY <1>6 DEF RxWake, ClientInv
  <2>2. CASE abort \/ rxBuf = <<>>
    <3>1. UNCHANGED <<rxBuf, got>> /\ pc' = [pc EXCEPT ![p] = "out"]
      BY <1>6, <2>2 DEF RxWake, Step
    <3> QED
      BY <1>1, <2>1, <3>1
  <2>3. CASE ~(abort \/ rxBuf = <<>>)
    <3>1. /\ got' = [got EXCEPT ![p] = rxBuf[1]] /\ rxBuf' = <<>>
          /\ pc' = [pc EXCEPT ![p] = "out"]
      BY <1>6, <2>1, <2>3 DEF RxWake, Take, Step
    <3>2. rxBuf[1].sess = sess => rxBuf[1].txn = txn
      BY <2>1, <2>3 DEF ClientInv
    <3> QED
      BY <1>2, <2>1, <2>3, <3>1, <3>2
  <2> QED
    BY <2>2, <2>3
<1>7. CASE RxExpire(p) \/ RxInterrupted(p)
  <2>1. pc[p] = "wait" /\ asked[p] # 0
    BY <1>7 DEF RxExpire, RxInterrupted, ClientInv
  <2>2. \E s \in {"expired", "out"} : pc' = [pc EXCEPT ![p] = s]
    BY <1>7 DEF RxExpire, RxInterrupted, Step
  <2> QED
    BY <1>1, <1>7, <2>1, <2>2 DEF RxExpire, RxInterrupted, chan
<1>8. CASE RxExpired(p)
  <2>1. /\ pc[p] = "expired" /\ asked[p] # 0 /\ txn' = txn + 1 /\ pc' = [pc EXCEPT ![p] = "out"]
        /\ UNCHANGED <<kind, rxTxn, rxBuf, role, club, lock, work, hdr, asked, got, peer>>
    BY <1>8 DEF RxExpired, ClientInv, Step
  <2>2. Wire' \subseteq Wire
    BY <1>0, <2>1 DEF Wire, Headers, Elems, work, peer
  <2>3. \A k \in Wire : k.txn \in Int
    BY WireType DEF Packet
  <2>4. (\A k \in Wire : Fresh(k))'
    BY <2>1, <2>2, <2>3 DEF ClientInv, Fresh, peer
  <2>5. \A q \in Clients : pc'[q] # "wait"
    <3>1. \A q \in Clients : pc[q] = "wait" => q = p
      BY <2>1, OneAsker DEF ClientInv
    <3> QED
      BY <1>0, <2>1, <3>1
  <2> QED
    BY <1>0, <2>1, <2>4, <2>5 DEF ClientInv, Sharable, Users, club, lock, work, peer
<1>9. CASE GetOut(p)
  <2>1. /\ pc[p] = "out" /\ pc' = [pc EXCEPT ![p] = "idle"] /\ asked' = [asked EXCEPT ![p] = 0]
        /\ got' = [got EXCEPT ![p] = NoPacket] /\ NoPacket.sess = 0 /\ role = "client"
        /\ UNCHANGED <<chan, club, work, hdr, peer>> /\ (sync' = sync \/ active = p)
    BY <1>9 DEF GetOut, ReleaseSync, Step, NoPacket, ClientInv, lock
  <2>2. (\A k \in Wire : Fresh(k))'
    BY <1>0, <2>1, FreshKept DEF chan, work, peer
  <2>3. \A q \in Clients : asked'[q] # 0 => asked'[q] = asked[q] /\ (Sharable => sync' = q)
    BY <2>1 DEF ClientInv, LocksInv, ActiveInv
  <2> QED
    BY <1>0, <2>1, <2>2, <2>3 DEF ClientInv, Sharable, Users, chan, club, work, peer
<1> QED
  BY <1>3, <1>4, <1>5, <1>6, <1>7, <1>8, <1>9 DEF Receive, GetStep

\* The SP answers, the worker hands packets over, the link goes and comes.
LEMMA PeerKeepsClient ==
    ASSUME LocksInv, PacketTypeOK, ClientInv, kind # "server",
           SpAnswers \/ SpRequests \/ WorkStep \/ RpdevProbe \/ RpdevRemove \/ UNCHANGED vars
    PROVE  ClientInv'
<1> USE DEF PacketTypeOK
<1>1. UNCHANGED <<kind, club, lock, proc>>
  BY DEF SpAnswers, SpRequests, RpdevCb, WorkStep, WorkStart, WorkPacket, WorkEnd,
     RpdevProbe, RpdevRemove, vars, chan
<1>2. CASE SpAnswers
  <2>1. /\ rxList' = Append(rxList, Head(sp)) /\ sp' = Tail(sp) /\ sp # <<>>
        /\ UNCHANGED <<chan, sess, reqs>>
    BY <1>2 DEF SpAnswers, RpdevCb
  <2>2. /\ Elems(sp') \subseteq Elems(sp) /\ Head(sp) \in Elems(sp)
        /\ Elems(rxList') = Elems(rxList) \cup {Head(sp)}
    <3>1. Head(sp) \in Elems(sp) /\ Elems(sp) \subseteq Packet /\ Elems(sp') \subseteq Elems(sp)
      BY <2>1, ElemsFacts
    <3> QED
      BY <2>1, <3>1, ElemsFacts
  <2>3. Wire' \subseteq Wire
    BY <1>1, <2>1, <2>2 DEF Wire, Headers, chan, proc
  <2>4. (\A k \in Wire : Fresh(k))'
    BY <1>1, <2>1, <2>3 DEF ClientInv, Fresh, chan, proc
  <2>5. role # "undefined"
    BY <2>1 DEF ClientInv
  <2> QED
    BY <1>1, <2>1, <2>4, <2>5 DEF ClientInv, Sharable, Users, chan, club, lock, proc
<1>3. CASE SpRequests
  BY <1>3 DEF SpRequests
<1>4. CASE WorkStart \/ WorkEnd \/ UNCHANGED vars
  <2>1. UNCHANGED <<chan, rxList, peer>>
    BY <1>4 DEF WorkStart, WorkEnd, vars, work
  <2>2. (\A k \in Wire : Fresh(k))'
    BY <1>1, <2>1, FreshKept DEF chan, proc, peer
  <2> QED
    BY <1>1, <2>1, <2>2 DEF ClientInv, Sharable, Users, chan, club, lock, proc, peer
<1>5. CASE WorkPacket
  <2> DEFINE k == Head(rxList)
  <2>1. role = "client" /\ rxList # <<>> /\ UNCHANGED <<kind, rpdev, abort, peer>>
    BY <1>5 DEF WorkPacket, ClientInv
  <2>2. /\ txn' = txn /\ role' = role /\ rxList' = Tail(rxList)
        /\ \/ rxBuf' = <<>> /\ rxTxn' = rxTxn
           \/ k.txn = txn /\ rxBuf' = <<k>> /\ rxTxn' = txn
    BY <1>5, <2>1 DEF WorkPacket
  <2>3. /\ k \in Elems(rxList) /\ Elems(rxList') \subseteq Elems(rxList)
        /\ Elems(<<k>>) = {k} /\ Elems(<<>>) = {}
    <3>1. k \in Elems(rxList) /\ Elems(rxList) \subseteq Packet
          /\ Elems(rxList') \subseteq Elems(rxList)
      BY <2>1, <2>2, ElemsFacts
    <3> QED
      BY <3>1, ElemsFacts
  <2>4. Wire' \subseteq Wire
    BY <1>1, <2>1, <2>2, <2>3 DEF Wire, Headers, proc, peer
  <2>5. (\A h \in Wire : Fresh(h))'
    BY <1>1, <2>1, <2>2, <2>4 DEF ClientInv, Fresh, proc, peer
  <2>6. rxBuf' # <<>> => rxBuf'[1].txn = txn' /\ rxTxn' = txn'
    BY <2>2
  <2> HIDE DEF k
  <2> QED
    BY <1>1, <2>1, <2>2, <2>5, <2>6 DEF ClientInv, Sharable, Users, club, lock, proc, peer
<1>6. CASE RpdevProbe \/ RpdevRemove
  <2>1. /\ UNCHANGED <<kind, rxTxn, rxBuf, role, rxList, reqs>> /\ sess' = sess + 1
        /\ (sp' = sp \/ sp' = <<>>)
    BY <1>6 DEF RpdevProbe, RpdevRemove, work
  <2>2. (\A k \in Wire : Fresh(k))' /\ (\A k \in Wire' : k.sess < sess')
        /\ \A q \in Clients : got[q].sess < sess'
    BY <1>1, <2>1, FreshNewSpell DEF proc
  <2>3. rxBuf # <<>> => rxBuf[1] \in Wire'
    BY <2>1, ElemsFacts DEF Wire
  <2>4. \A q \in Clients : got'[q].sess <= sess' /\ got'[q].sess # sess'
    <3>1. \A q \in Clients : got[q].sess \in Nat
      BY DEF Packet
    <3> QED
      BY <1>1, <2>1, <2>2, <3>1 DEF proc
  <2>5. rxBuf' # <<>> => rxBuf'[1].sess # sess'
    <3>1. rxBuf # <<>> => rxBuf[1].sess \in Nat
      BY ElemsFacts DEF Packet
    <3> QED
      BY <2>1, <2>2, <2>3, <3>1
  <2>6. role' = "undefined" => sp' = <<>> /\ rxList' = <<>> /\ rxBuf' = <<>>
    BY <2>1 DEF ClientInv
  <2> QED
    BY <1>1, <2>1, <2>2, <2>4, <2>5, <2>6 DEF ClientInv, Sharable, Users, club, lock, proc
<1> QED
  BY <1>2, <1>3, <1>4, <1>5, <1>6 DEF WorkStep

\* Where the SP asks, only one process can have read a request.
LEMMA OneServer ==
    ASSUME LocksInv, ServerInv, kind = "server", ~crowded, NEW p \in Clients, p \in Users,
           NEW q \in Clients, got[q] # NoPacket
    PROVE  q = p
  BY DEF ServerInv, LocksInv, UsersInv, Sharable

\* A server joins, leaves, or sends its answer.
LEMMA SendKeepsServer ==
    ASSUME LocksInv, LocksInv', PacketTypeOK, PacketTypeOK', ServerInv, kind = "server", ~crowded',
           NEW p \in Clients, Membership(p) \/ Send(p)
    PROVE  ServerInv'
<1> USE DEF PacketTypeOK
<1>0. pc \in [Clients -> Steps]
  BY DEF LocksInv, LocksTypeOK
<1>1. CASE DeviceOpen(p) \/ RegisterChannel(p)
  <2>1. UNCHANGED <<chan, lock, work, proc, peer>> /\ Users \subseteq {p} /\ p \in Users'
    BY <1>1 DEF DeviceOpen, RegisterChannel, Enrol, Users, Sharable
  <2> QED
    BY <2>1 DEF ServerInv, Headers, chan, work, proc, peer
<1>2. CASE DeviceRelease(p) \/ ChannelDeinit(p)
  <2>1. /\ UNCHANGED <<txn, role, pc, hdr, work, peer>>
        /\ Forget(p) /\ members' = members \ {p} /\ files' \in {files, files \ {p}}
        /\ pc[p] = "idle"
        /\ rxBuf' = rxBuf \/ rxBuf' = <<>>
    BY <1>2 DEF DeviceRelease, ChannelDeinit, DropBuffer, chan
  <2>2. got' = [got EXCEPT ![p] = NoPacket]
    BY <2>1 DEF Forget
  <2>3. Elems(rxBuf') \subseteq Elems(rxBuf) /\ Headers' = Headers
    BY <2>1 DEF Elems, Headers
  <2> QED
    BY <2>1, <2>2, <2>3 DEF ServerInv, Users, work, peer
<1>3. CASE SendStart(p)
  <2>1. /\ UNCHANGED <<chan, club, work, hdr, asked, got, peer>> /\ got[p] # NoPacket
        /\ role = "server" /\ \E s \in {"check", "prepare"} : pc' = [pc EXCEPT ![p] = s]
    BY <1>3 DEF SendStart, AfterSync, Step, Sharable
  <2>2. Headers' \subseteq Headers
    BY <1>0, <2>1 DEF Headers
  <2>3. \A q \in Clients : got[q] # NoPacket /\ pc'[q] # "settxn" =>
            pc[q] # "settxn"
    BY <1>0, <1>3, <2>1 DEF SendStart
  <2> QED
    BY <1>0, <2>1, <2>2, <2>3 DEF ServerInv, Users, chan, club, work, peer
<1>4. CASE SendSync(p) \/ SendRecheck(p)
  <2>1. CASE SendSync(p)
    BY <2>1 DEF SendSync, ServerInv
  <2>2. CASE SendRecheck(p)
    <3>1. /\ UNCHANGED <<chan, club, work, hdr, asked, got, peer>> /\ pc[p] = "check"
          /\ \E s \in {"idle", "prepare"} : pc' = [pc EXCEPT ![p] = s]
      BY <2>2 DEF SendRecheck, Step
    <3>2. Headers' \subseteq Headers /\ role # "undefined" /\ got[p] # NoPacket
      BY <1>0, <3>1 DEF Headers, ServerInv
    <3>3. \A q \in Clients : got[q] # NoPacket /\ pc'[q] # "settxn" => pc[q] # "settxn"
      BY <1>0, <3>1
    <3> QED
      BY <1>0, <3>1, <3>2, <3>3 DEF ServerInv, Users, chan, club, work, peer
  <2> QED
    BY <1>4, <2>1, <2>2
<1>5. CASE SendPrepare(p)
  <2>1. got[p] # NoPacket /\ Names(got[p]) /\ (txn \in {0, 1} \/ txn = got[p].txn)
        /\ pc[p] = "prepare" /\ role = "server"
    BY <1>5 DEF SendPrepare, ServerInv
  <2>2. /\ role' = "server" /\ txn' = txn /\ got' = got /\ asked'[p] = got[p].req
        /\ pc' = [pc EXCEPT ![p] = "try"]
        /\ hdr' = [hdr EXCEPT ![p] = [txn |-> txn', req |-> asked'[p], sess |-> sess]]
        /\ UNCHANGED <<rxBuf, club, work, sp>>
    BY <1>5, <2>1 DEF SendPrepare, Step
  <2>3. hdr'[p].txn = txn /\ hdr'[p].req = got[p].req /\ \A q \in Clients : q # p => hdr'[q] = hdr[q]
    BY <2>2
  <2>4. Answers(hdr'[p])
    BY <2>1, <2>3 DEF Answers, Names, SpId
  <2>5. \A k \in Headers' : k \in Headers \/ k = hdr'[p]
    BY <1>0, <2>2, <2>3 DEF Headers
  <2>6. \A q \in Clients : got[q] # NoPacket /\ pc'[q] # "settxn" => pc[q] # "settxn"
    BY <1>0, <2>1, <2>2
  <2> QED
    BY <1>0, <2>2, <2>4, <2>5, <2>6 DEF ServerInv, Users, club, work
<1>6. CASE SendAccepted(p)
  <2>1. /\ sp' = Append(sp, hdr[p]) /\ pc[p] = "try" /\ pc' = [pc EXCEPT ![p] = "sent"]
        /\ UNCHANGED <<chan, club, work, got>> /\ role = "server"
        /\ hdr' = [hdr EXCEPT ![p] = NoPacket]
    BY <1>6 DEF SendAccepted, ServerInv, Step
  <2>2. Elems(sp') = Elems(sp) \cup {hdr[p]}
    BY <2>1, ElemsFacts
  <2>3. hdr[p] \in Headers /\ Headers' \subseteq Headers
    BY <1>0, <2>1 DEF Headers
  <2>4. \A q \in Clients : got[q] # NoPacket /\ pc'[q] # "settxn" => pc[q] # "settxn"
    BY <1>0, <2>1
  <2> QED
    BY <1>0, <2>1, <2>2, <2>3, <2>4 DEF ServerInv, Users, chan, club, work
<1>7. CASE SendFailed(p)
  <2>1. /\ pc[p] = "try" /\ pc' = [pc EXCEPT ![p] = "sent"] /\ role = "server"
        /\ UNCHANGED <<chan, club, work, got, peer>> /\ hdr' = [hdr EXCEPT ![p] = NoPacket]
    BY <1>7 DEF SendFailed, ServerInv, Step
  <2>2. Headers' \subseteq Headers
    BY <1>0, <2>1 DEF Headers
  <2>3. \A q \in Clients : got[q] # NoPacket /\ pc'[q] # "settxn" => pc[q] # "settxn"
    BY <1>0, <2>1
  <2> QED
    BY <1>0, <2>1, <2>2, <2>3 DEF ServerInv, Users, chan, club, work, peer
<1>8. CASE SendServerDone(p)
  <2>1. /\ pc[p] = "sent" /\ pc' = [pc EXCEPT ![p] = "idle"]
        /\ got' = [got EXCEPT ![p] = NoPacket]
        /\ UNCHANGED <<chan, club, work, hdr, peer>>
    BY <1>8 DEF SendServerDone, Forget, Step
  <2>2. Headers' \subseteq Headers /\ role # "undefined"
    BY <1>0, <2>1 DEF Headers, ServerInv
  <2> QED
    BY <1>0, <2>1, <2>2 DEF ServerInv, Users, chan, club, work, peer
<1> QED
  BY <1>1, <1>2, <1>3, <1>4, <1>5, <1>6, <1>7, <1>8 DEF Membership, Send

\* A server waits for a request, reads it and takes over its id.
LEMMA ReceiveKeepsServer ==
    ASSUME LocksInv, LocksInv', PacketTypeOK, PacketTypeOK', ServerInv, kind = "server", ~crowded,
           NEW p \in Clients, Receive(p)
    PROVE  ServerInv'
<1> USE DEF PacketTypeOK
<1>0. pc \in [Clients -> Steps]
  BY DEF LocksInv, LocksTypeOK
<1>1. ASSUME UNCHANGED <<txn, club, work, hdr, got, peer>>, role' = "server",
             rxBuf' = rxBuf \/ rxBuf' = <<>>, pc[p] # "settxn" \/ got[p] = NoPacket,
             NEW s \in {"idle", "sized", "waitsize", "rx", "wait", "out"},
             pc' = [pc EXCEPT ![p] = s]
      PROVE  ServerInv'
  <2>1. Elems(rxBuf') \subseteq Elems(rxBuf) /\ Headers' \subseteq Headers
    BY <1>0, <1>1, SMTT(30) DEF Elems, Headers
  <2>2. \A q \in Clients : got[q] # NoPacket /\ pc'[q] # "settxn" => pc[q] # "settxn"
    BY <1>0, <1>1
  <2> QED
    BY <1>0, <1>1, <2>1, <2>2 DEF ServerInv, Users, club, work, peer
<1>2. ASSUME rxBuf # <<>>, pc[p] \in {"rx", "wait"},
             got' = [got EXCEPT ![p] = rxBuf[1]], rxBuf' = <<>>, role = "server",
             pc' = [pc EXCEPT ![p] = "settxn"],
             UNCHANGED <<txn, role, club, work, hdr, peer>>
      PROVE  ServerInv'
  <2>1. rxBuf[1] \in Elems(rxBuf) /\ Elems(<<>>) = {} /\ Headers' \subseteq Headers
    BY <1>0, <1>2, ElemsFacts DEF Headers
  <2>2. Names(rxBuf[1]) /\ p \in Users
    BY <1>2, <2>1 DEF ServerInv, LocksInv, UsersInv, MayCall, Users
  <2>3. \A q \in Clients : q # p => got'[q] = got[q] /\ pc'[q] = pc[q]
    BY <1>0, <1>2
  <2>4. got'[p] = rxBuf[1] /\ pc'[p] = "settxn"
    BY <1>0, <1>2
  <2>5. /\ \A q \in Clients : got'[q] # NoPacket => q \in Users /\ Names(got'[q])
        /\ \A q \in Clients : got'[q] # NoPacket /\ pc'[q] # "settxn"
                                 => txn \in {0, 1} \/ txn = got'[q].txn
        /\ \A q \in Clients : pc'[q] \in {"check", "prepare"} => got'[q] # NoPacket
        /\ \A q \in Clients : pc'[q] \notin {"sync", "expired"}
    BY <2>2, <2>3, <2>4 DEF ServerInv
  <2> QED
    BY <1>2, <2>1, <2>5 DEF ServerInv, Users, club, work, peer
<1>3. CASE NextRequestSize(p)
  <2>1. /\ UNCHANGED <<txn, rxBuf, club, work, hdr, got, peer>> /\ role' = "server"
        /\ pc[p] = "idle" /\ \E s \in {"sized", "waitsize"} : pc' = [pc EXCEPT ![p] = s]
    BY <1>3 DEF NextRequestSize, Step
  <2> QED
    BY <1>1, <2>1
<1>4. CASE NextRequestWake(p) \/ NextRequestInterrupted(p)
  <2>1. /\ UNCHANGED <<chan, club, work, hdr, got, peer>> /\ pc[p] = "waitsize"
        /\ \E s \in {"sized", "idle"} : pc' = [pc EXCEPT ![p] = s]
    BY <1>4 DEF NextRequestWake, NextRequestInterrupted, Step
  <2>2. role = "server"
    BY <2>1 DEF ServerInv
  <2> QED
    BY <1>1, <2>1, <2>2 DEF chan
<1>5. CASE GetStart(p) \/ RxInterrupted(p)
  <2>1. /\ UNCHANGED <<chan, club, work, hdr, got, peer>> /\ pc[p] \in {"sized", "wait"}
        /\ \E s \in {"rx", "out"} : pc' = [pc EXCEPT ![p] = s]
    BY <1>5 DEF GetStart, RxInterrupted, Step, ServerInv
  <2>2. role = "server"
    BY <2>1 DEF ServerInv
  <2> QED
    BY <1>1, <2>1, <2>2 DEF chan
<1>6. CASE RxEnter(p)
  <2>1. pc[p] = "rx" /\ role = "server" /\ UNCHANGED <<txn, role, club, work, hdr, peer>>
    BY <1>6 DEF RxEnter, ServerInv
  <2>2. CASE rxTxn = txn /\ rxBuf # <<>>
    <3>1. /\ got' = [got EXCEPT ![p] = rxBuf[1]] /\ rxBuf' = <<>>
          /\ pc' = [pc EXCEPT ![p] = "settxn"]
      BY <1>6, <2>1, <2>2 DEF RxEnter, Take, Step
    <3> QED
      BY <1>2, <2>1, <2>2, <3>1
  <2>3. CASE ~(rxTxn = txn /\ rxBuf # <<>>)
    <3>1. UNCHANGED got /\ rxBuf' = <<>> /\ pc' = [pc EXCEPT ![p] = "wait"]
      BY <1>6, <2>3 DEF RxEnter, Step
    <3> QED
      BY <1>1, <2>1, <3>1
  <2> QED
    BY <2>2, <2>3
<1>7. CASE RxWake(p)
  <2>1. pc[p] = "wait" /\ role = "server" /\ UNCHANGED <<txn, role, club, work, hdr, peer>>
    BY <1>7 DEF RxWake, ServerInv
  <2>2. CASE abort \/ rxBuf = <<>>
    <3>1. UNCHANGED <<rxBuf, got>> /\ pc' = [pc EXCEPT ![p] = "out"]
      BY <1>7, <2>2 DEF RxWake, Step
    <3> QED
      BY <1>1, <2>1, <3>1
  <2>3. CASE ~(abort \/ rxBuf = <<>>)
    <3>1. /\ got' = [got EXCEPT ![p] = rxBuf[1]] /\ rxBuf' = <<>>
          /\ pc' = [pc EXCEPT ![p] = "settxn"]
      BY <1>7, <2>1, <2>3 DEF RxWake, Take, Step
    <3> QED
      BY <1>2, <2>1, <2>3, <3>1
  <2> QED
    BY <2>2, <2>3
<1>8. CASE RxExpire(p) \/ RxExpired(p)
  BY <1>8 DEF RxExpire, RxExpired, ServerInv
<1>9. CASE SetServerTxn(p)
  <2>1. /\ pc[p] = "settxn" /\ txn' = got[p].txn /\ pc' = [pc EXCEPT ![p] = "out"]
        /\ UNCHANGED <<rxBuf, role, club, work, hdr, got, peer>>
    BY <1>9 DEF SetServerTxn, Step
  <2>2. p \in Users /\ role # "undefined" /\ Headers' \subseteq Headers
    BY <1>0, <2>1 DEF ServerInv, LocksInv, UsersInv, MayCall, Users, Headers
  <2>3. \A q \in Clients : got[q] # NoPacket => q = p
    BY <2>2, OneServer
  <2> QED
    BY <1>0, <2>1, <2>2, <2>3 DEF ServerInv, Users, club, work, peer
<1>10. CASE GetOut(p)
  <2>1. /\ pc[p] = "out" /\ pc' = [pc EXCEPT ![p] = "idle"]
        /\ UNCHANGED <<chan, club, work, hdr, got, peer>>
    BY <1>10 DEF GetOut, Step, ServerInv
  <2>2. role = "server"
    BY <2>1 DEF ServerInv
  <2> QED
    BY <1>1, <2>1, <2>2 DEF chan
<1> QED
  BY <1>3, <1>4, <1>5, <1>6, <1>7, <1>8, <1>9, <1>10 DEF Receive, GetStep

\* The SP asks, the worker hands its requests over, the link goes and comes.
LEMMA PeerKeepsServer ==
    ASSUME LocksInv, PacketTypeOK, ServerInv, kind = "server",
           SpAnswers \/ SpRequests \/ WorkStep \/ RpdevProbe \/ RpdevRemove \/ UNCHANGED vars
    PROVE  ServerInv'
<1> USE DEF PacketTypeOK
<1>1. UNCHANGED <<kind, club, lock, proc>> /\ Headers' = Headers
  BY DEF SpAnswers, SpRequests, RpdevCb, WorkStep, WorkStart, WorkPacket, WorkEnd,
     RpdevProbe, RpdevRemove, vars, chan, proc, Headers
<1>2. CASE SpAnswers
  BY <1>2 DEF SpAnswers
<1>3. CASE SpRequests
  <2> DEFINE k == [txn |-> SpId(reqs'), req |-> reqs', sess |-> sess]
  <2>1. /\ rxList' = Append(rxList, k) /\ sp' = <<>> /\ reqs' = reqs + 1
        /\ UNCHANGED chan
    BY <1>3 DEF SpRequests, RpdevCb
  <2>2. k \in Packet /\ Names(k)
    BY <2>1 DEF Packet, Names, SpId
  <2> HIDE DEF k
  <2>3. Elems(rxList') = Elems(rxList) \cup {k} /\ Elems(sp') = {}
    BY <2>1, <2>2, ElemsFacts
  <2> QED
    BY <1>1, <2>1, <2>2, <2>3 DEF ServerInv, Users, chan, club, proc
<1>4. CASE WorkStart \/ WorkEnd \/ UNCHANGED vars
  <2>1. UNCHANGED <<chan, rxList, peer>>
    BY <1>4 DEF WorkStart, WorkEnd, vars, work
  <2> QED
    BY <1>1, <2>1 DEF ServerInv, Users, chan, club, proc, peer
<1>5. CASE WorkPacket
  <2> DEFINE k == Head(rxList)
  <2>1. rxList # <<>> /\ UNCHANGED peer
    BY <1>5 DEF WorkPacket
  <2>2. /\ rxList' = Tail(rxList) /\ role' = "server"
        /\ (rxBuf' = <<>> \/ rxBuf' = <<k>>)
        /\ role = "server" => txn' = txn
    BY <1>5 DEF WorkPacket, ServerInv
  <2>3. /\ k \in Elems(rxList) /\ Elems(rxList') \subseteq Elems(rxList)
        /\ Elems(<<k>>) = {k} /\ Elems(<<>>) = {}
    <3>1. k \in Elems(rxList) /\ Elems(rxList) \subseteq Packet
          /\ Elems(rxList') \subseteq Elems(rxList)
      BY <2>1, <2>2, ElemsFacts
    <3> QED
      BY <3>1, ElemsFacts
  <2> HIDE DEF k
  <2>4. Elems(rxBuf') \subseteq Elems(rxList)
    BY <2>2, <2>3
  <2>5. role # "server" => \A q \in Clients : got[q] = NoPacket
    BY DEF ServerInv
  <2> QED
    BY <1>1, <2>1, <2>2, <2>3, <2>4, <2>5 DEF ServerInv, Users, club, proc, peer
<1>6. CASE RpdevProbe \/ RpdevRemove
  <2>1. UNCHANGED <<rxBuf, role, rxList>> /\ txn' \in {0, 1} /\ (sp' = <<NoPacket>> \/ sp' = <<>>)
    BY <1>6 DEF RpdevProbe, RpdevRemove, work, INITIAL_TXN_ID
  <2>2. Answers(NoPacket)
    BY DEF Answers, NoPacket, SpId
  <2>3. \A k \in Elems(sp') : k = NoPacket
    BY <2>1 DEF Elems
  <2> QED
    BY <1>1, <2>1, <2>2, <2>3 DEF ServerInv, Users, club, proc
<1> QED
  BY <1>2, <1>3, <1>4, <1>5, <1>6 DEF WorkStep

\* Nothing is on its way on a new channel.
LEMMA PacketInit == Init => PacketInv
<1> SUFFICES ASSUME Init PROVE PacketInv
  OBVIOUS
<1>1. NoPacket \in Packet /\ NoPacket.sess = 0 /\ Elems(<<>>) = {}
  BY DEF NoPacket, Packet, Elems
<1>2. PacketTypeOK
  BY TypeInit
<1>3. Wire = {} /\ Headers = {}
  BY <1>1 DEF Init, Wire, Headers
<1>4. ClientInv
  BY <1>1, <1>3 DEF Init, ClientInv
<1>5. ServerInv
  BY <1>1, <1>3 DEF Init, ServerInv
<1> QED
  BY <1>2, <1>4, <1>5 DEF PacketInv

\* What the invariant says of packets that have been read or answered.
LEMMA PacketInvSafe == PacketInv => PacketsMatch
<1> SUFFICES ASSUME PacketInv, ~crowded PROVE OwnAnswer /\ ReplyNamesRequest
  BY DEF PacketsMatch
<1>1. OwnAnswer
  BY DEF PacketInv, ClientInv, ServerInv, OwnAnswer
<1>2. ReplyNamesRequest
  <2> SUFFICES ASSUME kind = "server", NEW i \in 1..Len(sp), sp[i].txn > SpId(0)
               PROVE  sp[i].txn = SpId(sp[i].req)
    BY DEF ReplyNamesRequest
  <2>1. Answers(sp[i]) /\ sp[i] \in Packet
    BY DEF PacketInv, PacketTypeOK, ServerInv, Elems
  <2> QED
    BY <2>1 DEF Answers, Names, SpId, Packet
<1> QED
  BY <1>1, <1>2

\* However many clients share a channel and however they come, go and die, whatever
\* times out, is interrupted or is lost to a crash of the SP: an answer of the present
\* spell of the link reaches the client whose request it answers, and what a server
\* sends under the id of a request of the SP is the answer to that request; on an
\* exclusive channel as long as it has one user, and for users that read what they asked.
THEOREM PacketsSafety == ~ReadsAgain => (Spec => []PacketsMatch)
<1> SUFFICES ASSUME ~ReadsAgain PROVE Spec => []PacketsMatch
  OBVIOUS
<1>1. LocksInv /\ PacketInv /\ [Next]_vars => LocksInv' /\ PacketInv'
  <2> SUFFICES ASSUME LocksInv, PacketInv, [Next]_vars PROVE LocksInv' /\ PacketInv'
    OBVIOUS
  <2>1. LocksInv' /\ PacketTypeOK /\ PacketTypeOK'
    BY LocksNext, PacketTypeNext DEF PacketInv
  <2>2. kind' = kind /\ (crowded => crowded')
    <3>1. ASSUME NEW p \in Clients, Membership(p) PROVE kind' = kind /\ (crowded => crowded')
      <4>1. CASE DeviceOpen(p) \/ RegisterChannel(p)
        BY <4>1 DEF DeviceOpen, RegisterChannel, Enrol, chan
      <4>2. CASE DeviceRelease(p) \/ ChannelDeinit(p)
        BY <4>2 DEF DeviceRelease, ChannelDeinit, DropBuffer, chan
      <4> QED
        BY <3>1, <4>1, <4>2 DEF Membership
    <3>2. ASSUME NEW p \in Clients, Send(p) PROVE UNCHANGED <<kind, crowded>>
      BY <3>2 DEF Send, SendStart, SendSync, SendRecheck, SendPrepare, SendAccepted, SendFailed,
         SendServerDone, chan, club
    <3>3. ASSUME NEW p \in Clients, Receive(p) PROVE UNCHANGED <<kind, crowded>>
      BY <3>3 DEF Receive, GetStep, NextRequestSize, NextRequestWake, NextRequestInterrupted,
         GetStart, RxEnter, RxWake, RxExpire, RxExpired, RxInterrupted, SetServerTxn,
         GetOut, chan, club
    <3>4. SpAnswers \/ SpRequests \/ WorkStep \/ RpdevProbe \/ RpdevRemove \/ UNCHANGED vars
              => UNCHANGED <<kind, crowded>>
      BY DEF SpAnswers, SpRequests, RpdevCb, WorkStep, WorkStart, WorkPacket, WorkEnd,
         RpdevProbe, RpdevRemove, vars, chan, club
    <3> QED
      BY <3>1, <3>2, <3>3, <3>4 DEF Next
  <2>3. CASE kind = "server" /\ ~crowded'
    <3>1. ServerInv'
      BY <2>1, <2>2, <2>3, SendKeepsServer, ReceiveKeepsServer, PeerKeepsServer DEF PacketInv, Next
    <3> QED
      BY <2>1, <2>2, <2>3, <3>1 DEF PacketInv
  <2>4. CASE kind # "server" /\ ~crowded'
    <3>1. ClientInv'
      BY <2>1, <2>2, <2>4, MembershipKeepsClient, SendKeepsClient, ReceiveKeepsClient,
         PeerKeepsClient DEF PacketInv, Next
    <3> QED
      BY <2>1, <2>2, <2>4, <3>1 DEF PacketInv
  <2>5. CASE crowded'
    BY <2>1, <2>5 DEF PacketInv
  <2> QED
    BY <2>3, <2>4, <2>5
<1> QED
  BY <1>1, LocksInit, PacketInit, PacketInvSafe, PTL DEF Spec

-----------------------------------------------------------------------------
(* The table of the channels.                                              *)

TbJobs == [api : {"none", "legacy", "shared", "register"}, slot : TbI,
           name : TbNames \cup {TbNo}, shar : BOOLEAN, new : BOOLEAN]
TbCounted == {i \in TbI : tbDev[i] # "off"}

\* The types of the table's variables.
TbTypeOK ==
    /\ tbName \in [TbI -> TbNames \cup {TbNo}] /\ tbShar \in [TbI -> BOOLEAN]
    /\ tbDrv \in [TbI -> BOOLEAN] /\ tbDev \in [TbI -> {"off", "counted", "on"}]
    /\ tbPids \in [TbI -> SUBSET TbProcs]
    /\ tbCtl \in [TbProcs -> Nat] /\ tbJob \in [TbProcs -> TbJobs] /\ tbMixed \in BOOLEAN
    /\ tbUp \in BOOLEAN /\ tbCount \in Nat
    /\ tbChange \in BOOLEAN /\ tbPoll \in {"idle", "up", "down"} /\ tbGone \in BOOLEAN

\* What holds whatever overlaps: who creates a channel has a control file open, and the
\* devices that have been counted are those rpmsg_dev_count counts.
TbAlways ==
    /\ TbTypeOK /\ TbNoGhosts /\ TbLinkDownSeen
    /\ \A p \in TbProcs : ~TbIdle(p) => tbCtl[p] > 0
    /\ tbCount = Cardinality(TbCounted)

\* While one creation runs at a time, what it found in its scan still holds: a new name
\* has no entry and its entry is the first free one; the write command can take back the
\* entry it made, the last one, which nobody has joined.
TbJobInv ==
    /\ \A p, q \in TbProcs : ~TbIdle(p) /\ ~TbIdle(q) => p = q
    /\ \A p \in TbProcs : ~TbIdle(p) =>
         LET j == tbJob[p]
         IN /\ j.name # TbNo
            /\ j.new => /\ tbName[j.slot] = TbNo
                        /\ \A i \in TbI : tbName[i] # j.name
                        /\ \A i \in TbI : i < j.slot => tbName[i] # TbNo
            /\ ~j.new => tbName[j.slot] # TbNo
            /\ ~j.new /\ j.api = "legacy" =>
                 ~tbDrv[j.slot] /\ \A i \in TbI : i > j.slot => tbName[i] = TbNo

\* The entries in use come first, and only they have a driver.
TbTableInv ==
    /\ \A i, k \in TbI : i < k /\ tbName[k] # TbNo => tbName[i] # TbNo
    /\ \A i \in TbI : tbDrv[i] => tbName[i] # TbNo

TbAlone == TbJobInv /\ TbTableInv /\ TbNamesUnique /\ TbRemovesAll

TbInv == TbAlways /\ (~tbMixed => TbAlone)

\* The first entry of a set of entries.
LEMMA TbMinIn ==
    ASSUME NEW F \in SUBSET TbI, F # {}
    PROVE  Min(F) \in F /\ \A y \in F : Min(F) =< y
<1>1. F \subseteq Nat
  BY TbAssumption DEF TbI
<1>2. PICK x \in F : \A y \in F : ~(<<y, x>> \in OpToRel(<, Nat))
  BY <1>1, NatLessThanWellFounded, WFMin
<1>3. ASSUME NEW y \in F PROVE x =< y
  <2>1. x \in Nat /\ y \in Nat
    BY <1>1
  <2>2. y < x => <<y, x>> \in {ss \in Nat \X Nat : ss[1] < ss[2]}
    BY <2>1
  <2>3. ~(y < x)
    BY <1>2, <2>2, Zenon DEF OpToRel
  <2> QED
    BY <2>1, <2>3
<1> QED
  BY <1>3 DEF Min

\* Counting the devices.
LEMMA TbCounting ==
    ASSUME NEW A \in SUBSET TbI
    PROVE  /\ IsFiniteSet(A) /\ Cardinality(A) \in Nat
           /\ \A i \in TbI \ A : Cardinality(A \cup {i}) = Cardinality(A) + 1
           /\ \A i \in A : Cardinality(A \ {i}) = Cardinality(A) - 1
           /\ Cardinality(A) = 0 <=> A = {}
<1>1. IsFiniteSet(TbI)
  BY TbAssumption, FS_Interval DEF TbI
<1>2. IsFiniteSet(A)
  BY <1>1, FS_Subset
<1> QED
  BY <1>2, FS_CardinalityType, FS_AddElement, FS_RemoveElement, FS_EmptySet

\* The table spcom_probe leaves.
LEMMA TbInitInv == TbInit => TbInv
<1> SUFFICES ASSUME TbInit PROVE TbInv
  OBVIOUS
<1> USE TbAssumption DEF TbInit, TbI, TbNoJob
<1>0. PICK n \in TbNames : tbName = [i \in TbI |-> IF i = 1 THEN n ELSE TbNo]
  OBVIOUS
<1>1. TbTypeOK
  <2>1. tbDrv \in [TbI -> BOOLEAN]
    BY Zenon
  <2>2. tbName \in [TbI -> TbNames \cup {TbNo}]
    BY <1>0
  <2>3. tbJob \in [TbProcs -> TbJobs]
    BY DEF TbJobs
  <2> QED
    BY <2>1, <2>2, <2>3 DEF TbTypeOK
<1>2. TbJobInv /\ TbTableInv
  <2>1. TbJobInv
    BY DEF TbJobInv, TbIdle
  <2>2. \A i \in TbI : tbDrv[i] => i = 1
    BY Zenon
  <2>3. \A i \in TbI : tbName[i] # TbNo <=> i = 1
    BY <1>0
  <2> HIDE DEF TbInit
  <2> QED
    BY <2>1, <2>2, <2>3 DEF TbTableInv
<1>3. TbNamesUnique /\ TbNoGhosts /\ TbRemovesAll /\ TbLinkDownSeen
  BY DEF TbNamesUnique, TbNoGhosts, TbRemovesAll, TbLinkDownSeen
<1>4. TbCounted = {}
  BY DEF TbCounted
<1>5. tbCount = Cardinality(TbCounted)
  BY <1>4, FS_EmptySet
<1>6. \A p \in TbProcs : TbIdle(p)
  BY DEF TbIdle
<1> QED
  BY <1>1, <1>2, <1>3, <1>5, <1>6 DEF TbInv, TbAlways, TbAlone

\* What the steps that leave the link alone keep.
LEMMA TbLinkKept ==
    ASSUME TbAlways, UNCHANGED tbLink
    PROVE  TbLinkDownSeen' /\ (tbCount = Cardinality(TbCounted))'
  BY DEF TbAlways, TbLinkDownSeen, TbCounted, tbLink

\* Opening and closing the control device, and the unregister ioctl: the clients of the
\* channels get fewer, and a process without a control file is not among them.
LEMMA TbControlInv ==
    ASSUME TbInv, NEW p \in TbProcs,
           \/ TbControlOpen(p) \/ TbControlClose(p)
           \/ \E i \in TbI : TbUnregister(p, i)
    PROVE  TbInv'
<1> USE DEF TbInv, TbAlways
<1>1. UNCHANGED <<tbName, tbShar, tbDrv, tbLink, tbMade, tbGone>> /\ TbIdle(p)
  BY DEF TbControlOpen, TbControlClose, TbUnregister, tbTable
<1>2. /\ tbCtl' \in [TbProcs -> Nat] /\ \A q \in TbProcs \ {p} : tbCtl'[q] = tbCtl[q]
      /\ tbPids' \in [TbI -> SUBSET TbProcs] /\ \A i \in TbI : tbPids'[i] \subseteq tbPids[i]
      /\ tbCtl'[p] = 0 => \A i \in TbI : p \notin tbPids'[i]
  <2> USE DEF TbTypeOK
  <2>1. CASE TbControlOpen(p)
    BY <2>1 DEF TbControlOpen, tbTable
  <2>2. CASE TbControlClose(p)
    BY <2>2 DEF TbControlClose
  <2>3. CASE \E i \in TbI : TbUnregister(p, i)
    BY <2>3 DEF TbUnregister
  <2> QED
    BY <2>1, <2>2, <2>3
<1>3. TbTypeOK'
  BY <1>1, <1>2 DEF TbTypeOK, tbLink, tbMade
<1>4. TbNoGhosts' /\ \A q \in TbProcs : ~TbIdle(q)' => tbCtl'[q] > 0
  BY <1>1, <1>2 DEF TbNoGhosts, TbIdle, tbMade
<1>5. ~tbMixed => TbAlone'
  BY <1>1, <1>2 DEF TbAlone, TbJobInv, TbIdle, TbRemovesAll, TbTableInv, TbNamesUnique, tbMade
<1> QED
  BY <1>1, <1>3, <1>4, <1>5, TbLinkKept DEF tbMade

\* The scan: a creation that starts while another runs ends the claim of being alone.
LEMMA TbScanInv ==
    ASSUME TbInv, NEW p \in TbProcs,
           NEW n \in TbNames, NEW api \in {"legacy", "shared", "register"}, NEW sh \in BOOLEAN,
           TbScan(p, api, n, sh)
    PROVE  TbInv'
<1> USE DEF TbInv, TbAlways
<1>1. /\ UNCHANGED <<tbTable, tbLink, tbCtl, tbGone>> /\ tbCtl[p] > 0
      /\ tbMixed' \in BOOLEAN
      /\ ~tbMixed' => ~tbMixed /\ \A q \in TbProcs : TbIdle(q)
  BY DEF TbScan, TbTypeOK
<1>2. PICK i \in TbI, new \in BOOLEAN :
        /\ tbJob' = [tbJob EXCEPT ![p] = [api |-> api, slot |-> i, name |-> n,
                                          shar |-> sh, new |-> new]]
        /\ new => /\ tbName[i] = TbNo /\ \A k \in TbI : tbName[k] # n
                  /\ \A k \in TbI : k < i => tbName[k] # TbNo
        /\ ~new => tbName[i] = n /\ api = "register"
  <2>1. CASE /\ TbFind(n) = {} /\ TbFind(TbNo) # {}
             /\ tbJob' = [tbJob EXCEPT ![p] = [api |-> api, slot |-> Min(TbFind(TbNo)),
                                               name |-> n, shar |-> sh, new |-> TRUE]]
    <3>1. Min(TbFind(TbNo)) \in TbFind(TbNo) /\ \A y \in TbFind(TbNo) : Min(TbFind(TbNo)) =< y
      BY <2>1, TbMinIn DEF TbFind
    <3>2. \A k \in TbI : k < Min(TbFind(TbNo)) => k \notin TbFind(TbNo)
      BY <3>1, TbAssumption DEF TbI, TbFind
    <3>3. \A k \in TbI : tbName[k] # n
      BY <2>1 DEF TbFind
    <3> QED
      BY <2>1, <3>1, <3>2, <3>3 DEF TbFind
  <2>2. CASE /\ TbFind(n) # {} /\ api = "register"
             /\ tbJob' = [tbJob EXCEPT ![p] = [api |-> api, slot |-> Min(TbFind(n)),
                                               name |-> n, shar |-> sh, new |-> FALSE]]
    <3>1. Min(TbFind(n)) \in TbFind(n)
      BY <2>2, TbMinIn DEF TbFind
    <3> QED
      BY <2>2, <3>1 DEF TbFind
  <2> QED
    BY <2>1, <2>2 DEF TbScan
<1>3. TbTypeOK'
  BY <1>1, <1>2 DEF TbTypeOK, TbJobs, tbTable, tbLink
<1>4. TbNoGhosts' /\ \A q \in TbProcs : ~TbIdle(q)' => tbCtl'[q] > 0
  BY <1>1, <1>2 DEF TbNoGhosts, TbIdle, TbTypeOK, tbTable
<1>5. ASSUME ~tbMixed' PROVE TbAlone'
  <2>1. tbJob'[p] = [api |-> api, slot |-> i, name |-> n, shar |-> sh, new |-> new]
        /\ \A q \in TbProcs \ {p} : tbJob'[q] = TbNoJob
    BY <1>1, <1>2, <1>5 DEF TbTypeOK, TbIdle
  <2>2. \A q \in TbProcs : tbJob'[q] # TbNoJob => q = p
    BY <2>1
  <2>3. /\ tbJob'[p].name = n /\ tbJob'[p].slot = i /\ tbJob'[p].new = new
        /\ tbJob'[p].api = api /\ n # TbNo
    BY <2>1, TbAssumption
  <2>4. TbJobInv'
    BY <1>1, <1>2, <2>2, <2>3 DEF TbJobInv, TbIdle, tbTable
  <2> QED
    BY <1>1, <1>5, <2>4 DEF TbAlone, TbTableInv, TbNamesUnique, TbRemovesAll, tbTable
<1> QED
  BY <1>1, <1>3, <1>4, <1>5, TbLinkKept

\* A new entry is filled: spcom_init_channel.
LEMMA TbInitChannelInv ==
    ASSUME TbInv, NEW p \in TbProcs, TbInitChannel(p)
    PROVE  TbInv'
<1> DEFINE j == tbJob[p]
<1> USE DEF TbInv, TbAlways
<1>1. /\ j \in TbJobs /\ j.slot \in TbI /\ j.new /\ ~TbIdle(p)
      /\ tbName' = [tbName EXCEPT ![j.slot] = j.name]
      /\ tbShar' = [tbShar EXCEPT ![j.slot] = j.shar]
      /\ tbDrv' = [tbDrv EXCEPT ![j.slot] = FALSE]
      /\ tbPids' = [tbPids EXCEPT ![j.slot] = {}]
      /\ tbJob' = [tbJob EXCEPT ![p] = IF j.api = "shared" THEN TbNoJob
                                       ELSE [j EXCEPT !.new = FALSE]]
      /\ UNCHANGED <<tbLink, tbMixed, tbCtl, tbGone>>
  BY DEF TbInitChannel, TbIdle, TbNoJob, TbTypeOK, TbJobs
<1>2. tbJob'[p] \in TbJobs /\ tbJob'[p].new = FALSE
      /\ (tbJob'[p] = TbNoJob \/ (/\ tbJob'[p].api = j.api /\ tbJob'[p].name = j.name
                                  /\ tbJob'[p].slot = j.slot))
  <2>1. tbJob'[p] = IF j.api = "shared" THEN TbNoJob ELSE [j EXCEPT !.new = FALSE]
    BY <1>1 DEF TbTypeOK
  <2>2. TbNoJob \in TbJobs
    BY TbAssumption DEF TbNoJob, TbJobs, TbI
  <2>3. CASE j.api = "shared"
    BY <2>1, <2>2, <2>3 DEF TbNoJob
  <2>4. CASE j.api # "shared"
    <3> HIDE DEF j
    <3>1. [j EXCEPT !.new = FALSE] \in TbJobs
      BY <1>1 DEF TbJobs
    <3> QED
      BY <1>1, <2>1, <2>4, <3>1 DEF TbJobs
  <2> QED
    BY <2>3, <2>4
<1> HIDE DEF j
<1>3. TbTypeOK'
  <2>1. j.name \in TbNames \cup {TbNo} /\ j.shar \in BOOLEAN
    BY <1>1 DEF TbJobs
  <2>2. tbJob' \in [TbProcs -> TbJobs]
    BY <1>1, <1>2 DEF TbTypeOK
  <2> QED
    BY <1>1, <2>1, <2>2 DEF TbTypeOK, tbLink
<1>4. TbNoGhosts' /\ \A q \in TbProcs : ~TbIdle(q)' => tbCtl'[q] > 0
  BY <1>1 DEF TbNoGhosts, TbIdle, TbTypeOK
<1>5. ASSUME ~tbMixed PROVE TbAlone'
  <2>1. /\ j.name # TbNo /\ tbName[j.slot] = TbNo
        /\ \A i \in TbI : tbName[i] # j.name
        /\ \A i \in TbI : i < j.slot => tbName[i] # TbNo
    BY <1>1, <1>5 DEF TbAlone, TbJobInv, j
  <2>2. \A q \in TbProcs \ {p} : tbJob'[q] = TbNoJob
    BY <1>1, <1>5 DEF TbAlone, TbJobInv, TbIdle, TbTypeOK
  <2>3. UNCHANGED tbDrv
    BY <1>1, <1>5, <2>1 DEF TbAlone, TbTableInv, TbTypeOK
  <2>4. \A i \in TbI : i > j.slot => tbName[i] = TbNo
    BY <1>1, <1>5, <2>1 DEF TbAlone, TbTableInv
  <2>5. \A i \in TbI : tbName'[i] = IF i = j.slot THEN j.name ELSE tbName[i]
    BY <1>1 DEF TbTypeOK
  <2>6. ~tbDrv'[j.slot] /\ \A i \in TbI : i > j.slot => tbName'[i] = TbNo
    BY <1>1, <2>4, <2>5, TbAssumption DEF TbTypeOK, TbI
  <2>7. TbJobInv'
    BY <1>1, <1>2, <2>1, <2>2, <2>5, <2>6 DEF TbJobInv, TbIdle
  <2>8. TbTableInv' /\ TbNamesUnique'
    BY <1>1, <1>5, <2>1, <2>3, <2>4, <2>5, TbAssumption
       DEF TbAlone, TbTableInv, TbNamesUnique, TbI
  <2> QED
    BY <1>1, <1>5, <2>3, <2>7, <2>8 DEF TbAlone, TbRemovesAll
<1> QED
  BY <1>1, <1>3, <1>4, <1>5, TbLinkKept

\* The driver is registered, or cannot be: spcom_register_rpmsg_drv.
LEMMA TbRegisterInv ==
    ASSUME TbInv, ~tbGone, NEW p \in TbProcs, TbRegistered(p) \/ TbRegisterFails(p)
    PROVE  TbInv'
<1> DEFINE j == tbJob[p]
<1> USE DEF TbInv, TbAlways
<1>1. /\ j \in TbJobs /\ j.slot \in TbI /\ ~TbIdle(p) /\ ~j.new
      /\ tbJob' = [tbJob EXCEPT ![p] = TbNoJob]
      /\ UNCHANGED <<tbShar, tbLink, tbMixed, tbCtl, tbGone>>
  BY DEF TbRegistered, TbRegisterFails, TbTypeOK, TbJobs
<1>2. TbNoJob \in TbJobs
  BY TbAssumption DEF TbNoJob, TbJobs, TbI
<1>3. tbJob' \in [TbProcs -> TbJobs]
  BY <1>1, <1>2 DEF TbTypeOK
<1>4. \A q \in TbProcs : ~TbIdle(q)' => tbCtl'[q] > 0
  BY <1>1 DEF TbIdle, TbTypeOK
<1>5. CASE TbRegistered(p)
  <2>1. /\ tbName' = tbName /\ tbDrv' = [tbDrv EXCEPT ![j.slot] = TRUE]
        /\ tbPids' \in {tbPids, [tbPids EXCEPT ![j.slot] = @ \cup {p}]}
    BY <1>5 DEF TbRegistered
  <2> HIDE DEF j
  <2>2. TbTypeOK'
    BY <1>1, <1>3, <2>1 DEF TbTypeOK, tbLink
  <2>3. TbNoGhosts'
    BY <1>1, <2>1 DEF TbNoGhosts, TbTypeOK
  <2>4. ASSUME ~tbMixed PROVE TbAlone'
    <3>1. tbName[j.slot] # TbNo
      BY <1>1, <2>4 DEF TbAlone, TbJobInv, j
    <3>2. TbJobInv'
      BY <1>1, <2>4 DEF TbAlone, TbJobInv, TbIdle, TbTypeOK
    <3>3. TbTableInv' /\ TbNamesUnique' /\ TbRemovesAll'
      BY <1>1, <2>1, <2>4, <3>1 DEF TbAlone, TbTableInv, TbNamesUnique, TbRemovesAll, TbTypeOK
    <3> QED
      BY <3>2, <3>3 DEF TbAlone
  <2> QED
    BY <1>1, <1>4, <2>2, <2>3, <2>4, TbLinkKept
<1>6. CASE TbRegisterFails(p)
  <2>1. /\ UNCHANGED <<tbDrv, tbPids>> /\ (j.api = "legacy" \/ ~tbDrv[j.slot])
        /\ tbName' = IF j.api = "legacy" THEN [tbName EXCEPT ![j.slot] = TbNo] ELSE tbName
    BY <1>6 DEF TbRegisterFails
  <2>2. TbTypeOK'
    BY <1>1, <1>3, <2>1 DEF TbTypeOK, tbLink
  <2>3. TbNoGhosts'
    BY <1>1, <2>1 DEF TbNoGhosts
  <2>4. ASSUME ~tbMixed PROVE TbAlone'
    <3>1. j.api = "legacy" => ~tbDrv[j.slot] /\ \A i \in TbI : i > j.slot => tbName[i] = TbNo
      BY <1>1, <2>4 DEF TbAlone, TbJobInv
    <3> HIDE DEF j
    <3>2. TbJobInv'
      BY <1>1, <2>4 DEF TbAlone, TbJobInv, TbIdle, TbTypeOK
    <3>3. CASE j.api = "legacy"
      <4>1. TbTableInv' /\ TbNamesUnique' /\ TbRemovesAll'
        BY <1>1, <2>1, <2>4, <3>1, <3>3, TbAssumption
           DEF TbAlone, TbTableInv, TbNamesUnique, TbRemovesAll, TbTypeOK, TbI
      <4> QED
        BY <3>2, <4>1 DEF TbAlone
    <3>4. CASE j.api # "legacy"
      BY <1>1, <2>1, <2>4, <3>2, <3>4 DEF TbAlone, TbTableInv, TbNamesUnique, TbRemovesAll
    <3> QED
      BY <3>3, <3>4
  <2> QED
    BY <1>1, <1>4, <2>2, <2>3, <2>4, TbLinkKept
<1> QED
  BY <1>5, <1>6

\* The SP boots or dies, a device is probed or removed, somebody polls.
LEMMA TbLinkNext ==
    ASSUME TbInv,
           \/ TbSpBoots \/ TbSpDies \/ TbPollSleep \/ TbPollWake
           \/ \E i \in TbI : TbProbe(i) \/ TbProbed(i) \/ TbRpdevRemove(i)
    PROVE  TbInv'
<1> USE DEF TbInv, TbAlways
<1>1. UNCHANGED tbRest
  BY DEF TbSpBoots, TbSpDies, TbPollSleep, TbPollWake, TbProbe, TbProbed, TbRpdevRemove
<1>2. /\ TbNoGhosts' /\ \A q \in TbProcs : ~TbIdle(q)' => tbCtl'[q] > 0
      /\ ~tbMixed' => TbAlone'
  BY <1>1 DEF TbAlone, TbJobInv, TbIdle, TbTableInv, TbRemovesAll, TbNamesUnique, TbNoGhosts,
     tbRest, tbTable, tbMade
<1>3. TbCounted \in SUBSET TbI
  BY DEF TbCounted
<1>4. ASSUME tbUp' \in BOOLEAN, tbDev' \in [TbI -> {"off", "counted", "on"}], tbCount' \in Nat,
             tbChange' \in BOOLEAN, tbPoll' \in {"idle", "up", "down"},
             tbCount' = Cardinality(TbCounted)', TbLinkDownSeen'
      PROVE  TbInv'
  <2>1. TbTypeOK'
    BY <1>1, <1>4 DEF TbTypeOK, tbRest, tbTable, tbMade
  <2> QED
    BY <1>2, <1>4, <2>1
<1>5. CASE TbSpBoots \/ TbSpDies
  BY <1>4, <1>5 DEF TbSpBoots, TbSpDies, TbTypeOK, TbLinkDownSeen, TbCounted
<1>6. CASE TbPollSleep
  <2>1. /\ tbChange' = FALSE /\ tbPoll' = (IF tbCount > 0 THEN "up" ELSE "down")
        /\ UNCHANGED <<tbDev, tbUp, tbCount>>
    BY <1>6 DEF TbPollSleep
  <2>2. tbPoll' \in {"idle", "up", "down"} /\ (tbPoll' = "up" => tbCount # 0)
    BY <2>1 DEF TbTypeOK
  <2> QED
    BY <1>4, <2>1, <2>2 DEF TbTypeOK, TbLinkDownSeen, TbCounted
<1>7. CASE TbPollWake
  BY <1>4, <1>7 DEF TbPollWake, TbTypeOK, TbLinkDownSeen, TbCounted
<1>8. ASSUME NEW i \in TbI, TbProbe(i) PROVE TbInv'
  <2>1. /\ tbDev[i] = "off" /\ tbDev' = [tbDev EXCEPT ![i] = "counted"] /\ tbCount' = tbCount + 1
        /\ UNCHANGED <<tbUp, tbChange, tbPoll>>
    BY <1>8 DEF TbProbe
  <2>2. TbCounted' = TbCounted \cup {i} /\ i \notin TbCounted
    BY <2>1 DEF TbCounted, TbTypeOK
  <2>3. Cardinality(TbCounted \cup {i}) = Cardinality(TbCounted) + 1
    BY <1>3, <2>2, TbCounting
  <2> QED
    BY <1>4, <2>1, <2>2, <2>3 DEF TbTypeOK, TbLinkDownSeen
<1>9. ASSUME NEW i \in TbI, TbProbed(i) PROVE TbInv'
  <2>1. /\ tbDev[i] = "counted" /\ tbDev' = [tbDev EXCEPT ![i] = "on"]
        /\ tbChange' = (tbChange \/ tbCount = 1) /\ UNCHANGED <<tbUp, tbCount, tbPoll>>
    BY <1>9 DEF TbProbed
  <2>2. tbChange' \in BOOLEAN /\ (tbChange => tbChange')
    BY <2>1 DEF TbTypeOK
  <2>3. TbCounted' = TbCounted
    BY <2>1 DEF TbCounted, TbTypeOK
  <2> QED
    BY <1>4, <2>1, <2>2, <2>3 DEF TbTypeOK, TbLinkDownSeen
<1>10. ASSUME NEW i \in TbI, TbRpdevRemove(i) PROVE TbInv'
  <2>1. /\ tbDev[i] = "on" /\ tbDev' = [tbDev EXCEPT ![i] = "off"] /\ tbCount' = tbCount - 1
        /\ tbChange' = (tbChange \/ tbCount' = 0) /\ UNCHANGED <<tbUp, tbPoll>>
    BY <1>10 DEF TbRpdevRemove
  <2>2. TbCounted' = TbCounted \ {i} /\ i \in TbCounted
    BY <2>1 DEF TbCounted, TbTypeOK
  <2>3. /\ Cardinality(TbCounted \ {i}) = Cardinality(TbCounted) - 1
        /\ Cardinality(TbCounted \ {i}) \in Nat
    BY <1>3, <2>2, TbCounting
  <2>4. tbChange' \in BOOLEAN /\ (tbCount' = 0 => tbChange')
    BY <2>1 DEF TbTypeOK
  <2> QED
    BY <1>4, <2>1, <2>2, <2>3, <2>4 DEF TbTypeOK, TbLinkDownSeen
<1> QED
  BY <1>5, <1>6, <1>7, <1>8, <1>9, <1>10

\* spcom_remove: while creations were alone the entries in use come first, so the loop
\* that stops at the first free one has unregistered every driver.
LEMMA TbRemoveInv ==
    ASSUME TbInv, TbRemove
    PROVE  TbInv'
<1> USE DEF TbInv, TbAlways
<1> DEFINE last == {i \in TbI : \A k \in 1..i : tbName[k] # TbNo}
<1>1. /\ \A p \in TbProcs : TbIdle(p)
      /\ tbPoll = "idle" /\ tbGone' = TRUE /\ tbUp' = FALSE
      /\ tbDrv' = [i \in TbI |-> tbDrv[i] /\ i \notin last]
      /\ tbDev' = [i \in TbI |-> "off"] /\ tbCount' = 0
      /\ UNCHANGED <<tbName, tbShar, tbPids, tbChange, tbPoll, tbCtl, tbMade>>
  BY DEF TbRemove
<1>2. ASSUME ~tbMixed, NEW i \in TbI, tbDrv[i] PROVE i \in last
  <2>1. tbName[i] # TbNo
    BY <1>2 DEF TbAlone, TbTableInv
  <2>2. ASSUME NEW k \in 1..i PROVE tbName[k] # TbNo
    BY <1>2, <2>1, TbAssumption DEF TbAlone, TbTableInv, TbI
  <2> QED
    BY <2>2
<1> HIDE DEF last
<1>3. ~tbMixed => \A i \in TbI : tbDrv'[i] = FALSE
  BY <1>1, <1>2, Zenon
<1>4. tbDrv' \in [TbI -> BOOLEAN]
  BY <1>1, Zenon
<1>5. TbTypeOK'
  BY <1>1, <1>4 DEF TbTypeOK, tbMade
<1>6. TbNoGhosts' /\ TbLinkDownSeen' /\ \A q \in TbProcs : ~TbIdle(q)' => tbCtl'[q] > 0
  BY <1>1 DEF TbNoGhosts, TbLinkDownSeen, TbIdle, tbMade
<1>7. TbCounted' = {}
  BY <1>1 DEF TbCounted
<1>8. tbCount' = Cardinality(TbCounted')
  BY <1>1, <1>7, FS_EmptySet
<1>9. ~tbMixed => TbAlone'
  BY <1>1, <1>3 DEF TbAlone, TbJobInv, TbIdle, TbTableInv, TbNamesUnique, TbRemovesAll, tbMade
<1> QED
  BY <1>1, <1>5, <1>6, <1>8, <1>9 DEF tbMade

\* Whatever processes create, join and leave, under whichever of the two locks, and
\* however devices come and go: no process outlives its control file in a pid[], and no
\* poller sleeps through the loss of the link.  Until creations under the two locks have
\* overlapped, names are unique and spcom_remove leaves no driver behind.
THEOREM TbSafety == TbSpec => []TbSafe
<1>1. TbInv /\ [TbNext]_tbVars => TbInv'
  <2> SUFFICES ASSUME TbInv, [TbNext]_tbVars PROVE TbInv'
    OBVIOUS
  <2>1. CASE TbNext
    BY <2>1, TbControlInv, TbScanInv, TbInitChannelInv, TbRegisterInv, TbLinkNext, TbRemoveInv
       DEF TbNext
  <2>2. CASE UNCHANGED tbVars
    <3>1. UNCHANGED <<tbTable, tbLink, tbCtl, tbMade, tbGone>>
      BY <2>2 DEF tbVars
    <3>2. TbTypeOK' /\ TbNoGhosts' /\ \A q \in TbProcs : ~TbIdle(q)' => tbCtl'[q] > 0
      BY <3>1 DEF TbInv, TbAlways, TbTypeOK, TbNoGhosts, TbIdle, tbTable, tbLink, tbMade
    <3>3. ~tbMixed => TbAlone'
      BY <3>1 DEF TbInv, TbAlone, TbJobInv, TbIdle, TbTableInv, TbNamesUnique, TbRemovesAll,
         tbTable, tbMade
    <3> QED
      BY <3>1, <3>2, <3>3, TbLinkKept DEF TbInv, TbAlways, tbMade
  <2> QED
    BY <2>1, <2>2
<1>2. TbInv => TbSafe
  BY DEF TbInv, TbAlways, TbAlone, TbSafe
<1> QED
  BY <1>1, <1>2, TbInitInv, PTL DEF TbSpec
=============================================================================
