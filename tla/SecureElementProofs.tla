------------------------ MODULE SecureElementProofs -------------------------
(***************************************************************************)
(* Proofs about the secure element's device node: what a session starts    *)
(* with, what a driver that is not there has left behind, and what read    *)
(* returns of a chain of commands; and about the T=1 protocol underneath:  *)
(* its types and retry limits, that it stays inside a command, and that    *)
(* the card runs a command at most once.                                   *)
(***************************************************************************)
EXTENDS SecStar, Iso7816T1, SequenceTheorems, TLAPS

(***************************************************************************)
(* A session.                                                              *)
(***************************************************************************)

SrInitSteps == {"driver", "changeset", "applied", "pdev", "client"}
SrAcquired == {"provider", "driver", "changeset", "applied", "pdev", "client"}

SrTypeOK ==
    /\ srMod \in {"out", "in"} \cup SrInitSteps
    /\ srHeld \subseteq SrAcquired \cup SrStar
    /\ srHost \in {0, 1} /\ srCard \in {0, 1}
    /\ srFlag \in BOOLEAN /\ srRail \in BOOLEAN

\* The flag of k250a_rpmh_power is what an open trusts: a device in use has it set,
\* and it is not set without the rail.
SrTrusted == srAccess => srFlag
SrFlagRight == srFlag => srRail

SrInv == SrTypeOK /\ SrTrusted /\ SrLeavesNothing /\ SrInStep

\* The steps of k250a_init, spelled out.
LEMMA SrStepNames ==
  /\ Range(SrSteps) = SrAcquired \cup {"in"}
  /\ {SrSteps[i] : i \in 2..6} = SrInitSteps
  /\ \A s \in SrAcquired : SrAfter(s) \in SrInitSteps \cup {"in"}
<1>1. Len(SrSteps) = 7 /\ DOMAIN SrSteps = 1 .. 7
  BY DEF SrSteps
<1>2. /\ SrSteps[1] = "provider" /\ SrSteps[2] = "driver" /\ SrSteps[3] = "changeset"
      /\ SrSteps[4] = "applied" /\ SrSteps[5] = "pdev" /\ SrSteps[6] = "client" /\ SrSteps[7] = "in"
  BY DEF SrSteps
<1>3. \A i \in 1 .. 7 : i = 1 \/ i = 2 \/ i = 3 \/ i = 4 \/ i = 5 \/ i = 6 \/ i = 7
  OBVIOUS
<1>4. Range(SrSteps) = SrAcquired \cup {"in"}
  BY <1>1, <1>2, <1>3 DEF Range, SrAcquired
<1>5. {SrSteps[i] : i \in 2..6} = SrInitSteps
  BY <1>2, <1>3 DEF SrInitSteps
<1>6. ASSUME NEW s \in SrAcquired PROVE SrAfter(s) \in SrInitSteps \cup {"in"}
  <2> DEFINE i == CHOOSE j \in 1..Len(SrSteps) : SrSteps[j] = s
  <2>1. \E j \in 1 .. 7 : SrSteps[j] = s
    BY <1>2 DEF SrAcquired
  <2>2. i \in 1 .. 7 /\ SrSteps[i] = s
    BY <1>1, <2>1
  <2>3. i # 7
    BY <1>2, <2>2 DEF SrAcquired
  <2>4. SrAfter(s) = SrSteps[1 + i]
    BY DEF SrAfter
  <2> HIDE DEF i
  <2>5. 1 + i \in 2 .. 7
    BY <2>2, <2>3
  <2> QED
    BY <1>2, <1>3, <2>4, <2>5 DEF SrInitSteps
<1> QED
  BY <1>4, <1>5, <1>6

\* k250a_rpmh_power: the flag follows an accepted write and no other.
LEMMA SrPowerFlag ==
  ASSUME SrTypeOK, NEW on \in BOOLEAN, NEW ok \in BOOLEAN, SrPower(on, ok)
  PROVE  /\ srFlag' \in BOOLEAN /\ srRail' \in BOOLEAN /\ (ok => srFlag' = on)
         /\ SrLateWrite = FALSE /\ SrFlagRight => SrFlagRight'
<1>1. CASE srFlag = on
  BY <1>1 DEF SrPower, srPower, SrTypeOK, SrFlagRight
<1>2. CASE srFlag # on
  BY <1>2 DEF SrPower, SrTypeOK, SrFlagRight
<1> QED
  BY <1>1, <1>2

\* Before the module is loaded.
LEMMA SrInvInit == SrInit => SrInv /\ SrFlagRight
BY DEF SrInit, SrInv, SrTypeOK, SrTrusted, SrFlagRight, SrLeavesNothing, SrInStep

\* k250a_init, its failures, and k250a_exit.
LEMMA SrModuleSteps ==
  ASSUME SrInv, SrInitStep \/ SrInitFails \/ SrExit
  PROVE  SrInv' /\ (SrFlagRight => SrFlagRight')
<1> USE DEF SrInv
<1>1. CASE SrInitStep
  <2> DEFINE s == IF srMod = "out" THEN "provider" ELSE srMod
  <2>1. s \in SrAcquired
    BY <1>1, SrStepNames DEF SrInitStep, SrInitSteps, SrAcquired
  <2>2. srMod' = SrAfter(s)
    BY <1>1 DEF SrInitStep
  <2>3. srMod' \in SrInitSteps \cup {"in"}
    BY <2>1, <2>2, SrStepNames
  <2>4. srHeld' \subseteq SrAcquired \cup SrStar
    BY <1>1 DEF SrInitStep, SrTypeOK, SrAcquired
  <2>5. srMod' # "out"
    BY <2>3 DEF SrInitSteps
  <2> HIDE DEF s
  <2> QED
    BY <1>1, <2>3, <2>4, <2>5
       DEF SrInitStep, SrTypeOK, SrTrusted, SrFlagRight, SrLeavesNothing, SrInStep, srPower, srLink
<1>2. CASE SrInitFails
  <2>1. PICK left \in {{}, {"hal"}, {"hal", "protocol"}} :
          srHeld' = SrRemoveCompatBus(srHeld \cup left) \ {"driver", "provider"}
    BY <1>2 DEF SrInitFails
  <2>2. srHeld' \subseteq SrStar
    BY <2>1 DEF SrRemoveCompatBus, SrTypeOK, SrAcquired, SrStar
  <2>3. srHeld' \cap Range(SrSteps) = {}
    BY <2>2, SrStepNames DEF SrAcquired, SrStar
  <2> QED
    BY <1>2, <2>2, <2>3
       DEF SrInitFails, SrTypeOK, SrTrusted, SrFlagRight, SrLeavesNothing, SrInStep, srPower, srLink
<1>3. CASE SrExit
  <2>1. srHeld' \subseteq SrStar
    BY <1>3 DEF SrExit, SrRemoveCompatBus, SrTypeOK, SrAcquired, SrStar
  <2>2. srHeld' \cap Range(SrSteps) = {}
    BY <2>1, SrStepNames DEF SrAcquired, SrStar
  <2> QED
    BY <1>3, <2>1, <2>2
       DEF SrExit, SrTypeOK, SrTrusted, SrFlagRight, SrLeavesNothing, SrInStep, srLink
<1> QED
  BY <1>1, <1>2, <1>3

\* Opening, closing, the ioctls, and the exchanges of a chain.
LEMMA SrInvStep ==
  ASSUME SrInv, [SrNext]_srVars
  PROVE  SrInv' /\ (SrLateWrite = FALSE /\ SrFlagRight => SrFlagRight')
<1> USE DEF SrInv
<1>1. CASE SrInitStep \/ SrInitFails \/ SrExit
  BY <1>1, SrModuleSteps
<1>2. ASSUME NEW ok \in BOOLEAN, SrOpen(ok)
      PROVE  SrInv' /\ (SrLateWrite = FALSE /\ SrFlagRight => SrFlagRight')
  <2>1. /\ srFlag' \in BOOLEAN /\ srRail' \in BOOLEAN /\ (ok => srFlag' = TRUE)
        /\ SrLateWrite = FALSE /\ SrFlagRight => SrFlagRight'
    BY <1>2, SrPowerFlag DEF SrOpen
  <2>2. srTrue' => ~srRail
    BY <1>2, Zenon DEF SrOpen
  <2>3. srHost' = 0 /\ srAccess' = ok /\ srCard' = IF srRail THEN srCard ELSE 0
    BY <1>2 DEF SrOpen
  <2>4. srMod' = srMod /\ srHeld' = srHeld
    BY <1>2 DEF SrOpen, srBus
  <2> QED
    BY <2>1, <2>2, <2>3, <2>4 DEF SrTypeOK, SrTrusted, SrLeavesNothing, SrInStep
<1>3. ASSUME NEW ok \in BOOLEAN, SrClose(ok)
      PROVE  SrInv' /\ (SrLateWrite = FALSE /\ SrFlagRight => SrFlagRight')
  <2>1. /\ srFlag' \in BOOLEAN /\ srRail' \in BOOLEAN
        /\ SrLateWrite = FALSE /\ SrFlagRight => SrFlagRight'
    BY <1>3, SrPowerFlag DEF SrClose
  <2> QED
    BY <1>3, <2>1 DEF SrClose, srBus, srLink, SrTypeOK, SrTrusted, SrLeavesNothing, SrInStep
<1>4. CASE SrSetDirect \/ SrResetIoctl \/ SrRead
  BY <1>4 DEF SrSetDirect, SrResetIoctl, SrRead, srBus, srPower, srLink, SrTypeOK, SrTrusted,
     SrFlagRight, SrLeavesNothing, SrInStep
<1>5. CASE SrChainFails
  BY <1>5 DEF SrChainFails, srBus, srPower, SrTypeOK, SrTrusted, SrFlagRight, SrLeavesNothing, SrInStep
<1>6. ASSUME NEW c \in SrCmds, SrWrite(c)
      PROVE  SrInv' /\ (SrLateWrite = FALSE /\ SrFlagRight => SrFlagRight')
  BY <1>6 DEF SrWrite, srBus, srPower, srLink, SrTypeOK, SrTrusted, SrFlagRight, SrLeavesNothing, SrInStep
<1>7. ASSUME NEW e \in BOOLEAN, SrExchange(e)
      PROVE  SrInv' /\ (SrLateWrite = FALSE /\ SrFlagRight => SrFlagRight')
  <2>1. PICK d \in {0, 1} : srHost' = (srHost + d) % 2 /\ srCard' = (srCard + d) % 2
    BY <1>7 DEF SrExchange
  <2>2. srHost' \in {0, 1} /\ srCard' \in {0, 1} /\ (srHost = srCard => srHost' = srCard')
    BY <2>1 DEF SrTypeOK
  <2> QED
    BY <1>7, <2>2 DEF SrExchange, srBus, srPower, SrTypeOK, SrTrusted, SrFlagRight, SrLeavesNothing, SrInStep
<1>8. CASE UNCHANGED srVars
  BY <1>8 DEF srVars, srBus, srPower, srLink, SrTypeOK, SrTrusted, SrFlagRight, SrLeavesNothing, SrInStep
<1> QED
  BY <1>1, <1>2, <1>3, <1>4, <1>5, <1>6, <1>7, <1>8 DEF SrNext

\* The session with the card, for any set of command chains: whoever has the device
\* open has a powered card in step with the host, as long as an RPMh write that reports
\* a failure has had no effect; a module that is not there holds nothing.
THEOREM SrSessionSafety == SrLateWrite = FALSE => (SrSpec => []SrSession)
<1> SUFFICES ASSUME SrLateWrite = FALSE PROVE SrSpec => []SrSession
  OBVIOUS
<1>1. SrInv /\ SrFlagRight => SrSession
  BY DEF SrInv, SrTypeOK, SrTrusted, SrFlagRight, SrSession, SrOpenHasPower
<1>2. SrInv /\ SrFlagRight /\ [SrNext]_srVars => SrInv' /\ SrFlagRight'
  BY SrInvStep
<1> QED
  BY <1>1, <1>2, SrInvInit, PTL DEF SrSpec

-----------------------------------------------------------------------------
(***************************************************************************)
(* A chain of commands.  The invariant follows total_rsp while the chain   *)
(* runs: bodies only, from the first step on, none left out, up to the     *)
(* step before the current one, or the current one when it is repeated.    *)
(***************************************************************************)

SrParts == Nat \X {"body", "whole"}

SrInOrder(p) == \A i \in 1 .. Len(p) - 1 : p[i][2] = "body" /\ p[i + 1][1] - p[i][1] \in {0, 1}

SrRunning ==
    /\ srAt \in Nat /\ srParts \in Seq(SrParts)
    /\ srAt > 0 =>
         /\ srCmd \in SrCmds /\ srAt <= Len(srCmd) /\ srRsp = SrNoRsp
         /\ SrInOrder(srParts)
         /\ srParts = <<>> => srAt = 1
         /\ srParts # <<>> =>
              /\ srParts[1][1] = 1 /\ srParts[Len(srParts)][2] = "body"
              /\ srAt - srParts[Len(srParts)][1] \in {0, 1}

SrChainInv == SrRunning /\ SrResponse

\* One more answer keeps the parts in order and ends with the current step.
LEMMA SrKeptInOrder ==
  ASSUME SrRunning, srAt > 0, NEW last \in BOOLEAN
  PROVE  /\ SrKept(last) \in Seq(SrParts) /\ SrKept(last) # <<>> /\ SrInOrder(SrKept(last))
         /\ SrKept(last)[1][1] = 1
         /\ SrKept(last)[Len(SrKept(last))] = <<srAt, IF last THEN "whole" ELSE "body">>
<1> DEFINE e == <<srAt, IF last THEN "whole" ELSE "body">>
           q == SrKept(last)
           n == Len(srParts)
<1>1. e \in SrParts /\ e[1] = srAt
  BY DEF SrRunning, SrParts
<1>2. q = Append(srParts, e) /\ n \in Nat /\ srParts \in Seq(SrParts)
  BY DEF SrKept, SrRunning
<1> HIDE DEF e, q
<1>3. /\ q \in Seq(SrParts) /\ q # <<>> /\ Len(q) = n + 1 /\ q[n + 1] = e
      /\ \A i \in 1 .. n : q[i] = srParts[i]
  BY <1>1, <1>2
<1>4. CASE n = 0
  <2>1. srParts = <<>>
    BY <1>2, <1>4
  <2>2. srAt = 1
    BY <2>1 DEF SrRunning
  <2> QED
    BY <1>1, <1>3, <1>4, <2>2 DEF SrInOrder, e, q
<1>5. CASE n > 0
  <2>1. srParts # <<>>
    BY <1>2, <1>5
  <2>2. /\ srParts[1][1] = 1 /\ srParts[n][2] = "body" /\ srAt - srParts[n][1] \in {0, 1}
        /\ SrInOrder(srParts)
    BY <2>1 DEF SrRunning
  <2>3. q[1][1] = 1
    BY <1>2, <1>3, <1>5, <2>2
  <2>4. ASSUME NEW i \in 1 .. n PROVE q[i][2] = "body" /\ q[i + 1][1] - q[i][1] \in {0, 1}
    <3>1. CASE i = n
      BY <1>1, <1>3, <2>2, <3>1
    <3>2. CASE i < n
      <4>1. i \in 1 .. n - 1 /\ i + 1 \in 1 .. n
        BY <1>2, <3>2
      <4> QED
        BY <1>3, <2>2, <4>1 DEF SrInOrder
    <3> QED
      BY <1>2, <3>1, <3>2
  <2>5. SrInOrder(q)
    BY <1>2, <1>3, <2>4 DEF SrInOrder
  <2> QED
    BY <1>3, <2>3, <2>5 DEF e, q
<1> QED
  BY <1>2, <1>4, <1>5

\* A finished answer is stored whole; an answer that is not the last only adds to it.
LEMMA SrExchangeKeeps ==
  ASSUME SrChainInv, NEW expected \in BOOLEAN, SrExchange(expected)
  PROVE  SrChainInv'
<1> USE DEF SrChainInv
<1>1. srAt > 0 /\ srCmd' = srCmd /\ srCmd \in SrCmds /\ srAt \in Nat /\ srAt <= Len(srCmd) /\ Len(srCmd) \in Nat
  BY SrAssumption DEF SrExchange, SrRunning
<1>2. ASSUME NEW last \in BOOLEAN
      PROVE  /\ SrKept(last) \in Seq(SrParts) /\ SrKept(last) # <<>> /\ SrInOrder(SrKept(last))
             /\ SrKept(last)[1][1] = 1
             /\ SrKept(last)[Len(SrKept(last))] = <<srAt, IF last THEN "whole" ELSE "body">>
  BY <1>1, SrKeptInOrder
<1> DEFINE repeats == srCmd[srAt] = "again" /\ expected
           ends == ~repeats /\ (srAt = Len(srCmd) \/ ~expected)
<1>3. CASE ends
  <2>1. /\ srRsp' = [of |-> srCmd, parts |-> SrKept(TRUE), early |-> ~expected]
        /\ srAt' = 0 /\ srParts' = <<>>
    BY <1>3 DEF SrExchange, SrNextStep
  <2>2. srRsp'.of = srCmd /\ srRsp'.parts = SrKept(TRUE) /\ (srAt = Len(srCmd) \/ srRsp'.early)
    BY <1>3, <2>1
  <2>3. SrRunning'
    BY <2>1 DEF SrRunning
  <2>4. SrRspIsLast'
    BY <1>1, <2>2 DEF SrRspIsLast
  <2> DEFINE q == SrKept(TRUE)
  <2>5. q[1][1] = 1 /\ SrInOrder(q) /\ q[Len(q)][1] = srAt /\ q[Len(q)][2] = "whole"
    <3>1. q[Len(q)] = <<srAt, "whole">>
      BY <1>2
    <3>2. q[1][1] = 1 /\ SrInOrder(q)
      BY <1>2
    <3> HIDE DEF q
    <3> QED
      BY <3>1, <3>2
  <2> HIDE DEF q
  <2>6. srRsp'.parts = q
    BY <2>2 DEF q
  <2>7. SrChainWhole'
    BY <2>2, <2>5, <2>6 DEF SrChainWhole, SrInOrder
  <2> QED
    BY <2>3, <2>4, <2>7 DEF SrResponse
<1>4. CASE ~ends
  <2>1. /\ srParts' = SrKept(FALSE) /\ srRsp' = srRsp
        /\ srAt' = srAt \/ (srAt' = srAt + 1 /\ srAt # Len(srCmd))
    BY <1>4 DEF SrExchange, SrNextStep
  <2>2. SrRunning'
    <3>1. /\ srParts' \in Seq(SrParts) /\ srParts' # <<>> /\ SrInOrder(srParts')
          /\ srParts'[1][1] = 1 /\ srParts'[Len(srParts')] = <<srAt, "body">>
      BY <1>2, <2>1
    <3>2. srParts'[Len(srParts')][1] = srAt /\ srParts'[Len(srParts')][2] = "body"
      BY <3>1
    <3>3. srAt' \in Nat /\ srAt' <= Len(srCmd) /\ srAt' - srAt \in {0, 1}
      BY <1>1, <2>1
    <3>4. srRsp' = SrNoRsp
      BY <1>1, <2>1 DEF SrRunning
    <3> QED
      BY <1>1, <3>1, <3>2, <3>3, <3>4 DEF SrRunning
  <2> QED
    BY <1>1, <2>1, <2>2 DEF SrResponse, SrRspIsLast, SrChainWhole
<1> QED
  BY <1>3, <1>4

\* Every step keeps the chain and the stored response.
LEMMA SrChainStep == SrChainInv /\ [SrNext]_srVars => SrChainInv'
<1> SUFFICES ASSUME SrChainInv, [SrNext]_srVars PROVE SrChainInv'
  OBVIOUS
<1> USE DEF SrChainInv
<1>1. CASE UNCHANGED srChain
  BY <1>1 DEF srChain, SrRunning, SrResponse, SrRspIsLast, SrChainWhole
<1>2. CASE SrExit \/ SrRead
  <2>1. UNCHANGED <<srCmd, srAt, srParts>> /\ srRsp' = SrNoRsp
    BY <1>2 DEF SrExit, SrRead
  <2> QED
    BY <2>1 DEF SrRunning, SrResponse, SrRspIsLast, SrChainWhole
<1>3. CASE SrChainFails
  <2>1. srAt' = 0 /\ srParts' = <<>> /\ srCmd' = srCmd /\ srRsp' = srRsp
    BY <1>3 DEF SrChainFails
  <2> QED
    BY <2>1 DEF SrRunning, SrResponse, SrRspIsLast, SrChainWhole
<1>4. ASSUME NEW c \in SrCmds, SrWrite(c) PROVE SrChainInv'
  <2>1. srCmd' = c /\ srRsp' = SrNoRsp
    BY <1>4 DEF SrWrite
  <2>2. SrResponse'
    BY <2>1 DEF SrResponse, SrRspIsLast, SrChainWhole
  <2>3. Len(c) \in Nat /\ Len(c) >= 1
    BY SrAssumption
  <2>4. CASE srAt' = 1 /\ srParts' = <<>>
    BY <2>1, <2>2, <2>3, <2>4 DEF SrRunning, SrInOrder
  <2>5. CASE UNCHANGED <<srAt, srParts>>
    <3>1. srAt = 0
      BY <1>4 DEF SrWrite, SrFree
    <3> QED
      BY <2>2, <2>5, <3>1 DEF SrRunning
  <2> QED
    BY <1>4, <2>4, <2>5 DEF SrWrite
<1>5. ASSUME NEW e \in BOOLEAN, SrExchange(e) PROVE SrChainInv'
  BY <1>5, SrExchangeKeeps
<1>6. CASE SrInitStep \/ SrInitFails \/ SrSetDirect \/ SrResetIoctl
  BY <1>1, <1>6 DEF SrInitStep, SrInitFails, SrSetDirect, SrResetIoctl
<1>7. ASSUME NEW ok \in BOOLEAN, SrOpen(ok) \/ SrClose(ok) PROVE SrChainInv'
  BY <1>1, <1>7 DEF SrOpen, SrClose
<1>8. CASE UNCHANGED srVars
  BY <1>1, <1>8 DEF srVars
<1> QED
  BY <1>2, <1>3, <1>4, <1>5, <1>6, <1>7, <1>8 DEF SrNext

\* What read returns, for any set of chains, of any length, with any number of
\* repetitions: the answer to the last command written and to no other, its steps in
\* order, none left out, the card's status only at the end.
THEOREM SrResponseSafety == SrSpec => []SrResponse
<1>1. SrInit => SrChainInv
  <2> SUFFICES ASSUME SrInit PROVE SrChainInv
    OBVIOUS
  <2>1. <<>> \in Seq(SrParts)
    OBVIOUS
  <2> QED
    BY <2>1 DEF SrInit, SrChainInv, SrRunning, SrResponse, SrRspIsLast, SrChainWhole
<1>2. SrChainInv => SrResponse
  BY DEF SrChainInv
<1> QED
  BY <1>1, <1>2, SrChainStep, PTL DEF SrSpec

(***************************************************************************)
(* The T=1 protocol.                                                       *)
(*                                                                         *)
(* T1Kept are the types; T1Aligned is what host and card know of each      *)
(* other when they take turns.  An acknowledgement makes the host advance  *)
(* through the command's buffer, so each that may still arrive must be for *)
(* a block that announced a further one.                                   *)
(***************************************************************************)

\* The card says nothing, or an I-, R- or S-frame.
T1Says(f) == f = NoFrame \/ f.type \in {"I", "R", "S"}
\* A call in progress has something to send or to wait for, and the card's answer is
\* the frame it sent last.
T1Frames ==
    /\ pc # "ready" => h.state # "IDLE"
    /\ T1Says(card.last) /\ T1Says(card.due)
    /\ toHost \in {NoFrame, card.last}
    /\ \A i \in 1..Len(toCard) : toCard[i].type # "none"

\* User space resets the interface after an error, the card answers within the polling
\* limit of the host, and it neither resynchronises nor aborts of its own accord.  The line
\* may spoil any number of frames and the bus fail any number of transfers; there is
\* memory for what is received.
T1Orderly ==
    /\ MustReset /\ ~SlowCard /\ ~NoMemory
    /\ CardS \cap {"RESYNCH_REQ", "RESYNCH_RSP", "ABORT_RES"} = {}

\* The R-frames that let iso7816_t1_process go on to the next block, and the card that is
\* about to send one, now or after the answer to its own request.
IsAck(f) == f.type = "R" /\ f.err = "no"
Acks(k) == IsAck(k.last) \/ (k.last.type = "S" /\ IsAck(k.due))

\* The only S-frame the host sends is the grant of more time.
T1Reply(x) == x.type = "S" => x.sub = "WTX_RSP"

\* Host and card take turns: a frame is under way only while the host reads, and it is
\* the one of next_tx.
T1Turns ==
    /\ pc # "read" => toCard = <<>>
    /\ pc = "read" => h.last = h.next
    /\ toCard # <<>> /\ Head(toCard).type = "I" =>
         Head(toCard).seq = h.next.seq /\ Head(toCard).more = h.next.more
    /\ T1Reply(h.next)

\* A card's R-frame carries the number it expects, and its S-frames are those it may send.
T1Numbers(k) ==
    /\ k.last.type = "R" => k.last.seq = k.exp
    /\ k.last.type = "S" /\ k.due.type = "R" => k.due.seq = k.exp
    /\ k.last.type = "S" => k.last.sub \in CardS
    /\ k.last.type = "S" /\ k.due.type = "S" => k.due.sub \in CardS

\* What makes an acknowledgement safe to act on: if it is for the block last sent, that
\* block announced another one.
T1AckMeans(k) == Acks(k) /\ k.exp # h.next.seq => h.next.more
\* No acknowledgement is left over when a command begins.
T1Fresh == pc = "ready" /\ result.status # "error" => ~Acks(card)

\* next_tx describes a block of its command: what is left after it is what is announced.
T1Within(x) ==
    x.data # 0 =>
        IF x.more THEN x.off + x.left + 1 = CmdLen[x.data] /\ x.left > 0 /\ x.size = 1
        ELSE x.off + x.size <= CmdLen[x.data]

T1Aligned == T1Turns /\ T1Numbers(card) /\ T1AckMeans(card) /\ T1Fresh /\ T1Within(h.next)

\* The constants of the driver lie in the ranges of the fields they are assigned to.
LEMMA T1Ranges ==
  /\ \A s \in {"IDLE", "IFRAME", "RFRAME", "SFRAME"} : s \in States
  /\ 0 \in Bits /\ 1 \in Bits /\ \A q \in Bits : Flip(q) \in Bits /\ Flip(q) # q
  /\ 0 \in 0..FRAME_RETRY_COUNT /\ 0 \in 0..TIMEOUT_RETRY_COUNT
  /\ 0 \in 0..MAX_RNACK_RETRY_LIMIT
  /\ "no" \in Errs /\ "parity" \in Errs /\ "other" \in Errs
  /\ "none" \in Subs /\ "WTX_RSP" \in Subs /\ "RESYNCH_RSP" \in Subs
  /\ \A s \in CardS : s \in Subs
  /\ NoBody \in Body
BY DEF States, Bits, Flip, FRAME_RETRY_COUNT, TIMEOUT_RETRY_COUNT, MAX_RNACK_RETRY_LIMIT,
       Errs, Subs, NoBody, Body

\* A frame put together of fields is a frame.
LEMMA T1FrameType ==
  ASSUME NEW t \in {"none", "garbled", "I", "R", "S"}, NEW q \in Bits, NEW m \in BOOLEAN,
         NEW e \in Errs, NEW s \in Subs, NEW b \in Body
  PROVE  Frame(t, q, m, e, s, b) \in Frames
BY DEF Frame, Frames

\* The kinds of frame, with their fields.
LEMMA T1FrameKinds ==
  /\ NoFrame \in Frames /\ Garbled \in Frames
  /\ NoFrame.type = "none" /\ Garbled.type = "garbled"
  /\ \A q \in Bits, m \in BOOLEAN, b \in Body :
       /\ IFrame(q, m, b) \in Frames /\ IFrame(q, m, b).type = "I"
       /\ IFrame(q, m, b).seq = q /\ IFrame(q, m, b).more = m
  /\ \A q \in Bits, e \in Errs :
       /\ RFrame(q, e) \in Frames /\ RFrame(q, e).type = "R"
       /\ RFrame(q, e).seq = q /\ RFrame(q, e).err = e
  /\ \A s \in Subs : SFrame(s) \in Frames /\ SFrame(s).type = "S" /\ SFrame(s).sub = s
<1>1. FALSE \in BOOLEAN
  OBVIOUS
<1>2. NoFrame \in Frames /\ Garbled \in Frames
  BY T1FrameType, T1Ranges, <1>1, Zenon DEF NoFrame, Garbled
<1>3. /\ \A q \in Bits, m \in BOOLEAN, b \in Body : IFrame(q, m, b) \in Frames
      /\ \A q \in Bits, e \in Errs : RFrame(q, e) \in Frames
      /\ \A s \in Subs : SFrame(s) \in Frames
  BY T1FrameType, T1Ranges, <1>1, Zenon DEF IFrame, RFrame, SFrame
<1>4. NoFrame.type = "none" /\ Garbled.type = "garbled"
  BY DEF NoFrame, Garbled, Frame
<1>5. \A q, m, b : /\ IFrame(q, m, b).type = "I"
                   /\ IFrame(q, m, b).seq = q /\ IFrame(q, m, b).more = m
  BY Zenon DEF IFrame, Frame
<1>6. \A q, e : RFrame(q, e).type = "R" /\ RFrame(q, e).seq = q /\ RFrame(q, e).err = e
  BY Zenon DEF RFrame, Frame
<1>7. \A s : SFrame(s).type = "S" /\ SFrame(s).sub = s
  BY Zenon DEF SFrame, Frame
<1> QED
  BY <1>2, <1>3, <1>4, <1>5, <1>6, <1>7

\* The assignments to next_tx and last_tx keep their type.
LEMMA T1TxType ==
  ASSUME NEW x \in Tx
  PROVE  /\ \A t \in {"none", "I", "R", "S"} : [x EXCEPT !.type = t] \in Tx
         /\ \A e \in Errs : [x EXCEPT !.type = "R", !.err = e] \in Tx
         /\ \A s \in Subs : [x EXCEPT !.type = "S", !.sub = s] \in Tx
         /\ [x EXCEPT !.type = "none", !.data = 0, !.seq = 1] \in Tx
BY T1Ranges DEF Tx

\* So do the operations that prepare a frame or end a call.
LEMMA T1SendType ==
  ASSUME NEW g \in HostRecords
  PROVE  /\ \A e \in Errs : SendR(g, e) \in HostRecords
         /\ \A s \in Subs : SendS(g, s) \in HostRecords
         /\ Resend(g) \in HostRecords
         /\ ResetParams(g) \in HostRecords
         /\ FinishRecovery(g) \in HostRecords
         /\ Collected(g) \in HostRecords
<1>1. g.next \in Tx /\ g.last \in Tx
  BY DEF HostRecords
<1>2. ASSUME NEW e \in Errs PROVE SendR(g, e) \in HostRecords
  BY <1>1, T1TxType, T1Ranges DEF SendR, HostRecords
<1>3. ASSUME NEW s \in Subs PROVE SendS(g, s) \in HostRecords
  BY <1>1, T1TxType, T1Ranges DEF SendS, HostRecords
<1>4. Resend(g) \in HostRecords
  BY <1>1 DEF Resend, HostRecords
<1>5. ResetParams(g) \in HostRecords
  <2> DEFINE n == [g.next EXCEPT !.type = "none", !.data = 0, !.seq = 1]
             l == [g.last EXCEPT !.type = "none", !.data = 0, !.seq = 1]
             r == [g EXCEPT !.state = "IDLE", !.rx = 1, !.recovery = 0, !.timeout = 0,
                            !.rnack = 0, !.lastFrame = "none", !.next = n, !.last = l]
  <2>1. n \in Tx /\ l \in Tx
    BY <1>1, T1TxType
  <2>2. ResetParams(g) = r
    BY DEF ResetParams
  <2> HIDE DEF n, l
  <2>3. r \in HostRecords
    BY <2>1, T1Ranges DEF HostRecords
  <2> QED
    BY <2>2, <2>3
<1>6. FinishRecovery(g) \in HostRecords
  BY T1Ranges DEF FinishRecovery, HostRecords
<1>7. Collected(g) \in HostRecords
  <2>1. <<>> \in Seq(Body)
    OBVIOUS
  <2> QED
    BY <2>1 DEF Collected, HostRecords
<1> QED
  BY <1>2, <1>3, <1>4, <1>5, <1>6, <1>7

\* The recovery counter of decode_frame stays within FRAME_RETRY_COUNT.
LEMMA T1RetryType ==
  ASSUME NEW g \in HostRecords, NEW a \in HostRecords
  PROVE  Retry(g, a) \in HostRecords
<1>1. CASE g.recovery < FRAME_RETRY_COUNT
  <2>1. g.recovery + 1 \in 0..FRAME_RETRY_COUNT
    BY <1>1 DEF HostRecords, FRAME_RETRY_COUNT
  <2> QED
    BY <1>1, <2>1 DEF Retry, HostRecords
<1>2. CASE ~(g.recovery < FRAME_RETRY_COUNT)
  BY <1>2, T1SendType DEF Retry
<1> QED
  BY <1>1, <1>2

\* All fields of an I-frame to be sent.
LEMMA T1IframeType ==
  ASSUME NEW x \in Tx, NEW d \in Cmds \cup {0}, NEW o \in Nat, NEW q \in Bits,
         NEW m \in BOOLEAN, NEW l \in Nat, NEW z \in Bits
  PROVE  [x EXCEPT !.type = "I", !.data = d, !.off = o, !.seq = q, !.more = m, !.left = l,
                   !.size = z] \in Tx
BY DEF Tx

\* The next I-frame of a chain.
LEMMA T1NextType ==
  ASSUME NEW g \in HostRecords
  PROVE  NextIframe(g) \in HostRecords
<1> DEFINE x == g.last
           y == g.next
           d == x.data
           o == x.off + 1
           q == Flip(x.seq)
           m == x.left > 1
           l == IF x.left > 1 THEN x.left - 1 ELSE y.left
           z == IF x.left > 1 THEN 1 ELSE x.left
           n == [y EXCEPT !.type = "I", !.data = d, !.off = o, !.seq = q,
                          !.more = m, !.left = l, !.size = z]
<1>1. y \in Tx /\ x \in Tx
  BY DEF HostRecords
<1>2. NextIframe(g) = [g EXCEPT !.state = "IFRAME", !.next = n]
  BY DEF NextIframe
<1>3. /\ d \in Cmds \cup {0} /\ o \in Nat /\ q \in Bits /\ l \in Nat /\ z \in Bits
  BY <1>1, T1Ranges DEF Tx, Bits
<1>4. m \in BOOLEAN
  BY <1>1 DEF Tx
<1> HIDE DEF x, y, d, o, q, m, l, z
<1>5. n \in Tx
  BY <1>1, <1>3, <1>4, T1IframeType, Zenon
<1> HIDE DEF n
<1> QED
  BY <1>2, <1>5, T1Ranges DEF HostRecords

\* decode_frame keeps the structure's type, whatever the frame.
LEMMA T1DecodeType ==
  ASSUME NEW g \in HostRecords, NEW f \in Frames, f.type \in {"I", "R", "S"}
  PROVE  Decode(g, f) \in HostRecords
<1>1. [g EXCEPT !.recovery = 0] \in HostRecords
  BY T1Ranges DEF HostRecords
<1>2. ASSUME f.type = "I" PROVE DecodeI(g, f) \in HostRecords
  <2>1. f.body \in Body /\ f.seq \in Bits
    BY DEF Frames
  <2>2. Append(g.recv, f.body) \in Seq(Body)
    BY <2>1 DEF HostRecords
  <2>3. Store(g, f) \in HostRecords
    BY <2>1, <2>2, T1Ranges DEF Store, HostRecords
  <2>4. [Store(g, f) EXCEPT !.state = "IDLE"] \in HostRecords
    BY <2>3, T1Ranges DEF HostRecords
  <2> QED
    BY <2>3, <2>4, T1SendType, T1RetryType, T1Ranges DEF DecodeI
<1>3. DecodeAck(g, f) \in HostRecords
  BY <1>1, T1NextType DEF DecodeAck
<1>4. DecodeNack(g, f) \in HostRecords
  <2>1. [Resend(g) EXCEPT !.state = "IFRAME"] \in HostRecords
    BY T1SendType, T1Ranges DEF HostRecords
  <2>2. [Resend(g) EXCEPT !.state = "IFRAME", !.next.type = "I"] \in HostRecords
    <3>1. Resend(g).next \in Tx /\ Resend(g) \in HostRecords
      BY T1SendType DEF HostRecords
    <3>2. [Resend(g).next EXCEPT !.type = "I"] \in Tx
      BY <3>1, T1TxType
    <3> QED
      BY <3>1, <3>2, T1Ranges DEF HostRecords
  <2>3. /\ SendR(g, "no") \in HostRecords /\ SendR(g, "other") \in HostRecords
        /\ Resend(g) \in HostRecords
    BY T1SendType, T1Ranges
  <2> QED
    BY <2>1, <2>2, <2>3, T1RetryType DEF DecodeNack
<1>5. DecodeS(g, f) \in HostRecords
  <2>1. SendS(ResetParams(g), "RESYNCH_RSP") \in HostRecords
    BY T1SendType, T1Ranges
  <2>2. [g EXCEPT !.state = "IDLE", !.next.type = "none"] \in HostRecords
    <3>1. [g.next EXCEPT !.type = "none"] \in Tx
      BY T1TxType DEF HostRecords
    <3> QED
      BY <3>1, T1Ranges DEF HostRecords
  <2>3. Retry(g, Resend(g)) \in HostRecords /\ SendS(g, "WTX_RSP") \in HostRecords
    BY T1SendType, T1RetryType, T1Ranges
  <2> QED
    BY <2>1, <2>2, <2>3 DEF DecodeS
<1>6. Retry(g, Resend(g)) \in HostRecords
  BY T1SendType, T1RetryType
<1>7. f.err \in {"no", "parity", "other", "both"}
  BY DEF Frames, Errs
<1> QED
  BY <1>2, <1>3, <1>4, <1>5, <1>6, <1>7 DEF Decode

\* iso7816_t1_process keeps the structure's type and all three counters within limits.
LEMMA T1ProcessedType ==
  ASSUME NEW g \in HostRecords, NEW f \in Frames,
         NEW got \in {"frame", "garbled", "nothing", "ioerror"},
         got = "frame" => f.type \in {"I", "R", "S"}
  PROVE  Processed(g, got, f) \in HostRecords
<1>1. ASSUME NEW r \in HostRecords, NEW e \in Errs PROVE Nack(r, e) \in HostRecords
  <2>1. CASE r.rnack < MAX_RNACK_RETRY_LIMIT
    <3>1. r.rnack + 1 \in 0..MAX_RNACK_RETRY_LIMIT
      BY <2>1 DEF HostRecords, MAX_RNACK_RETRY_LIMIT
    <3>2. SendR(r, e) \in HostRecords
      BY T1SendType
    <3> QED
      BY <2>1, <3>1, <3>2 DEF Nack, HostRecords
  <2>2. CASE ~(r.rnack < MAX_RNACK_RETRY_LIMIT)
    BY <2>2, T1Ranges DEF Nack, HostRecords
  <2> QED
    BY <2>1, <2>2
<1>2. NackSilence(g) \in HostRecords
  <2>1. Nack(g, "other") \in HostRecords
    BY <1>1, T1Ranges
  <2> QED
    BY <2>1, T1Ranges DEF NackSilence, HostRecords
<1>3. Retransmit(g) \in HostRecords
  <2>1. CASE g.timeout < TIMEOUT_RETRY_COUNT
    <3>1. g.timeout + 1 \in 0..TIMEOUT_RETRY_COUNT
      BY <2>1 DEF HostRecords, TIMEOUT_RETRY_COUNT
    <3> QED
      BY <2>1, <3>1, T1SendType DEF Retransmit, HostRecords
  <2>2. CASE ~(g.timeout < TIMEOUT_RETRY_COUNT)
    BY <2>2, T1Ranges DEF Retransmit, HostRecords
  <2> QED
    BY <2>1, <2>2
<1>4. /\ [g EXCEPT !.timeout = 0, !.rnack = 0] \in HostRecords
      /\ [g EXCEPT !.timeout = 0] \in HostRecords
  BY T1Ranges DEF HostRecords
<1>5. CASE got = "frame"
  BY <1>4, <1>5, T1DecodeType DEF Processed
<1>6. CASE got = "garbled"
  BY <1>1, <1>4, <1>6, T1Ranges DEF Processed
<1>7. CASE got \in {"nothing", "ioerror"}
  BY <1>2, <1>3, <1>7 DEF Processed
<1> QED
  BY <1>5, <1>6, <1>7

\* What the card is after it has said something.
LEMMA T1SayType ==
  ASSUME NEW k \in CardRecords, NEW f \in Frames
  PROVE  /\ Say(k, f) \in CardRecords
         /\ Say(k, f).last = f /\ Say(k, f).due = NoFrame /\ Say(k, f).exp = k.exp
BY T1FrameKinds DEF Say, CardRecords

\* A block of a response is an I-frame.
LEMMA T1BlockType ==
  ASSUME NEW k \in CardRecords, k.at > 0
  PROVE  ResponseBlock(k) \in Frames /\ ResponseBlock(k).type = "I"
<1> DEFINE m == k.at < Length(k.run)
           b == <<k.run, k.at - 1>>
<1>1. k.at \in Nat /\ k.run \in Cmds \cup {0} /\ k.seq \in Bits
  BY DEF CardRecords
<1>2. Length(k.run) \in Nat
  BY <1>1, CommandsAssumption DEF Length, Mixed
<1>3. b \in Body
  <2>1. Cmds \cup {0} \subseteq Nat
    BY CommandsAssumption
  <2>2. k.run \in Nat
    BY <1>1, <2>1
  <2>3. k.at - 1 \in Nat
    BY <1>1
  <2> QED
    BY <2>2, <2>3 DEF Body
<1>4. m \in BOOLEAN
  BY <1>1, <1>2
<1>5. ResponseBlock(k) = IFrame(k.seq, m, b)
  BY DEF ResponseBlock
<1> HIDE DEF m, b
<1> QED
  BY <1>1, <1>3, <1>4, <1>5, T1FrameKinds

\* Going on with the response leaves the expected number alone.
LEMMA T1AdvanceType ==
  ASSUME NEW k \in CardRecords
  PROVE  /\ Advance(k) \in CardRecords
         /\ Advance(k).exp = k.exp /\ Advance(k).last.type = "I" /\ Advance(k).due = k.due
<1> DEFINE n == [k EXCEPT !.seq = Flip(@), !.at = @ + 1]
<1>1. n \in CardRecords /\ n.at > 0 /\ n.exp = k.exp /\ n.due = k.due
  <2>1. Flip(k.seq) \in Bits /\ k.at + 1 \in Nat /\ k.at + 1 > 0
    BY T1Ranges DEF CardRecords
  <2> QED
    BY <2>1 DEF CardRecords
<1>2. ResponseBlock(n) \in Frames /\ ResponseBlock(n).type = "I"
  BY <1>1, T1BlockType
<1>3. Advance(k) = [n EXCEPT !.last = ResponseBlock(n)]
  BY DEF Advance
<1> HIDE DEF n
<1> QED
  BY <1>1, <1>2, <1>3 DEF CardRecords

\* What the card runs is a command, or the mark for a mixture of blocks.
LEMMA T1WholeType ==
  ASSUME NEW got \in Seq(Body), got # <<>>
  PROVE  Whole(got) \in Cmds \cup {0}
<1>1. CASE \E c \in Cmds : got = Blocks(c, CmdLen[c])
  <2>1. PICK c \in Cmds : got = Blocks(c, CmdLen[c])
    BY <1>1
  <2>2. CmdLen[c] \in Nat
    BY CommandsAssumption
  <2>3. DOMAIN got = 1 .. Len(got) /\ Len(got) \in Nat /\ Len(got) > 0
    OBVIOUS
  <2>4. DOMAIN got = 1 .. CmdLen[c]
    BY <2>1 DEF Blocks
  <2>5. 1 \in 1 .. CmdLen[c]
    BY <2>2, <2>3, <2>4
  <2>6. got[1] = <<c, 0>>
    BY <2>1, <2>5 DEF Blocks
  <2> QED
    BY <1>1, <2>6 DEF Whole
<1>2. CASE ~\E c \in Cmds : got = Blocks(c, CmdLen[c])
  BY <1>2 DEF Whole, Mixed
<1> QED
  BY <1>1, <1>2

\* The card's state when it has accepted a block, before it answers it.
T1Accepts(k, f) ==
    [k EXCEPT !.exp = Flip(@), !.run = 0, !.at = 0,
              !.got = IF Len(@) < LongestCmd THEN Append(@, f.body) ELSE <<f.body>>]

\* Accepting a block moves the expected number on.
LEMMA T1AcceptType ==
  ASSUME NEW k \in CardRecords, NEW f \in Frames
  PROVE  /\ T1Accepts(k, f) \in CardRecords
         /\ T1Accepts(k, f).exp = Flip(k.exp) /\ T1Accepts(k, f).due = k.due
         /\ [T1Accepts(k, f) EXCEPT !.run = Whole(T1Accepts(k, f).got), !.got = <<>>]
              \in CardRecords
         /\ [T1Accepts(k, f) EXCEPT !.run = Whole(T1Accepts(k, f).got), !.got = <<>>].exp
              = Flip(k.exp)
         /\ [T1Accepts(k, f) EXCEPT !.run = Whole(T1Accepts(k, f).got), !.got = <<>>].due
              = k.due
<1> DEFINE t == IF Len(k.got) < LongestCmd THEN Append(k.got, f.body) ELSE <<f.body>>
           n == T1Accepts(k, f)
<1>1. f.body \in Body /\ k.got \in Seq(Body)
  BY DEF Frames, CardRecords
<1>2. t \in Seq(Body) /\ t # <<>>
  <2>1. Append(k.got, f.body) \in Seq(Body) /\ Append(k.got, f.body) # <<>>
    BY <1>1
  <2>2. <<f.body>> \in Seq(Body) /\ <<f.body>> # <<>>
    BY <1>1
  <2> QED
    BY <2>1, <2>2
<1>3. n = [k EXCEPT !.exp = Flip(k.exp), !.run = 0, !.at = 0, !.got = t]
  BY DEF T1Accepts
<1> HIDE DEF t
<1>4. n \in CardRecords /\ n.exp = Flip(k.exp) /\ n.due = k.due /\ n.got = t
  <2>1. Flip(k.exp) \in Bits /\ 0 \in Nat /\ 0 \in Cmds \cup {0}
    BY T1Ranges DEF CardRecords
  <2> QED
    BY <1>2, <1>3, <2>1 DEF CardRecords
<1>5. Whole(n.got) \in Cmds \cup {0}
  BY <1>2, <1>4, T1WholeType
<1>6. <<>> \in Seq(Body)
  OBVIOUS
<1> HIDE DEF n
<1>7. [n EXCEPT !.run = Whole(n.got), !.got = <<>>] \in CardRecords
  BY <1>4, <1>5, <1>6 DEF CardRecords
<1>8. /\ [n EXCEPT !.run = Whole(n.got), !.got = <<>>].exp = n.exp
      /\ [n EXCEPT !.run = Whole(n.got), !.got = <<>>].due = n.due
  BY <1>4 DEF CardRecords
<1> QED
  BY <1>4, <1>7, <1>8 DEF n

\* The ways the card may take a frame.
LEMMA T1CardCases ==
  ASSUME NEW k \in CardRecords, NEW f \in Frames, f.type \in {"garbled", "I", "R", "S"},
         NEW n \in CardTakes(k, f)
  PROVE  \/ n = k
         \/ \E e \in {"parity", "other"} : n = Say(k, RFrame(k.exp, e))
         \/ k.last.type = "S" /\ n = Say(k, k.due)
         \/ k.at > 0 /\ n = Say(k, ResponseBlock(k))
         \/ n = Advance(k)
         \/ /\ f.type = "I" /\ f.seq = k.exp /\ f.more
            /\ n = Say(T1Accepts(k, f), RFrame(T1Accepts(k, f).exp, "no"))
         \/ /\ f.type = "I" /\ f.seq = k.exp /\ ~f.more
            /\ n = Advance([T1Accepts(k, f) EXCEPT !.run = Whole(T1Accepts(k, f).got),
                                                   !.got = <<>>])
<1>1. CASE f.type = "garbled"
  BY <1>1 DEF CardTakes, OnGarbled
<1>2. CASE f.type = "I"
  <2>1. n \in OnI(k, f)
    BY <1>2 DEF CardTakes
  <2> QED
    BY <1>2, <2>1, Zenon DEF OnI, T1Accepts
<1>3. CASE f.type = "R"
  <2>1. n \in OnR(k, f)
    BY <1>3 DEF CardTakes
  <2> QED
    BY <2>1 DEF OnR
<1>4. CASE f.type = "S"
  <2>1. n \in OnS(k, f)
    BY <1>4 DEF CardTakes
  <2>2. SFrame("WTX_REQ").type = "S"
    BY DEF SFrame, Frame
  <2> QED
    BY <2>1, <2>2 DEF OnS
<1> QED
  BY <1>1, <1>2, <1>3, <1>4

\* Each of them keeps the card's type.
LEMMA T1CardType ==
  ASSUME NEW k \in CardRecords, T1Says(k.last), T1Says(k.due),
         NEW f \in Frames, f.type \in {"garbled", "I", "R", "S"}, NEW n \in CardTakes(k, f)
  PROVE  /\ n \in CardRecords /\ T1Says(n.last) /\ T1Says(n.due)
<1>1. /\ k.exp \in Bits /\ k.due \in Frames
      /\ \A e \in {"parity", "other", "no"}, q \in Bits :
           RFrame(q, e) \in Frames /\ RFrame(q, e).type = "R"
      /\ T1Says(NoFrame)
  BY T1FrameKinds, T1Ranges DEF CardRecords, T1Says
<1>2. ASSUME NEW c \in CardRecords, NEW r \in Frames, T1Says(r), n = Say(c, r)
      PROVE  /\ n \in CardRecords /\ T1Says(n.last) /\ T1Says(n.due)
  BY <1>1, <1>2, T1SayType
<1>3. ASSUME NEW c \in CardRecords, T1Says(c.due), n = Advance(c)
      PROVE  /\ n \in CardRecords /\ T1Says(n.last) /\ T1Says(n.due)
  BY <1>3, T1AdvanceType DEF T1Says
<1>4. CASE n = k
  BY <1>4
<1>5. CASE \E e \in {"parity", "other"} : n = Say(k, RFrame(k.exp, e))
  <2>1. PICK e \in {"parity", "other"} : n = Say(k, RFrame(k.exp, e))
    BY <1>5
  <2>2. RFrame(k.exp, e) \in Frames /\ T1Says(RFrame(k.exp, e))
    BY <1>1 DEF T1Says
  <2> QED
    BY <1>2, <2>1, <2>2
<1>6. CASE n = Say(k, k.due)
  BY <1>1, <1>2, <1>6
<1>7. CASE k.at > 0 /\ n = Say(k, ResponseBlock(k))
  <2>1. ResponseBlock(k) \in Frames /\ T1Says(ResponseBlock(k))
    BY <1>7, T1BlockType DEF T1Says
  <2> QED
    BY <1>2, <1>7, <2>1
<1>8. CASE n = Advance(k)
  BY <1>3, <1>8
<1>9. CASE n = Say(T1Accepts(k, f), RFrame(T1Accepts(k, f).exp, "no"))
  <2>1. T1Accepts(k, f) \in CardRecords /\ T1Accepts(k, f).exp \in Bits
    BY T1AcceptType, T1Ranges, <1>1
  <2>2. RFrame(T1Accepts(k, f).exp, "no") \in Frames
        /\ T1Says(RFrame(T1Accepts(k, f).exp, "no"))
    BY <1>1, <2>1 DEF T1Says
  <2> QED
    BY <1>2, <1>9, <2>1, <2>2
<1>10. CASE n = Advance([T1Accepts(k, f) EXCEPT !.run = Whole(T1Accepts(k, f).got),
                                                !.got = <<>>])
  <2> DEFINE c == [T1Accepts(k, f) EXCEPT !.run = Whole(T1Accepts(k, f).got), !.got = <<>>]
  <2>1. c \in CardRecords /\ T1Says(c.due)
    BY T1AcceptType
  <2> HIDE DEF c
  <2>2. n = Advance(c)
    BY <1>10 DEF c
  <2> QED
    BY <1>3, <2>1, <2>2
<1> QED
  BY <1>4, <1>5, <1>6, <1>7, <1>8, <1>9, <1>10, T1CardCases

\* The first I-frame of a command.
LEMMA T1SetType ==
  ASSUME NEW g \in HostRecords, NEW c \in Cmds
  PROVE  SetIframe(g, c) \in HostRecords /\ SetIframe(g, c).state = "IFRAME"
<1> DEFINE q == Flip(g.last.seq)
           m == CmdLen[c] > 1
           l == IF CmdLen[c] > 1 THEN CmdLen[c] - 1 ELSE CmdLen[c]
           z == IF CmdLen[c] > 1 THEN 1 ELSE CmdLen[c]
           n == [g.next EXCEPT !.type = "I", !.data = c, !.off = 0, !.seq = q,
                               !.more = m, !.left = l, !.size = z]
<1>1. g.next \in Tx /\ g.last.seq \in Bits /\ CmdLen[c] \in Nat
  BY CommandsAssumption DEF HostRecords, Tx
<1>2. SetIframe(g, c) = [g EXCEPT !.state = "IFRAME", !.next = n]
  BY DEF SetIframe
<1>3. q \in Bits /\ l \in Nat /\ z \in Bits /\ 0 \in Nat /\ c \in Cmds \cup {0}
  BY <1>1, T1Ranges DEF Bits
<1>4. m \in BOOLEAN
  BY <1>1
<1> HIDE DEF q, m, l, z
<1>5. n \in Tx
  BY <1>1, <1>3, <1>4, T1IframeType, Zenon
<1> HIDE DEF n
<1> QED
  BY <1>2, <1>5, T1Ranges DEF HostRecords

\* After iso7816_t1_send last_tx is next_tx, and next_tx and the state are unchanged.
LEMMA T1SentType ==
  ASSUME NEW g \in HostRecords
  PROVE  /\ Sent(g) \in HostRecords /\ Sent(g).state = g.state
         /\ Sent(g).next = g.next /\ Sent(g).last = g.next
<1> DEFINE y == Sent(g).lastFrame
<1>1. y \in {"none", "I", "R", "S"} /\ Sent(g) = [g EXCEPT !.last = g.next, !.lastFrame = y]
  BY DEF Sent, HostRecords
<1> HIDE DEF y
<1> QED
  BY <1>1 DEF HostRecords

\* What goes out is a frame; an I-frame is the one of next_tx.
LEMMA T1OutgoingType ==
  ASSUME NEW g \in HostRecords, g.state # "IDLE"
  PROVE  /\ Outgoing(g) \in Frames /\ Outgoing(g).type \in {"I", "R", "S"}
         /\ Outgoing(g).type = "I" =>
              Outgoing(g).seq = g.next.seq /\ Outgoing(g).more = g.next.more
<1>1. g.next \in Tx /\ g.rx \in Bits /\ g.state \in {"IFRAME", "RFRAME", "SFRAME"}
  BY DEF HostRecords, States
<1>2. /\ g.next.seq \in Bits /\ g.next.more \in BOOLEAN /\ g.next.err \in Errs
      /\ g.next.sub \in Subs /\ g.next.data \in Cmds \cup {0} /\ g.next.off \in Nat
      /\ Flip(g.rx) \in Bits
  BY <1>1, T1Ranges DEF Tx
<1>3. <<g.next.data, g.next.off>> \in Body
  <2>1. Cmds \cup {0} \subseteq Nat
    BY CommandsAssumption
  <2>2. g.next.data \in Nat
    BY <1>2, <2>1
  <2> QED
    BY <1>2, <2>2 DEF Body
<1>4. CASE g.state = "IFRAME"
  <2> DEFINE q == g.next.seq
             m == g.next.more
             b == <<g.next.data, g.next.off>>
  <2>1. Outgoing(g) = IFrame(q, m, b)
    BY <1>4 DEF Outgoing
  <2>2. q \in Bits /\ m \in BOOLEAN /\ b \in Body
    BY <1>2, <1>3
  <2>3. q = g.next.seq /\ m = g.next.more
    OBVIOUS
  <2> HIDE DEF q, m, b
  <2>4. /\ IFrame(q, m, b) \in Frames /\ IFrame(q, m, b).type = "I"
        /\ IFrame(q, m, b).seq = q /\ IFrame(q, m, b).more = m
    BY <2>2, T1FrameKinds
  <2> QED
    BY <2>1, <2>3, <2>4, Zenon
<1>5. CASE g.state = "RFRAME"
  <2>1. Outgoing(g) = RFrame(Flip(g.rx), g.next.err)
    BY <1>5 DEF Outgoing
  <2> QED
    BY <1>2, <2>1, T1FrameKinds
<1>6. CASE g.state = "SFRAME"
  <2>1. Outgoing(g) = SFrame(g.next.sub)
    BY <1>6 DEF Outgoing
  <2> QED
    BY <1>2, <2>1, T1FrameKinds
<1> QED
  BY <1>1, <1>4, <1>5, <1>6

T1Kept == T1TypeOK /\ T1Frames

\* The initial state.
LEMMA T1KeptInit ==
  Init => T1Kept
<1> SUFFICES ASSUME Init PROVE T1Kept
  OBVIOUS
<1>1. FreshTx \in Tx
  <2>1. ASSUME NEW m \in BOOLEAN
        PROVE  [type |-> "none", data |-> 0, seq |-> 1, off |-> 0, left |-> 0, size |-> 0,
                more |-> m, err |-> "no", sub |-> "none"] \in Tx
    BY T1Ranges DEF Tx
  <2>2. FALSE \in BOOLEAN
    OBVIOUS
  <2> QED
    BY <2>1, <2>2, Zenon DEF FreshTx
<1>2. <<>> \in Seq(Body) /\ <<>> \in Seq(Cmds \cup {0}) /\ <<>> \in Seq(Frames)
  OBVIOUS
<1>3. FreshHost \in HostRecords
  BY <1>1, <1>2, T1Ranges DEF FreshHost, HostRecords
<1>4. FreshCard \in CardRecords /\ FreshCard.last = NoFrame /\ FreshCard.due = NoFrame
  BY <1>2, T1Ranges, T1FrameKinds DEF FreshCard, CardRecords
<1>5. None \in [status : {"none", "ok", "error"}, data : Seq(Body)]
  BY <1>2 DEF None
<1>6. 0 \in 0..MaxFaults /\ 0 \in 0..MaxErrors /\ 0 \in 0..MaxS /\ Len(<<>>) <= MaxQueue
  BY CommandsAssumption DEF MaxQueue
<1>7. T1TypeOK
  BY <1>2, <1>3, <1>4, <1>5, <1>6, T1FrameKinds DEF Init, T1TypeOK
<1>8. T1Frames
  BY <1>4 DEF Init, T1Frames, T1Says
<1> QED
  BY <1>7, <1>8 DEF T1Kept

\* The budgets of the line and the bus are not exceeded.
LEMMA T1FaultType ==
  ASSUME T1TypeOK, NoFault \/ Fault \/ BusError
  PROVE  faults' \in 0..MaxFaults /\ errors' \in 0..MaxErrors
BY CommandsAssumption DEF T1TypeOK, NoFault, Fault, BusError

\* A command is handed over.
LEMMA T1KeptSubmit ==
  ASSUME T1Kept, NEW c \in Cmds, Submit(c) PROVE T1Kept'
<1>1. h' \in HostRecords /\ h'.state # "IDLE"
  BY T1SetType DEF T1Kept, T1TypeOK, Submit
<1>2. <<>> \in Seq(Cmds \cup {0}) /\ <<>> \in Seq(Body)
  OBVIOUS
<1>3. None \in [status : {"none", "ok", "error"}, data : Seq(Body)]
  BY <1>2 DEF None
<1>4. 0 \in 0..MaxFaults /\ 0 \in 0..MaxErrors /\ 0 \in 0..MaxS
  BY CommandsAssumption
<1>5. T1TypeOK'
  BY <1>1, <1>2, <1>3, <1>4 DEF T1Kept, T1TypeOK, Submit
<1>6. T1Frames'
  BY <1>1 DEF T1Kept, T1Frames, Submit
<1> QED
  BY <1>5, <1>6 DEF T1Kept

\* A frame is sent, spoiled or lost.
LEMMA T1KeptSend ==
  ASSUME T1Kept, Send PROVE T1Kept'
<1>1. h.state # "IDLE" /\ h \in HostRecords
  BY DEF T1Kept, T1TypeOK, T1Frames, Send
<1>2. h' \in HostRecords /\ h'.state # "IDLE"
  BY <1>1, T1SentType DEF Send
<1>3. PICK f \in Frames : f.type # "none" /\ toCard' \in {toCard, Append(toCard, f)}
  <2>1. /\ Outgoing(h) \in Frames /\ Outgoing(h).type # "none"
        /\ Garbled \in Frames /\ Garbled.type # "none"
    BY <1>1, T1OutgoingType, T1FrameKinds
  <2> QED
    BY <2>1 DEF Send
<1>4. /\ toCard' \in Seq(Frames) /\ Len(toCard') <= MaxQueue
      /\ \A i \in 1..Len(toCard') : toCard'[i].type # "none"
  <2>1. /\ toCard \in Seq(Frames) /\ Len(toCard) < MaxQueue /\ MaxQueue \in Nat
        /\ \A i \in 1..Len(toCard) : toCard[i].type # "none"
    BY DEF T1Kept, T1TypeOK, T1Frames, Send, MaxQueue
  <2>2. CASE toCard' = toCard
    BY <2>1, <2>2
  <2>3. CASE toCard' = Append(toCard, f)
    <3>1. toCard' \in Seq(Frames) /\ Len(toCard') = Len(toCard) + 1 /\ Len(toCard) \in Nat
      BY <2>1, <2>3
    <3>2. ASSUME NEW i \in 1..Len(toCard') PROVE toCard'[i].type # "none"
      <4>1. CASE i <= Len(toCard)
        BY <1>3, <2>1, <2>3, <3>1, <4>1
      <4>2. CASE i = Len(toCard) + 1
        BY <1>3, <2>1, <2>3, <3>1, <4>2
      <4> QED
        BY <3>1, <4>1, <4>2
    <3>3. Len(toCard') <= MaxQueue
      BY <2>1, <3>1
    <3> QED
      BY <3>1, <3>2, <3>3
  <2> QED
    BY <1>3, <2>2, <2>3
<1>5. faults' \in 0..MaxFaults /\ errors' \in 0..MaxErrors
  <2>1. NoFault \/ Fault
    BY DEF Send
  <2> QED
    BY <2>1, T1FaultType DEF T1Kept
<1>6. T1TypeOK'
  BY <1>2, <1>4, <1>5 DEF T1Kept, T1TypeOK, Send
<1>7. T1Frames'
  BY <1>2, <1>4 DEF T1Kept, T1Frames, Send
<1> QED
  BY <1>6, <1>7 DEF T1Kept

\* What a call may return.
LEMMA T1ResultType ==
  /\ Error \in [status : {"none", "ok", "error"}, data : Seq(Body)]
  /\ None \in [status : {"none", "ok", "error"}, data : Seq(Body)]
  /\ \A d \in Seq(Body) : Success(d) \in [status : {"none", "ok", "error"}, data : Seq(Body)]
<1>1. <<>> \in Seq(Body)
  OBVIOUS
<1> QED
  BY <1>1 DEF Error, None, Success

\* A transfer fails.
LEMMA T1KeptSendFails ==
  ASSUME T1Kept, SendFails PROVE T1Kept'
<1>1. h' \in HostRecords
  <2>1. Sent(h) \in HostRecords
    BY T1SentType DEF T1Kept, T1TypeOK
  <2>2. [Sent(h) EXCEPT !.state = "IDLE"] \in HostRecords
    BY <2>1, T1Ranges DEF HostRecords
  <2> QED
    BY <2>1, <2>2, T1SendType DEF SendFails
<1>2. faults' \in 0..MaxFaults /\ errors' \in 0..MaxErrors
  <2>1. NoFault \/ BusError
    BY DEF SendFails
  <2> QED
    BY <2>1, T1FaultType DEF T1Kept
<1>3. T1TypeOK'
  BY <1>1, <1>2, T1ResultType DEF T1Kept, T1TypeOK, SendFails
<1>4. T1Frames'
  BY DEF T1Kept, T1Frames, SendFails
<1> QED
  BY <1>3, <1>4 DEF T1Kept

\* Something is read, or nothing.
LEMMA T1KeptReceive ==
  ASSUME T1Kept, NEW got \in {"frame", "garbled", "nothing", "ioerror"}, Receive(got)
  PROVE  T1Kept'
<1> DEFINE g == Processed(h, got, toHost)
<1>1. /\ toHost' \in {toHost, NoFrame}
      /\ NoFault \/ Fault \/ BusError
      /\ got = "frame" => toHost # NoFrame
  BY DEF Receive, Read
<1>2. h \in HostRecords /\ toHost \in Frames /\ toHost \in {NoFrame, card.last}
      /\ T1Says(card.last)
  BY DEF T1Kept, T1TypeOK, T1Frames
<1>3. g \in HostRecords
  BY <1>1, <1>2, T1ProcessedType DEF T1Says
<1>4. /\ IF g.state # "IDLE" THEN h' = g /\ pc' = "send" /\ UNCHANGED result
         ELSE h' = Collected(g) /\ pc' = "ready" /\ result' = Returned(g, got)
      /\ UNCHANGED <<cmd, toCard, card, asked, ran>>
  BY DEF Receive, GoesOn
<1> HIDE DEF g
<1>5. h' \in HostRecords
  BY <1>3, <1>4, T1SendType
<1>6. result' \in [status : {"none", "ok", "error"}, data : Seq(Body)]
  <2>1. g.recv \in Seq(Body)
    BY <1>3 DEF HostRecords
  <2>2. Returned(g, got) \in [status : {"none", "ok", "error"}, data : Seq(Body)]
    BY <2>1, T1ResultType DEF Returned
  <2> QED
    BY <1>4, <2>2 DEF T1Kept, T1TypeOK
<1>7. faults' \in 0..MaxFaults /\ errors' \in 0..MaxErrors
  BY <1>1, T1FaultType DEF T1Kept
<1>8. toHost' \in Frames
  BY <1>1, <1>2, T1FrameKinds
<1>9. pc' \in {"send", "ready"} /\ (pc' # "ready" => h'.state # "IDLE")
  BY <1>4
<1>10. T1TypeOK'
  BY <1>4, <1>5, <1>6, <1>7, <1>8, <1>9 DEF T1Kept, T1TypeOK
<1>11. T1Frames'
  BY <1>1, <1>4, <1>9 DEF T1Kept, T1Frames
<1> QED
  BY <1>10, <1>11 DEF T1Kept

\* A block is taken and not stored.
LEMMA T1KeptUnstored ==
  ASSUME T1Kept, ReceiveUnstored PROVE T1Kept'
<1> DEFINE p == Processed(h, "frame", toHost)
           g == [p EXCEPT !.recv = h.recv]
<1>1. /\ toHost' = NoFrame /\ BusError /\ toHost # NoFrame
  BY T1FrameKinds DEF ReceiveUnstored
<1>2. h \in HostRecords /\ toHost \in Frames /\ toHost \in {NoFrame, card.last}
      /\ T1Says(card.last) /\ h.recv \in Seq(Body)
  BY DEF T1Kept, T1TypeOK, T1Frames, HostRecords
<1>3. p \in HostRecords
  BY <1>1, <1>2, T1ProcessedType DEF T1Says
<1> HIDE DEF p
<1>4. g \in HostRecords
  BY <1>2, <1>3 DEF HostRecords
<1>5. /\ IF g.state # "IDLE" THEN h' = g /\ pc' = "send" /\ UNCHANGED result
         ELSE h' = Collected(g) /\ pc' = "ready" /\ result' = Returned(g, "frame")
      /\ UNCHANGED <<cmd, toCard, card, asked, ran>>
  BY DEF ReceiveUnstored, GoesOn, p
<1> HIDE DEF g
<1>6. h' \in HostRecords
  BY <1>4, <1>5, T1SendType
<1>7. result' \in [status : {"none", "ok", "error"}, data : Seq(Body)]
  <2>1. g.recv \in Seq(Body)
    BY <1>4 DEF HostRecords
  <2>2. Returned(g, "frame") \in [status : {"none", "ok", "error"}, data : Seq(Body)]
    BY <2>1, T1ResultType DEF Returned
  <2> QED
    BY <1>5, <2>2 DEF T1Kept, T1TypeOK
<1>8. faults' \in 0..MaxFaults /\ errors' \in 0..MaxErrors
  BY <1>1, T1FaultType DEF T1Kept
<1>9. toHost' \in Frames
  BY <1>1, <1>2, T1FrameKinds
<1>10. pc' \in {"send", "ready"} /\ (pc' # "ready" => h'.state # "IDLE")
  BY <1>5
<1>11. T1TypeOK'
  BY <1>5, <1>6, <1>7, <1>8, <1>9, <1>10 DEF T1Kept, T1TypeOK
<1>12. T1Frames'
  BY <1>1, <1>5, <1>10 DEF T1Kept, T1Frames
<1> QED
  BY <1>11, <1>12 DEF T1Kept

\* The frame the card takes up, and those that stay behind.
LEMMA T1TakenType ==
  ASSUME T1Kept, toCard # <<>>
  PROVE  /\ Head(toCard) \in Frames /\ Head(toCard).type \in {"garbled", "I", "R", "S"}
         /\ Tail(toCard) \in Seq(Frames) /\ Len(Tail(toCard)) <= MaxQueue
         /\ \A i \in 1..Len(Tail(toCard)) : Tail(toCard)[i].type # "none"
<1>1. /\ toCard \in Seq(Frames) /\ Len(toCard) <= MaxQueue /\ MaxQueue \in Nat
      /\ \A i \in 1..Len(toCard) : toCard[i].type # "none"
  BY DEF T1Kept, T1TypeOK, T1Frames, MaxQueue
<1>2. Len(toCard) \in Nat /\ Len(toCard) > 0
  BY <1>1
<1>3. Head(toCard) = toCard[1] /\ toCard[1] \in Frames /\ 1 \in 1..Len(toCard)
  BY <1>1, <1>2
<1>4. /\ Tail(toCard) \in Seq(Frames) /\ Len(Tail(toCard)) = Len(toCard) - 1
      /\ \A i \in 1..Len(toCard) - 1 : Tail(toCard)[i] = toCard[i + 1]
  BY <1>1
<1>5. ASSUME NEW i \in 1..Len(Tail(toCard)) PROVE Tail(toCard)[i].type # "none"
  <2>1. i \in 1..Len(toCard) - 1 /\ i + 1 \in 1..Len(toCard)
    BY <1>2, <1>4
  <2> QED
    BY <1>1, <1>4, <2>1
<1>6. Head(toCard).type \in {"garbled", "I", "R", "S"}
  BY <1>1, <1>3 DEF Frames
<1>7. Len(Tail(toCard)) <= MaxQueue
  BY <1>1, <1>2, <1>4
<1> QED
  BY <1>3, <1>4, <1>5, <1>6, <1>7

\* What the card has run.
LEMMA T1RanType ==
  ASSUME T1Kept, card' \in CardRecords, ran' \in {ran, Append(ran, card'.run)}
  PROVE  ran' \in Seq(Cmds \cup {0})
<1>1. ran \in Seq(Cmds \cup {0}) /\ card'.run \in Cmds \cup {0}
  BY DEF T1Kept, T1TypeOK, CardRecords
<1>2. Append(ran, card'.run) \in Seq(Cmds \cup {0})
  BY <1>1
<1> QED
  BY <1>1, <1>2

\* The card answers.
LEMMA T1KeptAnswers ==
  ASSUME T1Kept, CardAnswers PROVE T1Kept'
<1>1. PICK k \in CardTakes(card, Head(toCard)) : card' = k /\ toHost' = k.last
  BY DEF CardAnswers
<1>2. /\ Head(toCard) \in Frames /\ Head(toCard).type \in {"garbled", "I", "R", "S"}
      /\ toCard' \in Seq(Frames) /\ Len(toCard') <= MaxQueue
      /\ \A i \in 1..Len(toCard') : toCard'[i].type # "none"
  BY T1TakenType DEF CardAnswers
<1>3. card \in CardRecords /\ T1Says(card.last) /\ T1Says(card.due)
  BY DEF T1Kept, T1TypeOK, T1Frames
<1>4. /\ card' \in CardRecords /\ T1Says(card'.last) /\ T1Says(card'.due)
      /\ toHost' = card'.last
  BY <1>1, <1>2, <1>3, T1CardType
<1>5. toHost' \in Frames
  BY <1>4 DEF CardRecords
<1>6. ran' \in Seq(Cmds \cup {0})
  BY <1>4, T1RanType DEF CardAnswers
<1>7. T1TypeOK'
  BY <1>2, <1>4, <1>5, <1>6 DEF T1Kept, T1TypeOK, CardAnswers
<1>8. T1Frames'
  BY <1>2, <1>4 DEF T1Kept, T1Frames, T1Says, CardAnswers
<1> QED
  BY <1>7, <1>8 DEF T1Kept

\* A card that puts its answer off to ask for something.
LEMMA T1AskType ==
  ASSUME NEW k \in CardRecords, T1Says(k.last), NEW sub \in CardS
  PROVE  LET n == [k EXCEPT !.last = SFrame(sub), !.due = k.last]
         IN  /\ n \in CardRecords /\ T1Says(n.last) /\ T1Says(n.due)
             /\ n.last = SFrame(sub) /\ n.due = k.last /\ n.exp = k.exp
<1>1. SFrame(sub) \in Frames /\ SFrame(sub).type = "S"
  BY T1Ranges, T1FrameKinds
<1> QED
  BY <1>1 DEF CardRecords, T1Says

\* The card asks for something instead.
LEMMA T1KeptAsks ==
  ASSUME T1Kept, NEW sub \in CardS, CardAsks(sub) PROVE T1Kept'
<1>1. PICK k \in CardTakes(card, Head(toCard)) :
        card' = [k EXCEPT !.last = SFrame(sub), !.due = k.last]
  BY DEF CardAsks
<1>2. /\ Head(toCard) \in Frames /\ Head(toCard).type \in {"garbled", "I", "R", "S"}
      /\ toCard' \in Seq(Frames) /\ Len(toCard') <= MaxQueue
      /\ \A i \in 1..Len(toCard') : toCard'[i].type # "none"
  BY T1TakenType DEF CardAsks
<1>3. card \in CardRecords /\ T1Says(card.last) /\ T1Says(card.due)
  BY DEF T1Kept, T1TypeOK, T1Frames
<1>4. k \in CardRecords /\ T1Says(k.last)
  BY <1>2, <1>3, T1CardType
<1>5. /\ card' \in CardRecords /\ T1Says(card'.last) /\ T1Says(card'.due)
      /\ toHost' = card'.last
  <2> DEFINE n == [k EXCEPT !.last = SFrame(sub), !.due = k.last]
  <2>1. n \in CardRecords /\ T1Says(n.last) /\ T1Says(n.due) /\ n.last = SFrame(sub)
    BY <1>4, T1AskType
  <2>2. card' = n /\ toHost' = SFrame(sub)
    BY <1>1 DEF CardAsks
  <2> HIDE DEF n
  <2> QED
    BY <2>1, <2>2
<1>6. toHost' \in Frames
  BY <1>5 DEF CardRecords
<1>7. ran' \in Seq(Cmds \cup {0})
  BY <1>5, T1RanType DEF CardAsks
<1>8. asked' \in 0..MaxS
  BY CommandsAssumption DEF T1Kept, T1TypeOK, CardAsks
<1>9. T1TypeOK'
  BY <1>2, <1>5, <1>6, <1>7, <1>8 DEF T1Kept, T1TypeOK, CardAsks
<1>10. T1Frames'
  BY <1>2, <1>5 DEF T1Kept, T1Frames, T1Says, CardAsks
<1> QED
  BY <1>9, <1>10 DEF T1Kept

\* A card after a reset.
LEMMA T1FreshCardType ==
  /\ FreshCard \in CardRecords
  /\ FreshCard.last = NoFrame /\ FreshCard.due = NoFrame
<1>1. <<>> \in Seq(Body)
  OBVIOUS
<1> QED
  BY <1>1, T1Ranges, T1FrameKinds DEF FreshCard, CardRecords

\* Both resets.
LEMMA T1KeptReset ==
  ASSUME T1Kept, ResetInterface \/ ResetProtocol PROVE T1Kept'
<1>1. h' \in HostRecords
  BY T1SendType DEF T1Kept, T1TypeOK, ResetInterface, ResetProtocol
<1>2. <<>> \in Seq(Cmds \cup {0}) /\ <<>> \in Seq(Frames) /\ Len(<<>>) <= MaxQueue
  BY DEF MaxQueue
<1>3. CASE ResetInterface
  <2>1. T1TypeOK'
    BY <1>1, <1>2, <1>3, T1FreshCardType, T1FrameKinds, T1ResultType
    DEF T1Kept, T1TypeOK, ResetInterface
  <2>2. T1Frames'
    BY <1>3, T1FreshCardType DEF T1Kept, T1Frames, T1Says, ResetInterface
  <2> QED
    BY <2>1, <2>2 DEF T1Kept
<1>4. CASE ResetProtocol
  <2>1. T1TypeOK'
    BY <1>1, <1>2, <1>4, T1ResultType DEF T1Kept, T1TypeOK, ResetProtocol
  <2>2. T1Frames'
    BY <1>4 DEF T1Kept, T1Frames, T1Says, ResetProtocol
  <2> QED
    BY <2>1, <2>2 DEF T1Kept
<1> QED
  BY <1>3, <1>4

\* Every step keeps the types.
LEMMA T1KeptStep ==
  ASSUME T1Kept, [Next]_vars PROVE T1Kept'
<1>1. CASE Next
  <2>1. CASE Host
    BY <2>1, T1KeptSend, T1KeptSendFails, T1KeptUnstored, T1KeptReceive DEF Host
  <2>2. CASE Card
    BY <2>2, T1KeptAnswers, T1KeptAsks DEF Card
  <2>3. CASE ResetInterface \/ ResetProtocol
    BY <2>3, T1KeptReset
  <2>4. CASE \E c \in Cmds : Submit(c)
    BY <2>4, T1KeptSubmit
  <2> QED
    BY <1>1, <2>1, <2>2, <2>3, <2>4 DEF Next
<1>2. CASE UNCHANGED vars
  BY <1>2 DEF vars, T1Kept, T1TypeOK, T1Frames, T1Says
<1> QED
  BY <1>1, <1>2

\* Every field of the protocol structure keeps its type and no retry counter of
\* iso7816_t1_process and decode_frame passes its limit: for every set of commands, every
\* card and line of the model, and whether or not user space resets after an error.
THEOREM T1TypeSafety == Spec => []T1TypeOK
<1>1. T1Kept => T1TypeOK
  BY DEF T1Kept
<1> QED
  BY <1>1, T1KeptInit, T1KeptStep, PTL DEF Spec

\* Two descriptions of the same block; and a step of the host that leaves the block alone.
T1Same(x, y) ==
    /\ x.data = y.data /\ x.seq = y.seq /\ x.off = y.off
    /\ x.left = y.left /\ x.size = y.size /\ x.more = y.more
T1Steady(g, r) == T1Same(r.next, g.next) /\ T1Reply(r.next)

\* Preparing an R- or S-frame, or the last frame once more, leaves the block alone.
LEMMA T1SteadySend ==
  ASSUME NEW g \in HostRecords, g.last = g.next, T1Reply(g.next)
  PROVE  /\ T1Steady(g, g) /\ T1Steady(g, FinishRecovery(g))
         /\ \A e \in Errs : T1Steady(g, SendR(g, e)) /\ SendR(g, e).state = "RFRAME"
         /\ T1Steady(g, SendS(g, "WTX_RSP")) /\ SendS(g, "WTX_RSP").state = "SFRAME"
         /\ T1Steady(g, Resend(g)) /\ Resend(g).state = g.state
<1>1. g.next \in Tx
  BY DEF HostRecords
<1>2. T1Steady(g, g) /\ T1Steady(g, FinishRecovery(g))
  BY DEF T1Steady, T1Same, FinishRecovery, HostRecords
<1>3. ASSUME NEW e \in Errs
      PROVE  T1Steady(g, SendR(g, e)) /\ SendR(g, e).state = "RFRAME"
  <2> DEFINE x == [g.next EXCEPT !.type = "R", !.err = e]
  <2>1. T1Same(x, g.next) /\ T1Reply(x)
    BY <1>1 DEF T1Same, T1Reply, Tx
  <2>2. SendR(g, e) = [g EXCEPT !.state = "RFRAME", !.next = x]
    BY DEF SendR
  <2> HIDE DEF x
  <2> QED
    BY <2>1, <2>2 DEF T1Steady, HostRecords
<1>4. T1Steady(g, SendS(g, "WTX_RSP")) /\ SendS(g, "WTX_RSP").state = "SFRAME"
  <2> DEFINE x == [g.next EXCEPT !.type = "S", !.sub = "WTX_RSP"]
  <2>1. T1Same(x, g.next) /\ T1Reply(x)
    BY <1>1 DEF T1Same, T1Reply, Tx
  <2>2. SendS(g, "WTX_RSP") = [g EXCEPT !.state = "SFRAME", !.next = x]
    BY DEF SendS
  <2> HIDE DEF x
  <2> QED
    BY <2>1, <2>2 DEF T1Steady, HostRecords
<1>5. T1Steady(g, Resend(g)) /\ Resend(g).state = g.state
  <2>1. Resend(g).next = g.next /\ Resend(g).state = g.state
    BY DEF Resend, HostRecords
  <2> QED
    BY <2>1 DEF T1Steady, T1Same
<1> QED
  BY <1>2, <1>3, <1>4, <1>5

\* So does one more attempt, and giving up.
LEMMA T1SteadyRetry ==
  ASSUME NEW g \in HostRecords, g.last = g.next, T1Reply(g.next),
         NEW a \in HostRecords, T1Steady(g, a)
  PROVE  T1Steady(g, Retry(g, a))
<1>1. [a EXCEPT !.recovery = g.recovery + 1].next = a.next
  BY DEF HostRecords
<1>2. T1Steady(g, FinishRecovery(g))
  BY T1SteadySend
<1> QED
  BY <1>1, <1>2 DEF Retry, T1Steady

\* So does asking for a frame again.
LEMMA T1SteadyNack ==
  ASSUME NEW g \in HostRecords, g.last = g.next, T1Reply(g.next), NEW e \in Errs
  PROVE  T1Steady(g, Nack(g, e))
<1>1. T1Steady(g, SendR(g, e)) /\ SendR(g, e) \in HostRecords
  BY T1SteadySend, T1SendType
<1>2. [SendR(g, e) EXCEPT !.rnack = g.rnack + 1].next = SendR(g, e).next
  BY <1>1 DEF HostRecords
<1>3. [g EXCEPT !.state = "IDLE", !.rnack = 0].next = g.next
  BY DEF HostRecords
<1>4. T1Steady(g, g)
  BY T1SteadySend
<1> QED
  BY <1>1, <1>2, <1>3, <1>4 DEF Nack, T1Steady

\* A frame other than an acknowledgement: the block to be sent is the one last sent.
LEMMA T1SteadyDecode ==
  ASSUME NEW g \in HostRecords, g.last = g.next, T1Reply(g.next), g.state # "IDLE",
         NEW f \in Frames, f.type \in {"I", "R", "S"},
         f.type = "S" => f.sub \notin {"RESYNCH_REQ", "RESYNCH_RSP", "ABORT_RES"},
         ~(IsAck(f) /\ f.seq # g.last.seq)
  PROVE  /\ T1Steady(g, Decode(g, f))
         /\ f.type = "S" \/ IsAck(f) => Decode(g, f).state # "IDLE"
<1>1. g.next \in Tx /\ T1Steady(g, g) /\ Resend(g) \in HostRecords /\ Resend(g).next = g.next
  BY T1SteadySend, T1SendType DEF HostRecords, Resend
<1>2. CASE f.type = "I"
  <2>1. Decode(g, f) = DecodeI(g, f) /\ ~IsAck(f)
    BY <1>2 DEF Decode, IsAck
  <2>2. Store(g, f) \in HostRecords /\ Store(g, f).next = g.next /\ Store(g, f).last = g.last
    <3>1. f.body \in Body /\ f.seq \in Bits
      BY DEF Frames
    <3>2. Append(g.recv, f.body) \in Seq(Body)
      BY <3>1 DEF HostRecords
    <3> QED
      BY <3>1, <3>2, T1Ranges DEF Store, HostRecords
  <2>3. T1Steady(Store(g, f), SendR(Store(g, f), "no"))
    BY <2>2, T1SteadySend, T1Ranges
  <2>4. T1Steady(g, SendR(Store(g, f), "no"))
    BY <2>2, <2>3 DEF T1Steady
  <2>5. [Store(g, f) EXCEPT !.state = "IDLE"].next = g.next
    BY <2>2 DEF HostRecords
  <2>6. T1Steady(g, [Store(g, f) EXCEPT !.state = "IDLE"])
    BY <1>1, <2>5 DEF T1Steady
  <2>7. T1Steady(g, Retry(g, SendR(g, "other")))
    BY T1SteadySend, T1SteadyRetry, T1SendType, T1Ranges
  <2>8. T1Steady(g, DecodeI(g, f))
    BY <2>4, <2>6, <2>7 DEF DecodeI
  <2> QED
    BY <1>2, <2>1, <2>8
<1>3. CASE IsAck(f)
  <2>1. Decode(g, f) = [g EXCEPT !.recovery = 0]
    BY <1>3 DEF Decode, DecodeAck, IsAck
  <2>2. Decode(g, f).next = g.next /\ Decode(g, f).state = g.state
    BY <2>1 DEF HostRecords
  <2> QED
    BY <1>1, <2>2 DEF T1Steady
<1>4. CASE f.type = "R" /\ f.err \in {"parity", "other"}
  <2>1. Decode(g, f) = DecodeNack(g, f) /\ ~IsAck(f)
    BY <1>4 DEF Decode, IsAck
  <2> DEFINE a == [Resend(g) EXCEPT !.state = "IFRAME"]
             b == [Resend(g) EXCEPT !.state = "IFRAME", !.next.type = "I"]
  <2>2. a \in HostRecords /\ T1Steady(g, a)
    <3>1. a \in HostRecords /\ a.next = g.next
      BY <1>1, T1Ranges DEF HostRecords
    <3> QED
      BY <1>1, <3>1 DEF T1Steady
  <2>3. b \in HostRecords /\ T1Steady(g, b)
    <3> DEFINE x == [g.next EXCEPT !.type = "I"]
    <3>1. x \in Tx /\ T1Same(x, g.next) /\ T1Reply(x)
      BY <1>1, T1TxType DEF T1Same, T1Reply, Tx
    <3>2. b = [Resend(g) EXCEPT !.state = "IFRAME", !.next = x]
      BY <1>1
    <3> HIDE DEF x, b
    <3>3. b \in HostRecords /\ b.next = x
      BY <1>1, <3>1, <3>2, T1Ranges DEF HostRecords
    <3> QED
      BY <3>1, <3>3 DEF T1Steady
  <2> HIDE DEF a, b
  <2>4. /\ T1Steady(g, Retry(g, a)) /\ T1Steady(g, Retry(g, b))
        /\ T1Steady(g, Retry(g, SendR(g, "no"))) /\ T1Steady(g, Retry(g, SendR(g, "other")))
        /\ T1Steady(g, Retry(g, Resend(g))) /\ T1Steady(g, Retry(g, g))
    BY <1>1, <2>2, <2>3, T1SteadySend, T1SteadyRetry, T1SendType, T1Ranges
  <2>5. DecodeNack(g, f) \in {Retry(g, a), Retry(g, b), Retry(g, SendR(g, "no")),
                              Retry(g, SendR(g, "other")), Retry(g, Resend(g)), Retry(g, g)}
    BY DEF DecodeNack, a, b
  <2>6. T1Steady(g, DecodeNack(g, f))
    BY <2>4, <2>5
  <2> QED
    BY <1>4, <2>1, <2>6
<1>5. CASE f.type = "R" /\ f.err = "both"
  <2>1. Decode(g, f) = Retry(g, Resend(g)) /\ ~IsAck(f)
    BY <1>5 DEF Decode, IsAck
  <2>2. T1Steady(g, Retry(g, Resend(g)))
    BY <1>1, T1SteadySend, T1SteadyRetry
  <2> QED
    BY <1>5, <2>1, <2>2
<1>6. CASE f.type = "S"
  <2>1. Decode(g, f) = DecodeS(g, f)
    BY <1>6 DEF Decode
  <2>2. DecodeS(g, f) \in {g, SendS(g, "WTX_RSP")}
    BY <1>6 DEF DecodeS, T1Reply
  <2>3. SendS(g, "WTX_RSP").state = "SFRAME" /\ T1Steady(g, SendS(g, "WTX_RSP"))
    BY T1SteadySend
  <2> QED
    BY <1>1, <2>1, <2>2, <2>3
<1>7. f.err \in {"no", "parity", "other", "both"}
  BY DEF Frames, Errs
<1> QED
  BY <1>2, <1>3, <1>4, <1>5, <1>6, <1>7 DEF IsAck

\* iso7816_t1_process leaves the block alone unless it reads an acknowledgement for it, and
\* ends no call on an acknowledgement or an S-frame.
LEMMA T1SteadyProcessed ==
  ASSUME NEW g \in HostRecords, g.last = g.next, T1Reply(g.next), g.state # "IDLE",
         NEW f \in Frames, NEW got \in {"frame", "garbled", "nothing", "ioerror"},
         got = "frame" => f.type \in {"I", "R", "S"},
         f.type = "S" => f.sub \notin {"RESYNCH_REQ", "RESYNCH_RSP", "ABORT_RES"},
         ~(got = "frame" /\ IsAck(f) /\ f.seq # g.last.seq)
  PROVE  /\ T1Steady(g, Processed(g, got, f))
         /\ got = "frame" /\ (f.type = "S" \/ IsAck(f)) => Processed(g, got, f).state # "IDLE"
<1>1. T1Steady(g, g)
  BY T1SteadySend
<1>2. CASE got = "frame"
  <2> DEFINE a == [g EXCEPT !.timeout = 0, !.rnack = 0]
  <2>1. a \in HostRecords /\ a.next = g.next /\ a.last = g.last /\ a.state = g.state
    BY T1Ranges DEF HostRecords
  <2>2. Processed(g, got, f) = Decode(a, f)
    BY <1>2 DEF Processed
  <2> HIDE DEF a
  <2>3. /\ T1Steady(a, Decode(a, f))
        /\ f.type = "S" \/ IsAck(f) => Decode(a, f).state # "IDLE"
    BY <1>2, <2>1, T1SteadyDecode
  <2> QED
    BY <2>1, <2>2, <2>3 DEF T1Steady
<1>3. CASE got = "garbled"
  <2> DEFINE a == [g EXCEPT !.timeout = 0]
  <2>1. a \in HostRecords /\ a.next = g.next /\ a.last = g.last
    BY T1Ranges DEF HostRecords
  <2>2. Processed(g, got, f) = Nack(a, "parity")
    BY <1>3 DEF Processed
  <2> HIDE DEF a
  <2>3. T1Steady(a, Nack(a, "parity"))
    BY <2>1, T1SteadyNack, T1Ranges
  <2> QED
    BY <1>3, <2>1, <2>2, <2>3 DEF T1Steady
<1>4. T1Steady(g, NackSilence(g))
  <2>1. T1Steady(g, Nack(g, "other"))
    BY T1SteadyNack, T1Ranges
  <2>2. ~(g.rnack < MAX_RNACK_RETRY_LIMIT) =>
          [Nack(g, "other") EXCEPT !.timeout = 0].next = g.next
    BY DEF Nack, HostRecords
  <2> QED
    BY <1>1, <2>1, <2>2 DEF NackSilence, T1Steady
<1>5. T1Steady(g, Retransmit(g))
  <2>1. Resend(g) \in HostRecords /\ Resend(g).next = g.next
    BY T1SendType DEF Resend, HostRecords
  <2>2. /\ [Resend(g) EXCEPT !.timeout = g.timeout + 1].next = g.next
        /\ [g EXCEPT !.state = "IDLE", !.timeout = 0].next = g.next
    BY <2>1 DEF HostRecords
  <2> QED
    BY <1>1, <2>2 DEF Retransmit, T1Steady
<1>6. CASE got \in {"nothing", "ioerror"}
  BY <1>4, <1>5, <1>6 DEF Processed
<1> QED
  BY <1>2, <1>3, <1>6

\* What the next block is after an acknowledgement of the one before.
T1Following(x, y) ==
    /\ x.type = "I" /\ x.data = y.data /\ x.off = y.off + 1 /\ x.seq = Flip(y.seq)
    /\ x.more = (y.left > 1)
    /\ x.left = IF y.left > 1 THEN y.left - 1 ELSE y.left
    /\ x.size = IF y.left > 1 THEN 1 ELSE y.left

\* On an acknowledgement for the block last sent iso7816_t1_process prepares the next one.
LEMMA T1NextProcessed ==
  ASSUME NEW g \in HostRecords, g.last = g.next, NEW f \in Frames,
         IsAck(f), f.seq # g.last.seq
  PROVE  /\ T1Following(Processed(g, "frame", f).next, g.next)
         /\ Processed(g, "frame", f).state = "IFRAME"
<1> DEFINE a == [g EXCEPT !.timeout = 0, !.rnack = 0]
           b == [a EXCEPT !.recovery = 0]
           y == g.next
           m == y.left > 1
           l == IF y.left > 1 THEN y.left - 1 ELSE y.left
           z == IF y.left > 1 THEN 1 ELSE y.left
           x == [y EXCEPT !.type = "I", !.data = y.data, !.off = y.off + 1,
                          !.seq = Flip(y.seq), !.more = m, !.left = l, !.size = z]
<1>1. /\ a \in HostRecords /\ a.last = g.last
      /\ b \in HostRecords /\ b.next = y /\ b.last = y
  BY T1Ranges DEF HostRecords
<1>2. Processed(g, "frame", f) = NextIframe(b)
  <2>1. Processed(g, "frame", f) = Decode(a, f)
    BY DEF Processed
  <2> HIDE DEF a
  <2>2. Decode(a, f) = DecodeAck(a, f)
    BY DEF Decode, IsAck
  <2> QED
    BY <1>1, <2>1, <2>2 DEF DecodeAck
<1> HIDE DEF b
<1>3. NextIframe(b) = [b EXCEPT !.state = "IFRAME", !.next = x]
  BY <1>1 DEF NextIframe
<1>4. y \in Tx
  BY DEF HostRecords
<1> HIDE DEF y, m, l, z
<1>5. /\ x.type = "I" /\ x.data = y.data /\ x.off = y.off + 1 /\ x.seq = Flip(y.seq)
      /\ x.left = l /\ x.size = z
  BY <1>4 DEF Tx
<1>6. x.more = m
  BY <1>4 DEF Tx
<1> HIDE DEF x
<1>7. NextIframe(b).next = x /\ NextIframe(b).state = "IFRAME"
  BY <1>1, <1>3 DEF HostRecords
<1>8. T1Following(x, y)
  BY <1>5, <1>6, Zenon DEF T1Following, m, l, z
<1> QED
  BY <1>2, <1>7, <1>8 DEF y

\* The block after an announced one lies inside the command.
LEMMA T1WithinNext ==
  ASSUME NEW x \in Tx, NEW y \in Tx, T1Within(y), y.more, T1Following(x, y)
  PROVE  T1Within(x)
<1> SUFFICES ASSUME x.data # 0
             PROVE  IF x.more
                    THEN x.off + x.left + 1 = CmdLen[x.data] /\ x.left > 0 /\ x.size = 1
                    ELSE x.off + x.size <= CmdLen[x.data]
  BY DEF T1Within
<1>1. /\ y.off + y.left + 1 = CmdLen[y.data] /\ y.left > 0 /\ y.size = 1
      /\ x.data = y.data
  BY DEF T1Within, T1Following
<1>2. y.off \in Nat /\ y.left \in Nat
  BY DEF Tx
<1>3. /\ x.off = y.off + 1
      /\ x.left = IF y.left > 1 THEN y.left - 1 ELSE y.left
      /\ x.size = IF y.left > 1 THEN 1 ELSE y.left
  BY DEF T1Following
<1>4. x.more = (y.left > 1)
  BY DEF T1Following
<1>5. CASE y.left > 1
  <2>1. x.more
    BY <1>4, <1>5
  <2>2. x.off + x.left + 1 = CmdLen[x.data] /\ x.left > 0 /\ x.size = 1
    BY <1>1, <1>2, <1>3, <1>5
  <2> QED
    BY <2>1, <2>2
<1>6. CASE ~(y.left > 1)
  <2>1. ~x.more
    BY <1>4, <1>6
  <2>2. x.off + x.size <= CmdLen[x.data]
    BY <1>1, <1>2, <1>3, <1>6
  <2> QED
    BY <2>1, <2>2
<1> QED
  BY <1>5, <1>6

\* So does the first block of a command.
LEMMA T1WithinFirst ==
  ASSUME NEW g \in HostRecords, NEW c \in Cmds
  PROVE  /\ T1Within(SetIframe(g, c).next) /\ SetIframe(g, c).next.type = "I"
<1> DEFINE q == Flip(g.last.seq)
           n == CmdLen[c]
           m == n > 1
           l == IF n > 1 THEN n - 1 ELSE n
           z == IF n > 1 THEN 1 ELSE n
           x == [g.next EXCEPT !.type = "I", !.data = c, !.off = 0, !.seq = q,
                               !.more = m, !.left = l, !.size = z]
<1>1. g.next \in Tx /\ n \in Nat
  BY CommandsAssumption DEF HostRecords
<1>2. SetIframe(g, c) = [g EXCEPT !.state = "IFRAME", !.next = x]
  BY DEF SetIframe
<1> HIDE DEF m, l, z
<1>3. x.type = "I" /\ x.data = c /\ x.off = 0 /\ x.left = l /\ x.size = z
  BY <1>1 DEF Tx
<1>4. x.more = m
  BY <1>1 DEF Tx
<1> HIDE DEF x
<1>5. SetIframe(g, c).next = x
  BY <1>2 DEF HostRecords
<1>6. CASE n > 1
  <2>1. x.more
    BY <1>4, <1>6 DEF m
  <2>2. x.off + x.left + 1 = CmdLen[x.data] /\ x.left > 0 /\ x.size = 1
    BY <1>1, <1>3, <1>6 DEF l, z
  <2> QED
    BY <1>3, <1>5, <2>1, <2>2 DEF T1Within
<1>7. CASE ~(n > 1)
  <2>1. ~x.more
    BY <1>4, <1>7 DEF m
  <2>2. x.off + x.size <= CmdLen[x.data]
    BY <1>1, <1>3, <1>7 DEF l, z
  <2> QED
    BY <1>3, <1>5, <2>1, <2>2 DEF T1Within
<1> QED
  BY <1>6, <1>7

\* And a block sent again.
LEMMA T1WithinSame ==
  ASSUME NEW x \in Tx, NEW y \in Tx, T1Within(y), T1Same(x, y)
  PROVE  T1Within(x)
<1>1. /\ x.data = y.data /\ x.off = y.off /\ x.left = y.left /\ x.size = y.size
  BY DEF T1Same
<1>2. x.more = y.more
  BY DEF T1Same
<1> QED
  BY <1>1, <1>2, Zenon DEF T1Within

\* A card acknowledges a block when it accepts one that announces another, and repeats an
\* acknowledgement only while it expects the same number.
LEMMA T1CardNumbers ==
  ASSUME NEW k \in CardRecords, T1Says(k.last), T1Says(k.due), T1Numbers(k),
         NEW f \in Frames, f.type \in {"garbled", "I", "R", "S"}, NEW n \in CardTakes(k, f)
  PROVE  /\ T1Numbers(n)
         /\ Acks(n) => \/ Acks(k) /\ n.exp = k.exp
                       \/ f.type = "I" /\ f.seq = k.exp /\ f.more /\ n.exp = Flip(k.exp)
<1>1. /\ k.exp \in Bits /\ k.due \in Frames /\ k.last \in Frames
      /\ \A e \in {"parity", "other", "no"}, q \in Bits :
           /\ RFrame(q, e) \in Frames /\ RFrame(q, e).type = "R"
           /\ RFrame(q, e).seq = q /\ RFrame(q, e).err = e
      /\ NoFrame.type = "none"
  BY T1FrameKinds, T1Ranges DEF CardRecords
<1>2. CASE n = k
  BY <1>2
<1>3. CASE \E e \in {"parity", "other"} : n = Say(k, RFrame(k.exp, e))
  <2>1. PICK e \in {"parity", "other"} : n = Say(k, RFrame(k.exp, e))
    BY <1>3
  <2> DEFINE r == RFrame(k.exp, e)
  <2>2. r \in Frames
    BY <1>1
  <2> HIDE DEF r
  <2>3. n.last = r /\ n.due = NoFrame /\ n.exp = k.exp
    BY <2>1, <2>2, T1SayType DEF r
  <2> QED
    BY <1>1, <2>3 DEF T1Numbers, Acks, IsAck, r
<1>4. CASE k.last.type = "S" /\ n = Say(k, k.due)
  <2>1. n.last = k.due /\ n.due = NoFrame /\ n.exp = k.exp
    BY <1>1, <1>4, T1SayType
  <2> QED
    BY <1>1, <1>4, <2>1 DEF T1Numbers, Acks, IsAck
<1>5. CASE k.at > 0 /\ n = Say(k, ResponseBlock(k))
  <2>1. n.last.type = "I"
    BY <1>5, T1SayType, T1BlockType
  <2> QED
    BY <2>1 DEF T1Numbers, Acks, IsAck
<1>6. CASE n = Advance(k)
  <2>1. n.last.type = "I"
    BY <1>6, T1AdvanceType
  <2> QED
    BY <2>1 DEF T1Numbers, Acks, IsAck
<1>7. CASE /\ f.type = "I" /\ f.seq = k.exp /\ f.more
           /\ n = Say(T1Accepts(k, f), RFrame(T1Accepts(k, f).exp, "no"))
  <2>1. /\ T1Accepts(k, f) \in CardRecords /\ T1Accepts(k, f).exp = Flip(k.exp)
        /\ Flip(k.exp) \in Bits
    <3>1. Flip(k.exp) \in Bits
      BY <1>1, T1Ranges
    <3> QED
      BY <3>1, T1AcceptType, Zenon
  <2> DEFINE a == T1Accepts(k, f)
             r == RFrame(a.exp, "no")
  <2>2. r \in Frames /\ a \in CardRecords /\ n = Say(a, r)
    BY <1>1, <1>7, <2>1
  <2>3. n.last = r /\ n.exp = a.exp
    <3> HIDE DEF a, r
    <3> QED
      BY <2>2, T1SayType
  <2> QED
    BY <1>1, <1>7, <2>1, <2>3 DEF T1Numbers, Acks, IsAck
<1>8. CASE n = Advance([T1Accepts(k, f) EXCEPT !.run = Whole(T1Accepts(k, f).got),
                                               !.got = <<>>])
  <2>1. n.last.type = "I"
    BY <1>8, T1AcceptType, T1AdvanceType
  <2> QED
    BY <2>1 DEF T1Numbers, Acks, IsAck
<1> QED
  BY <1>2, <1>3, <1>4, <1>5, <1>6, <1>7, <1>8, T1CardCases

\* The initial state.
LEMMA T1AlignedInit ==
  ASSUME Init PROVE T1Aligned
<1>1. /\ FreshHost.next = FreshTx /\ FreshHost.last = FreshTx
      /\ FreshTx.type = "none" /\ FreshTx.data = 0
  BY DEF FreshHost, FreshTx
<1>2. card.last = NoFrame /\ NoFrame.type = "none"
  BY T1FreshCardType, T1FrameKinds DEF Init
<1> QED
  BY <1>1, <1>2
  DEF Init, T1Aligned, T1Turns, T1Reply, T1Numbers, T1AckMeans, T1Fresh, T1Within, Acks, IsAck

\* A command begins with no acknowledgement outstanding: an error would have been followed
\* by a reset, and a success is never reported on one.
LEMMA T1AlignedSubmit ==
  ASSUME T1Orderly, T1Kept, T1Aligned, NEW c \in Cmds, Submit(c) PROVE T1Aligned'
<1>1. /\ h \in HostRecords /\ ~Acks(card) /\ toCard = <<>>
      /\ pc' = "first" /\ card' = card /\ toCard' = toCard
      /\ h' \in {h, SetIframe(h, c)}
  BY DEF T1Orderly, T1Kept, T1TypeOK, T1Aligned, T1Turns, T1Fresh, Submit
<1>2. T1Within(h'.next) /\ T1Reply(h'.next)
  BY <1>1, T1WithinFirst DEF T1Aligned, T1Turns, T1Reply
<1> QED
  BY <1>1, <1>2 DEF T1Aligned, T1Turns, T1Numbers, T1AckMeans, T1Fresh

\* A frame is sent, spoiled or lost.
LEMMA T1AlignedSend ==
  ASSUME T1Orderly, T1Kept, T1Aligned, Send PROVE T1Aligned'
<1>1. /\ h \in HostRecords /\ h.state # "IDLE" /\ toCard = <<>>
      /\ pc' = "read" /\ card' = card
      /\ h'.next = h.next /\ h'.last = h.next
  BY T1SentType DEF T1Kept, T1TypeOK, T1Frames, T1Aligned, T1Turns, Send
<1>2. toCard' # <<>> /\ Head(toCard').type = "I" =>
        Head(toCard').seq = h'.next.seq /\ Head(toCard').more = h'.next.more
  <2>1. toCard' \in {<<>>, <<Outgoing(h)>>, <<Garbled>>}
    <3>1. \A f : Append(<<>>, f) = <<f>>
      OBVIOUS
    <3> QED
      BY <1>1, <3>1 DEF Send
  <2>2. /\ Head(<<Outgoing(h)>>) = Outgoing(h) /\ Head(<<Garbled>>) = Garbled
        /\ Garbled.type = "garbled"
    BY T1FrameKinds
  <2>3. Outgoing(h).type = "I" =>
          Outgoing(h).seq = h.next.seq /\ Outgoing(h).more = h.next.more
    BY <1>1, T1OutgoingType
  <2> QED
    BY <1>1, <2>1, <2>2, <2>3, Zenon
<1> QED
  BY <1>1, <1>2 DEF T1Aligned, T1Turns, T1Numbers, T1AckMeans, T1Fresh

\* A transfer fails.
LEMMA T1AlignedSendFails ==
  ASSUME T1Orderly, T1Kept, T1Aligned, SendFails PROVE T1Aligned'
<1>1. /\ toCard' = <<>> /\ pc' = "ready" /\ card' = card /\ result'.status = "error"
  BY DEF T1Aligned, T1Turns, SendFails, Error
<1>2. h'.next = h.next
  <2>1. Sent(h) \in HostRecords /\ Sent(h).next = h.next
    BY T1SentType DEF T1Kept, T1TypeOK
  <2>2. Collected([Sent(h) EXCEPT !.state = "IDLE"]).next = h.next
    BY <2>1 DEF Collected, HostRecords
  <2> QED
    BY <2>1, <2>2 DEF SendFails
<1> QED
  BY <1>1, <1>2 DEF T1Aligned, T1Turns, T1Numbers, T1AckMeans, T1Fresh

\* Something is read, or nothing.
LEMMA T1AlignedReceive ==
  ASSUME T1Orderly, T1Kept, T1Kept', T1Aligned,
         NEW got \in {"frame", "garbled", "nothing", "ioerror"}, Receive(got)
  PROVE  T1Aligned'
<1> DEFINE g == Processed(h, got, toHost)
<1>1. /\ h \in HostRecords /\ h.state # "IDLE" /\ h.last = h.next /\ T1Reply(h.next)
      /\ T1Within(h.next) /\ h.next \in Tx /\ h.next.seq \in Bits /\ pc = "read"
  BY DEF T1Kept, T1TypeOK, T1Frames, T1Aligned, T1Turns, Receive, HostRecords, Tx
<1>2. /\ toCard' = <<>> /\ card' = card
      /\ got = "frame" => toHost = card.last /\ toHost.type \in {"I", "R", "S"}
      /\ toHost \in Frames
      /\ toHost.type = "S" => toHost.sub \notin {"RESYNCH_REQ", "RESYNCH_RSP", "ABORT_RES"}
  <2>1. toCard = <<>> /\ toCard' = toCard /\ card' = card
    BY DEF T1Orderly, Receive
  <2>2. /\ toHost \in {NoFrame, card.last} /\ T1Says(card.last) /\ toHost \in Frames
        /\ got = "frame" => toHost # NoFrame
    BY DEF T1Kept, T1TypeOK, T1Frames, Receive, Read
  <2>3. toHost.type = "S" => toHost.sub \in CardS
    BY <2>2, T1FrameKinds DEF T1Aligned, T1Numbers
  <2> QED
    BY <2>1, <2>2, <2>3 DEF T1Says, T1Orderly
<1>3. g \in HostRecords
  BY <1>1, <1>2, T1ProcessedType
<1>4. /\ IF g.state # "IDLE" THEN h' = g /\ pc' = "send" /\ UNCHANGED result
         ELSE h' = Collected(g) /\ pc' = "ready" /\ result' = Returned(g, got)
  BY DEF Receive, GoesOn
<1>5. h'.next = g.next /\ g.next \in Tx
  BY <1>3, <1>4 DEF Collected, HostRecords
<1>6. CASE got = "frame" /\ IsAck(toHost) /\ toHost.seq # h.last.seq
  <2>1. T1Following(g.next, h.next) /\ g.state = "IFRAME"
    BY <1>1, <1>2, <1>6, T1NextProcessed
  <2>2. h.next.more /\ card.exp = toHost.seq /\ card.exp \in Bits
    <3>1. card.exp \in Bits
      BY DEF T1Kept, T1TypeOK, CardRecords
    <3>2. card.exp = toHost.seq /\ Acks(card)
      BY <1>2, <1>6 DEF T1Aligned, T1Numbers, Acks, IsAck
    <3>3. card.exp # h.next.seq
      BY <1>1, <1>6, <3>2
    <3> QED
      BY <3>1, <3>2, <3>3 DEF T1Aligned, T1AckMeans
  <2>3. T1Within(h'.next)
    BY <1>1, <1>5, <2>1, <2>2, T1WithinNext
  <2>4. h'.next.seq = card.exp /\ h'.next.type = "I"
    <3>1. h'.next.seq = Flip(h.next.seq) /\ h'.next.type = "I"
      BY <1>5, <2>1 DEF T1Following
    <3>2. toHost.seq # h.next.seq
      BY <1>1, <1>6
    <3> QED
      BY <1>1, <2>2, <3>1, <3>2 DEF Bits, Flip
  <2>5. pc' = "send"
    BY <1>4, <2>1
  <2> QED
    BY <1>2, <2>3, <2>4, <2>5
    DEF T1Aligned, T1Turns, T1Reply, T1Numbers, T1AckMeans, T1Fresh
<1>7. CASE ~(got = "frame" /\ IsAck(toHost) /\ toHost.seq # h.last.seq)
  <2>1. /\ T1Steady(h, g)
        /\ got = "frame" /\ (toHost.type = "S" \/ IsAck(toHost)) => g.state # "IDLE"
    BY <1>1, <1>2, <1>7, T1SteadyProcessed
  <2> HIDE DEF g
  <2>2. T1Within(h'.next) /\ T1Reply(h'.next) /\ T1Same(h'.next, h.next)
    BY <1>1, <1>5, <2>1, T1WithinSame DEF T1Steady
  <2>3. T1Fresh'
    <3> SUFFICES ASSUME pc' = "ready", result'.status # "error" PROVE ~Acks(card')
      BY DEF T1Fresh
    <3>1. g.state = "IDLE" /\ result' = Returned(g, got)
      BY <1>4
    <3>2. got = "frame"
      BY <3>1 DEF Returned, Error
    <3> QED
      BY <1>2, <2>1, <3>1, <3>2 DEF Acks
  <2>4. T1AckMeans(card)'
    <3>1. h'.next.seq = h.next.seq
      BY <2>2 DEF T1Same
    <3>2. h'.next.more = h.next.more
      BY <2>2 DEF T1Same
    <3> QED
      BY <1>2, <3>1, <3>2 DEF T1Aligned, T1AckMeans
  <2>5. pc' # "read"
    BY <1>4
  <2> QED
    BY <1>2, <2>2, <2>3, <2>4, <2>5 DEF T1Aligned, T1Turns, T1Numbers
<1> QED
  BY <1>6, <1>7

\* A sequence of one frame has an empty rest.
LEMMA T1SingleTail ==
  ASSUME NEW s \in Seq(Frames), s # <<>>, Len(s) <= 1
  PROVE  Tail(s) = <<>>
<1>1. Len(s) \in Nat \ {0} /\ Tail(s) \in Seq(Frames) /\ Len(Tail(s)) = Len(s) - 1
  BY EmptySeq, HeadTailProperties
<1>2. Len(Tail(s)) = 0
  BY <1>1
<1> QED
  BY <1>1, <1>2, EmptySeq

\* The card takes up the frame, and answers it or asks for something.
LEMMA T1AlignedCard ==
  ASSUME T1Orderly, T1Kept, T1Aligned, toCard # <<>>, toCard' = Tail(toCard),
         NEW k \in CardTakes(card, Head(toCard)), h' = h, pc' = pc,
         \/ card' = k
         \/ \E sub \in CardS : card' = [k EXCEPT !.last = SFrame(sub), !.due = k.last]
  PROVE  T1Aligned'
<1>1. /\ card \in CardRecords /\ T1Says(card.last) /\ T1Says(card.due) /\ T1Numbers(card)
      /\ Head(toCard) \in Frames /\ Head(toCard).type \in {"garbled", "I", "R", "S"}
      /\ card.exp \in Bits /\ h.next.seq \in Bits
  BY T1TakenType DEF T1Kept, T1TypeOK, T1Frames, T1Aligned, CardRecords, HostRecords, Tx
<1>2. pc = "read" /\ toCard' = <<>>
  <2>1. toCard \in Seq(Frames) /\ Len(toCard) <= 1
    BY DEF T1Kept, T1TypeOK, MaxQueue, T1Orderly
  <2>3. Tail(toCard) = <<>>
    BY <2>1, T1SingleTail
  <2>4. pc = "read"
    BY DEF T1Aligned, T1Turns
  <2> QED
    BY <2>3, <2>4
<1>3. /\ k \in CardRecords /\ T1Says(k.last) /\ T1Numbers(k)
  BY <1>1, T1CardType, T1CardNumbers
<1>4. T1AckMeans(k)
  <2> SUFFICES ASSUME Acks(k), k.exp # h.next.seq PROVE h.next.more
    BY DEF T1AckMeans
  <2> DEFINE f == Head(toCard)
  <2>1. \/ Acks(card) /\ k.exp = card.exp
        \/ f.type = "I" /\ f.seq = card.exp /\ f.more /\ k.exp = Flip(card.exp)
    BY <1>1, T1CardNumbers
  <2>2. f.type = "I" => f.more = h.next.more
    BY DEF T1Aligned, T1Turns
  <2> HIDE DEF f
  <2>3. CASE Acks(card) /\ k.exp = card.exp
    BY <2>3 DEF T1Aligned, T1AckMeans
  <2>4. CASE f.type = "I" /\ f.more
    BY <2>2, <2>4
  <2> QED
    BY <2>1, <2>3, <2>4
<1>5. T1Numbers(card') /\ T1AckMeans(card)'
  <2>1. CASE card' = k
    BY <1>3, <1>4, <2>1 DEF T1AckMeans
  <2>2. CASE \E sub \in CardS : card' = [k EXCEPT !.last = SFrame(sub), !.due = k.last]
    <3>1. PICK sub \in CardS : card' = [k EXCEPT !.last = SFrame(sub), !.due = k.last]
      BY <2>2
    <3> DEFINE n == [k EXCEPT !.last = SFrame(sub), !.due = k.last]
    <3>2. n.last = SFrame(sub) /\ n.due = k.last /\ n.exp = k.exp
      BY <1>3, T1AskType
    <3>3. SFrame(sub).type = "S" /\ SFrame(sub).sub = sub
      BY T1FrameKinds, T1Ranges
    <3>4. card' = n
      BY <3>1
    <3> HIDE DEF n
    <3>5. T1Numbers(n) /\ (Acks(n) => Acks(k))
      BY <1>3, <3>2, <3>3 DEF T1Numbers, Acks, IsAck
    <3> QED
      BY <1>4, <3>2, <3>4, <3>5 DEF T1AckMeans
  <2> QED
    BY <2>1, <2>2
<1> QED
  BY <1>2, <1>5 DEF T1Aligned, T1Turns, T1Fresh, T1Numbers

\* The interface is reset.
LEMMA T1AlignedReset ==
  ASSUME T1Orderly, T1Kept, T1Aligned, ResetInterface \/ ResetProtocol PROVE T1Aligned'
<1>1. ResetInterface
  BY DEF T1Orderly, ResetProtocol
<1>2. h'.next.type = "none" /\ h'.next.data = 0
  <2> DEFINE n == [h.next EXCEPT !.type = "none", !.data = 0, !.seq = 1]
             l == [h.last EXCEPT !.type = "none", !.data = 0, !.seq = 1]
             r == [h EXCEPT !.state = "IDLE", !.rx = 1, !.recovery = 0, !.timeout = 0,
                            !.rnack = 0, !.lastFrame = "none", !.next = n, !.last = l]
  <2>1. n.type = "none" /\ n.data = 0 /\ h \in HostRecords
    BY DEF T1Kept, T1TypeOK, HostRecords, Tx
  <2>2. h' = r
    BY <1>1 DEF ResetInterface, ResetParams
  <2> HIDE DEF n, l
  <2>3. r.next = n
    BY <2>1 DEF HostRecords
  <2> QED
    BY <2>1, <2>2, <2>3
<1>3. /\ card'.last = NoFrame /\ NoFrame.type = "none" /\ toCard' = <<>> /\ pc' = "ready"
  BY <1>1, T1FreshCardType, T1FrameKinds DEF ResetInterface
<1> QED
  BY <1>2, <1>3
  DEF T1Aligned, T1Turns, T1Reply, T1Numbers, T1AckMeans, T1Fresh, T1Within, Acks, IsAck

\* Every step keeps host and card aligned.
LEMMA T1AlignedStep ==
  ASSUME T1Orderly, T1Kept, T1Kept', T1Aligned, [Next]_vars PROVE T1Aligned'
<1>1. CASE Host
  BY <1>1, T1AlignedSend, T1AlignedSendFails, T1AlignedReceive
  DEF Host, T1Orderly, ReceiveUnstored
<1>2. CASE CardAnswers
  <2>1. PICK k \in CardTakes(card, Head(toCard)) : card' = k
    BY <1>2 DEF CardAnswers
  <2> QED
    BY <1>2, <2>1, T1AlignedCard DEF CardAnswers
<1>3. CASE \E sub \in CardS : CardAsks(sub)
  <2>1. PICK sub \in CardS : CardAsks(sub)
    BY <1>3
  <2>2. PICK k \in CardTakes(card, Head(toCard)) :
          card' = [k EXCEPT !.last = SFrame(sub), !.due = k.last]
    BY <2>1 DEF CardAsks
  <2> QED
    BY <2>1, <2>2, T1AlignedCard DEF CardAsks
<1>4. CASE ResetInterface \/ ResetProtocol
  BY <1>4, T1AlignedReset
<1>5. CASE \E c \in Cmds : Submit(c)
  BY <1>5, T1AlignedSubmit
<1>6. CASE UNCHANGED vars
  BY <1>6 DEF vars, T1Aligned, T1Turns, T1Reply, T1Numbers, T1AckMeans, T1Fresh, T1Within,
              Acks, IsAck
<1> QED
  BY <1>1, <1>2, <1>3, <1>4, <1>5, <1>6 DEF Next, Card

\* Alignment keeps the offset inside the command.
LEMMA T1AlignedBlocks ==
  ASSUME T1Kept, T1Aligned PROVE WithinBounds
<1> SUFFICES ASSUME h.next.data # 0
             PROVE  h.next.off <= CmdLen[h.next.data] - h.next.size
  BY DEF WithinBounds, BlocksInsideCommand, T1Kept
<1>1. /\ h.next \in Tx /\ h.next.off \in Nat /\ h.next.left \in Nat /\ h.next.size \in {0, 1}
      /\ h.next.data \in Cmds
  BY DEF T1Kept, T1TypeOK, HostRecords, Tx, Bits
<1>2. CmdLen[h.next.data] \in Nat
  BY <1>1, CommandsAssumption
<1>3. CASE h.next.more
  <2>1. h.next.off + h.next.left + 1 = CmdLen[h.next.data] /\ h.next.size = 1
    BY <1>3 DEF T1Aligned, T1Within
  <2> QED
    BY <1>1, <1>2, <2>1
<1>4. CASE ~h.next.more
  <2>1. h.next.off + h.next.size <= CmdLen[h.next.data]
    BY <1>4 DEF T1Aligned, T1Within
  <2> QED
    BY <1>1, <1>2, <2>1
<1> QED
  BY <1>3, <1>4

\* With an orderly card and caller, send_iframe never copies from beyond the command's
\* buffer and no counter passes its limit, for commands of any length and however many
\* frames are spoiled and transfers fail.
THEOREM T1BoundsSafety == T1Orderly => (Spec => []WithinBounds)
<1> SUFFICES ASSUME T1Orderly PROVE Spec => []WithinBounds
  OBVIOUS
<1>1. Init => T1Kept /\ T1Aligned
  BY T1KeptInit, T1AlignedInit
<1>2. T1Kept /\ T1Aligned /\ [Next]_vars => T1Kept' /\ T1Aligned'
  BY T1KeptStep, T1AlignedStep
<1>3. T1Kept /\ T1Aligned => WithinBounds
  BY T1AlignedBlocks
<1> QED
  BY <1>1, <1>2, <1>3, PTL DEF Spec

(***************************************************************************)
(* T=1: a command is run at most once.                                     *)
(***************************************************************************)

\* A card in the middle of a command has no response to send.
T1Idle(k) ==
    k.got # <<>> =>
        k.at = 0 /\ k.last.type # "I" /\ ~(k.last.type = "S" /\ k.due.type = "I")

\* A block that announces no other is the last one of its command.
T1Exact(x) == x.data # 0 /\ ~x.more => x.off + x.size = CmdLen[x.data]

\* How far the card (k) is with command c, of which the host last prepared block x: it waits
\* for the block; it has taken it and waits for the next one; it has run the command; or
\* the two sides are out of step and the card will not take a block of this command.
T1Place(k, x, c, r) ==
    \/ k.exp = x.seq /\ r = <<>> /\ k.got = Blocks(c, x.off)
    \/ k.exp # x.seq /\ x.more /\ r = <<>> /\ k.got = Blocks(c, x.off + 1)
    \/ k.exp # x.seq /\ ~x.more /\ r = <<c>> /\ k.got = <<>>
    \/ k.exp # x.seq /\ r = <<>> /\ k.got = <<>> /\ ~Acks(k)

\* The state of the machine is that of the frame in next_tx.
T1Typed(g) == g.state = "IFRAME" <=> g.next.type = "I"

T1Where ==
    pc # "ready" =>
        cmd \in Cmds /\ h.next.data = cmd /\ T1Typed(h) /\ T1Place(card, h.next, cmd, ran)

\* An I-frame under way is the block of next_tx.
T1Carries ==
    toCard # <<>> /\ Head(toCard).type = "I" =>
        Head(toCard).body = <<h.next.data, h.next.off>> /\ h.next.size = 1 /\ h.next.type = "I"

\* Once a block of a response has come in, the host sends no I-frame again.
T1Heard ==
    h.recv # <<>> =>
        /\ pc \in {"read", "send"} /\ card.got = <<>> /\ h.next.type # "I"
        /\ pc = "read" => h.lastFrame # "I"
        /\ pc = "send" => h.lastFrame # "I" \/ (h.next.type = "R" /\ h.next.err = "no")

\* Between two calls nothing of a command is left in the card.
T1Rest ==
    pc = "ready" /\ result.status # "error" =>
        h.state = "IDLE" /\ card.got = <<>> /\ h.next.seq = h.last.seq

\* The card runs the command of the call, and runs it once.
T1AtMostOnce == ran \in {<<>>, <<cmd>>}

T1Once ==
    /\ T1Idle(card) /\ T1Exact(h.next) /\ T1Where /\ T1Carries /\ T1Heard /\ T1Rest
    /\ T1AtMostOnce

\* The card's buffer takes any command.
LEMMA T1Longest ==
  LongestCmd \in Nat /\ \A c \in Cmds : CmdLen[c] <= LongestCmd
<1>1. PICK c \in Cmds : \A d \in Cmds : CmdLen[d] <= CmdLen[c]
  BY LongestAssumption
<1>2. \E n \in {CmdLen[e] : e \in Cmds} : \A d \in Cmds : CmdLen[d] <= n
  BY <1>1
<1>3. /\ LongestCmd \in {CmdLen[e] : e \in Cmds}
      /\ \A d \in Cmds : CmdLen[d] <= LongestCmd
  BY <1>2 DEF LongestCmd
<1> QED
  BY <1>3, CommandsAssumption

\* The blocks of a command, one after the other.
LEMMA T1Blocks ==
  ASSUME NEW c \in Cmds, NEW n \in Nat
  PROVE  /\ Blocks(c, n) \in Seq(Body) /\ Len(Blocks(c, n)) = n
         /\ Append(Blocks(c, n), <<c, n>>) = Blocks(c, n + 1)
         /\ (Blocks(c, n) = <<>> <=> n = 0)
         /\ Blocks(c, 0) = <<>>
         /\ n > 0 => Blocks(c, n)[1] = <<c, 0>>
<1>1. c \in Nat
  BY CommandsAssumption
<1>2. ASSUME NEW m \in Nat
      PROVE  /\ Blocks(c, m) \in Seq(Body) /\ Len(Blocks(c, m)) = m
             /\ \A i \in 1..m : Blocks(c, m)[i] = <<c, i - 1>>
  <2>1. Blocks(c, m) = [i \in 1..m |-> <<c, i - 1>>]
    BY DEF Blocks
  <2>2. \A i \in 1..m : <<c, i - 1>> \in Body
    BY <1>1 DEF Body
  <2>3. Blocks(c, m) \in [1..m -> Body]
    BY <2>1, <2>2
  <2>4. Blocks(c, m) \in Seq(Body) /\ Len(Blocks(c, m)) = m
    BY <2>3, SeqDef, LenProperties
  <2> QED
    BY <2>1, <2>4
<1>3. Blocks(c, n) \in Seq(Body) /\ Len(Blocks(c, n)) = n
  BY <1>2
<1>4. n + 1 \in Nat /\ <<c, n>> \in Body
  BY <1>1 DEF Body
<1>5. Append(Blocks(c, n), <<c, n>>) = Blocks(c, n + 1)
  <2> DEFINE s == Blocks(c, n)
             t == Blocks(c, n + 1)
  <2>1. /\ s \in Seq(Body) /\ Len(s) = n /\ t \in Seq(Body) /\ Len(t) = n + 1
        /\ \A i \in 1..n : s[i] = <<c, i - 1>>
        /\ \A i \in 1..n + 1 : t[i] = <<c, i - 1>>
    BY <1>2, <1>4
  <2> HIDE DEF s, t
  <2>2. /\ Append(s, <<c, n>>) \in Seq(Body) /\ Len(Append(s, <<c, n>>)) = n + 1
        /\ \A i \in 1..n : Append(s, <<c, n>>)[i] = s[i]
        /\ Append(s, <<c, n>>)[n + 1] = <<c, n>>
    BY <1>4, <2>1, AppendProperties
  <2>3. \A i \in 1..n + 1 : Append(s, <<c, n>>)[i] = t[i]
    <3> SUFFICES ASSUME NEW i \in 1..n + 1 PROVE Append(s, <<c, n>>)[i] = t[i]
      OBVIOUS
    <3>1. CASE i \in 1..n
      BY <2>1, <2>2, <3>1
    <3>2. CASE i = n + 1
      BY <2>1, <2>2, <3>2
    <3>3. i \in 1..n \/ i = n + 1
      OBVIOUS
    <3> QED
      BY <3>1, <3>2, <3>3
  <2>4. Append(s, <<c, n>>) = t
    BY <2>1, <2>2, <2>3, SeqEqual
  <2> QED
    BY <2>4 DEF s, t
<1>6. (Blocks(c, n) = <<>> <=> n = 0) /\ Blocks(c, 0) = <<>>
  BY <1>2, <1>3, EmptySeq
<1>7. n > 0 => Blocks(c, n)[1] = <<c, 0>>
  <2>1. n > 0 => 1 \in 1..n /\ 1 - 1 = 0
    OBVIOUS
  <2> QED
    BY <1>2, <2>1
<1> QED
  BY <1>3, <1>5, <1>6, <1>7

\* A card that has all blocks of a command runs that command.
LEMMA T1WholeIs ==
  ASSUME NEW c \in Cmds, CmdLen[c] > 0
  PROVE  Whole(Blocks(c, CmdLen[c])) = c
<1>1. CmdLen[c] \in Nat
  BY CommandsAssumption
<1>2. Blocks(c, CmdLen[c])[1] = <<c, 0>>
  BY <1>1, T1Blocks
<1> QED
  BY <1>2 DEF Whole

\* Saying something and going on with a response leave the rest of the card alone.
LEMMA T1SayKeeps ==
  ASSUME NEW k \in CardRecords, NEW f \in Frames
  PROVE  /\ Say(k, f).got = k.got /\ Say(k, f).at = k.at
         /\ Advance(k).got = k.got /\ Advance(k).run = k.run
<1>1. Say(k, f).got = k.got /\ Say(k, f).at = k.at
  BY T1FrameKinds DEF Say, CardRecords
<1> DEFINE n == [k EXCEPT !.seq = Flip(k.seq), !.at = k.at + 1]
<1>2. n.got = k.got /\ n.run = k.run
  BY DEF CardRecords
<1>3. n \in CardRecords
  <2>1. Flip(k.seq) \in Bits /\ k.at + 1 \in Nat
    BY T1Ranges DEF CardRecords
  <2> QED
    BY <2>1 DEF CardRecords
<1>4. Advance(k) = [n EXCEPT !.last = ResponseBlock(n)]
  BY DEF Advance
<1> HIDE DEF n
<1>5. Advance(k).got = k.got /\ Advance(k).run = k.run
  BY <1>2, <1>3, <1>4 DEF CardRecords
<1> QED
  BY <1>1, <1>5

\* What a card has after it has accepted a block, and after it has run the command.
LEMMA T1AcceptGot ==
  ASSUME NEW k \in CardRecords, NEW f \in Frames, NEW t,
         t = IF Len(k.got) < LongestCmd THEN Append(k.got, f.body) ELSE <<f.body>>
  PROVE  /\ T1Accepts(k, f).got = t /\ T1Accepts(k, f).at = 0
         /\ [T1Accepts(k, f) EXCEPT !.run = Whole(T1Accepts(k, f).got), !.got = <<>>].got
              = <<>>
         /\ [T1Accepts(k, f) EXCEPT !.run = Whole(T1Accepts(k, f).got), !.got = <<>>].run
              = Whole(t)
<1> DEFINE n == T1Accepts(k, f)
<1>1. n = [k EXCEPT !.exp = Flip(k.exp), !.run = 0, !.at = 0, !.got = t]
  BY DEF T1Accepts
<1>2. n \in CardRecords
  BY T1AcceptType
<1>3. n.got = t /\ n.at = 0
  BY <1>1 DEF CardRecords
<1> HIDE DEF n
<1>4. /\ [n EXCEPT !.run = Whole(n.got), !.got = <<>>].got = <<>>
      /\ [n EXCEPT !.run = Whole(n.got), !.got = <<>>].run = Whole(n.got)
  BY <1>2 DEF CardRecords
<1> QED
  BY <1>3, <1>4 DEF n

\* The ways a card may take a frame that is not the block it expects.
LEMMA T1CardRefuses ==
  ASSUME NEW k \in CardRecords, NEW f \in Frames, f.type \in {"garbled", "I", "R", "S"},
         ~(f.type = "I" /\ f.seq = k.exp), NEW n \in CardTakes(k, f)
  PROVE  \/ n = k
         \/ \E e \in {"parity", "other"} : n = Say(k, RFrame(k.exp, e))
         \/ k.last.type = "S" /\ n = Say(k, k.due)
         \/ k.at > 0 /\ n = Say(k, ResponseBlock(k))
         \/ k.at > 0 /\ n = Advance(k)
<1>1. CASE f.type = "garbled"
  BY <1>1 DEF CardTakes, OnGarbled
<1>2. CASE f.type = "I"
  <2>1. n \in OnI(k, f)
    BY <1>2 DEF CardTakes
  <2> QED
    BY <1>2, <2>1, Zenon DEF OnI
<1>3. CASE f.type = "R"
  <2>1. n \in OnR(k, f)
    BY <1>3 DEF CardTakes
  <2> QED
    BY <2>1 DEF OnR
<1>4. CASE f.type = "S"
  <2>1. n \in OnS(k, f)
    BY <1>4 DEF CardTakes
  <2>2. SFrame("WTX_REQ").type = "S"
    BY DEF SFrame, Frame
  <2> QED
    BY <2>1, <2>2 DEF OnS
<1> QED
  BY <1>1, <1>2, <1>3, <1>4

\* It neither loses nor gains a block of a command by it.
LEMMA T1CardStays ==
  ASSUME NEW k \in CardRecords, T1Says(k.last), T1Says(k.due), T1Idle(k),
         NEW f \in Frames, f.type \in {"garbled", "I", "R", "S"},
         ~(f.type = "I" /\ f.seq = k.exp), NEW n \in CardTakes(k, f)
  PROVE  n.exp = k.exp /\ n.got = k.got /\ T1Idle(n)
<1>1. /\ k.exp \in Bits /\ k.due \in Frames
      /\ \A e \in {"parity", "other"} :
           RFrame(k.exp, e) \in Frames /\ RFrame(k.exp, e).type = "R"
      /\ NoFrame.type = "none"
  BY T1FrameKinds, T1Ranges DEF CardRecords
<1>2. CASE n = k
  BY <1>2
<1>3. CASE \E e \in {"parity", "other"} : n = Say(k, RFrame(k.exp, e))
  <2>1. PICK e \in {"parity", "other"} : n = Say(k, RFrame(k.exp, e))
    BY <1>3
  <2> DEFINE r == RFrame(k.exp, e)
  <2>2. r \in Frames /\ r.type = "R" /\ n = Say(k, r)
    BY <1>1, <2>1
  <2> HIDE DEF r
  <2> QED
    BY <1>1, <2>2, T1SayType, T1SayKeeps DEF T1Idle
<1>4. CASE k.last.type = "S" /\ n = Say(k, k.due)
  BY <1>1, <1>4, T1SayType, T1SayKeeps DEF T1Idle
<1>5. CASE k.at > 0 /\ n = Say(k, ResponseBlock(k))
  <2>1. ResponseBlock(k) \in Frames
    BY <1>5, T1BlockType
  <2>2. k.got = <<>>
    BY <1>5 DEF T1Idle
  <2> QED
    BY <1>5, <2>1, <2>2, T1SayType, T1SayKeeps DEF T1Idle
<1>6. CASE k.at > 0 /\ n = Advance(k)
  <2>1. k.got = <<>>
    BY <1>6 DEF T1Idle
  <2> QED
    BY <1>1, <1>6, <2>1, T1AdvanceType, T1SayKeeps DEF T1Idle
<1> QED
  BY <1>2, <1>3, <1>4, <1>5, <1>6, T1CardRefuses

\* A card that waits for the block it gets has one block more, or runs the command.
LEMMA T1CardAccepts ==
  ASSUME NEW k \in CardRecords, NEW f \in Frames, f.type = "I", f.seq = k.exp,
         NEW n \in CardTakes(k, f), NEW c \in Cmds, NEW o \in Nat, o < CmdLen[c],
         k.got = Blocks(c, o), f.body = <<c, o>>
  PROVE  /\ n.exp = Flip(k.exp) /\ T1Idle(n)
         /\ f.more => n.got = Blocks(c, o + 1)
         /\ ~f.more => n.got = <<>>
         /\ ~f.more /\ o + 1 = CmdLen[c] => n.run = c
<1> DEFINE a == T1Accepts(k, f)
           b == [T1Accepts(k, f) EXCEPT !.run = Whole(T1Accepts(k, f).got), !.got = <<>>]
<1>1. n = IF f.more THEN Say(a, RFrame(a.exp, "no")) ELSE Advance(b)
  <2>1. n \in OnI(k, f)
    BY DEF CardTakes
  <2> QED
    BY <2>1, Zenon DEF OnI, T1Accepts
<1>2. CmdLen[c] \in Nat /\ CmdLen[c] <= LongestCmd /\ LongestCmd \in Nat
  BY CommandsAssumption, T1Longest
<1>3. a.got = Blocks(c, o + 1) /\ a.at = 0 /\ b.got = <<>> /\ b.run = Whole(Blocks(c, o + 1))
  <2>1. Len(k.got) < LongestCmd
    <3>1. Len(Blocks(c, o)) = o
      BY T1Blocks
    <3>2. Len(k.got) = o
      BY <3>1
    <3> QED
      BY <1>2, <3>2
  <2>2. Append(k.got, f.body) = Blocks(c, o + 1)
    BY T1Blocks
  <2>3. Blocks(c, o + 1) =
          IF Len(k.got) < LongestCmd THEN Append(k.got, f.body) ELSE <<f.body>>
    BY <2>1, <2>2
  <2> QED
    BY <2>3, T1AcceptGot
<1>4. a \in CardRecords /\ b \in CardRecords /\ a.exp = Flip(k.exp) /\ b.exp = Flip(k.exp)
  BY T1AcceptType
<1>5. RFrame(a.exp, "no") \in Frames /\ RFrame(a.exp, "no").type = "R"
  <2>1. a.exp \in Bits
    BY <1>4 DEF CardRecords
  <2> HIDE DEF a
  <2> QED
    BY <2>1, T1FrameKinds, T1Ranges
<1> HIDE DEF a, b
<1>6. CASE f.more
  <2> DEFINE r == RFrame(a.exp, "no")
  <2>1. n = Say(a, r) /\ r \in Frames /\ r.type = "R"
    BY <1>1, <1>5, <1>6
  <2> HIDE DEF r
  <2> QED
    BY <1>3, <1>4, <1>6, <2>1, T1SayType, T1SayKeeps DEF T1Idle
<1>7. CASE ~f.more
  <2>1. n = Advance(b)
    BY <1>1, <1>7
  <2>2. n.got = <<>> /\ n.run = Whole(Blocks(c, o + 1)) /\ n.exp = Flip(k.exp)
    BY <1>3, <1>4, <1>5, <2>1, T1AdvanceType, T1SayKeeps
  <2>3. o + 1 = CmdLen[c] => n.run = c
    BY <1>2, <2>2, T1WholeIs
  <2> QED
    BY <1>7, <2>2, <2>3 DEF T1Idle
<1> QED
  BY <1>6, <1>7

\* What the card has run once it has taken a frame.
T1RanAfter(k) == IF Executes(card, Head(toCard)) THEN Append(ran, k.run) ELSE ran

\* The card takes up the frame: it accepts the block it waits for, or stays where it is.
LEMMA T1OnceTakes ==
  ASSUME T1Orderly, T1Kept, T1Aligned, T1Once, toCard # <<>>,
         NEW k \in CardTakes(card, Head(toCard))
  PROVE  /\ T1Idle(k) /\ T1Place(k, h.next, cmd, T1RanAfter(k))
         /\ h.recv # <<>> => k.got = <<>>
<1> DEFINE f == Head(toCard)
           x == h.next
<1>1. /\ card \in CardRecords /\ T1Says(card.last) /\ T1Says(card.due) /\ T1Numbers(card)
      /\ T1Idle(card) /\ f \in Frames /\ f.type \in {"garbled", "I", "R", "S"}
  BY T1TakenType DEF T1Kept, T1TypeOK, T1Frames, T1Aligned, T1Once
<1>2. /\ x \in Tx /\ x.seq \in Bits /\ x.off \in Nat /\ x.left \in Nat /\ card.exp \in Bits
  BY DEF T1Kept, T1TypeOK, HostRecords, CardRecords, Tx
<1>3. /\ pc = "read" /\ cmd \in Cmds /\ x.data = cmd /\ T1Place(card, x, cmd, ran)
      /\ CmdLen[cmd] \in Nat /\ cmd # 0
  BY CommandsAssumption DEF T1Aligned, T1Turns, T1Once, T1Where
<1>4. CASE f.type = "I" /\ f.seq = card.exp
  <2>1. /\ card.exp = x.seq /\ f.body = <<cmd, x.off>> /\ x.size = 1 /\ x.type = "I"
    BY <1>3, <1>4 DEF T1Aligned, T1Turns, T1Once, T1Carries
  <2>2. f.more = x.more
    BY <1>4 DEF T1Aligned, T1Turns
  <2>3. ran = <<>> /\ card.got = Blocks(cmd, x.off)
    BY <1>3, <2>1 DEF T1Place
  <2>4. x.off < CmdLen[cmd] /\ (~x.more => x.off + 1 = CmdLen[cmd])
    BY <1>2, <1>3, <2>1 DEF T1Aligned, T1Within, T1Once, T1Exact
  <2>5. h.recv = <<>>
    BY <2>1 DEF T1Once, T1Heard
  <2>6. k.exp # x.seq
    <3>1. k.exp = Flip(card.exp)
      BY <1>1, <1>2, <1>3, <1>4, <2>1, <2>3, <2>4, T1CardAccepts
    <3> QED
      BY <1>2, <2>1, <3>1, T1Ranges
  <2>7. /\ T1Idle(k)
        /\ f.more => k.got = Blocks(cmd, x.off + 1)
        /\ ~f.more => k.got = <<>>
        /\ ~f.more /\ x.off + 1 = CmdLen[cmd] => k.run = cmd
    BY <1>1, <1>2, <1>3, <1>4, <2>1, <2>3, <2>4, T1CardAccepts
  <2>8. CASE x.more
    <3>1. T1RanAfter(k) = <<>>
      BY <2>2, <2>3, <2>8 DEF T1RanAfter, Executes
    <3> QED
      BY <2>2, <2>5, <2>6, <2>7, <2>8, <3>1 DEF T1Place
  <2>9. CASE ~x.more
    <3>1. k.run = cmd /\ k.got = <<>>
      BY <2>2, <2>4, <2>7, <2>9
    <3>2. T1RanAfter(k) = <<cmd>>
      <4>1. T1RanAfter(k) = Append(<<>>, cmd)
        BY <1>4, <2>2, <2>3, <2>9, <3>1 DEF T1RanAfter, Executes
      <4> QED
        BY <4>1
    <3> QED
      BY <2>5, <2>6, <2>7, <2>9, <3>1, <3>2 DEF T1Place
  <2> QED
    BY <2>8, <2>9
<1>5. CASE ~(f.type = "I" /\ f.seq = card.exp)
  <2>1. k.exp = card.exp /\ k.got = card.got /\ T1Idle(k)
    BY <1>1, <1>5, T1CardStays
  <2>2. Acks(k) => Acks(card)
    BY <1>1, <1>5, T1CardNumbers
  <2>3. T1RanAfter(k) = ran
    BY <1>5 DEF T1RanAfter, Executes
  <2>4. T1Place(k, x, cmd, ran)
    <3> HIDE DEF x
    <3> QED
      BY <1>3, <2>1, <2>2 DEF T1Place
  <2> QED
    BY <2>1, <2>3, <2>4 DEF T1Once, T1Heard
<1> QED
  BY <1>4, <1>5

\* Then it answers, or asks for something first.
LEMMA T1OnceCard ==
  ASSUME T1Orderly, T1Kept, T1Aligned, T1Once, toCard # <<>>, toCard' = Tail(toCard),
         NEW k \in CardTakes(card, Head(toCard)),
         h' = h, pc' = pc, cmd' = cmd, result' = result,
         \/ card' = k
         \/ \E sub \in CardS : card' = [k EXCEPT !.last = SFrame(sub), !.due = k.last],
         ran' = IF Executes(card, Head(toCard)) THEN Append(ran, card'.run) ELSE ran
  PROVE  T1Once'
<1>1. /\ T1Idle(k) /\ T1Place(k, h.next, cmd, T1RanAfter(k))
      /\ h.recv # <<>> => k.got = <<>>
  BY T1OnceTakes
<1>2. pc = "read" /\ toCard' = <<>>
  <2>1. toCard \in Seq(Frames) /\ Len(toCard) <= 1
    BY DEF T1Kept, T1TypeOK, MaxQueue, T1Orderly
  <2> QED
    BY <2>1, T1SingleTail DEF T1Aligned, T1Turns
<1>3. k \in CardRecords /\ T1Says(k.last)
  BY T1TakenType, T1CardType DEF T1Kept, T1TypeOK, T1Frames
<1>4. /\ card'.exp = k.exp /\ card'.got = k.got /\ card'.run = k.run
      /\ T1Idle(card)' /\ (Acks(card)' => Acks(k))
  <2>1. CASE card' = k
    BY <1>1, <2>1 DEF T1Idle, Acks
  <2>2. CASE \E sub \in CardS : card' = [k EXCEPT !.last = SFrame(sub), !.due = k.last]
    <3>1. PICK sub \in CardS : card' = [k EXCEPT !.last = SFrame(sub), !.due = k.last]
      BY <2>2
    <3> DEFINE s == SFrame(sub)
    <3>2. s \in Frames /\ s.type = "S"
      BY T1FrameKinds, T1Ranges
    <3>3. card' = [k EXCEPT !.last = s, !.due = k.last]
      BY <3>1
    <3> HIDE DEF s
    <3>4. /\ card'.exp = k.exp /\ card'.got = k.got /\ card'.run = k.run /\ card'.at = k.at
          /\ card'.last = s /\ card'.due = k.last
      BY <1>3, <3>3 DEF CardRecords
    <3> QED
      BY <1>1, <3>2, <3>4 DEF T1Idle, Acks, IsAck
  <2> QED
    BY <2>1, <2>2
<1>5. ran' = T1RanAfter(k)
  BY <1>4 DEF T1RanAfter
<1>6. T1Place(card, h.next, cmd, ran)'
  <2>1. T1Place(k, h.next, cmd, ran')
    BY <1>1, <1>5
  <2> QED
    BY <1>4, <2>1 DEF T1Place
<1>7. T1AtMostOnce'
  BY <1>6 DEF T1Place, T1AtMostOnce
<1>8. T1Where'
  BY <1>2, <1>6 DEF T1Once, T1Where, T1Typed
<1> QED
  BY <1>1, <1>2, <1>4, <1>7, <1>8
  DEF T1Once, T1Exact, T1Carries, T1Heard, T1Rest

\* A step of the host that takes in nothing and, when the last frame it remembers is no
\* I-frame, prepares none.
T1Quiet(g, r) ==
    /\ r.last = g.last /\ r.lastFrame = g.lastFrame /\ r.recv = g.recv
    /\ r.state # "IDLE" => T1Typed(r)
    /\ g.lastFrame # "I" /\ g.next.type # "I" => r.next.type # "I"

\* The operations of decode_frame and iso7816_t1_process are of this kind.
LEMMA T1QuietSend ==
  ASSUME NEW g \in HostRecords, g.last = g.next, T1Typed(g)
  PROVE  /\ T1Quiet(g, g) /\ T1Quiet(g, FinishRecovery(g)) /\ T1Quiet(g, Resend(g))
         /\ \A e \in Errs : T1Quiet(g, SendR(g, e)) /\ SendR(g, e).next.type = "R"
                            /\ SendR(g, e).next.err = e
         /\ T1Quiet(g, SendS(g, "WTX_RSP"))
<1>1. g.next \in Tx
  BY DEF HostRecords
<1>2. T1Quiet(g, g) /\ T1Quiet(g, FinishRecovery(g)) /\ T1Quiet(g, Resend(g))
  BY DEF T1Quiet, T1Typed, FinishRecovery, Resend, HostRecords
<1>3. ASSUME NEW e \in Errs
      PROVE  /\ T1Quiet(g, SendR(g, e)) /\ SendR(g, e).next.type = "R"
             /\ SendR(g, e).next.err = e
  <2> DEFINE x == [g.next EXCEPT !.type = "R", !.err = e]
  <2>1. x.type = "R" /\ x.err = e
    BY <1>1 DEF Tx
  <2>2. SendR(g, e) = [g EXCEPT !.state = "RFRAME", !.next = x]
    BY DEF SendR
  <2> HIDE DEF x
  <2> QED
    BY <2>1, <2>2 DEF T1Quiet, T1Typed, HostRecords
<1>4. T1Quiet(g, SendS(g, "WTX_RSP"))
  <2> DEFINE x == [g.next EXCEPT !.type = "S", !.sub = "WTX_RSP"]
  <2>1. x.type = "S"
    BY <1>1 DEF Tx
  <2>2. SendS(g, "WTX_RSP") = [g EXCEPT !.state = "SFRAME", !.next = x]
    BY DEF SendS
  <2> HIDE DEF x
  <2> QED
    BY <2>1, <2>2 DEF T1Quiet, T1Typed, HostRecords
<1> QED
  BY <1>2, <1>3, <1>4

\* So is one more attempt, and giving up.
LEMMA T1QuietRetry ==
  ASSUME NEW g \in HostRecords, g.last = g.next, T1Typed(g),
         NEW a \in HostRecords, T1Quiet(g, a)
  PROVE  T1Quiet(g, Retry(g, a))
<1>1. /\ [a EXCEPT !.recovery = g.recovery + 1].next = a.next
      /\ [a EXCEPT !.recovery = g.recovery + 1].last = a.last
      /\ [a EXCEPT !.recovery = g.recovery + 1].state = a.state
      /\ [a EXCEPT !.recovery = g.recovery + 1].lastFrame = a.lastFrame
      /\ [a EXCEPT !.recovery = g.recovery + 1].recv = a.recv
  BY DEF HostRecords
<1>2. T1Quiet(g, FinishRecovery(g))
  BY T1QuietSend
<1> QED
  BY <1>1, <1>2 DEF Retry, T1Quiet, T1Typed

\* So is asking for a frame again.
LEMMA T1QuietNack ==
  ASSUME NEW g \in HostRecords, g.last = g.next, T1Typed(g), NEW e \in Errs
  PROVE  T1Quiet(g, Nack(g, e))
<1>1. T1Quiet(g, SendR(g, e)) /\ SendR(g, e) \in HostRecords
  BY T1QuietSend, T1SendType
<1> DEFINE s == SendR(g, e)
<1>2. CASE g.rnack < MAX_RNACK_RETRY_LIMIT
  <2>1. Nack(g, e) = [s EXCEPT !.rnack = g.rnack + 1]
    BY <1>2 DEF Nack
  <2> HIDE DEF s
  <2>2. /\ Nack(g, e).next = s.next /\ Nack(g, e).last = s.last
        /\ Nack(g, e).state = s.state /\ Nack(g, e).lastFrame = s.lastFrame
        /\ Nack(g, e).recv = s.recv
    BY <1>1, <2>1 DEF HostRecords, s
  <2> QED
    BY <1>1, <2>2 DEF T1Quiet, T1Typed, s
<1>3. CASE ~(g.rnack < MAX_RNACK_RETRY_LIMIT)
  <2>1. Nack(g, e) = [g EXCEPT !.state = "IDLE", !.rnack = 0]
    BY <1>3 DEF Nack
  <2> QED
    BY <2>1 DEF T1Quiet, HostRecords
<1> QED
  BY <1>2, <1>3

\* A frame is the next block of the response when its number is not that of the last one.
T1New(g, f) == f.type = "I" /\ f.seq # g.rx

\* What decode_frame does with a frame other than an acknowledgement: a new block is taken in
\* and either ends the call or is acknowledged.
LEMMA T1QuietDecode ==
  ASSUME NEW g \in HostRecords, g.last = g.next, T1Typed(g), T1Reply(g.next),
         NEW f \in Frames, f.type \in {"I", "R", "S"},
         f.type = "S" => f.sub \notin {"RESYNCH_REQ", "RESYNCH_RSP", "ABORT_RES"},
         ~(IsAck(f) /\ f.seq # g.last.seq)
  PROVE  /\ ~T1New(g, f) => T1Quiet(g, Decode(g, f))
         /\ T1New(g, f) =>
              /\ Decode(g, f).last = g.last /\ Decode(g, f).lastFrame = g.lastFrame
              /\ Decode(g, f).state # "IDLE" =>
                   /\ T1Typed(Decode(g, f))
                   /\ Decode(g, f).next.type = "R" /\ Decode(g, f).next.err = "no"
<1>1. g.next \in Tx /\ T1Quiet(g, g) /\ Resend(g) \in HostRecords /\ Resend(g).next = g.next
      /\ T1Quiet(g, Resend(g)) /\ Resend(g).last = g.last /\ Resend(g).recv = g.recv
      /\ Resend(g).lastFrame = g.lastFrame
  BY T1QuietSend, T1SendType DEF HostRecords, Resend
<1>2. CASE f.type = "I"
  <2>1. Decode(g, f) = DecodeI(g, f)
    BY <1>2 DEF Decode
  <2>2. CASE f.seq = g.rx
    <3>1. T1Quiet(g, Retry(g, SendR(g, "other")))
      BY T1QuietSend, T1QuietRetry, T1SendType, T1Ranges
    <3> QED
      BY <2>1, <2>2, <3>1 DEF DecodeI, T1New
  <2>3. CASE f.seq # g.rx
    <3> DEFINE s == Store(g, f)
    <3>1. /\ s \in HostRecords /\ s.next = g.next /\ s.last = g.last
          /\ s.lastFrame = g.lastFrame /\ s.state = g.state
      <4>1. f.body \in Body /\ f.seq \in Bits
        BY DEF Frames
      <4>2. Append(g.recv, f.body) \in Seq(Body)
        BY <4>1 DEF HostRecords
      <4> QED
        BY <4>1, <4>2, T1Ranges DEF Store, HostRecords
    <3>2. Decode(g, f) = IF f.more THEN SendR(s, "no") ELSE [s EXCEPT !.state = "IDLE"]
      BY <2>1, <2>3 DEF DecodeI
    <3> HIDE DEF s
    <3>3. /\ T1Quiet(s, SendR(s, "no")) /\ SendR(s, "no").next.type = "R"
          /\ SendR(s, "no").next.err = "no" /\ SendR(s, "no").state = "RFRAME"
      <4>1. s.last = s.next /\ T1Typed(s)
        BY <3>1 DEF T1Typed
      <4>2. SendR(s, "no").state = "RFRAME"
        BY <3>1 DEF SendR, HostRecords
      <4> QED
        BY <3>1, <4>1, <4>2, T1QuietSend, T1Ranges
    <3>4. CASE f.more
      BY <1>2, <2>3, <3>1, <3>2, <3>3, <3>4 DEF T1Quiet, T1New
    <3>5. CASE ~f.more
      <4>1. Decode(g, f) = [s EXCEPT !.state = "IDLE"]
        BY <3>2, <3>5
      <4>2. /\ Decode(g, f).state = "IDLE" /\ Decode(g, f).last = s.last
            /\ Decode(g, f).lastFrame = s.lastFrame
        BY <3>1, <4>1 DEF HostRecords
      <4> QED
        BY <1>2, <2>3, <3>1, <4>2 DEF T1New
    <3> QED
      BY <3>4, <3>5
  <2> QED
    BY <2>2, <2>3
<1>3. CASE IsAck(f)
  <2>1. Decode(g, f) = [g EXCEPT !.recovery = 0]
    BY <1>3 DEF Decode, DecodeAck, IsAck
  <2>2. T1Quiet(g, Decode(g, f))
    BY <2>1 DEF HostRecords, T1Quiet, T1Typed
  <2> QED
    BY <1>3, <2>2 DEF T1New, IsAck
<1>4. CASE f.type = "R" /\ f.err \in {"parity", "other"}
  <2>1. Decode(g, f) = DecodeNack(g, f) /\ ~T1New(g, f)
    BY <1>4 DEF Decode, T1New
  <2> DEFINE a == [Resend(g) EXCEPT !.state = "IFRAME"]
             b == [Resend(g) EXCEPT !.state = "IFRAME", !.next.type = "I"]
  <2>2. ASSUME g.last.type = "I" PROVE a \in HostRecords /\ T1Quiet(g, a)
    <3>1. /\ a \in HostRecords /\ a.next = g.next /\ a.state = "IFRAME" /\ a.last = g.last
          /\ a.lastFrame = g.lastFrame /\ a.recv = g.recv
      BY <1>1, T1Ranges DEF HostRecords
    <3> QED
      BY <2>2, <3>1 DEF T1Quiet, T1Typed
  <2>3. ASSUME g.lastFrame = "I" PROVE b \in HostRecords /\ T1Quiet(g, b)
    <3> DEFINE x == [g.next EXCEPT !.type = "I"]
    <3>1. x \in Tx /\ x.type = "I"
      BY <1>1, T1TxType DEF Tx
    <3>2. b = [Resend(g) EXCEPT !.state = "IFRAME", !.next = x]
      BY <1>1
    <3> HIDE DEF x, b
    <3>3. /\ b \in HostRecords /\ b.next = x /\ b.state = "IFRAME" /\ b.last = g.last
          /\ b.lastFrame = g.lastFrame /\ b.recv = g.recv
      BY <1>1, <3>1, <3>2, T1Ranges DEF HostRecords
    <3> QED
      BY <2>3, <3>1, <3>3 DEF T1Quiet, T1Typed
  <2> HIDE DEF a, b
  <2>4. /\ g.last.type = "I" => T1Quiet(g, Retry(g, a))
        /\ g.lastFrame = "I" => T1Quiet(g, Retry(g, b))
        /\ T1Quiet(g, Retry(g, SendR(g, "no"))) /\ T1Quiet(g, Retry(g, SendR(g, "other")))
        /\ T1Quiet(g, Retry(g, Resend(g))) /\ T1Quiet(g, Retry(g, g))
    BY <1>1, <2>2, <2>3, T1QuietSend, T1QuietRetry, T1SendType, T1Ranges
  <2>5. \/ g.last.type = "I" /\ DecodeNack(g, f) = Retry(g, a)
        \/ g.lastFrame = "I" /\ DecodeNack(g, f) = Retry(g, b)
        \/ DecodeNack(g, f) \in {Retry(g, SendR(g, "no")), Retry(g, SendR(g, "other")),
                                 Retry(g, Resend(g)), Retry(g, g)}
    BY DEF DecodeNack, a, b
  <2>6. T1Quiet(g, DecodeNack(g, f))
    BY <2>4, <2>5
  <2> QED
    BY <2>1, <2>6
<1>5. CASE f.type = "R" /\ f.err = "both"
  <2>1. Decode(g, f) = Retry(g, Resend(g)) /\ ~T1New(g, f)
    BY <1>5 DEF Decode, T1New
  <2>2. T1Quiet(g, Retry(g, Resend(g)))
    BY <1>1, T1QuietRetry
  <2> QED
    BY <2>1, <2>2
<1>6. CASE f.type = "S"
  <2>1. Decode(g, f) = DecodeS(g, f) /\ ~T1New(g, f)
    BY <1>6 DEF Decode, T1New
  <2>2. DecodeS(g, f) \in {g, SendS(g, "WTX_RSP")}
    BY <1>6 DEF DecodeS, T1Reply
  <2>3. T1Quiet(g, SendS(g, "WTX_RSP"))
    BY T1QuietSend
  <2> QED
    BY <1>1, <2>1, <2>2, <2>3
<1>7. f.err \in {"no", "parity", "other", "both"}
  BY DEF Frames, Errs
<1> QED
  BY <1>2, <1>3, <1>4, <1>5, <1>6, <1>7 DEF IsAck

\* The same of iso7816_t1_process, whatever it reads.
LEMMA T1QuietProcessed ==
  ASSUME NEW g \in HostRecords, g.last = g.next, T1Typed(g), T1Reply(g.next),
         NEW f \in Frames, NEW got \in {"frame", "garbled", "nothing", "ioerror"},
         got = "frame" => f.type \in {"I", "R", "S"},
         f.type = "S" => f.sub \notin {"RESYNCH_REQ", "RESYNCH_RSP", "ABORT_RES"},
         ~(got = "frame" /\ IsAck(f) /\ f.seq # g.last.seq),
         NEW r, r = Processed(g, got, f)
  PROVE  /\ ~(got = "frame" /\ T1New(g, f)) => T1Quiet(g, r)
         /\ got = "frame" /\ T1New(g, f) =>
              /\ r.last = g.last /\ r.lastFrame = g.lastFrame
              /\ r.state # "IDLE" =>
                   T1Typed(r) /\ r.next.type = "R" /\ r.next.err = "no"
<1>1. CASE got = "frame"
  <2> DEFINE a == [g EXCEPT !.timeout = 0, !.rnack = 0]
  <2>1. /\ a \in HostRecords /\ a.next = g.next /\ a.last = g.last /\ a.state = g.state
        /\ a.lastFrame = g.lastFrame /\ a.recv = g.recv /\ a.rx = g.rx
    BY T1Ranges DEF HostRecords
  <2>2. r = Decode(a, f)
    BY <1>1 DEF Processed
  <2> HIDE DEF a
  <2>3. T1Typed(a) /\ (T1New(a, f) <=> T1New(g, f))
    BY <2>1 DEF T1Typed, T1New
  <2>4. /\ ~T1New(a, f) => T1Quiet(a, r)
        /\ T1New(a, f) =>
              /\ r.last = a.last /\ r.lastFrame = a.lastFrame
              /\ r.state # "IDLE" =>
                   T1Typed(r) /\ r.next.type = "R" /\ r.next.err = "no"
    BY <1>1, <2>1, <2>2, <2>3, T1QuietDecode
  <2> QED
    BY <1>1, <2>1, <2>3, <2>4 DEF T1Quiet
<1>2. CASE got = "garbled"
  <2> DEFINE a == [g EXCEPT !.timeout = 0]
  <2>1. /\ a \in HostRecords /\ a.next = g.next /\ a.last = g.last /\ a.state = g.state
        /\ a.lastFrame = g.lastFrame /\ a.recv = g.recv
    BY T1Ranges DEF HostRecords
  <2>2. r = Nack(a, "parity")
    BY <1>2 DEF Processed
  <2> HIDE DEF a
  <2>3. T1Quiet(a, Nack(a, "parity"))
    <3>1. T1Typed(a)
      BY <2>1 DEF T1Typed
    <3> QED
      BY <2>1, <3>1, T1QuietNack, T1Ranges
  <2> QED
    BY <1>2, <2>1, <2>2, <2>3 DEF T1Quiet
<1>3. T1Quiet(g, NackSilence(g))
  <2> DEFINE n == Nack(g, "other")
  <2>1. T1Quiet(g, n)
    BY T1QuietNack, T1Ranges
  <2>2. CASE g.rnack < MAX_RNACK_RETRY_LIMIT
    BY <2>1, <2>2 DEF NackSilence
  <2>3. CASE ~(g.rnack < MAX_RNACK_RETRY_LIMIT)
    <3>1. NackSilence(g) = [[g EXCEPT !.state = "IDLE", !.rnack = 0] EXCEPT !.timeout = 0]
      BY <2>3 DEF NackSilence, Nack
    <3> QED
      BY <3>1 DEF T1Quiet, HostRecords
  <2> QED
    BY <2>2, <2>3
<1>4. T1Quiet(g, Retransmit(g))
  <2>1. T1Quiet(g, Resend(g)) /\ Resend(g) \in HostRecords
    BY T1QuietSend, T1SendType
  <2> DEFINE s == Resend(g)
  <2>2. CASE g.timeout < TIMEOUT_RETRY_COUNT
    <3>1. Retransmit(g) = [s EXCEPT !.timeout = g.timeout + 1]
      BY <2>2 DEF Retransmit
    <3>2. s \in HostRecords /\ T1Quiet(g, s)
      BY <2>1
    <3> HIDE DEF s
    <3>3. /\ Retransmit(g).next = s.next /\ Retransmit(g).last = s.last
          /\ Retransmit(g).state = s.state /\ Retransmit(g).lastFrame = s.lastFrame
          /\ Retransmit(g).recv = s.recv
      BY <3>1, <3>2 DEF HostRecords
    <3> QED
      BY <3>2, <3>3 DEF T1Quiet, T1Typed
  <2>3. CASE ~(g.timeout < TIMEOUT_RETRY_COUNT)
    <3>1. Retransmit(g) = [g EXCEPT !.state = "IDLE", !.timeout = 0]
      BY <2>3 DEF Retransmit
    <3> QED
      BY <3>1 DEF T1Quiet, HostRecords
  <2> QED
    BY <2>2, <2>3
<1>5. CASE got \in {"nothing", "ioerror"}
  BY <1>3, <1>4, <1>5 DEF Processed
<1> QED
  BY <1>1, <1>2, <1>5

\* An acknowledgement is no block of a response.
LEMMA T1AckKeeps ==
  ASSUME NEW g \in HostRecords, NEW f \in Frames, IsAck(f), f.seq # g.last.seq
  PROVE  Processed(g, "frame", f).recv = g.recv
<1> DEFINE a == [g EXCEPT !.timeout = 0, !.rnack = 0]
           b == [a EXCEPT !.recovery = 0]
<1>1. a \in HostRecords /\ a.last = g.last /\ a.recv = g.recv
  BY T1Ranges DEF HostRecords
<1>2. Processed(g, "frame", f) = Decode(a, f)
  BY DEF Processed
<1> HIDE DEF a
<1>3. Decode(a, f) = NextIframe(b)
  BY <1>1 DEF Decode, DecodeAck, IsAck
<1>4. b \in HostRecords /\ b.recv = g.recv
  BY <1>1, T1Ranges DEF HostRecords
<1> HIDE DEF b
<1>5. NextIframe(b).recv = b.recv
  BY <1>4 DEF NextIframe, HostRecords
<1> QED
  BY <1>2, <1>3, <1>4, <1>5

\* The block after an announced one, and a block sent again, end where the command ends.
LEMMA T1ExactNext ==
  ASSUME NEW x \in Tx, NEW y \in Tx, T1Within(y), y.more, T1Following(x, y)
  PROVE  T1Exact(x)
<1> SUFFICES ASSUME x.data # 0, ~x.more PROVE x.off + x.size = CmdLen[x.data]
  BY DEF T1Exact
<1>1. x.more = (y.left > 1)
  BY DEF T1Following
<1>2. ~(y.left > 1)
  BY <1>1
<1>3. x.data = y.data /\ x.off = y.off + 1 /\ x.size = y.left
  BY <1>2 DEF T1Following
<1>4. y.off + y.left + 1 = CmdLen[y.data]
  BY <1>3 DEF T1Within
<1>5. y.off \in Nat /\ y.left \in Nat
  BY DEF Tx
<1> QED
  BY <1>3, <1>4, <1>5

\* The fields of a structure after reset_params.
LEMMA T1ResetFields ==
  ASSUME NEW g \in HostRecords
  PROVE  /\ ResetParams(g).state = "IDLE" /\ ResetParams(g).recv = g.recv
         /\ ResetParams(g).next.seq = 1 /\ ResetParams(g).last.seq = 1
         /\ ResetParams(g).next.data = 0
<1> DEFINE n == [g.next EXCEPT !.type = "none", !.data = 0, !.seq = 1]
           l == [g.last EXCEPT !.type = "none", !.data = 0, !.seq = 1]
           r == [g EXCEPT !.state = "IDLE", !.rx = 1, !.recovery = 0, !.timeout = 0,
                          !.rnack = 0, !.lastFrame = "none", !.next = n, !.last = l]
<1>1. n.seq = 1 /\ n.data = 0 /\ l.seq = 1
  BY DEF HostRecords, Tx
<1>2. ResetParams(g) = r
  BY DEF ResetParams
<1> HIDE DEF n, l
<1>3. r.next = n /\ r.last = l /\ r.state = "IDLE" /\ r.recv = g.recv
  BY DEF HostRecords
<1> QED
  BY <1>1, <1>2, <1>3

\* The first block of a command, and the structure it is prepared in.
LEMMA T1SetFields ==
  ASSUME NEW g \in HostRecords, NEW c \in Cmds
  PROVE  /\ T1Exact(SetIframe(g, c).next) /\ SetIframe(g, c).next.type = "I"
         /\ SetIframe(g, c).next.data = c /\ SetIframe(g, c).next.off = 0
         /\ SetIframe(g, c).state = "IFRAME" /\ SetIframe(g, c).recv = g.recv
<1> DEFINE q == Flip(g.last.seq)
           n == CmdLen[c]
           m == n > 1
           l == IF n > 1 THEN n - 1 ELSE n
           z == IF n > 1 THEN 1 ELSE n
           x == [g.next EXCEPT !.type = "I", !.data = c, !.off = 0, !.seq = q,
                               !.more = m, !.left = l, !.size = z]
<1>1. g.next \in Tx /\ n \in Nat
  BY CommandsAssumption DEF HostRecords
<1>2. SetIframe(g, c) = [g EXCEPT !.state = "IFRAME", !.next = x]
  BY DEF SetIframe
<1> HIDE DEF m, l, z
<1>3. x.type = "I" /\ x.data = c /\ x.off = 0 /\ x.size = z
  BY <1>1 DEF Tx
<1>4. x.more = m
  BY <1>1 DEF Tx
<1> HIDE DEF x
<1>5. /\ SetIframe(g, c).next = x /\ SetIframe(g, c).state = "IFRAME"
      /\ SetIframe(g, c).recv = g.recv
  BY <1>2 DEF HostRecords
<1>6. T1Exact(x)
  <2>1. CASE n > 1
    <3>1. x.more
      BY <1>4, <2>1 DEF m
    <3> QED
      BY <3>1 DEF T1Exact
  <2>2. CASE ~(n > 1)
    <3>1. x.off + x.size = CmdLen[x.data]
      BY <1>1, <1>3, <2>2 DEF z
    <3> QED
      BY <3>1 DEF T1Exact
  <2> QED
    BY <2>1, <2>2
<1> QED
  BY <1>3, <1>5, <1>6

\* The initial state.
LEMMA T1OnceInit ==
  ASSUME Init PROVE T1Once
<1>1. /\ FreshHost.next = FreshTx /\ FreshHost.last = FreshTx /\ FreshHost.state = "IDLE"
      /\ FreshHost.recv = <<>> /\ FreshTx.data = 0 /\ FreshCard.got = <<>>
  BY DEF FreshHost, FreshTx, FreshCard
<1> QED
  BY <1>1
  DEF Init, T1Once, T1Idle, T1Exact, T1Where, T1Carries, T1Heard, T1Rest, T1AtMostOnce

\* A command begins with a card that has nothing of another command; if its first block
\* has not the number the card expects, the card will not take it.
LEMMA T1OnceSubmit ==
  ASSUME T1Orderly, T1Kept, T1Aligned, T1Once, NEW c \in Cmds, Submit(c) PROVE T1Once'
<1>1. /\ h \in HostRecords /\ toCard' = <<>> /\ pc' = "first" /\ card' = card /\ cmd' = c
      /\ ran' = <<>> /\ h' = SetIframe(h, c) /\ ~Acks(card) /\ card.got = <<>>
      /\ h.recv = <<>>
  BY DEF T1Orderly, T1Kept, T1TypeOK, T1Aligned, T1Turns, T1Fresh, T1Once, T1Rest, T1Heard,
         Submit
<1>2. /\ T1Exact(h'.next) /\ h'.next.type = "I" /\ h'.next.data = c /\ h'.next.off = 0
      /\ h'.state = "IFRAME" /\ h'.recv = <<>>
  BY <1>1, T1SetFields
<1>3. T1Place(card, h.next, cmd, ran)'
  <2>1. Blocks(c, 0) = <<>>
    BY T1Blocks
  <2> QED
    BY <1>1, <1>2, <2>1 DEF T1Place, Acks
<1>4. T1Where'
  BY <1>1, <1>2, <1>3 DEF T1Where, T1Typed
<1> QED
  BY <1>1, <1>2, <1>4
  DEF T1Once, T1Idle, T1Exact, T1Carries, T1Heard, T1Rest, T1AtMostOnce

\* A frame is sent, spoiled or lost.
LEMMA T1OnceSend ==
  ASSUME T1Orderly, T1Kept, T1Aligned, T1Once, Send PROVE T1Once'
<1>1. /\ h \in HostRecords /\ h.state # "IDLE" /\ toCard = <<>> /\ pc \in {"first", "send"}
      /\ pc' = "read" /\ card' = card /\ cmd' = cmd /\ ran' = ran /\ ~Refused(h)
      /\ h' = Sent(h) /\ T1Typed(h)
  BY DEF T1Kept, T1TypeOK, T1Frames, T1Aligned, T1Turns, T1Once, T1Where, Send
<1>2. h'.next = h.next /\ h'.state = h.state
  BY <1>1, T1SentType
<1>3. /\ h'.recv = h.recv
      /\ h'.lastFrame \in {"I", "R", "S", h.lastFrame}
      /\ h.state # "IFRAME" => h'.lastFrame # "I" \/ (h'.lastFrame = h.lastFrame
                                 /\ ~(h.state = "SFRAME") /\ ~(h.next.err = "no"))
  <2> DEFINE y == CASE Refused(h) -> h.lastFrame
                    [] h.state = "IFRAME" -> "I"
                    [] h.state = "SFRAME" -> "S"
                    [] h.state = "RFRAME" /\ h.next.err = "no" -> "R"
                    [] OTHER -> h.lastFrame
  <2>1. h' = [h EXCEPT !.last = h.next, !.lastFrame = y]
    BY <1>1 DEF Sent
  <2>2. /\ y \in {"I", "R", "S", h.lastFrame}
        /\ h.state # "IFRAME" => y # "I" \/ (y = h.lastFrame
                                 /\ ~(h.state = "SFRAME") /\ ~(h.next.err = "no"))
    BY <1>1 DEF HostRecords, States
  <2> HIDE DEF y
  <2>3. h'.recv = h.recv /\ h'.lastFrame = y
    BY <1>1, <2>1 DEF HostRecords
  <2> QED
    BY <2>2, <2>3
<1>4. T1Carries'
  <2> SUFFICES ASSUME toCard' # <<>>, Head(toCard').type = "I"
               PROVE  /\ Head(toCard').body = <<h'.next.data, h'.next.off>>
                      /\ h'.next.size = 1 /\ h'.next.type = "I"
    BY DEF T1Carries
  <2>1. toCard' \in {<<>>, <<Outgoing(h)>>, <<Garbled>>}
    <3>1. \A f : Append(<<>>, f) = <<f>>
      OBVIOUS
    <3> QED
      BY <1>1, <3>1 DEF Send
  <2>2. Head(toCard') = Outgoing(h) /\ Outgoing(h).type = "I"
    BY <2>1, T1FrameKinds
  <2>3. h.state = "IFRAME"
    <3>1. h.state \in {"IFRAME", "RFRAME", "SFRAME"}
      BY <1>1 DEF HostRecords, States
    <3>2. \A q, e, s : RFrame(q, e).type = "R" /\ SFrame(s).type = "S"
      BY Zenon DEF RFrame, SFrame, Frame
    <3> QED
      BY <2>2, <3>1, <3>2 DEF Outgoing
  <2>4. Outgoing(h).body = <<h.next.data, h.next.off>>
    <3>1. \A q, m, b : IFrame(q, m, b).body = b
      BY Zenon DEF IFrame, Frame
    <3> QED
      BY <2>3, <3>1 DEF Outgoing
  <2>5. h.next.size = 1
    BY <1>1, <2>3 DEF Refused, HostRecords, Tx, Bits
  <2> QED
    BY <1>1, <1>2, <2>2, <2>3, <2>4, <2>5 DEF T1Typed
<1>5. T1Heard'
  BY <1>1, <1>2, <1>3 DEF T1Once, T1Heard, T1Typed
<1>6. T1Where'
  BY <1>1, <1>2 DEF T1Once, T1Where, T1Typed, T1Place, Acks
<1> QED
  BY <1>1, <1>2, <1>4, <1>5, <1>6 DEF T1Once, T1Idle, T1Exact, T1Rest, T1AtMostOnce

\* A transfer fails.
LEMMA T1OnceSendFails ==
  ASSUME T1Orderly, T1Kept, T1Aligned, T1Once, SendFails PROVE T1Once'
<1>1. /\ toCard' = <<>> /\ pc' = "ready" /\ card' = card /\ result'.status = "error"
      /\ cmd' = cmd /\ ran' = ran /\ h \in HostRecords
  BY DEF T1Kept, T1TypeOK, T1Aligned, T1Turns, SendFails, Error
<1>2. h'.next = h.next /\ h'.recv = <<>>
  <2>1. Sent(h) \in HostRecords /\ Sent(h).next = h.next /\ Sent(h).recv = h.recv
    <3>1. Sent(h).recv = h.recv
      BY <1>1 DEF Sent, HostRecords
    <3> QED
      BY <1>1, <3>1, T1SentType
  <2>2. /\ Collected([Sent(h) EXCEPT !.state = "IDLE"]).next = h.next
        /\ Collected([Sent(h) EXCEPT !.state = "IDLE"]).recv = <<>>
    BY <2>1 DEF Collected, HostRecords
  <2>3. pc = "first" => h.recv = <<>>
    BY DEF T1Once, T1Heard
  <2> QED
    BY <2>1, <2>2, <2>3 DEF SendFails
<1> QED
  BY <1>1, <1>2
  DEF T1Once, T1Idle, T1Exact, T1Where, T1Carries, T1Heard, T1Rest, T1AtMostOnce

\* The interface is reset.
LEMMA T1OnceReset ==
  ASSUME T1Orderly, T1Kept, T1Aligned, T1Once, ResetInterface \/ ResetProtocol PROVE T1Once'
<1>1. ResetInterface
  BY DEF T1Orderly, ResetProtocol
<1>2. /\ h'.state = "IDLE" /\ h'.recv = <<>> /\ h'.next.seq = 1 /\ h'.last.seq = 1
      /\ h'.next.data = 0
  BY <1>1, T1ResetFields DEF ResetInterface, T1Kept, T1TypeOK, T1Once, T1Heard
<1>3. card'.got = <<>> /\ toCard' = <<>> /\ pc' = "ready" /\ ran' = <<>>
  BY <1>1 DEF ResetInterface, FreshCard
<1> QED
  BY <1>2, <1>3
  DEF T1Once, T1Idle, T1Exact, T1Where, T1Carries, T1Heard, T1Rest, T1AtMostOnce

\* Something is read, or nothing: only an acknowledgement moves the host to another block,
\* and only after the card has taken the one before.
LEMMA T1OnceReceive ==
  ASSUME T1Orderly, T1Kept, T1Kept', T1Aligned, T1Once,
         NEW got \in {"frame", "garbled", "nothing", "ioerror"}, Receive(got)
  PROVE  T1Once'
<1> DEFINE g == Processed(h, got, toHost)
<1>1. /\ h \in HostRecords /\ h.state # "IDLE" /\ h.last = h.next /\ T1Reply(h.next)
      /\ T1Within(h.next) /\ h.next \in Tx /\ h.next.seq \in Bits /\ h.next.off \in Nat
      /\ pc = "read" /\ T1Typed(h) /\ cmd \in Cmds /\ h.next.data = cmd
      /\ T1Place(card, h.next, cmd, ran) /\ T1Idle(card) /\ T1Exact(h.next)
  BY DEF T1Kept, T1TypeOK, T1Frames, T1Aligned, T1Turns, T1Once, T1Where, Receive,
         HostRecords, Tx
<1>2. /\ toCard' = <<>> /\ card' = card /\ cmd' = cmd /\ ran' = ran
      /\ got = "frame" => toHost = card.last /\ toHost.type \in {"I", "R", "S"}
      /\ toHost \in Frames
      /\ toHost.type = "S" => toHost.sub \notin {"RESYNCH_REQ", "RESYNCH_RSP", "ABORT_RES"}
  <2>1. toCard = <<>> /\ toCard' = toCard /\ card' = card /\ cmd' = cmd /\ ran' = ran
    BY DEF T1Orderly, Receive
  <2>2. /\ toHost \in {NoFrame, card.last} /\ T1Says(card.last) /\ toHost \in Frames
        /\ got = "frame" => toHost # NoFrame
    BY DEF T1Kept, T1TypeOK, T1Frames, Receive, Read
  <2>3. toHost.type = "S" => toHost.sub \in CardS
    BY <2>2, T1FrameKinds DEF T1Aligned, T1Numbers
  <2> QED
    BY <2>1, <2>2, <2>3 DEF T1Says, T1Orderly
<1>3. g \in HostRecords
  BY <1>1, <1>2, T1ProcessedType
<1>4. IF g.state # "IDLE" THEN h' = g /\ pc' = "send" /\ UNCHANGED result
      ELSE h' = Collected(g) /\ pc' = "ready" /\ result' = Returned(g, got)
  BY DEF Receive, GoesOn
<1>5. /\ h'.next = g.next /\ h'.last = g.last /\ h'.state = g.state
      /\ h'.lastFrame = g.lastFrame /\ g.next \in Tx
      /\ h'.recv # <<>> => pc' = "send" /\ g.state # "IDLE" /\ h'.recv = g.recv
  BY <1>3, <1>4 DEF Collected, HostRecords
<1>6. T1Carries' /\ T1AtMostOnce' /\ T1Idle(card)'
  BY <1>1, <1>2 DEF T1Once, T1Carries, T1AtMostOnce, T1Idle
<1>7. CASE got = "frame" /\ IsAck(toHost) /\ toHost.seq # h.last.seq
  <2>1. T1Following(g.next, h.next) /\ g.state = "IFRAME" /\ g.recv = h.recv
    BY <1>1, <1>2, <1>7, T1NextProcessed, T1AckKeeps
  <2>2. /\ card.exp = toHost.seq /\ card.exp \in Bits /\ card.exp # h.next.seq
        /\ h.next.more /\ Acks(card)
    <3>1. card.exp \in Bits
      BY DEF T1Kept, T1TypeOK, CardRecords
    <3>2. card.exp = toHost.seq /\ Acks(card)
      BY <1>2, <1>7 DEF T1Aligned, T1Numbers, Acks, IsAck
    <3>3. card.exp # h.next.seq
      BY <1>1, <1>7, <3>2
    <3> QED
      BY <3>1, <3>2, <3>3 DEF T1Aligned, T1AckMeans
  <2>3. ran = <<>> /\ card.got = Blocks(cmd, h.next.off + 1)
    BY <1>1, <2>2 DEF T1Place
  <2>4. /\ g.next.seq = card.exp /\ g.next.type = "I" /\ g.next.data = cmd
        /\ g.next.off = h.next.off + 1
    <3>1. /\ g.next.seq = Flip(h.next.seq) /\ g.next.type = "I"
          /\ g.next.data = h.next.data /\ g.next.off = h.next.off + 1
      BY <2>1 DEF T1Following
    <3> QED
      BY <1>1, <2>2, <3>1 DEF Bits, Flip
  <2>5. h.recv = <<>>
    <3>1. card.got # <<>>
      BY <1>1, <2>3, T1Blocks
    <3> QED
      BY <3>1 DEF T1Once, T1Heard
  <2> HIDE DEF g
  <2>6. T1Exact(h'.next)
    BY <1>1, <1>5, <2>1, <2>2, T1ExactNext
  <2>7. pc' = "send"
    BY <1>4, <2>1
  <2>8. T1Place(card, h.next, cmd, ran)'
    BY <1>2, <1>5, <2>3, <2>4 DEF T1Place
  <2>9. T1Where'
    BY <1>1, <1>2, <1>5, <2>1, <2>4, <2>8 DEF T1Where, T1Typed
  <2>10. T1Heard' /\ T1Rest'
    BY <1>5, <2>1, <2>5, <2>7 DEF T1Heard, T1Rest
  <2> QED
    BY <1>6, <2>6, <2>9, <2>10 DEF T1Once, T1Exact
<1>8. CASE ~(got = "frame" /\ IsAck(toHost) /\ toHost.seq # h.last.seq)
  <2>1. T1Same(g.next, h.next)
    BY <1>1, <1>2, <1>8, T1SteadyProcessed DEF T1Steady
  <2> DEFINE new == got = "frame" /\ T1New(h, toHost)
  <2>2. /\ ~new => T1Quiet(h, g)
        /\ new => /\ g.last = h.last /\ g.lastFrame = h.lastFrame
                  /\ g.state # "IDLE" =>
                       T1Typed(g) /\ g.next.type = "R" /\ g.next.err = "no"
    BY <1>1, <1>2, <1>8, T1QuietProcessed
  <2> HIDE DEF g
  <2>3. /\ h'.next.data = h.next.data /\ h'.next.seq = h.next.seq
        /\ h'.next.off = h.next.off /\ h'.next.size = h.next.size
    BY <1>5, <2>1 DEF T1Same
  <2>4. h'.next.more = h.next.more
    BY <1>5, <2>1 DEF T1Same
  <2>5. T1Exact(h'.next)
    BY <1>1, <2>3, <2>4 DEF T1Exact
  <2>6. T1Place(card, h.next, cmd, ran)'
    <3>1. T1Place(card, h'.next, cmd, ran)
      BY <1>1, <2>3, <2>4 DEF T1Place
    <3> QED
      BY <1>2, <3>1 DEF T1Place, Acks
  <2>7. T1Where'
    <3>1. pc' # "ready" => T1Typed(g)
      BY <1>4, <2>2 DEF T1Quiet
    <3> QED
      BY <1>1, <1>2, <1>5, <2>3, <2>6, <3>1 DEF T1Where, T1Typed
  <2>8. g.recv # <<>> => card.got = <<>>
    <3>1. CASE new
      BY <1>1, <1>2, <3>1 DEF T1New, T1Idle
    <3>2. CASE ~new
      BY <2>2, <3>2 DEF T1Quiet, T1Once, T1Heard
    <3> QED
      BY <3>1, <3>2
  <2>9. T1Heard'
    <3> SUFFICES ASSUME h'.recv # <<>>
                 PROVE  /\ card'.got = <<>> /\ h'.next.type # "I" /\ pc' = "send"
                        /\ \/ h'.lastFrame # "I"
                           \/ h'.next.type = "R" /\ h'.next.err = "no"
      BY DEF T1Heard
    <3>1. pc' = "send" /\ g.state # "IDLE" /\ g.recv # <<>> /\ card'.got = <<>>
      BY <1>2, <1>5, <2>8
    <3>2. CASE new
      BY <1>5, <2>2, <3>1, <3>2
    <3>3. CASE ~new
      <4>1. h.recv # <<>> /\ g.lastFrame = h.lastFrame
        BY <2>2, <3>1, <3>3 DEF T1Quiet
      <4>2. h.lastFrame # "I" /\ h.next.type # "I"
        BY <1>1, <4>1 DEF T1Once, T1Heard
      <4> QED
        BY <1>5, <2>2, <3>1, <3>3, <4>1, <4>2 DEF T1Quiet
    <3> QED
      BY <3>2, <3>3
  <2>10. T1Rest'
    <3> SUFFICES ASSUME pc' = "ready", result'.status # "error"
                 PROVE  h'.state = "IDLE" /\ card'.got = <<>> /\ h'.next.seq = h'.last.seq
      BY DEF T1Rest
    <3>1. g.state = "IDLE" /\ result' = Returned(g, got)
      BY <1>4
    <3>2. g.recv # <<>>
      BY <3>1 DEF Returned, Error
    <3>3. h'.last = h.last
      BY <1>5, <2>2 DEF T1Quiet
    <3> QED
      BY <1>1, <1>2, <1>5, <2>3, <2>8, <3>1, <3>2, <3>3
  <2> QED
    BY <1>6, <2>5, <2>7, <2>9, <2>10 DEF T1Once, T1Exact
<1> QED
  BY <1>7, <1>8

\* Every step keeps it.
LEMMA T1OnceStep ==
  ASSUME T1Orderly, T1Kept, T1Kept', T1Aligned, T1Once, [Next]_vars PROVE T1Once'
<1>1. CASE Host
  BY <1>1, T1OnceSend, T1OnceSendFails, T1OnceReceive
  DEF Host, T1Orderly, ReceiveUnstored
<1>2. CASE CardAnswers
  <2>1. PICK k \in CardTakes(card, Head(toCard)) : card' = k
    BY <1>2 DEF CardAnswers
  <2> QED
    BY <1>2, <2>1, T1OnceCard DEF CardAnswers
<1>3. CASE \E sub \in CardS : CardAsks(sub)
  <2>1. PICK sub \in CardS : CardAsks(sub)
    BY <1>3
  <2>2. PICK k \in CardTakes(card, Head(toCard)) :
          card' = [k EXCEPT !.last = SFrame(sub), !.due = k.last]
    BY <2>1 DEF CardAsks
  <2> QED
    BY <2>1, <2>2, T1OnceCard DEF CardAsks
<1>4. CASE ResetInterface \/ ResetProtocol
  BY <1>4, T1OnceReset
<1>5. CASE \E c \in Cmds : Submit(c)
  BY <1>5, T1OnceSubmit
<1>6. CASE UNCHANGED vars
  BY <1>6 DEF vars, T1Once, T1Idle, T1Exact, T1Where, T1Typed, T1Place, Acks, IsAck, T1Carries,
              T1Heard, T1Rest, T1AtMostOnce
<1> QED
  BY <1>1, <1>2, <1>3, <1>4, <1>5, <1>6 DEF Next, Card

\* With an orderly card and caller, iso7816_t1_send and iso7816_t1_receive never make the card
\* run a command twice, nor anything that is not the whole command of the call: for commands
\* of any length and however many frames are spoiled, repeated and transfers fail.
THEOREM T1OnceSafety == T1Orderly => (Spec => []T1AtMostOnce)
<1> SUFFICES ASSUME T1Orderly PROVE Spec => []T1AtMostOnce
  OBVIOUS
<1>1. Init => T1Kept /\ T1Aligned /\ T1Once
  BY T1KeptInit, T1AlignedInit, T1OnceInit
<1>2. T1Kept /\ T1Aligned /\ T1Once /\ [Next]_vars => T1Kept' /\ T1Aligned' /\ T1Once'
  BY T1KeptStep, T1AlignedStep, T1OnceStep
<1>3. T1Once => T1AtMostOnce
  BY DEF T1Once
<1> QED
  BY <1>1, <1>2, <1>3, PTL DEF Spec
=============================================================================
