------------------------------ MODULE SecStar ------------------------------
(***************************************************************************)
(* The secure element's device node (snvm/sec_star.c) on top of the K250A  *)
(* bring-up (snvm/sec_k250a.c): the I2C bus the module adds to the live    *)
(* device tree, RPMh power, exclusive opening, chains of commands and the  *)
(* stored response.  One command of a chain is one exchange here; what an  *)
(* exchange does on the line is Iso7816T1.                                 *)
(*                                                                         *)
(* This is the path of the X910: no 1p8_pvdd regulator and no reset line,  *)
(* so k250a_reset does nothing.                                            *)
(***************************************************************************)
EXTENDS Integers, Sequences, SequencesExt

CONSTANTS SrCmds,       \* command chains; each is a sequence of steps
          SrMaxAgain,   \* bound: how often a step is repeated (AGAIN)
          SrLateWrite,  \* TRUE: a failed RPMh write may have taken effect
          SrNone

ASSUME SrAssumption ==
    /\ SrCmds \subseteq Seq({"plain", "next", "again"}) /\ <<>> \notin SrCmds
    /\ SrMaxAgain \in Nat /\ SrLateWrite \in BOOLEAN /\ SrNone \notin SrCmds

VARIABLES
    srHeld,    \* what the module holds of the rest of the kernel
    srMod,     \* "out", "in", or the step of k250a_init that comes next
    srAccess,  \* access
    srFlag,    \* rpmh_powered
    srRail,    \* the rail is on
    srDirect,  \* direct
    srHost, srCard,  \* parity of the blocks each side of the T=1 link has counted
    srTrue,    \* nothing but complete exchanges since an open with a cold card
    srCmd,     \* the last command chain written
    srAt,      \* step of the chain in progress, 0 when star->lock is free
    srRepeat,  \* repetitions of this step so far
    srParts,   \* total_rsp: <<step, "body" or "whole">>
    srRsp      \* rsp: the response kept for read, with its command

srBus == <<srHeld, srMod>>
srPower == <<srFlag, srRail>>
srLink == <<srHost, srCard, srTrue>>
srChain == <<srCmd, srAt, srRepeat, srParts, srRsp>>
srVars == <<srBus, srAccess, srPower, srDirect, srLink, srChain>>

SrNoRsp == [of |-> SrNone, parts |-> <<>>, early |-> FALSE]

SrInit ==
    /\ srHeld = {} /\ srMod = "out" /\ srAccess = FALSE
    /\ srFlag = FALSE /\ srRail = FALSE /\ srDirect = FALSE
    /\ srHost = 0 /\ srCard = 0 /\ srTrue = FALSE
    /\ srCmd = SrNone /\ srAt = 0 /\ srRepeat = 0 /\ srParts = <<>> /\ srRsp = SrNoRsp

-----------------------------------------------------------------------------
(* k250a_init, k250a_create_compat_bus and k250a_probe.                    *)

SrSteps == <<"provider", "driver", "changeset", "applied", "pdev", "client", "in">>
SrAfter(s) == SrSteps[1 + CHOOSE i \in 1..Len(SrSteps) : SrSteps[i] = s]
SrStar == {"hal", "protocol", "misc"}

\* k250a_remove_compat_bus, which undoes what the flags say was done.  Removing
\* the client unbinds the driver (star_close); a controller the tree already had
\* is left alone.
SrRemoveCompatBus(held) ==
    held \ ({"client", "pdev", "changeset", "applied"}
              \cup (IF "misc" \in held THEN SrStar ELSE {}))

\* A step of k250a_init succeeds.  The device is created when the tree has none
\* for the node; i2c_new_client_device probes (k250a_probe, star_open).
SrInitStep ==
    /\ srMod \in {"out"} \cup {SrSteps[i] : i \in 2..6}
    /\ LET s == IF srMod = "out" THEN "provider" ELSE srMod
       IN /\ srMod' = SrAfter(s)
          /\ \/ s \in {"provider", "driver", "changeset", "applied"} /\ srHeld' = srHeld \cup {s}
             \/ s = "pdev" /\ srHeld' \in {srHeld, srHeld \cup {"pdev"}}
             \/ s = "client" /\ srHeld' = srHeld \cup {"client"} \cup SrStar
    /\ UNCHANGED <<srAccess, srPower, srDirect, srLink, srChain>>

\* A step fails.  A star_open that fails keeps what it has acquired: the client
\* is left without a driver, and the bus is removed again.
SrInitFails ==
    /\ srMod \in {SrSteps[i] : i \in 2..6}
    /\ \E left \in IF srMod = "client" THEN {{}, {"hal"}, {"hal", "protocol"}} ELSE {{}} :
         srHeld' = SrRemoveCompatBus(srHeld \cup left) \ {"driver", "provider"}
    /\ srMod' = "out"
    /\ UNCHANGED <<srAccess, srPower, srDirect, srLink, srChain>>

\* k250a_exit; an open file keeps the module.  star_close drops the structure,
\* and the response with it.
SrExit ==
    /\ srMod = "in" /\ ~srAccess
    /\ srHeld' = SrRemoveCompatBus(srHeld) \ {"driver", "provider"}
    /\ srMod' = "out" /\ srDirect' = FALSE /\ srFlag' = FALSE /\ srRsp' = SrNoRsp
    /\ UNCHANGED <<srAccess, srRail, srLink, srCmd, srAt, srRepeat, srParts>>

-----------------------------------------------------------------------------
(* Power and opening.                                                      *)

\* k250a_rpmh_power, through k250a_poweron and k250a_poweroff: ok says whether
\* the write was accepted.  A request for the state the flag shows writes nothing.
SrPower(on, ok) ==
    IF srFlag = on
      THEN ok /\ UNCHANGED srPower
      ELSE /\ srFlag' = IF ok THEN on ELSE srFlag
           /\ srRail' \in (IF ok THEN {on} ELSE IF SrLateWrite THEN {on, srRail} ELSE {srRail})

SrFree == srMod = "in" /\ srAt = 0

\* star_dev_open: the protocol is reset first; a second open is -EBUSY.
MutSrOpen(ok) ==
    /\ SrFree /\ ~srAccess
    /\ srHost' = srHost
    /\ SrPower(TRUE, ok) /\ srAccess' = ok
    /\ srCard' = IF srRail THEN srCard ELSE 0
    /\ srTrue' = (ok /\ ~srRail)
    /\ UNCHANGED <<srBus, srDirect, srChain>>
SrOpen(ok) ==
    /\ SrFree /\ ~srAccess
    /\ srHost' = 0
    /\ SrPower(TRUE, ok) /\ srAccess' = ok
    /\ srCard' = IF srRail THEN srCard ELSE 0
    /\ srTrue' = (ok /\ ~srRail)
    /\ UNCHANGED <<srBus, srDirect, srChain>>

\* star_dev_close: a failed power_off is logged; response and direct mode stay.
SrClose(ok) ==
    /\ SrFree /\ srAccess
    /\ SrPower(FALSE, ok) /\ srAccess' = FALSE
    /\ UNCHANGED <<srBus, srDirect, srLink, srChain>>

\* star_dev_ioctl.  k250a_reset finds no reset line, so both resets reset the
\* host's side only.
SrSetDirect ==
    /\ SrFree /\ srAccess /\ srDirect' = ~srDirect
    /\ UNCHANGED <<srBus, srAccess, srPower, srLink, srChain>>
SrResetIoctl ==
    /\ SrFree /\ srAccess /\ srHost' = 0 /\ srTrue' = FALSE
    /\ UNCHANGED <<srBus, srAccess, srPower, srDirect, srCard, srChain>>

-----------------------------------------------------------------------------
(* star_dev_write, star_transceive, star_dev_read.                         *)

\* The old response goes first.  A direct write hands bytes to the card without
\* the protocol and stores an empty response.
SrWrite(c) ==
    /\ SrFree /\ srAccess /\ srCmd' = c /\ srRsp' = SrNoRsp
    /\ \/ ~srDirect /\ srAt' = 1 /\ srRepeat' = 0 /\ srParts' = <<>> /\ UNCHANGED srLink
       \/ srDirect /\ srCard' \in {0, 1} /\ srTrue' = FALSE
          /\ UNCHANGED <<srHost, srAt, srRepeat, srParts>>
    /\ UNCHANGED <<srBus, srAccess, srPower, srDirect>>

\* An exchange succeeded: the response is the expected one or not.  An expected
\* one is followed by the same step (AGAIN) or the next; its status bytes are
\* cut off, except from the last.  An unexpected one ends the chain.
SrKept(last) == Append(srParts, <<srAt, IF last THEN "whole" ELSE "body">>)
MutSrNextStep(expected) ==
    LET last == srAt = Len(srCmd)
    IN IF last \/ ~expected
         THEN /\ srRsp' = [of |-> srCmd, parts |-> SrKept(last), early |-> ~expected]
              /\ srAt' = 0 /\ srRepeat' = 0 /\ srParts' = <<>>
         ELSE /\ srParts' = SrKept(FALSE) /\ srAt' = srAt + 1 /\ srRepeat' = 0
              /\ UNCHANGED srRsp
SrNextStep(expected) ==
    LET last == srAt = Len(srCmd)
    IN IF last \/ ~expected
         THEN /\ srRsp' = [of |-> srCmd, parts |-> SrKept(TRUE), early |-> ~expected]
              /\ srAt' = 0 /\ srRepeat' = 0 /\ srParts' = <<>>
         ELSE /\ srParts' = SrKept(FALSE) /\ srAt' = srAt + 1 /\ srRepeat' = 0
              /\ UNCHANGED srRsp
SrExchange(expected) ==
    /\ srAt > 0
    /\ \E d \in {0, 1} : srHost' = (srHost + d) % 2 /\ srCard' = (srCard + d) % 2
    /\ srCmd[srAt] = "plain" => expected
    /\ IF srCmd[srAt] = "again" /\ expected
         THEN /\ srRepeat < SrMaxAgain /\ srRepeat' = srRepeat + 1
              /\ srParts' = SrKept(FALSE) /\ UNCHANGED <<srAt, srRsp>>
         ELSE SrNextStep(expected)
    /\ UNCHANGED <<srBus, srAccess, srPower, srDirect, srTrue, srCmd>>

\* Sending or receiving fails, or the chain's header is not as it should be: the
\* parts are dropped and the write fails.
SrChainFails ==
    /\ srAt > 0 /\ srAt' = 0 /\ srRepeat' = 0 /\ srParts' = <<>>
    /\ srHost' \in {0, 1} /\ srCard' \in {0, 1} /\ srTrue' = FALSE
    /\ UNCHANGED <<srBus, srAccess, srPower, srDirect, srCmd, srRsp>>

\* A read takes the response, or with a wrong size throws it away.
SrRead ==
    /\ SrFree /\ srAccess /\ ~srDirect /\ srRsp # SrNoRsp
    /\ srRsp' = SrNoRsp
    /\ UNCHANGED <<srBus, srAccess, srPower, srDirect, srLink, srCmd, srAt, srRepeat, srParts>>

SrNext ==
    \/ SrInitStep \/ SrInitFails \/ SrExit
    \/ \E ok \in BOOLEAN : SrOpen(ok) \/ SrClose(ok)
    \/ SrSetDirect \/ SrResetIoctl \/ SrChainFails \/ SrRead
    \/ \E c \in SrCmds : SrWrite(c)
    \/ \E e \in BOOLEAN : SrExchange(e)

SrSpec == SrInit /\ [][SrNext]_srVars

-----------------------------------------------------------------------------
(* Properties.                                                             *)

\* A module that could not be set up, or that was removed, leaves nothing in the
\* device tree, on the buses and in the driver lists, whichever step failed ("This
\* changes only the live tree and is reverted when the module exits").
SrLeavesNothing == srMod = "out" => srHeld \cap Range(SrSteps) = {}

\* Whoever has the device open has a powered card, although any RPMh write of
\* earlier opens and closes may have failed.
SrOpenHasPower == srAccess => srRail

\* Opening a card that was off starts both sides of the T=1 link at the same
\* block number, whatever the previous user did, and complete chains keep it so.
SrInStep == srAccess /\ srTrue => srHost = srCard

\* A session with the card starts with a powered card in step with the host, and a
\* driver that is not there holds nothing, whichever call before it failed.
SrSession == SrLeavesNothing /\ SrOpenHasPower /\ SrInStep

\* The response kept for read belongs to the last command written: a write that
\* fails, or goes to the card directly, leaves no earlier answer behind.
SrRspIsLast == srRsp # SrNoRsp => srRsp.of = srCmd

\* The response of a chain holds its steps in order, from the first on, none left
\* out, with the card's status only at the end; it stops before the chain does
\* only at an unexpected answer.
SrChainWhole ==
    srRsp # SrNoRsp =>
        LET p == srRsp.parts
        IN /\ p[1][1] = 1 /\ p[Len(p)][2] = "whole"
           /\ \A i \in 1..Len(p) - 1 : p[i][2] = "body" /\ p[i + 1][1] - p[i][1] \in {0, 1}
           /\ srRsp.early \/ p[Len(p)][1] = Len(srRsp.of)

\* What read returns is the whole answer to the last command, and to no other.
SrResponse == SrRspIsLast /\ SrChainWhole
=============================================================================
