----------------------------- MODULE PortProofs -----------------------------
(***************************************************************************)
(* Proofs about the Type-C port controller: what a power-role swap notes   *)
(* and freezes, and that it happens in place.                              *)
(*                                                                         *)
(* Four drivers of the state meet here (the interrupt, TCPM, set_vbus with *)
(* its gap, the partner), so most of the invariant says who may be where   *)
(* together: which messages can be on their way in which step of a swap,   *)
(* and in which steps VBUS may be moving.                                  *)
(***************************************************************************)
EXTENDS Sm5714UsbPd, TLAPS

PdTypeOK ==
    /\ pdTcpm \in {"reset", "open", "toggling", "src", "snk", "s2k_off", "s2k_cc", "s2k_rdy",
                   "k2s_cc", "k2s_on", "hr_off", "hr_on"}
    /\ pdCc \in {"none", "source", "sink"} /\ pdVbus \in {"none", "on", "off"}
    /\ pdRx \in {"none", "PR_SWAP", "PS_RDY"} /\ pdGot \in {"none", "PR_SWAP", "PS_RDY"}
    /\ pdBoost \in BOOLEAN

\* Messages: at most one is on its way, a PR_SWAP only in a settled attachment.
PdMessages ==
    /\ pdRx # "none" => pdGot = "none"
    /\ pdRx = "PR_SWAP" => pdTcpm \in {"src", "snk", "hr_off", "hr_on"} /\ pdCc # "none"
    /\ pdGot = "PR_SWAP" => pdTcpm \in {"src", "snk", "open", "hr_off", "hr_on"}
    /\ "PR_SWAP" \in {pdRx, pdGot} /\ pdTcpm = "src" => pdBoost /\ pdVbus = "none"
    /\ pdTcpm \in {"s2k_off", "s2k_cc", "k2s_cc", "k2s_on"} \/ (pdTcpm = "hr_on" /\ pdVbus = "on")
         => pdRx = "none" /\ pdGot = "none"

\* VBUS moves only in the steps that move it.
PdMoving ==
    /\ pdVbus = "on" => pdTcpm \in {"src", "k2s_on", "hr_on"} /\ ~pdBoost
    /\ pdVbus = "off" => pdTcpm \in {"open", "s2k_off", "hr_off"}

\* Nothing is left that is not there; the hold belongs to a noted swap.
PdHolding ==
    /\ "s2k" \in pdLeft => pdS2k
    /\ "k2s" \in pdLeft => pdK2s
    /\ pdHold # 0 => pdS2k

\* The comparators agree with TCPM's role as long as something is attached.
PdSides ==
    /\ pdTcpm \in {"src", "s2k_off", "s2k_cc", "k2s_on", "hr_off", "hr_on"} => pdCc # "source"
    /\ pdTcpm \in {"snk", "s2k_rdy", "k2s_cc"} => pdCc # "sink"

\* Who may have noted a swap: the message to be answered, the swap itself, one that
\* came to nothing, or an attachment that is being given up.
PdOwned ==
    /\ pdS2k /\ "s2k" \notin pdLeft =>
         \/ pdTcpm \in {"open", "s2k_off", "s2k_cc", "s2k_rdy"}
         \/ pdGot = "PR_SWAP" /\ pdTcpm \in {"src", "hr_off", "hr_on"}
    /\ pdK2s /\ "k2s" \notin pdLeft =>
         pdTcpm \in {"open", "k2s_cc", "k2s_on"} \/ (pdGot = "PR_SWAP" /\ pdTcpm = "snk")
    /\ pdTcpm = "s2k_rdy" /\ pdGot = "PS_RDY" /\ pdS2k => "s2k" \in pdLeft

\* A swap that has come as far as the pins has been noted, in its direction.
PdNoted ==
    /\ pdGot = "PR_SWAP" \/ pdTcpm \in {"s2k_off", "s2k_cc"} => (pdCc = "sink" => pdS2k)
    /\ pdGot = "PR_SWAP" \/ pdTcpm = "k2s_cc" => (pdCc = "source" => pdK2s)

PdInv == PdTypeOK /\ PdMessages /\ PdMoving /\ PdHolding /\ PdSides /\ PdOwned /\ PdNoted /\ PdTogglesClean

\* Probe leaves a quiet port.
LEMMA PdInvInit == PdInit => PdInv
<1> SUFFICES ASSUME PdInit PROVE PdInv
  OBVIOUS
<1>1. pdCc \in {"none", "source", "sink"}
  BY DEF PdInit
<1> QED
  BY <1>1 DEF PdInit, PdInv, PdTypeOK, PdMessages, PdMoving, PdHolding, PdSides, PdOwned, PdNoted, PdTogglesClean

\* Every step of the port, of TCPM and of the partner keeps the invariant.
LEMMA PdInvStep == PdInv /\ [PdNext]_pdVars => PdInv'
<1> SUFFICES ASSUME PdInv, [PdNext]_pdVars PROVE PdInv'
  OBVIOUS
<1> USE DEF PdInv, PdTypeOK, PdMessages, PdMoving, PdHolding, PdSides, PdOwned, PdNoted, PdTogglesClean
<1>1. CASE PdProbeEnd
  BY <1>1 DEF PdProbeEnd, pdCable, pdPins, pdMsg, pdOtg, pdBind
<1>2. CASE PdIrqCc
  BY <1>2 DEF PdIrqCc, pdCable, pdPins, pdMsg, pdOtg, pdBind, PdCcChange, PdAttached, PdSwapping
<1>3. CASE PdResyncWork
  BY <1>3 DEF PdResyncWork, pdCable, pdPins, pdMsg, pdOtg, pdBind, PdCcChange, PdAttached, PdSwapping
<1>4. CASE PdStartToggling
  BY <1>4 DEF PdStartToggling, pdCable, pdPins, pdMsg, pdOtg, pdBind
<1>5. CASE PdSetCcOpen
  BY <1>5 DEF PdSetCcOpen, pdCable, pdPins, pdMsg, pdOtg, pdBind, PdSwapping
<1>6. CASE PdSetCcRd
  BY <1>6 DEF PdSetCcRd, pdCable, pdPins, pdMsg, pdOtg, pdBind
<1>7. CASE PdSetCcRp
  BY <1>7 DEF PdSetCcRp, pdCable, pdPins, pdMsg, pdOtg, pdBind
<1>8. CASE PdDetWork
  BY <1>8 DEF PdDetWork, pdCable, pdPins, pdMsg, pdOtg, pdBind
<1>9. CASE PdTcpmActs
  BY <1>9 DEF PdTcpmActs, pdCable, pdPins, pdMsg, pdOtg, pdBind
<1>10. CASE PdTcpmRejects
  BY <1>10 DEF PdTcpmRejects, PdLeave, pdCable, pdPins, pdMsg, pdOtg, pdBind
<1>11. CASE PdHardReset
  BY <1>11 DEF PdHardReset, pdCable, pdPins, pdMsg, pdOtg, pdBind
<1>12. CASE PdUnplug
  BY <1>12 DEF PdUnplug, pdCable, pdPins, pdMsg, pdOtg, pdBind
<1>13. CASE PdPartnerSends
  BY <1>13 DEF PdPartnerSends, pdCable, pdPins, pdMsg, pdOtg, pdBind
<1>14. ASSUME NEW on \in BOOLEAN, PdVbusBegin(on) PROVE PdInv'
  BY <1>14 DEF PdVbusBegin, pdCable, pdPins, pdMsg, pdOtg, pdBind
<1>15. ASSUME NEW ok \in BOOLEAN, PdVbusEnd(ok) PROVE PdInv'
  <2> USE DEF PdVbusEnd, pdCable, pdPins, pdMsg, pdOtg, pdBind
  <2>1. CASE pdVbus = "on" /\ ok
    BY <1>15, <2>1
  <2>2. CASE pdVbus = "on" /\ ~ok
    BY <1>15, <2>2
  <2>3. CASE pdVbus = "off"
    BY <1>15, <2>3
  <2> QED
    BY <1>15, <2>1, <2>2, <2>3
<1>16. ASSUME NEW ok \in BOOLEAN, PdReceive(ok) PROVE PdInv'
  BY <1>16 DEF PdReceive, PdLeave, pdCable, pdPins, pdMsg, pdOtg, pdBind
<1>17. ASSUME NEW cc \in {"source", "sink"}, PdPlug(cc) PROVE PdInv'
  BY <1>17 DEF PdPlug, pdCable, pdPins, pdMsg, pdOtg, pdBind
<1>18. CASE UNCHANGED pdVars
  BY <1>18 DEF pdVars, pdCable, pdPins, pdMsg, pdOtg, pdBind
<1> QED
  BY <1>1, <1>2, <1>3, <1>4, <1>5, <1>6, <1>7, <1>8, <1>9, <1>10, <1>11, <1>12, <1>13, <1>14, <1>15, <1>16, <1>17, <1>18 DEF PdNext

\* The flags and the hold of a power-role swap that is carried out end with it, those of
\* a swap that is refused, forgotten over a hard reset or left frozen by a failed write
\* end with the attachment: a toggling port has none of them, for any number of
\* attachments and swaps, whatever step a refused boost or the cable's end interrupts.
THEOREM PdFlagsSafety == PdSpec => []PdFlagsClean
<1>1. PdInv => PdFlagsClean
  BY DEF PdInv, PdHolding, PdOwned, PdFlagsClean, PdSettledNotFrozen
<1>2. PdInv /\ [PdNext]_pdVars => PdInv'
  BY PdInvStep
<1> QED
  BY <1>1, <1>2, PdInvInit, PTL DEF PdSpec

\* A swap the partner asked for never forces or opens the CC pins, unless error
\* recovery ends it: sm5714_usbpd_set_cc finds the swap noted whenever it matters.
THEOREM PdSwapsInPlace == PdSpec => PdSwapInPlace
<1>1. PdInv /\ [PdNext]_pdVars =>
        [PdSwapping /\ pdTcpm' # "open" /\ pdCc # "none" => pdMode' = pdMode]_pdVars
  <2> SUFFICES ASSUME PdInv, PdNext, PdSwapping, pdTcpm' # "open", pdCc # "none"
               PROVE  pdMode' = pdMode
    OBVIOUS
  <2>1. CASE PdSetCcRd
    BY <2>1 DEF PdSetCcRd, PdInv, PdTypeOK, PdNoted
  <2>2. CASE PdSetCcRp
    BY <2>2 DEF PdSetCcRp, PdInv, PdTypeOK, PdNoted
  <2>3. CASE PdStartToggling \/ PdSetCcOpen
    BY <2>3 DEF PdStartToggling, PdSetCcOpen, PdSwapping
  <2>4. CASE \/ PdProbeEnd \/ PdIrqCc \/ PdResyncWork \/ PdDetWork \/ PdTcpmActs
             \/ PdTcpmRejects \/ PdHardReset \/ PdUnplug \/ PdPartnerSends
    BY <2>4 DEF PdProbeEnd, PdIrqCc, PdResyncWork, PdDetWork, PdTcpmActs,
       PdTcpmRejects, PdHardReset, PdUnplug, PdPartnerSends, pdPins
  <2>5. ASSUME NEW b \in BOOLEAN, PdVbusBegin(b) \/ PdVbusEnd(b) \/ PdReceive(b) PROVE pdMode' = pdMode
    BY <2>5 DEF PdVbusBegin, PdVbusEnd, PdReceive
  <2>6. ASSUME NEW cc \in {"source", "sink"}, PdPlug(cc) PROVE pdMode' = pdMode
    BY <2>6 DEF PdPlug, pdPins
  <2> QED
    BY <2>1, <2>2, <2>3, <2>4, <2>5, <2>6 DEF PdNext
<1>2. PdInv /\ [PdNext]_pdVars => PdInv'
  BY PdInvStep
<1> QED
  BY <1>1, <1>2, PdInvInit, PTL DEF PdSpec, PdSwapInPlace
=============================================================================
