----------------------------- MODULE Sm5714UsbPd -----------------------------
(***************************************************************************)
(* The Type-C and USB-PD port controller, src/kernel/files/sm5714_usbpd.c: *)
(* probe and the retained dock, the interrupt, CC and VBUS under TCPM, and *)
(* power-role swaps asked for by the partner, which must not open the CC   *)
(* pins.  TCPM, the partner and the charger driver's boost are external.   *)
(***************************************************************************)
EXTENDS Integers

CONSTANTS PdMaxPlug,  \* bound: attachments
          PdMaxSwap   \* bound: PR_SWAP messages

ASSUME PdAssumption == PdMaxPlug \in Nat /\ PdMaxSwap \in Nat

VARIABLES
    pdCc,      \* CC_STATUS: what is attached: "none", "source", "sink"
    pdMode,    \* CC_CNTL1 and CC_CNTL3: "drp", "open", "src" or "snk" forced
    pdHold,    \* the CC hold bits of CC_CNTL3
    pdS2k, pdK2s,  \* pr_swap_src_to_snk, pr_swap_snk_to_src
    pdLatch,   \* INT1: attach or detach latched
    pdRx,      \* the RX window: "none", "PR_SWAP", "PS_RDY"
    pdTcpm,    \* TCPM: "reset", "open", "toggling", "src", "snk", a swap's step, or
               \* "hr_off", "hr_on" in a hard reset
    pdGot,     \* the message TCPM has been given and not yet acted on
    pdIrqOn,   \* the interrupt is registered
    pdResync,  \* cc_resync_work is queued
    pdVbus,    \* set_vbus under way: "none", "on", "off"
    pdBoost,   \* sm5714_battery_is_otg_active
    pdDet,     \* the otg-det GPIO
    pdDetWork, \* otg_det_work is queued
    pdRefused, \* history: the charger driver has refused the boost for this partner
    pdLeft,    \* history: the notes of swaps that came to nothing, {"s2k", "k2s"}
    pdPlugs, pdSwaps

pdCable == <<pdCc, pdLatch, pdPlugs, pdRefused>>
pdPins == <<pdMode, pdHold, pdS2k, pdK2s, pdLeft>>
pdMsg == <<pdRx, pdGot, pdSwaps>>
pdOtg == <<pdVbus, pdBoost, pdDet, pdDetWork>>
pdBind == <<pdIrqOn, pdResync>>
pdVars == <<pdCable, pdPins, pdMsg, pdOtg, pdTcpm, pdBind>>

PdSwapping == pdTcpm \in {"s2k_off", "s2k_cc", "s2k_rdy", "k2s_cc", "k2s_on"}
PdAttached == pdTcpm \notin {"reset", "open", "toggling"}

\* The notes a PR_SWAP has left, once nobody will carry it out.
PdLeave == pdLeft' = pdLeft \cup {n \in {"s2k", "k2s"} : IF n = "s2k" THEN pdS2k ELSE pdK2s}

-----------------------------------------------------------------------------
(* sm5714_usbpd_probe.                                                     *)

\* Up to tcpm_register_port: an old data role with a source attached is met by
\* presenting Rp and then opening the pins, a detach the dock sees; init clears
\* the interrupt latches; TCPM begins with a port reset.
PdInit ==
    /\ \E dfp \in BOOLEAN, cc \in {"none", "source", "sink"} :
           LET retained == dfp /\ cc = "source"
           IN /\ pdCc = IF retained THEN "none" ELSE cc
              /\ pdMode = IF retained THEN "open" ELSE "drp"
    /\ pdHold = 0 /\ pdS2k = FALSE /\ pdK2s = FALSE
    /\ pdLatch = FALSE /\ pdRx = "none" /\ pdGot = "none"
    /\ pdTcpm = "reset" /\ pdIrqOn = FALSE /\ pdResync = FALSE
    /\ pdVbus = "none" /\ pdBoost = FALSE /\ pdDet = FALSE /\ pdDetWork = FALSE
    /\ pdPlugs = 0 /\ pdSwaps = 0 /\ pdRefused = FALSE /\ pdLeft = {}

\* devm_request_threaded_irq, and the one resynchronisation.
MutPdProbeEnd ==
    /\ ~pdIrqOn /\ pdIrqOn' = TRUE /\ UNCHANGED pdResync
    /\ UNCHANGED <<pdCable, pdPins, pdMsg, pdOtg, pdTcpm>>
PdProbeEnd ==
    /\ ~pdIrqOn /\ pdIrqOn' = TRUE /\ pdResync' = TRUE
    /\ UNCHANGED <<pdCable, pdPins, pdMsg, pdOtg, pdTcpm>>

-----------------------------------------------------------------------------
(* TCPM's reaction to tcpm_cc_change, external: it looks at sm5714_usbpd_get_cc, *)
(* attaches when toggling, gives up an attachment that has gone.           *)

PdCcChange ==
    pdTcpm' = CASE pdTcpm = "toggling" /\ pdCc = "source" -> "snk"
                [] pdTcpm = "toggling" /\ pdCc = "sink" -> "src"
                [] PdAttached /\ pdCc = "none" /\ ~PdSwapping -> "open"
                [] OTHER -> pdTcpm

\* sm5714_usbpd_irq for attach and detach: the latch is cleared by the read, and
\* TCPM told after the lock.
PdIrqCc ==
    /\ pdIrqOn /\ pdLatch /\ pdVbus = "none"
    /\ pdLatch' = FALSE
    /\ PdCcChange
    /\ UNCHANGED <<pdCc, pdPlugs, pdRefused, pdPins, pdMsg, pdOtg, pdBind>>

\* sm5714_usbpd_cc_resync_work, 1500 ms (3000 ms for a retained dock) after probe:
\* TCPM's reset, 1020 ms, is over.
PdResyncWork ==
    /\ pdResync /\ pdResync' = FALSE /\ pdVbus = "none"
    /\ pdTcpm # "reset"
    /\ PdCcChange
    /\ UNCHANGED <<pdCable, pdPins, pdMsg, pdOtg, pdIrqOn>>

\* sm5714_usbpd_start_toggling, when TCPM's reset is over, and whenever an
\* attachment has gone.
PdStartToggling ==
    /\ pdTcpm \in {"reset", "open"} /\ pdVbus = "none" /\ ~pdBoost
    /\ pdTcpm' = "toggling"
    /\ pdMode' = "drp" /\ pdHold' = 0 /\ pdS2k' = FALSE /\ pdK2s' = FALSE /\ pdLeft' = {}
    /\ pdGot' = "none"    \* TCPM drops what it has not looked at
    /\ UNCHANGED <<pdCable, pdRx, pdSwaps, pdOtg, pdBind>>

-----------------------------------------------------------------------------
(* sm5714_usbpd_set_cc.                                                    *)

\* TYPEC_CC_OPEN: error recovery of a swap that came to nothing; the partner sees
\* the pins open.
PdSetCcOpen ==
    /\ PdSwapping /\ pdVbus = "none" /\ pdTcpm' = "open"
    /\ pdMode' = "open" /\ pdHold' = 0 /\ pdS2k' = FALSE /\ pdK2s' = FALSE /\ pdLeft' = {}
    /\ pdCc' = "none" /\ pdLatch' = TRUE
    /\ pdGot' = "none" /\ UNCHANGED <<pdPlugs, pdRefused, pdRx, pdSwaps, pdOtg, pdBind>>

\* TYPEC_CC_RD in a swap: nothing to do when a source is attached; in place when
\* the partner asked; forced otherwise, which opens the pins.
PdSetCcRd ==
    /\ pdTcpm = "s2k_cc" /\ pdVbus = "none" /\ pdTcpm' = "s2k_rdy"
    /\ IF pdCc = "source" THEN UNCHANGED <<pdMode, pdHold, pdCc>>
       ELSE IF pdS2k THEN pdHold' = 16 /\ pdCc' = "source" /\ UNCHANGED pdMode
       ELSE pdMode' = "snk" /\ pdHold' = 0 /\ pdCc' = "none"
    /\ UNCHANGED <<pdS2k, pdK2s, pdLeft, pdLatch, pdPlugs, pdRefused, pdMsg, pdOtg, pdBind>>

\* TYPEC_CC_RP_* in a swap: the mirror image.
MutPdSetCcRp ==
    /\ pdTcpm = "k2s_cc" /\ pdVbus = "none" /\ pdTcpm' = "k2s_on"
    /\ IF pdCc = "sink" THEN UNCHANGED <<pdMode, pdCc>>
       ELSE pdMode' = "src" /\ pdCc' = "none"
    /\ pdHold' = IF pdMode' = "src" THEN 0 ELSE pdHold
    /\ UNCHANGED <<pdS2k, pdK2s, pdLeft, pdLatch, pdPlugs, pdRefused, pdMsg, pdOtg, pdBind>>
PdSetCcRp ==
    /\ pdTcpm = "k2s_cc" /\ pdVbus = "none" /\ pdTcpm' = "k2s_on"
    /\ IF pdCc = "sink" THEN UNCHANGED <<pdMode, pdCc>>
       ELSE IF pdK2s THEN pdCc' = "sink" /\ UNCHANGED pdMode
       ELSE pdMode' = "src" /\ pdCc' = "none"
    /\ pdHold' = IF pdMode' = "src" THEN 0 ELSE pdHold
    /\ UNCHANGED <<pdS2k, pdK2s, pdLeft, pdLatch, pdPlugs, pdRefused, pdMsg, pdOtg, pdBind>>

-----------------------------------------------------------------------------
(* sm5714_usbpd_set_vbus, in the part before sm5714_battery_set_otg and the part after. *)

\* TCPM switches VBUS: on at a source attachment, at the end of a swap and of a hard
\* reset; off when the attachment has gone, in a swap and in a hard reset, where TCPM
\* waits 660 ms (external: PD_T_SRC_RECOVER) and has looked at every message by then.
PdVbusBegin(on) ==
    /\ pdVbus = "none"
    /\ IF on THEN /\ ~pdBoost /\ pdTcpm \in {"src", "k2s_on", "hr_on"}
             ELSE /\ pdBoost /\ pdTcpm \in {"open", "s2k_off", "hr_off"}
    /\ pdTcpm = "hr_on" => pdRx = "none" /\ pdGot = "none"
    /\ pdVbus' = IF on THEN "on" ELSE "off"
    /\ pdHold' = IF ~on /\ pdS2k THEN 32 ELSE pdHold
    /\ pdDet' = (on \/ pdDet) /\ pdDetWork' = (on \/ pdDetWork)
    /\ UNCHANGED <<pdCable, pdMode, pdS2k, pdK2s, pdLeft, pdMsg, pdBoost, pdTcpm, pdBind>>

\* The boost is switched, or the charger driver refuses: the pulse ends at once, and
\* TCPM goes to error recovery.
PdVbusEnd(ok) ==
    /\ pdVbus # "none"
    /\ LET on == pdVbus = "on"
       IN /\ pdBoost' = IF ok THEN on ELSE pdBoost
          /\ pdK2s' = (pdK2s /\ ~(ok /\ on))
          /\ pdLeft' = IF ok /\ on THEN pdLeft \ {"k2s"} ELSE pdLeft
          /\ IF ~ok \/ ~on THEN pdDetWork' = FALSE /\ pdDet' = FALSE
             ELSE UNCHANGED <<pdDet, pdDetWork>>
          /\ pdTcpm' = IF ~ok /\ on THEN "open"
                       ELSE CASE pdTcpm \in {"k2s_on", "hr_on"} -> "src"
                              [] pdTcpm = "s2k_off" -> "s2k_cc" [] pdTcpm = "hr_off" -> "hr_on"
                              [] OTHER -> pdTcpm
    /\ ok \/ pdVbus = "on"
    /\ pdVbus' = "none" /\ pdRefused' = (pdRefused \/ ~ok)
    /\ UNCHANGED <<pdCc, pdLatch, pdPlugs, pdMode, pdHold, pdS2k, pdMsg, pdBind>>

\* sm5714_usbpd_otg_det_work, 130 ms later.
PdDetWork ==
    /\ pdDetWork /\ pdDetWork' = FALSE /\ pdDet' = FALSE
    /\ UNCHANGED <<pdCable, pdPins, pdMsg, pdVbus, pdBoost, pdTcpm, pdBind>>

-----------------------------------------------------------------------------
(* Messages.                                                               *)

\* sm5714_usbpd_receive: a PR_SWAP notes the direction the CC status implies, a
\* PS_RDY releases the hold, or fails to and keeps both (ok = FALSE); the message goes
\* to TCPM, the window is acknowledged.
MutPdReceive(ok) ==
    /\ pdIrqOn /\ pdRx # "none" /\ pdGot = "none" /\ ok
    /\ pdS2k' = (pdS2k \/ (pdRx = "PR_SWAP" /\ pdCc = "sink"))
    /\ pdK2s' = (pdK2s \/ (pdRx = "PR_SWAP" /\ pdCc = "source"))
    /\ pdGot' = pdRx /\ pdRx' = "none"
    /\ UNCHANGED <<pdHold, pdMode, pdLeft, pdCable, pdSwaps, pdOtg, pdTcpm, pdBind>>
PdReceive(ok) ==
    /\ pdIrqOn /\ pdRx # "none" /\ pdGot = "none"
    /\ LET ready == pdRx = "PS_RDY" /\ pdS2k
       IN /\ ok \/ ready
          /\ pdS2k' = ((pdS2k /\ ~(ready /\ ok)) \/ (pdRx = "PR_SWAP" /\ pdCc = "sink"))
          /\ pdK2s' = (pdK2s \/ (pdRx = "PR_SWAP" /\ pdCc = "source"))
          /\ pdHold' = IF ready /\ ok THEN 0 ELSE pdHold
          /\ IF ok THEN pdLeft' = IF ready THEN pdLeft \ {"s2k"} ELSE pdLeft ELSE PdLeave
    /\ pdGot' = pdRx /\ pdRx' = "none"
    /\ UNCHANGED <<pdMode, pdCable, pdSwaps, pdOtg, pdTcpm, pdBind>>

\* External: TCPM's answer to what it was given.  It takes up a swap, ends one, or drops
\* or refuses the message; the driver hears nothing of a refusal.
PdTcpmActs ==
    /\ pdGot # "none" /\ pdVbus = "none" /\ pdGot' = "none"
    /\ \/ pdGot = "PR_SWAP" /\ pdTcpm = "src" /\ pdBoost /\ pdTcpm' = "s2k_off"
       \/ pdGot = "PR_SWAP" /\ pdTcpm = "snk" /\ pdTcpm' = "k2s_cc"
       \/ pdGot = "PS_RDY" /\ pdTcpm = "s2k_rdy" /\ pdTcpm' = "snk"
    /\ UNCHANGED <<pdCable, pdPins, pdRx, pdSwaps, pdOtg, pdBind>>
PdTcpmRejects ==
    /\ pdGot # "none" /\ pdGot' = "none"
    /\ \/ pdTcpm \in {"reset", "open", "toggling", "hr_off", "hr_on"}
       \/ pdTcpm \in {"src", "snk"}
    /\ PdLeave
    /\ UNCHANGED <<pdCable, pdMode, pdHold, pdS2k, pdK2s, pdRx, pdSwaps, pdOtg, pdTcpm, pdBind>>

\* External: a hard reset while the port is the source takes VBUS off and on again, at
\* any time: also between a PR_SWAP and TCPM's answer to it.
PdHardReset ==
    /\ pdTcpm = "src" /\ pdBoost /\ pdVbus = "none"
    /\ pdTcpm' = "hr_off"
    /\ UNCHANGED <<pdCable, pdPins, pdMsg, pdOtg, pdBind>>

-----------------------------------------------------------------------------
(* The partner, external.                                                  *)

\* A new partner is slower than TCPM in letting go of the old one.
PdPlug(cc) ==
    /\ pdTcpm \in {"reset", "toggling"} /\ pdCc = "none" /\ pdMode = "drp" /\ pdPlugs < PdMaxPlug
    /\ pdCc' = cc /\ pdLatch' = TRUE /\ pdPlugs' = pdPlugs + 1
    /\ pdRefused' = FALSE
    /\ UNCHANGED <<pdPins, pdMsg, pdOtg, pdTcpm, pdBind>>
PdUnplug ==
    /\ pdCc # "none" /\ pdHold = 0
    /\ pdCc' = "none" /\ pdLatch' = TRUE /\ pdRx' = "none"
    /\ UNCHANGED <<pdPlugs, pdRefused, pdGot, pdSwaps, pdPins, pdOtg, pdTcpm, pdBind>>
PdPartnerSends ==
    /\ pdRx = "none" /\ pdCc # "none" /\ pdGot = "none"
    /\ \/ /\ pdTcpm \in {"src", "snk"} /\ pdVbus = "none" /\ pdSwaps < PdMaxSwap
          /\ (pdTcpm = "src") = pdBoost
          /\ pdRx' = "PR_SWAP" /\ pdSwaps' = pdSwaps + 1
       \/ pdTcpm = "s2k_rdy" /\ pdRx' = "PS_RDY" /\ UNCHANGED pdSwaps
    /\ UNCHANGED <<pdCable, pdGot, pdPins, pdOtg, pdTcpm, pdBind>>

PdNext ==
    \/ PdProbeEnd \/ PdIrqCc \/ PdResyncWork \/ PdStartToggling
    \/ PdSetCcOpen \/ PdSetCcRd \/ PdSetCcRp
    \/ \E b \in BOOLEAN : PdVbusBegin(b) \/ PdVbusEnd(b) \/ PdReceive(b)
    \/ PdDetWork \/ PdTcpmActs \/ PdTcpmRejects \/ PdHardReset
    \/ \E cc \in {"source", "sink"} : PdPlug(cc)
    \/ PdUnplug \/ PdPartnerSends

\* Interrupts, work items and TCPM run; the partner and error recovery need not.
PdFair ==
    /\ WF_pdVars(PdProbeEnd) /\ WF_pdVars(PdIrqCc) /\ WF_pdVars(PdResyncWork)
    /\ WF_pdVars(PdStartToggling) /\ WF_pdVars(PdDetWork)
    /\ WF_pdVars(PdVbusBegin(FALSE)) /\ WF_pdVars(PdVbusEnd(TRUE))

PdSpec == PdInit /\ [][PdNext]_pdVars /\ PdFair

-----------------------------------------------------------------------------
(* Properties.                                                             *)

\* A partner that is plugged in and stays is seen: neither an attach edge from before the
\* interrupt was registered nor one TCPM ignored during its port reset is lost for good,
\* thanks to the one resynchronisation after probe.  A partner whose boost was refused
\* makes no new edge and is left alone until it is plugged in again.
PdAttachIsSeen ==
    (pdTcpm = "toggling" /\ pdCc # "none" /\ ~pdRefused) ~> (pdTcpm # "toggling" \/ pdCc = "none")

\* While TCPM toggles, nothing of an earlier attachment is left: the CC comparators are
\* back on after set_cc(OPEN), the hold is released, no swap is noted.
PdTogglesClean ==
    pdTcpm = "toggling" => pdMode = "drp" /\ pdHold = 0 /\ ~pdS2k /\ ~pdK2s

\* A swap the partner asked for happens in place: from PR_SWAP to its end no step but
\* the error recovery forces or opens the CC pins, so the dock never sees a detach.
PdSwapInPlace ==
    [][PdSwapping /\ pdTcpm' # "open" /\ pdCc # "none"
       => pdMode' = pdMode]_pdVars

\* In a settled attachment with no PR_SWAP to be answered, a swap is noted and the CC
\* state is frozen (its end would not be noticed) only if a swap came to nothing since
\* the port last toggled or opened the pins: the driver never hears that TCPM refused or
\* forgot one, and a hold it failed to release stays.  After a swap that was carried out,
\* nothing is left.
PdSettledNotFrozen ==
    pdTcpm \in {"src", "snk"} /\ pdGot # "PR_SWAP" =>
      /\ pdS2k => "s2k" \in pdLeft
      /\ pdK2s => "k2s" \in pdLeft
      /\ pdHold # 0 => "s2k" \in pdLeft

\* The otg-det pulse ends, also when the boost is refused or switched off at once.
PdPulseEnds == pdDet ~> ~pdDet

\* The flags of a swap end with the swap when it is carried out, and with the
\* attachment when it is not.
PdFlagsClean == PdTogglesClean /\ PdSettledNotFrozen

\* What the port owes its partner and its charger comes: the attach is seen and the
\* pulse ends.
PdSettles == PdAttachIsSeen /\ PdPulseEnds
=============================================================================
