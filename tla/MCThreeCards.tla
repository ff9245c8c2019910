----------------------------- MODULE MCThreeCards -----------------------------
(***************************************************************************)
(* Iso7816T1 against three cards in one run:                               *)
(*   "prompt"   answers within the host's polling limit and may ask for    *)
(*              more time;                                                 *)
(*   "slow"     may answer later, with one fault and no request;           *)
(*   "foreign"  sends any S-frame unasked; here user space carries on      *)
(*              after an error instead of resetting the interface, and     *)
(*              memory may run out.                                        *)
(***************************************************************************)
EXTENDS MCIso7816T1

VARIABLE kind

MCCmdLens == <<3, 1, 2, 0>>
MCRspLens == <<1, 3, 2, 2>>
Own == IF kind = "foreign" THEN {3, 4} ELSE {1, 2}

CardsInit == Init /\ kind \in {"prompt", "slow", "foreign"}
CardsNext ==
    /\ Next /\ kind' = kind /\ cmd' \in Own \cup {0}
    /\ ReceiveUnstored => kind = "foreign"
    /\ kind = "prompt" =>
         /\ asked' > asked => toHost' = SFrame("WTX_REQ")
         /\ pc = "read" /\ pc' # "read" => toCard = <<>>
    /\ kind = "slow" => faults' <= 1 /\ asked' = 0
    /\ kind = "foreign" =>
         /\ faults' <= 1 /\ asked' <= 1
         /\ pc = "read" /\ pc' # "read" => toCard = <<>>
    /\ kind # "foreign" /\ pc = "ready" =>
         IF pc' = "ready" THEN result' = result \/ ResetInterface
         ELSE result.status # "error"
Cards == CardsInit /\ [][CardsNext]_<<vars, kind>>

(* iso7816_t1_send and iso7816_t1_receive keep the promise of ApduService with a
   prompt and with a slow card: the card runs a command at most once, and success
   comes with its complete response. *)
PromiseKept == Service!AInit /\ [][kind = "foreign" \/ Service!ANext]_(Service!avars)

(* With a prompt card one frame damaged on the way to the card, or damaged or
   missed on the way back, never fails a command of star_transceive. *)
PromptCardRecovers == kind = "prompt" => OneSpoiledFrame
================================================================================
