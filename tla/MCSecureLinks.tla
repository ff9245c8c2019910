--------------------------- MODULE MCSecureLinks ---------------------------
(***************************************************************************)
(* Three links to the secure chips, each over a peer that may be silent or *)
(* restart, in one run: the T=1 protocol of the secure element, and of the *)
(* secure processor the GLINK ring and the events and interrupts told to   *)
(* user space.  None shares a variable with another, so a behaviour        *)
(* follows the one in focus, and the others rest.                          *)
(***************************************************************************)
EXTENDS MCIso7816T1, SpssEvents, GlinkSpss

VARIABLE focus

LinksInit ==
    /\ focus \in {"card", "events", "glink"}
    /\ Init /\ EvInit /\ GlInit
    /\ focus = "glink" \/ glSide = "tx"

LinksNext ==
    /\ UNCHANGED focus
    /\ \/ focus = "card" /\ Next /\ UNCHANGED <<evVars, glVars>>
       \/ focus = "events" /\ EvNext /\ UNCHANGED <<vars, glVars>>
       \/ focus = "glink" /\ GlNext /\ UNCHANGED <<vars, evVars>>

\* The fairness of FairSpec, EvFair and GlFair, each where its link is in focus.
LinksFair ==
    /\ WF_vars(focus = "card" /\ Host)
    /\ WF_vars(focus = "card" /\ Card)
    /\ WF_evVars(focus = "events" /\ IqListen)
    /\ \A u \in EvUsers : WF_evVars(focus = "events" /\ EvWaitEnd(u))
    /\ WF_glVars(focus = "glink" /\ GlRead)
    /\ WF_glVars(focus = "glink" /\ GlPublish)
    /\ \A m \in GlMsgs : WF_glVars(focus = "glink" /\ m \in glWant /\ GlTxWrite(m))

SecureLinks == LinksInit /\ [][LinksNext]_<<focus, vars, evVars, glVars>> /\ LinksFair
=============================================================================
