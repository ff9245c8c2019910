------------------------- MODULE MCSecureProcessor -------------------------
(***************************************************************************)
(* The drivers of the secure processor, src/kernel/files/spu/, in one run. *)
(* Each module says what it assumes of its neighbours; none of them shares *)
(* a variable with another, so a behaviour follows one of them, the one in *)
(* focus, and the others rest in one of their initial states.              *)
(***************************************************************************)
EXTENDS SpcomChannel, SpcomTable, SpcomDmabuf, SpssRproc, SpHlosHeap

CONSTANTS n1

VARIABLE focus

\* A resting component starts in this one of its initial states.
Resting ==
    /\ focus = "channel" \/ kind = "shared"
    /\ focus = "table" \/ tbName[1] = n1
    /\ focus = "boot" \/ ssState = "OFFLINE"

SpuInit ==
    /\ focus \in {"channel", "table", "dmabuf", "boot", "heap"}
    /\ Init /\ TbInit /\ DbInit /\ SsInit /\ HpInit
    /\ Resting

SpuNext ==
    /\ UNCHANGED focus
    /\ \/ focus = "channel" /\ Next
          /\ UNCHANGED <<tbVars, dbVars, ssVars, hpVars>>
       \/ focus = "table" /\ TbNext
          /\ UNCHANGED <<vars, dbVars, ssVars, hpVars>>
       \/ focus = "dmabuf" /\ DbNext
          /\ UNCHANGED <<vars, tbVars, ssVars, hpVars>>
       \/ focus = "boot" /\ SsNext
          /\ UNCHANGED <<vars, tbVars, dbVars, hpVars>>
       \/ focus = "heap" /\ HpNext
          /\ UNCHANGED <<vars, tbVars, dbVars, ssVars>>

\* Fairness of the channel, where it is in focus.
SpuFair ==
    /\ \A p \in Clients :
         /\ SF_vars(focus = "channel" /\ SendSync(p))
         /\ WF_vars(focus = "channel" /\ SendOn(p))
         /\ WF_vars(focus = "channel" /\ GetOn(p))
    /\ WF_vars(focus = "channel" /\ WorkStep)

SecureProcessor ==
    /\ SpuInit /\ SpuFair
    /\ [][SpuNext]_<<focus, vars, tbVars, dbVars, ssVars, hpVars>>
=============================================================================
