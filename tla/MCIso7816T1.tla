----------------------------- MODULE MCIso7816T1 ------------------------------
(* Instances of Iso7816T1 for TLC. *)
EXTENDS Iso7816T1

\* command and response lengths, in blocks
MCCmdLenOne == <<3>>
MCRspLenOne == <<3>>
MCCmdLenTwo == <<2, 1>>
MCRspLenTwo == <<2, 2>>

MCNoS == {}
MCAllS == {"WTX_REQ", "WTX_RSP", "RESYNCH_REQ", "RESYNCH_RSP", "ABORT_REQ",
           "ABORT_RES", "IFSC_REQ"}
================================================================================
