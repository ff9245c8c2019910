------------------------------ MODULE ApduService ------------------------------
(***************************************************************************)
(* What a caller of iso7816_t1_send followed by iso7816_t1_receive is      *)
(* promised, whatever the line does: the secure element runs the command   *)
(* at most once, and a call that reports success hands over the complete   *)
(* response to this very command.  Any call may report an error instead.   *)
(***************************************************************************)
EXTENDS Sequences

CONSTANTS
    Cmds,           \* the commands
    ResponseTo(_)   \* the complete response to a command

VARIABLES
    busy,       \* a call is in progress
    cmd,        \* its command, or that of the last call
    ran,        \* what the secure element has run for it
    result      \* what the last call returned

avars == <<busy, cmd, ran, result>>

Nothing == [status |-> "none", data |-> <<>>]
Error == [status |-> "error", data |-> <<>>]
Success(data) == [status |-> "ok", data |-> data]

AInit == busy = FALSE /\ cmd = 0 /\ ran = <<>> /\ result = Nothing

Submit(c) ==
    /\ ~busy
    /\ busy' = TRUE /\ cmd' = c /\ ran' = <<>> /\ result' = Nothing

(* A card that was slow may still run a command whose call has failed. *)
Execute ==
    /\ busy \/ result = Error
    /\ ran = <<>>
    /\ ran' = <<cmd>>
    /\ UNCHANGED <<busy, cmd, result>>

Answer ==
    /\ busy /\ ran = <<cmd>>
    /\ busy' = FALSE /\ result' = Success(ResponseTo(cmd))
    /\ UNCHANGED <<cmd, ran>>

Fail ==
    /\ busy
    /\ busy' = FALSE /\ result' = Error
    /\ UNCHANGED <<cmd, ran>>

(* Resetting the interface forgets the last call. *)
Forget ==
    /\ ~busy
    /\ result' = Nothing /\ ran' = <<>>
    /\ UNCHANGED <<busy, cmd>>

ANext == (\E c \in Cmds : Submit(c)) \/ Execute \/ Answer \/ Fail \/ Forget

ASpec == AInit /\ [][ANext]_avars
================================================================================
