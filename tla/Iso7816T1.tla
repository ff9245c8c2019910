------------------------------ MODULE Iso7816T1 -------------------------------
(***************************************************************************)
(* The T=1 block protocol of the secure element's driver                   *)
(* (snvm/protocol/ese_iso7816_t1.c) over a line that loses, damages and    *)
(* delays frames, against a card that follows ISO 7816-3.                  *)
(*                                                                         *)
(* The host is one record h, the iso7816_t1_t of the code.  Lengths are    *)
(* counted in blocks of PROTOCOL_SEND_SIZE bytes; a block's payload is the *)
(* pair <<command, block number>>, so a mixed-up, repeated or truncated    *)
(* command or response is visible.  The checksum is the frame Garbled: it  *)
(* fails on that frame and on no other.                                    *)
(***************************************************************************)
EXTENDS Integers, Sequences, FiniteSets

CONSTANTS
    CmdLen,         \* command -> its length in blocks, 0 for an empty command
    RspLen,         \* command -> the length of its response in blocks
    MaxFaults,      \* frames damaged, lost or read too early, per command
    MaxErrors,      \* transfers and allocations that fail, per command
    Unlimited,      \* TRUE: both bounds are ignored
    DeafCard,       \* TRUE: a frame may pass the card by altogether
    SlowCard,       \* TRUE: the card may answer after the host has stopped polling
    CardS,          \* the S-frames the card may send unasked
    MaxS,           \* how many of them per command
    NoMemory,       \* TRUE: a block received may find no memory to be stored in
    MustReset       \* TRUE: user space resets the interface after an error

Cmds == DOMAIN CmdLen

ASSUME CommandsAssumption ==
    /\ Cmds \subseteq Nat \ {0}
    /\ CmdLen \in [Cmds -> Nat]
    /\ RspLen \in [Cmds -> Nat \ {0}]
    /\ MaxFaults \in Nat /\ MaxErrors \in Nat /\ MaxS \in Nat
    /\ Unlimited \in BOOLEAN /\ SlowCard \in BOOLEAN
    /\ DeafCard \in BOOLEAN /\ NoMemory \in BOOLEAN /\ MustReset \in BOOLEAN

(* A card has a buffer for the longest command. *)
ASSUME LongestAssumption == \E c \in Cmds : \A d \in Cmds : CmdLen[d] <= CmdLen[c]

FRAME_RETRY_COUNT == 3
TIMEOUT_RETRY_COUNT == 3
MAX_RNACK_RETRY_LIMIT == 2
MaxQueue == IF SlowCard THEN 2 ELSE 1     \* frames the card may be behind

VARIABLES
    h,          \* the protocol structure
    pc,         \* where the caller is: ready, first send, read, send
    cmd,        \* the command of the call in progress, or of the last one
    toCard,     \* frames sent and not yet taken up by the card
    toHost,     \* the block the card has ready to be read
    card,       \* the card
    faults,     \* frames the line has spoiled so far, in this call
    errors,     \* transfers that have failed so far, in this call
    asked,      \* unasked S-frames so far, in this call
    ran,        \* what the card has run in this call
    result      \* what the last call returned

vars == <<h, pc, cmd, toCard, toHost, card, faults, errors, asked, ran, result>>

--------------------------------------------------------------------------------
(* Frames *)

NoBody == <<0, 0>>
Frame(type, seq, more, err, sub, body) ==
    [type |-> type, seq |-> seq, more |-> more, err |-> err, sub |-> sub, body |-> body]
IFrame(seq, more, body) == Frame("I", seq, more, "no", "none", body)
RFrame(nr, err) == Frame("R", nr, FALSE, err, "none", NoBody)
SFrame(sub) == Frame("S", 0, FALSE, "no", sub, NoBody)
Garbled == Frame("garbled", 0, FALSE, "no", "none", NoBody)
NoFrame == Frame("none", 0, FALSE, "no", "none", NoBody)

Flip(seq) == 1 - seq
Blocks(c, n) == [i \in 1..n |-> <<c, i - 1>>]
ResponseTo(c) == Blocks(c, RspLen[c])

--------------------------------------------------------------------------------
(* The host: operations on the protocol structure *)

(* frame_info_t: what was sent last, and what is to be sent next. *)
FreshTx ==
    [type |-> "none", data |-> 0, seq |-> 1, off |-> 0, left |-> 0, size |-> 0,
     more |-> FALSE, err |-> "no", sub |-> "none"]

(* iso7816_t1_init *)
FreshHost ==
    [state |-> "IDLE", last |-> FreshTx, next |-> FreshTx, rx |-> 1,
     recovery |-> 0, timeout |-> 0, rnack |-> 0, lastFrame |-> "none", recv |-> <<>>]

(* reset_params: offsets, lengths and the received blocks are left alone. *)
ResetParams(g) ==
    [g EXCEPT !.state = "IDLE", !.rx = 1, !.recovery = 0, !.timeout = 0, !.rnack = 0,
              !.lastFrame = "none",
              !.next = [@ EXCEPT !.type = "none", !.data = 0, !.seq = 1],
              !.last = [@ EXCEPT !.type = "none", !.data = 0, !.seq = 1]]

SetIframe(g, c) ==
    [g EXCEPT !.state = "IFRAME",
              !.next = [@ EXCEPT !.type = "I", !.data = c, !.off = 0,
                                 !.seq = Flip(g.last.seq),
                                 !.more = CmdLen[c] > 1,
                                 !.left = IF CmdLen[c] > 1 THEN CmdLen[c] - 1 ELSE CmdLen[c],
                                 !.size = IF CmdLen[c] > 1 THEN 1 ELSE CmdLen[c]]]

MutNextIframe(g) ==
    [g EXCEPT !.state = "IFRAME",
              !.next = [@ EXCEPT !.type = "I", !.data = g.last.data, !.off = g.last.off,
                                 !.seq = Flip(g.last.seq),
                                 !.more = g.last.left > 1,
                                 !.left = IF g.last.left > 1 THEN g.last.left - 1 ELSE g.next.left,
                                 !.size = IF g.last.left > 1 THEN 1 ELSE g.last.left]]

NextIframe(g) ==
    [g EXCEPT !.state = "IFRAME",
              !.next = [@ EXCEPT !.type = "I", !.data = g.last.data, !.off = g.last.off + 1,
                                 !.seq = Flip(g.last.seq),
                                 !.more = g.last.left > 1,
                                 !.left = IF g.last.left > 1 THEN g.last.left - 1 ELSE g.next.left,
                                 !.size = IF g.last.left > 1 THEN 1 ELSE g.last.left]]

FinishRecovery(g) == [g EXCEPT !.state = "IDLE", !.recovery = 0]

SendR(g, err) == [g EXCEPT !.state = "RFRAME", !.next.type = "R", !.next.err = err]
SendS(g, sub) == [g EXCEPT !.state = "SFRAME", !.next.type = "S", !.next.sub = sub]
Resend(g) == [g EXCEPT !.next = g.last]

MutRetry(g, attempt) == attempt

(* One more attempt, as long as there are attempts left. *)
Retry(g, attempt) ==
    IF g.recovery < FRAME_RETRY_COUNT
    THEN [attempt EXCEPT !.recovery = g.recovery + 1]
    ELSE FinishRecovery(g)

Store(g, f) == [g EXCEPT !.recv = Append(@, f.body), !.rx = f.seq, !.recovery = 0]

(* An I-frame is new when its number differs from the last one received. *)
DecodeI(g, f) ==
    IF f.seq = g.rx THEN Retry(g, SendR(g, "other"))
    ELSE IF f.more THEN SendR(Store(g, f), "no")
    ELSE [Store(g, f) EXCEPT !.state = "IDLE"]

MutDecodeAck(g, f) == NextIframe([g EXCEPT !.recovery = 0])

(* A request for the block just sent is not handled: it goes out once more. *)
DecodeAck(g, f) ==
    IF f.seq # g.last.seq
    THEN NextIframe([g EXCEPT !.recovery = 0])
    ELSE [g EXCEPT !.recovery = 0]

(* The card asks for something again: the I-frame, the acknowledgement of its
   own block, or it and the host disagree. *)
DecodeNack(g, f) ==
    Retry(g, CASE g.last.type = "I" -> [Resend(g) EXCEPT !.state = "IFRAME"]
               [] g.last.type = "R" /\ f.seq = g.last.seq /\ g.lastFrame = "I" ->
                    [Resend(g) EXCEPT !.state = "IFRAME", !.next.type = "I"]
               [] g.last.type = "R" /\ f.seq # g.last.seq /\ g.lastFrame = "R" ->
                    SendR(g, "no")
               [] g.last.type = "S" -> Resend(g)
               [] g.last.type = "none" -> g
               [] OTHER -> SendR(g, "other"))

DecodeS(g, f) ==
    CASE f.sub = "RESYNCH_REQ" -> SendS(ResetParams(g), "RESYNCH_RSP")
      [] f.sub \in {"RESYNCH_RSP", "ABORT_RES"} ->
            [g EXCEPT !.state = "IDLE", !.next.type = "none"]
      [] f.sub = "WTX_REQ" ->
            IF g.last.type = "S" /\ g.last.sub # "WTX_RSP"
            THEN Retry(g, Resend(g))
            ELSE SendS(g, "WTX_RSP")
      [] OTHER -> g

(* decode_frame *)
Decode(g, f) ==
    CASE f.type = "I" -> DecodeI(g, f)
      [] f.type = "R" /\ f.err = "no" -> DecodeAck(g, f)
      [] f.type = "R" /\ f.err \in {"parity", "other"} -> DecodeNack(g, f)
      [] f.type = "R" /\ f.err = "both" -> Retry(g, Resend(g))
      [] f.type = "S" -> DecodeS(g, f)

MutNack(g, err) == [g EXCEPT !.state = "IDLE", !.rnack = 0]

(* The three ways process asks for a frame again, or gives up. *)
Nack(g, err) ==
    IF g.rnack < MAX_RNACK_RETRY_LIMIT
    THEN [SendR(g, err) EXCEPT !.rnack = g.rnack + 1]
    ELSE [g EXCEPT !.state = "IDLE", !.rnack = 0]

(* The line stayed silent. *)
NackSilence(g) ==
    IF g.rnack < MAX_RNACK_RETRY_LIMIT
    THEN Nack(g, "other")
    ELSE [Nack(g, "other") EXCEPT !.timeout = 0]

(* The read itself failed. *)
Retransmit(g) ==
    IF g.timeout < TIMEOUT_RETRY_COUNT
    THEN [Resend(g) EXCEPT !.timeout = g.timeout + 1]
    ELSE [g EXCEPT !.state = "IDLE", !.timeout = 0]

AfterSResponse(g) == g.last.type = "S" /\ g.last.sub \in {"WTX_RSP", "RESYNCH_RSP"}

(* process, by what the read returned: a frame with a good checksum, bytes
   with a bad one, no frame within the polling limit, or a bus error. *)
Processed(g, got, f) ==
    CASE got = "frame" -> Decode([g EXCEPT !.timeout = 0, !.rnack = 0], f)
      [] got = "garbled" -> Nack([g EXCEPT !.timeout = 0], "parity")
      [] got = "nothing" -> NackSilence(g)
      [] got = "ioerror" -> IF AfterSResponse(g) THEN NackSilence(g) ELSE Retransmit(g)

--------------------------------------------------------------------------------
(* The line and the bus: each fault counts against a budget of the call. *)

NoFault == UNCHANGED <<faults, errors>>
Fault ==
    /\ Unlimited \/ faults < MaxFaults
    /\ faults' = IF Unlimited THEN 0 ELSE faults + 1
    /\ UNCHANGED errors
BusError ==
    /\ Unlimited \/ errors < MaxErrors
    /\ errors' = IF Unlimited THEN 0 ELSE errors + 1
    /\ UNCHANGED faults

--------------------------------------------------------------------------------
(* The host: the caller's steps (star_transceive, one command of a chain) *)

None == [status |-> "none", data |-> <<>>]
Error == [status |-> "error", data |-> <<>>]
Success(data) == [status |-> "ok", data |-> data]

(* star_transceive calls iso7816_t1_send with the command.  A state other
   than IDLE skips set_iframe.  Successive commands differ, so that data left
   over from the call before is not mistaken for this one's. *)
Submit(c) ==
    /\ pc = "ready"
    /\ MustReset => result.status # "error"
    /\ c # cmd
    /\ pc' = "first" /\ cmd' = c
    /\ h' = IF h.state = "IDLE" THEN SetIframe(h, c) ELSE h
    /\ faults' = 0 /\ errors' = 0 /\ asked' = 0 /\ ran' = <<>> /\ result' = None
    /\ UNCHANGED <<toCard, toHost, card>>

(* What iso7816_t1_send hands to the bus. *)
Outgoing(g) ==
    CASE g.state = "IFRAME" -> IFrame(g.next.seq, g.next.more, <<g.next.data, g.next.off>>)
      [] g.state = "RFRAME" -> RFrame(Flip(g.rx), g.next.err)
      [] g.state = "SFRAME" -> SFrame(g.next.sub)

(* send_iframe refuses an empty block and a missing buffer. *)
Refused(g) == g.state = "IFRAME" /\ (g.next.size = 0 \/ g.next.data = 0)

(* The structure after iso7816_t1_send: last_tx is a copy of next_tx, and an
   R-frame that reports an error is not remembered as the last frame. *)
Sent(g) ==
    [g EXCEPT !.last = g.next,
              !.lastFrame = CASE Refused(g) -> @
                              [] g.state = "IFRAME" -> "I"
                              [] g.state = "SFRAME" -> "S"
                              [] g.state = "RFRAME" /\ g.next.err = "no" -> "R"
                              [] OTHER -> @]

(* The frame reaches the card whole, damaged, or not at all. *)
Send ==
    /\ pc \in {"first", "send"} /\ ~Refused(h)
    /\ Len(toCard) < MaxQueue
    /\ \/ NoFault /\ toCard' = Append(toCard, Outgoing(h))
       \/ Fault /\ toCard' = Append(toCard, Garbled)
       \/ DeafCard /\ Fault /\ toCard' = toCard
    /\ h' = Sent(h) /\ pc' = "read"
    /\ UNCHANGED <<cmd, toHost, card, asked, ran, result>>

(* ese_data_get empties the list of received blocks. *)
Collected(g) == [g EXCEPT !.recv = <<>>]

(* iso7816_t1_send fails.  In iso7816_t1_receive the state becomes IDLE; for
   the command itself star_transceive returns and the state stays. *)
SendFails ==
    /\ pc \in {"first", "send"}
    /\ IF Refused(h) THEN NoFault ELSE BusError
    /\ h' = IF pc = "first" THEN Sent(h)
            ELSE Collected([Sent(h) EXCEPT !.state = "IDLE"])
    /\ pc' = "ready" /\ result' = Error
    /\ UNCHANGED <<cmd, toCard, toHost, card, asked, ran>>

(* What process may read.  Silence costs nothing when the card has nothing to
   say; while it still has a frame to take up, the polling limit came too early. *)
Read(got) ==
    CASE got = "frame"   -> NoFault /\ toHost # NoFrame /\ toHost' = NoFrame
      [] got = "garbled" -> Fault /\ toHost # NoFrame /\ toHost' = NoFrame
      [] got = "nothing" -> /\ IF toHost = NoFrame /\ toCard = <<>> THEN NoFault ELSE Fault
                            /\ toHost' = NoFrame
      [] got = "ioerror" -> BusError /\ toHost' \in {toHost, NoFrame}

(* The call ends when the state is IDLE: status is that of the last read, and
   no data is an error. *)
Returned(g, got) ==
    IF got = "frame" /\ g.recv # <<>> THEN Success(g.recv) ELSE Error

(* The loop of iso7816_t1_receive goes on, or ends. *)
GoesOn(g, got) ==
    IF g.state # "IDLE"
    THEN h' = g /\ pc' = "send" /\ UNCHANGED result
    ELSE h' = Collected(g) /\ pc' = "ready" /\ result' = Returned(g, got)

Receive(got) ==
    /\ pc = "read"
    /\ toCard = <<>> \/ SlowCard
    /\ Read(got)
    /\ GoesOn(Processed(h, got, toHost), got)
    /\ UNCHANGED <<cmd, toCard, card, asked, ran>>

(* ese_data_store fails for a new block, and nobody looks: for want of memory, or
   because the transfer broke off after three bytes that pass the checksum, which
   makes data_size - 4 a size nobody can allocate.  The block is acknowledged, or
   ends the call, all the same. *)
ReceiveUnstored ==
    /\ pc = "read" /\ NoMemory
    /\ toCard = <<>> \/ SlowCard
    /\ toHost.type = "I" /\ toHost.seq # h.rx
    /\ BusError /\ toHost' = NoFrame
    /\ GoesOn([Processed(h, "frame", toHost) EXCEPT !.recv = h.recv], "frame")
    /\ UNCHANGED <<cmd, toCard, card, asked, ran>>

--------------------------------------------------------------------------------
(* The card (external): what ISO 7816-3 asks of it *)

FreshCard ==
    [exp |-> 0, seq |-> 1, got |-> <<>>, run |-> 0, at |-> 0, last |-> NoFrame,
     due |-> NoFrame]

Mixed == 0      \* what a card runs that received no whole command
Whole(got) ==
    IF \E c \in Cmds : got = Blocks(c, CmdLen[c]) THEN got[1][1] ELSE Mixed
Length(run) == IF run = Mixed THEN 1 ELSE RspLen[run]

(* The next block of the response, and the current one again. *)
ResponseBlock(k) == IFrame(k.seq, k.at < Length(k.run), <<k.run, k.at - 1>>)
Advance(k) ==
    LET n == [k EXCEPT !.seq = Flip(@), !.at = @ + 1]
    IN  [n EXCEPT !.last = ResponseBlock(n)]
Say(k, f) == [k EXCEPT !.last = f, !.due = NoFrame]

(* The card's buffer: what does not fit belongs to no command. *)
LongestCmd == CHOOSE n \in {CmdLen[c] : c \in Cmds} : \A c \in Cmds : CmdLen[c] <= n

OnGarbled(k) ==
    {IF k.last.type = "S" THEN k ELSE Say(k, RFrame(k.exp, "parity"))}

OnI(k, f) ==
    IF f.seq # k.exp THEN
        {Say(k, RFrame(k.exp, "other"))} \cup (IF k.last.type \in {"I", "R"} THEN {k} ELSE {})
    ELSE LET n == [k EXCEPT !.exp = Flip(@), !.run = 0, !.at = 0,
                            !.got = IF Len(@) < LongestCmd THEN Append(@, f.body) ELSE <<f.body>>]
         IN  IF f.more THEN {Say(n, RFrame(n.exp, "no"))}
             ELSE {Advance([n EXCEPT !.run = Whole(n.got), !.got = <<>>])}

OnR(k, f) ==
    IF k.last = SFrame("WTX_REQ") THEN {k}
    ELSE IF k.last.type = "S" THEN {Say(k, k.due)}
    ELSE IF k.at > 0 /\ f.seq = k.seq THEN {Say(k, ResponseBlock(k))}
    ELSE IF k.at > 0 /\ k.at < Length(k.run) THEN {Advance(k)}
    ELSE IF k.last.type = "R" THEN {k}
    ELSE {Say(k, RFrame(k.exp, "other"))}

(* The answer to a request of the card lets it go on where it was. *)
OnS(k, f) ==
    IF f.sub = "WTX_RSP" /\ k.last = SFrame("WTX_REQ")
    THEN {Say(k, k.due)}
    ELSE {Say(k, RFrame(k.exp, "other"))}

CardTakes(k, f) ==
    CASE f.type = "garbled" -> OnGarbled(k)
      [] f.type = "I" -> OnI(k, f)
      [] f.type = "R" -> OnR(k, f)
      [] f.type = "S" -> OnS(k, f)

Executes(k, f) == f.type = "I" /\ f.seq = k.exp /\ ~f.more

CardAnswers ==
    /\ toCard # <<>>
    /\ \E k \in CardTakes(card, Head(toCard)) : card' = k /\ toHost' = k.last
    /\ toCard' = Tail(toCard)
    /\ ran' = IF Executes(card, Head(toCard))
              THEN Append(ran, card'.run) ELSE ran
    /\ UNCHANGED <<h, pc, cmd, faults, errors, asked, result>>

(* Before it answers a new block the card may ask for something itself. *)
CardAsks(sub) ==
    /\ toCard # <<>> /\ asked < MaxS
    /\ \E k \in CardTakes(card, Head(toCard)) :
        /\ <<k.exp, k.at>> # <<card.exp, card.at>>
        /\ card' = [k EXCEPT !.last = SFrame(sub), !.due = k.last]
    /\ toHost' = SFrame(sub)
    /\ toCard' = Tail(toCard)
    /\ asked' = asked + 1
    /\ ran' = IF Executes(card, Head(toCard))
              THEN Append(ran, card'.run) ELSE ran
    /\ UNCHANGED <<h, pc, cmd, faults, errors, result>>

--------------------------------------------------------------------------------
(* STAR_RESET_INTERFACE resets the chip and the protocol, STAR_RESET_PROTOCOL
   the protocol alone. *)
ResetInterface ==
    /\ pc = "ready" /\ result.status = "error"
    /\ h' = ResetParams(h)
    /\ card' = FreshCard /\ toCard' = <<>> /\ toHost' = NoFrame
    /\ result' = None /\ ran' = <<>>
    /\ UNCHANGED <<pc, cmd, faults, errors, asked>>

ResetProtocol ==
    /\ pc = "ready" /\ ~MustReset
    /\ h' = ResetParams(h)
    /\ result' = None /\ ran' = <<>>
    /\ UNCHANGED <<pc, cmd, toCard, toHost, card, faults, errors, asked>>

--------------------------------------------------------------------------------
Init ==
    /\ h = FreshHost /\ pc = "ready" /\ cmd = 0
    /\ toCard = <<>> /\ toHost = NoFrame /\ card = FreshCard
    /\ faults = 0 /\ errors = 0 /\ asked = 0 /\ ran = <<>> /\ result = None

Host ==
    \/ Send \/ SendFails \/ ReceiveUnstored
    \/ \E got \in {"frame", "garbled", "nothing", "ioerror"} : Receive(got)
Card == CardAnswers \/ \E sub \in CardS : CardAsks(sub)

Next == Host \/ Card \/ ResetInterface \/ ResetProtocol \/ \E c \in Cmds : Submit(c)

Spec == Init /\ [][Next]_vars

(* The calling thread keeps running, and the card answers what it receives. *)
FairSpec == Spec /\ WF_vars(Host) /\ WF_vars(Card)

--------------------------------------------------------------------------------
(* Properties *)

Bits == {0, 1}
States == {"IDLE", "IFRAME", "RFRAME", "SFRAME"}
Errs == {"no", "parity", "other", "both"}
Subs == {"none", "WTX_RSP", "RESYNCH_RSP"} \cup CardS
Body == Nat \X Nat
Tx == [type : {"none", "I", "R", "S"}, data : Cmds \cup {0}, seq : Bits, off : Nat,
       left : Nat, size : Bits, more : BOOLEAN, err : Errs, sub : Subs]
HostRecords ==
    [state : States, last : Tx, next : Tx, rx : Bits,
     recovery : 0..FRAME_RETRY_COUNT, timeout : 0..TIMEOUT_RETRY_COUNT,
     rnack : 0..MAX_RNACK_RETRY_LIMIT, lastFrame : {"none", "I", "R", "S"},
     recv : Seq(Body)]
Frames == [type : {"none", "garbled", "I", "R", "S"}, seq : Bits, more : BOOLEAN,
           err : Errs, sub : Subs, body : Body]
CardRecords ==
    [exp : Bits, seq : Bits, got : Seq(Body), run : Cmds \cup {0}, at : Nat,
     last : Frames, due : Frames]

(* Every field has its type, and no retry counter of iso7816_t1_process and
   decode_frame passes its limit. *)
T1TypeOK ==
    /\ h \in HostRecords /\ card \in CardRecords
    /\ pc \in {"ready", "first", "read", "send"}
    /\ cmd \in Cmds \cup {0}
    /\ toCard \in Seq(Frames) /\ Len(toCard) <= MaxQueue /\ toHost \in Frames
    /\ faults \in 0..MaxFaults /\ errors \in 0..MaxErrors /\ asked \in 0..MaxS
    /\ ran \in Seq(Cmds \cup {0})
    /\ result \in [status : {"none", "ok", "error"}, data : Seq(Body)]

(* iso7816_t1_send and iso7816_t1_receive keep the promise of ApduService: the
   card runs a command at most once, and success comes with its response. *)
Service == INSTANCE ApduService WITH busy <- pc # "ready"

(* One frame damaged on the way to the card, or damaged or missed on the way
   back, never fails a command of star_transceive, whatever befell earlier ones. *)
OneSpoiledFrame ==
    pc = "ready" /\ result # None /\ faults <= 1 /\ errors = 0 => result.status = "ok"

(* send_iframe never copies from beyond the command's buffer: late and repeated
   acknowledgements do not push the offset past the last block. *)
BlocksInsideCommand ==
    h.state = "IFRAME" /\ h.next.data # 0 => h.next.off <= CmdLen[h.next.data] - h.next.size

(* No frame, asked for or not, takes the driver out of its buffers, offsets and
   counters. *)
WithinBounds == T1TypeOK /\ BlocksInsideCommand

(* Every call of star_transceive returns: the loop of iso7816_t1_receive ends
   although frames may be spoiled without end. *)
CallEnds == pc # "ready" ~> pc = "ready"

================================================================================
