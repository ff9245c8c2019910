------------------------------ MODULE GlinkSpss ------------------------------
(***************************************************************************)
(* One pipe of the shared-memory transport to the secure processor (SP),   *)
(* src/kernel/files/spu/qcom_glink_spss.c: a ring with an index for each   *)
(* side.  On the tx pipe the kernel writes and the SP reads, on the rx     *)
(* pipe the other way round; the peer is taken to work as the kernel's own *)
(* half does.  A cell stands for half of the 8 bytes FIFO_ALIGNMENT names. *)
(***************************************************************************)
EXTENDS Integers, Sequences, FiniteSets

CONSTANTS GlLen,       \* cells of the ring (SPSS_TX_FIFO_SIZE), a multiple of 2
          GlMsgs,      \* messages, natural numbers; two of every payload length
          GlMaxCrash,  \* bound: crashes of the SP
          GlStaleKick  \* TRUE: an interrupt of the SP's old life reaches the new edge

ASSUME GlAssumption ==
    /\ GlLen \in Nat /\ GlLen % 2 = 0 /\ GlLen >= 6 /\ GlMaxCrash \in Nat
    /\ GlMsgs \subseteq Nat /\ GlMsgs # {}
    /\ GlStaleKick \in BOOLEAN
    /\ \A m \in GlMsgs : 2 + m \div 2 < GlLen    \* qcom_glink_tx refuses longer ones

VARIABLES
    glSide,   \* the pipe: "tx" or "rx"
    glHead, glTail, glFifo,
    glPend,   \* the write under way: the head it will publish, or -1
    glWant,   \* the messages whose writers wait for room
    glNotify, \* sent_read_notify
    glPeek,   \* the reader has seen a message's header: <<m>>, or <<>>
    glOut,    \* the message it delivered last
    glUp,     \* "up"; "down" after a crash; "half": registered, peer not yet ready
    glMet,    \* ghost: on this half-made edge a notification has met the stale tail
    glCrashes

glVars == <<glSide, glHead, glTail, glFifo, glPend, glWant, glNotify, glPeek, glOut,
            glUp, glMet, glCrashes>>

GlCells == 0..GlLen - 1
GlNotif == -2                                \* struct read_notif_request
GlJunk == -3                                 \* what no message looks like
GlHdr == 2                                   \* cells of a glink header
GlDlen(m) == IF m = GlNotif THEN 0 ELSE m \div 2
GlAlign(n) == n + (n % 2)                    \* ALIGN(n, 8)
GlWrap(i) == IF i >= GlLen THEN i - GlLen ELSE i

GlInit ==
    /\ glSide \in {"tx", "rx"} /\ glHead = 0 /\ glTail = 0
    /\ glFifo = [i \in GlCells |-> <<>>]
    /\ glPend = -1 /\ glWant = {} /\ glNotify = FALSE
    /\ glPeek = <<>> /\ glOut = <<>> /\ glUp = "up" /\ glMet = FALSE /\ glCrashes = 0

\* The kernel's half of the tx pipe works before the SP has cleared its index:
\* qcom_glink_native_probe sends from inside the registration.
GlOpen == glUp = "up" \/ (glUp = "half" /\ glSide = "tx")

-----------------------------------------------------------------------------
(* The writer.                                                             *)

\* glink_spss_tx_avail: FIFO_FULL_RESERVE and TX_BLOCKED_CMD_RESERVE kept back.
MutGlTxAvailTwice ==
    LET a == IF glTail <= glHead THEN GlLen - glHead + glTail ELSE glTail - glHead
    IN IF a < 8 THEN 0 ELSE a - 8
GlTxAvail ==
    LET a == IF glTail <= glHead THEN GlLen - glHead + glTail ELSE glTail - glHead
    IN IF a < 4 THEN 0 ELSE a - 4

\* glink_spss_tx_write_one, for header and data together: cell k of message m.
GlCopy(m) ==
    [i \in GlCells |-> LET k == (i - glHead) % GlLen
                       IN IF k < GlHdr + GlDlen(m) THEN <<m, k>> ELSE glFifo[i]]

\* glink_spss_tx_write up to wmb(), and the head it is about to publish.  A writer that
\* finds room may overtake those that wait; only one that waited clears sent_read_notify.
GlWriteHead(m) == GlWrap(GlAlign(GlWrap(glHead + GlHdr + GlDlen(m))))
GlTxWrite(m) ==
    /\ glPend = -1 /\ GlTxAvail >= GlHdr + GlDlen(m)
    /\ GlOpen
    /\ glFifo' = GlCopy(m) /\ glPend' = GlWriteHead(m)
    /\ glWant' = glWant \ {m} /\ glNotify' = (glNotify /\ m \notin glWant)
    /\ UNCHANGED <<glSide, glHead, glTail, glPeek, glOut, glUp, glMet, glCrashes>>

\* The head is stored after the barrier.
GlPublish ==
    /\ glPend # -1
    /\ glHead' = glPend /\ glPend' = -1
    /\ UNCHANGED <<glSide, glTail, glFifo, glWant, glNotify, glPeek, glOut, glUp, glMet,
                   glCrashes>>

\* External, qcom_glink_tx: a writer without room asks to be told of it, unless that has
\* been asked for, and waits.  The request is written without a look at the room, into
\* the blocked-command reserve.
GlBlocked(m) ==
    /\ glPend = -1 /\ GlTxAvail < GlHdr + GlDlen(m) /\ GlOpen
    /\ glWant' = glWant \cup {m} /\ glNotify' = TRUE
    /\ IF glNotify THEN UNCHANGED <<glFifo, glPend, glMet>>
       ELSE /\ glFifo' = GlCopy(GlNotif) /\ glPend' = GlWriteHead(GlNotif)
            /\ glMet' = (glMet \/ (glUp = "half" /\ glPend' = glTail))
    /\ UNCHANGED <<glSide, glHead, glTail, glPeek, glOut, glUp, glCrashes>>

-----------------------------------------------------------------------------
(* The reader.                                                             *)

\* glink_spss_rx_avail.
GlRxAvail == IF glHead < glTail THEN GlLen - glTail + glHead ELSE glHead - glTail

\* glink_spss_rx_peak of count cells at an offset.
GlPeekAt(offset, count) == [k \in 0..count - 1 |-> glFifo[GlWrap(glTail + offset + k)]]

\* External, qcom_glink_native_rx: the header, then payload and advance.
GlMayRead == /\ glUp = "up" \/ (glUp = "half" /\ glSide = "rx" /\ GlStaleKick)
             /\ GlRxAvail > 0
GlReadHeader ==
    /\ GlMayRead /\ glPeek = <<>>
    /\ LET h == GlPeekAt(0, GlHdr)
       IN glPeek' = IF h[0] # <<>> /\ h[0][2] = 0 THEN <<h[0][1]>> ELSE <<GlJunk>>
    /\ UNCHANGED <<glSide, glHead, glTail, glFifo, glPend, glWant, glNotify, glOut, glUp,
                   glMet, glCrashes>>

\* glink_spss_rx_advance.
GlRxAdvance(count) == GlWrap(glTail + count)
GlReadPayload ==
    /\ GlMayRead /\ glPeek \notin {<<>>, <<GlJunk>>}
    /\ LET m == glPeek[1]
           n == GlDlen(m)
           d == GlPeekAt(GlHdr, n)
           whole == \A k \in 0..n - 1 : d[k] = <<m, GlHdr + k>>
       IN /\ glOut' = IF whole THEN <<m>> ELSE <<GlJunk>>
          /\ glTail' = GlRxAdvance(GlAlign(GlHdr + n))
    /\ glPeek' = <<>>
    /\ UNCHANGED <<glSide, glHead, glFifo, glPend, glWant, glNotify, glUp, glMet, glCrashes>>

-----------------------------------------------------------------------------
(* A crash of the SP and the new edge.                                     *)

\* qcom_glink_spss_unregister.
GlCrash ==
    /\ glUp = "up" /\ glCrashes < GlMaxCrash
    /\ glUp' = "down" /\ glCrashes' = glCrashes + 1
    /\ glPend' = -1 /\ glWant' = {} /\ glNotify' = FALSE /\ glMet' = FALSE
    /\ glPeek' = <<>> /\ glOut' = <<>>
    /\ UNCHANGED <<glSide, glHead, glTail, glFifo>>

\* qcom_glink_spss_register clears the index of the kernel's side only.
MutGlRegister ==
    /\ glUp = "down" /\ glUp' = "half"
    /\ UNCHANGED <<glHead, glTail, glSide, glFifo, glPend, glWant, glNotify, glPeek, glOut, glMet,
                   glCrashes>>
GlRegister ==
    /\ glUp = "down" /\ glUp' = "half"
    /\ IF glSide = "tx" THEN glHead' = 0 /\ UNCHANGED glTail ELSE glTail' = 0 /\ UNCHANGED glHead
    /\ UNCHANGED <<glSide, glFifo, glPend, glWant, glNotify, glPeek, glOut, glMet,
                   glCrashes>>

\* External: the SP finds the advertised ring and clears its own index.
GlPeerReady ==
    /\ glUp = "half" /\ glUp' = "up"
    /\ IF glSide = "tx" THEN glTail' = 0 /\ UNCHANGED glHead ELSE glHead' = 0 /\ UNCHANGED glTail
    /\ UNCHANGED <<glSide, glFifo, glPend, glWant, glNotify, glPeek, glOut, glMet,
                   glCrashes>>

GlRead == GlReadHeader \/ GlReadPayload

GlNext ==
    \/ GlPublish \/ GlRead \/ GlCrash \/ GlRegister \/ GlPeerReady
    \/ \E m \in GlMsgs : GlTxWrite(m) \/ GlBlocked(m)

\* Both ends run: the reader reads, a write is finished, and a writer that waits looks
\* again at the room (it is woken, or its wait of 10 s ends).
GlFair ==
    /\ WF_glVars(GlRead) /\ WF_glVars(GlPublish)
    /\ \A m \in GlMsgs : WF_glVars(m \in glWant /\ GlTxWrite(m))

GlSpec == GlInit /\ [][GlNext]_glVars /\ GlFair

-----------------------------------------------------------------------------
(* Properties.                                                             *)

\* In ring F, what a reader starting at cell t takes the next n cells for: GlParse(F)[n][t].
GlParse(F) ==
    LET p[n \in 0..GlLen] ==
          [t \in GlCells |->
             IF n = 0 THEN <<>>
             ELSE IF F[t] = <<>> \/ F[t][2] # 0 THEN <<GlJunk>>
             ELSE LET c == GlAlign(GlHdr + GlDlen(F[t][1]))
                  IN <<F[t][1]>> \o (IF c > n THEN <<GlJunk>> ELSE p[n - c][GlWrap(t + c)])]
    IN p

\* The queue the ring stands for: empty while one of the indices is an old one, and for
\* an edge that the notification has spoilt.
GlContents ==
    IF glMet THEN <<>>
    ELSE IF glUp = "up" THEN GlParse(glFifo)[GlRxAvail][glTail]
    ELSE IF glUp = "half" /\ glSide = "tx" THEN GlParse(glFifo)[glHead][0]
    ELSE <<>>

GlGot == IF glMet THEN <<>> ELSE glOut

GlQueue == INSTANCE GlinkQueue WITH
               Msgs <- GlMsgs \cup {GlNotif}, q <- GlContents, out <- GlGot

\* The ring implements the queue: what is delivered is what was written, whole and in
\* order, across the wrap of both indices, padding, read notifications, writers that
\* overtake each other and a crash after which each side clears only its own index.
\* Nothing is promised of an edge on which, before the SP was ready, a notification was
\* written up to the SP's stale tail: the ring then looks empty to the kernel.
GlDelivers == GlQueue!Spec

\* A full ring never looks empty: FIFO_FULL_RESERVE stays free behind the head, the
\* write under way and a read notification sent on top of a blocked message included,
\* and on a new edge too, unless that notification meets the stale tail.
GlReserveKept ==
    ~glMet => /\ GlRxAvail <= GlLen - 2
              /\ glPend # -1 => glPend # glTail
              /\ glHead % 2 = 0 /\ glTail % 2 = 0

\* A writer that found no room on a working edge gets it and sends, once no other writer
\* overtakes it, if the message fits into an empty ring at all.  (A longer one, up to the
\* length of the ring, is accepted by qcom_glink_tx and waits for ever.)
GlRoomComes ==
    \A m \in {n \in GlMsgs : GlHdr + GlDlen(n) <= GlLen - 4} :
        <>[][\A n \in GlMsgs \ {m} : ~GlTxWrite(n)]_glVars
            => ((m \in glWant /\ glUp = "up") ~> (m \notin glWant \/ glMet))

\* Writers never fill the ring and never wait for ever: the reserve is kept and room
\* comes.
GlFlow == []GlReserveKept /\ GlRoomComes
=============================================================================
