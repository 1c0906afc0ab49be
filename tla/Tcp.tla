-------------------------------- MODULE Tcp --------------------------------
(***************************************************************************)
(* The TCP of net.rs on two hosts that run the same code, joined by a      *)
(* network that loses, duplicates and reorders segments.  Client calls     *)
(* tcp_connect once; Server listens on the port.                           *)
(*                                                                         *)
(* Every entry point (tcp_input from the receive interrupt, on_tick from   *)
(* the timer, the socket calls) runs with interrupts masked, so each is    *)
(* one action.  A sequence number is a pair: the connection (its tag) that *)
(* counts in it and the distance from its initial sequence number; isn()   *)
(* reads a 1 MHz clock, so two connections never share a number.  Byte k   *)
(* of a stream is the number k, so a payload is the interval               *)
(* first+1..first+n.  A timer is on or off and may expire at any moment.   *)
(***************************************************************************)
EXTENDS Integers, Sequences

CONSTANTS Client, Server,       \* the two hosts
          MSS, RECV_CAP, SEND_CAP, MAX_RETRIES,
          MaxBytes,             \* bound: bytes the applications write
          MaxOpen,              \* bound: connections opened on both hosts
          MaxFaults             \* bound: losses, duplicates, early expiries

Host == {Client, Server}

ASSUME HostAssumption == Client # Server
ASSUME SizeAssumption == /\ MSS \in Nat \ {0} /\ RECV_CAP \in Nat \ {0}
                         /\ SEND_CAP \in Nat \ {0} /\ MAX_RETRIES \in Nat
ASSUME BoundAssumption == MaxBytes \in Nat /\ MaxOpen \in Nat /\ MaxFaults \in Nat

VARIABLES conn,     \* the one connection slot of each host
          net,      \* segments in flight
          next_gen, \* tag of the next connection
          wrote,    \* history: bytes the application gave connection g
          taken,    \* history: bytes of g's stream a receiver has accepted
          rushed,   \* history: connections closed before their SYN was answered
          unwritten, faults
vars == <<conn, net, next_gen, wrote, taken, rushed, unwritten, faults>>

Peer(h) == IF h = Client THEN Server ELSE Client
Least(a, b) == IF a <= b THEN a ELSE b
Most(a, b) == IF a <= b THEN b ELSE a

State == {"SynSent", "SynRcvd", "Established", "FinWait1", "FinWait2",
          "Closing", "TimeWait", "CloseWait", "LastAck", "Closed"}

(* A Conn.  una and nxt count from iss (0); q is the length of sendq,      *)
(* drained the bytes already dropped from its front; irs is the peer's     *)
(* tag, rcv counts in it; held is the length of recvq and got, a history,  *)
(* every byte that entered it; rto says that rto_left is not 0.            *)
NewConn(g, s, peer, r, w, owned) ==
    [state |-> s, tag |-> g, una |-> 0, nxt |-> 1, irs |-> peer, rcv |-> r,
     win |-> w, drained |-> 0, q |-> 0, held |-> 0, got |-> << >>,
     fin_sent |-> FALSE, fin_acked |-> FALSE, app_closed |-> FALSE,
     accepted |-> owned, rto |-> TRUE, retries |-> 0]
NoConn == [NewConn(0, "None", 0, 0, 0, FALSE) EXCEPT !.rto = FALSE]

Live(c) == c.state \notin {"None", "Closed"}
Released(c) == ~c.accepted \/ c.app_closed
\* Mutant: only tcp_close frees a slot.
ReapedNever(c) == c
Reaped(c) == IF c.state = "Closed" /\ Released(c) THEN NoConn ELSE c

Seg(h, c, flags, seq, first, n) ==
    [to |-> Peer(h), flags |-> flags, sg |-> c.tag, seq |-> seq, ag |-> c.irs,
     ack |-> c.rcv, win |-> RECV_CAP - c.held, first |-> first, n |-> n]
Rst(h) ==
    [to |-> Peer(h), flags |-> {"RST"}, sg |-> 0, seq |-> 0, ag |-> 0,
     ack |-> 0, win |-> 0, first |-> 0, n |-> 0]

-----------------------------------------------------------------------------
(* tcp_output: data up to the peer's window, or one byte into a window of  *)
(* 0, in pieces of at most MSS; then the FIN, when the application has     *)
(* closed and all of sendq is in flight.                                   *)
InFlight(c) == c.nxt - c.una
SendLimit(c) == Most(InFlight(c), Least(c.q, Most(c.win, 1)))
MaySend(c) == ~c.fin_sent /\ c.state # "SynRcvd"
Pieces(c) ==
    {s \in InFlight(c)..(SendLimit(c) - 1) :
        MaySend(c) /\ (s - InFlight(c)) % MSS = 0}
\* Mutant: the FIN does not wait for sendq to be in flight.
SendsFinAtOnce(c) == MaySend(c) /\ c.app_closed
SendsFin(c) == MaySend(c) /\ c.app_closed /\ SendLimit(c) >= c.q

Output(h, c) ==
    {Seg(h, c, {"ACK"}, c.una + s, c.drained + s, Least(MSS, SendLimit(c) - s)) :
        s \in Pieces(c)}
    \cup (IF SendsFin(c)
          THEN {Seg(h, c, {"FIN", "ACK"}, c.una + SendLimit(c), 0, 0)} ELSE {})
\* Mutant: a FIN starts no timer.
AfterOutputFinUntimed(c) ==
    [c EXCEPT !.nxt = IF MaySend(c)
                      THEN c.una + SendLimit(c) + (IF SendsFin(c) THEN 1 ELSE 0)
                      ELSE @,
              !.rto = @ \/ Pieces(c) # {},
              !.fin_sent = @ \/ SendsFin(c),
              !.state = IF ~SendsFin(c) THEN @
                        ELSE IF @ = "CloseWait" THEN "LastAck" ELSE "FinWait1"]
AfterOutput(c) ==
    [c EXCEPT !.nxt = IF MaySend(c)
                      THEN c.una + SendLimit(c) + (IF SendsFin(c) THEN 1 ELSE 0)
                      ELSE @,
              !.rto = @ \/ Pieces(c) # {} \/ SendsFin(c),
              !.fin_sent = @ \/ SendsFin(c),
              !.state = IF ~SendsFin(c) THEN @
                        ELSE IF @ = "CloseWait" THEN "LastAck" ELSE "FinWait1"]

(* The steps of tcp_input on a connection past SynSent, in their order.    *)
NewAck(c, m) == /\ "ACK" \in m.flags /\ m.ag = c.tag
                /\ c.una < m.ack /\ m.ack <= c.nxt
\* Mutant: any acknowledgement empties sendq.
DrainedAll(c, m) == c.q
Drained(c, m) == Least(m.ack - c.una, c.q)
AcksFin(c, m) == NewAck(c, m) /\ m.ack - c.una > Drained(c, m) /\ c.fin_sent
TakeWindow(c, m) ==
    [c EXCEPT !.win = IF "ACK" \in m.flags THEN m.win ELSE @,
              !.state = IF /\ @ = "SynRcvd" /\ "ACK" \in m.flags
                           /\ m.ag = c.tag /\ m.ack = c.nxt
                        THEN "Established" ELSE @]
\* Mutant: any acknowledgement stops the timer.
TakeAckTimerOff(c, m) ==
    IF ~NewAck(c, m) THEN c
    ELSE [c EXCEPT !.q = @ - Drained(c, m), !.drained = @ + Drained(c, m),
                   !.una = m.ack, !.retries = 0, !.rto = FALSE]
TakeAck(c, m) ==
    IF ~NewAck(c, m) THEN c
    ELSE [c EXCEPT !.q = @ - Drained(c, m),
                   !.drained = @ + Drained(c, m),
                   !.fin_acked = @ \/ AcksFin(c, m),
                   !.state = CASE AcksFin(c, m) /\ @ = "FinWait1" -> "FinWait2"
                               [] AcksFin(c, m) /\ @ = "Closing" -> "TimeWait"
                               [] AcksFin(c, m) /\ @ = "LastAck" -> "Closed"
                               [] OTHER -> @,
                   !.una = m.ack,
                   !.retries = 0,
                   !.rto = m.ack # c.nxt]

\* Mutant: what lies before rcv_nxt is taken again.
InOrderOrOld(c, m) == m.sg = c.irs /\ m.seq <= c.rcv
InOrder(c, m) == m.sg = c.irs /\ m.seq = c.rcv
\* Mutant: RECV_CAP is not looked at.
AcceptsUnbounded(c, m) == m.n > 0 /\ InOrder(c, m)
Accepts(c, m) == m.n > 0 /\ InOrder(c, m) /\ c.held + m.n <= RECV_CAP
TakeData(c, m) ==
    IF ~Accepts(c, m) THEN c
    ELSE [c EXCEPT !.rcv = @ + m.n, !.held = @ + m.n,
                   !.got = @ \o [k \in 1..m.n |-> m.first + k]]
\* A payload that was dropped takes the FIN behind it with it.
FinInOrder(c, m) == /\ "FIN" \in m.flags /\ m.sg = c.irs
                    /\ IF m.n = 0 THEN m.seq = c.rcv ELSE Accepts(c, m)
TakeFin(c, m, inOrder) ==
    IF ~inOrder THEN c
    ELSE [c EXCEPT !.rcv = @ + 1,
                   !.state = CASE @ \in {"Established", "SynRcvd"} -> "CloseWait"
                               [] @ = "FinWait1" -> "Closing"
                               [] @ = "FinWait2" -> "TimeWait"
                               [] OTHER -> @]
Absorbed(c, m) ==
    LET acked == TakeAck(TakeWindow(c, m), m)
    IN  TakeFin(TakeData(acked, m), m, FinInOrder(acked, m))
-----------------------------------------------------------------------------
Init == /\ conn = [h \in Host |-> NoConn]
        /\ net = {} /\ next_gen = 1 /\ faults = 0
        /\ wrote = [g \in 1..MaxOpen |-> 0] /\ taken = [g \in 1..MaxOpen |-> 0]
        /\ rushed = {} /\ unwritten = MaxBytes

Connect(h) ==
    /\ h = Client /\ next_gen = 1 /\ next_gen <= MaxOpen
    /\ LET c == NewConn(next_gen, "SynSent", 0, 0, 0, TRUE)
       IN  /\ conn' = [conn EXCEPT ![h] = c]
           /\ net' = net \cup {Seg(h, c, {"SYN"}, 0, 0, 0)}
    /\ next_gen' = next_gen + 1
    /\ UNCHANGED <<wrote, taken, rushed, unwritten, faults>>

Accept(h) ==
    /\ Live(conn[h]) /\ ~conn[h].accepted /\ conn[h].state # "SynRcvd"
    /\ conn' = [conn EXCEPT ![h].accepted = TRUE]
    /\ UNCHANGED <<net, next_gen, wrote, taken, rushed, unwritten, faults>>

\* tcp_read hands over what recvq holds and says nothing to the peer.  It would
\* do so after tcp_close too, but no application reads then: each drops its
\* handle or returns (http.rs, netfs.rs, browser.rs, websocket.rs, tls.rs,
\* wasm/host.rs:262).
Read(h) ==
    /\ ~Released(conn[h])
    /\ \E n \in 1..conn[h].held : conn' = [conn EXCEPT ![h].held = @ - n]
    /\ UNCHANGED <<net, next_gen, wrote, taken, rushed, unwritten, faults>>

Write(h) ==
    /\ ~Released(conn[h]) /\ conn[h].state \notin {"None", "Closed", "TimeWait"}
    /\ \E n \in 1..Least(SEND_CAP - conn[h].q, unwritten) :
        LET c == [conn[h] EXCEPT !.q = @ + n]
        IN  /\ conn' = [conn EXCEPT ![h] = AfterOutput(c)]
            /\ net' = net \cup Output(h, c)
            /\ wrote' = [wrote EXCEPT ![c.tag] = @ + n]
            /\ unwritten' = unwritten - n
    /\ UNCHANGED <<next_gen, taken, rushed, faults>>

Close(h) ==
    /\ conn[h].state # "None" /\ ~Released(conn[h])
    /\ LET c == [conn[h] EXCEPT !.app_closed = TRUE]
       IN  /\ conn' = [conn EXCEPT ![h] = IF Live(c) THEN AfterOutput(c) ELSE NoConn]
           /\ net' = net \cup (IF Live(c) THEN Output(h, c) ELSE {})
           /\ rushed' = rushed \cup (IF c.state = "SynSent" THEN {c.tag} ELSE {})
    /\ UNCHANGED <<next_gen, wrote, taken, unwritten, faults>>
-----------------------------------------------------------------------------
(* tcp_input, one action per way through it.  Arrive takes m off the wire,  *)
(* or leaves a duplicate of it there, and sends out.                        *)
Inbox(h) == {m \in net : m.to = h}
Arrive(m, dup, out) ==
    /\ dup => faults < MaxFaults
    /\ net' = (net \ (IF dup THEN {} ELSE {m})) \cup out
    /\ faults' = faults + (IF dup THEN 1 ELSE 0)

Opens(h, m) == /\ h = Server /\ ~Live(conn[h])
               /\ "SYN" \in m.flags /\ "ACK" \notin m.flags
\* Bound: a SYN waits while the slot or the tags are used up.
Blocked(m) == /\ Opens(m.to, m)
              /\ conn[m.to].state = "Closed" \/ next_gen > MaxOpen

RecvSyn(h, m, dup) ==
    /\ Opens(h, m) /\ ~Blocked(m)
    /\ LET c == NewConn(next_gen, "SynRcvd", m.sg, m.seq + 1, m.win, FALSE)
       IN  /\ conn' = [conn EXCEPT ![h] = c]
           /\ Arrive(m, dup, {Seg(h, c, {"SYN", "ACK"}, 0, 0, 0)})
    /\ next_gen' = next_gen + 1
    /\ UNCHANGED <<wrote, taken, rushed, unwritten>>

Refuse(h, m, dup) ==
    /\ ~Live(conn[h]) /\ ~Opens(h, m)
    /\ Arrive(m, dup, IF "RST" \in m.flags THEN {} ELSE {Rst(h)})
    /\ UNCHANGED <<conn, next_gen, wrote, taken, rushed, unwritten>>

RecvRst(h, m, dup) ==
    /\ Live(conn[h]) /\ "RST" \in m.flags
    /\ conn' = [conn EXCEPT ![h].state = "Closed"]
    /\ Arrive(m, dup, {})
    /\ UNCHANGED <<next_gen, wrote, taken, rushed, unwritten>>

RepeatsSyn(h, m) == conn[h].state = "SynRcvd" /\ "SYN" \in m.flags
RecvRepeatedSyn(h, m, dup) ==
    /\ RepeatsSyn(h, m) /\ "RST" \notin m.flags
    /\ Arrive(m, dup, {Seg(h, conn[h], {"SYN", "ACK"}, 0, 0, 0)})
    /\ UNCHANGED <<conn, next_gen, wrote, taken, rushed, unwritten>>

RecvInSynSent(h, m, dup) ==
    /\ conn[h].state = "SynSent" /\ "RST" \notin m.flags
    /\ IF {"SYN", "ACK"} \subseteq m.flags /\ m.ag = conn[h].tag /\ m.ack = conn[h].nxt
       THEN \E c \in {[conn[h] EXCEPT !.irs = m.sg, !.rcv = m.seq + 1, !.una = m.ack,
                          !.win = m.win, !.state = "Established",
                          !.rto = FALSE, !.retries = 0]} :
            LET out == Output(h, c)
            IN  /\ conn' = [conn EXCEPT ![h] = AfterOutput(c)]
                /\ Arrive(m, dup, IF out # {} THEN out
                                     ELSE {Seg(h, c, {"ACK"}, c.nxt, 0, 0)})
       ELSE conn' = conn /\ Arrive(m, dup, {})
    /\ UNCHANGED <<next_gen, wrote, taken, rushed, unwritten>>

RecvSegment(h, m, dup) ==
    /\ Live(conn[h]) /\ conn[h].state # "SynSent"
    /\ "RST" \notin m.flags /\ ~RepeatsSyn(h, m)
    /\ \E c \in {Absorbed(conn[h], m)} :
       LET out == Output(h, c)
           after == AfterOutput(c)
           ack == IF out = {} /\ (m.n > 0 \/ "FIN" \in m.flags)
                  THEN {Seg(h, after, {"ACK"}, after.nxt, 0, 0)} ELSE {}
       IN  /\ conn' = [conn EXCEPT ![h] = Reaped(after)]
           /\ Arrive(m, dup, out \cup ack)
           /\ taken' = IF c.irs = 0 THEN taken
                       ELSE [taken EXCEPT ![c.irs] = Most(@, Len(c.got))]
    /\ UNCHANGED <<next_gen, wrote, rushed, unwritten>>

(* on_tick: a timer runs out.  While segments are in flight that is early, *)
(* which is rarer than a round trip: bounded by MaxFaults.                 *)
Quiet == \A m \in net : Blocked(m)
Expires == /\ Quiet \/ faults < MaxFaults
           /\ faults' = faults + (IF Quiet THEN 0 ELSE 1)
TimeWaitEnds(h) ==
    /\ conn[h].state = "TimeWait"
    /\ conn' = [conn EXCEPT ![h] = Reaped([conn[h] EXCEPT !.state = "Closed"])]
    /\ Expires
    /\ UNCHANGED <<net, next_gen, wrote, taken, rushed, unwritten>>

GiveUp(h) ==
    /\ Live(conn[h]) /\ conn[h].state # "TimeWait" /\ conn[h].rto
    /\ conn[h].retries >= MAX_RETRIES
    /\ conn' = [conn EXCEPT ![h] =
                    Reaped([conn[h] EXCEPT !.state = "Closed", !.rto = FALSE, !.retries = @ + 1])]
    /\ Expires
    /\ UNCHANGED <<net, next_gen, wrote, taken, rushed, unwritten>>

\* The head of sendq goes out again, as much as one segment holds, whatever
\* the window and snd_nxt say.
Resent(h, c) ==
    CASE c.state = "SynSent" -> {Seg(h, c, {"SYN"}, 0, 0, 0)}
      [] c.state = "SynRcvd" -> {Seg(h, c, {"SYN", "ACK"}, 0, 0, 0)}
      [] c.state \notin {"SynSent", "SynRcvd"} /\ c.q > 0 ->
            {Seg(h, c, {"ACK"}, c.una, c.drained, Least(c.q, MSS))}
      [] OTHER -> IF c.fin_sent /\ ~c.fin_acked
                  THEN {Seg(h, c, {"FIN", "ACK"}, c.una, 0, 0)} ELSE {}
Retransmit(h) ==
    /\ Live(conn[h]) /\ conn[h].state # "TimeWait" /\ conn[h].rto
    /\ conn[h].retries < MAX_RETRIES
    /\ conn' = [conn EXCEPT ![h].retries = @ + 1]
    /\ net' = net \cup Resent(h, conn[h])
    /\ Expires
    /\ UNCHANGED <<next_gen, wrote, taken, rushed, unwritten>>

Lose(m) == /\ faults < MaxFaults /\ faults' = faults + 1
           /\ net' = net \ {m}
           /\ UNCHANGED <<conn, next_gen, wrote, taken, rushed, unwritten>>
-----------------------------------------------------------------------------
Tick(h) == TimeWaitEnds(h) \/ GiveUp(h) \/ Retransmit(h)
Input(h, m, dup) == \/ RecvSyn(h, m, dup) \/ Refuse(h, m, dup)
                    \/ RecvRst(h, m, dup) \/ RecvRepeatedSyn(h, m, dup)
                    \/ RecvInSynSent(h, m, dup) \/ RecvSegment(h, m, dup)
Next == \/ \E h \in Host : \/ Connect(h) \/ Accept(h) \/ Read(h)
                           \/ Write(h) \/ Close(h)
                           \/ TimeWaitEnds(h) \/ GiveUp(h) \/ Retransmit(h)
        \/ \E h \in Host : \E m \in Inbox(h), dup \in BOOLEAN :
               \/ RecvSyn(h, m, dup) \/ Refuse(h, m, dup)
               \/ RecvRst(h, m, dup) \/ RecvRepeatedSyn(h, m, dup)
               \/ RecvInSynSent(h, m, dup) \/ RecvSegment(h, m, dup)
        \/ \E m \in net : Lose(m)

(* The wire delivers what it does not lose and the timer interrupts keep   *)
(* running: while a segment is in flight or a timer is on, some segment    *)
(* arrives or some timer expires.  No application is assumed to act.       *)
Progress == \E h \in Host : Tick(h) \/ \E m \in Inbox(h) : Input(h, m, FALSE)
Spec == Init /\ [][Next]_vars /\ WF_vars(Progress)
-----------------------------------------------------------------------------
Conns == [state : State \cup {"None"}, tag : 0..MaxOpen, una : Nat, nxt : Nat,
          irs : 0..MaxOpen, rcv : Nat, win : 0..RECV_CAP, drained : Nat,
          q : 0..SEND_CAP, held : 0..RECV_CAP, got : Seq(Nat),
          fin_sent : BOOLEAN, fin_acked : BOOLEAN, app_closed : BOOLEAN,
          accepted : BOOLEAN, rto : BOOLEAN, retries : 0..(MAX_RETRIES + 1)]
Segs == [to : Host, flags : SUBSET {"SYN", "ACK", "FIN", "RST"},
         sg : 0..MaxOpen, seq : Nat, ag : 0..MaxOpen, ack : Nat,
         win : 0..RECV_CAP, first : Nat, n : 0..MSS]

(* recvq and sendq stay within their capacities (tcp_read subtracts        *)
(* recvq.len() from RECV_CAP unchecked) and retries within its limit.      *)
TypeOK == /\ conn \in [Host -> Conns]
          /\ net \in SUBSET Segs
          /\ next_gen \in 1..(MaxOpen + 1)
          /\ wrote \in [1..MaxOpen -> Nat] /\ taken \in [1..MaxOpen -> Nat]
          /\ rushed \in SUBSET (1..MaxOpen)
          /\ unwritten \in 0..MaxBytes /\ faults \in 0..MaxFaults

(* What recvq receives is the peer's stream from its first byte on, each   *)
(* byte once and in order, whatever the network repeats or overtakes and   *)
(* whatever the retransmissions resend (net.rs:770).                       *)
StreamIntact == \A h \in Host :
    conn[h].got = [k \in 1..Len(conn[h].got) |-> k]

(* A byte leaves sendq only after the peer's tcp_input has taken it        *)
(* (net.rs:745), except for a connection closed before it was open.        *)
AckedIsTaken == \A h \in Host :
    conn[h].state # "None" /\ conn[h].tag \notin rushed
        => conn[h].drained <= taken[conn[h].tag]

TookFin(c) == c.state \in {"CloseWait", "LastAck", "Closing", "TimeWait"}

(* The end of the stream comes last: a connection that has taken the       *)
(* peer's FIN has taken every byte the peer's application wrote.  Not so   *)
(* when tcp_close came in SynSent: tcp_output guards SynRcvd only, counts   *)
(* the SYN as a byte in flight and sends the FIN ahead of a single byte.   *)
EofIsEnd == \A h \in Host :
    TookFin(conn[h]) /\ conn[h].irs \notin rushed
        => Len(conn[h].got) = wrote[conn[h].irs]

(* No slot keeps a connection that is closed and was released or never     *)
(* accepted, for nobody would ever free it (the comment at net.rs:815);    *)
(* only a reset leaves one behind (net.rs:684).                            *)
Dead(h) == conn[h].state = "Closed" /\ Released(conn[h])
DeadOnlyByReset ==
    [][\A h \in Host : ~Dead(h) /\ Dead(h)' => \E m \in Inbox(h) : "RST" \in m.flags]_vars

(* What the peer has not acknowledged has a timer behind it: no            *)
(* connection waits on a lost segment for ever.                            *)
TimerArmed == \A h \in Host :
    /\ Live(conn[h])
    /\ conn[h].q > 0 \/ conn[h].una # conn[h].nxt
    => conn[h].rto

(* tcp_close comes to an end: the queue drains and the FIN is              *)
(* acknowledged, or the connection is given up or reset.                   *)
CloseCompletes == \A h \in Host :
    (conn[h].app_closed /\ ~conn[h].fin_acked) ~> ~(Live(conn[h]) /\ ~conn[h].fin_acked)
=============================================================================
