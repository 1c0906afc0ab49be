----------------------------- MODULE TcpProofs -----------------------------
(***************************************************************************)
(* Proofs about Tcp, for any sizes, limits and numbers of segments:        *)
(* types and the shape of connections and segments; the timer; and which   *)
(* steps leave a closed connection in its slot; what the streams carry,     *)
(* where they end, and what an acknowledgement says.  Each entry point of   *)
(* the code has a lemma that says what it does (...Does); steps are sorted  *)
(* by their effect (Kinds), and each invariant has a lemma per kind.        *)
(***************************************************************************)
EXTENDS Tcp, SequenceTheorems, TLAPS

FinSentStates == {"FinWait1", "FinWait2", "Closing", "TimeWait", "LastAck"}

(* Connections and segments of hosts that have used the tags below t.      *)
ConnShape(h, c, t) ==
  /\ c.state = "None" => c = NoConn
  /\ c.state # "None" /\ h = Client =>
       /\ c.tag = 1 /\ 1 < t /\ c.accepted /\ c.state # "SynRcvd"
       /\ c.irs = 0 \/ (c.irs \in 2 .. t - 1 /\ c.state # "SynSent")
  /\ c.state # "None" /\ h # Client =>
       c.tag \in 2 .. t - 1 /\ c.irs = 1 /\ c.state # "SynSent"
  /\ c.una <= c.nxt
  /\ c.app_closed => c.accepted
  /\ c.fin_sent => c.app_closed
  /\ Live(c) => /\ c.retries <= MAX_RETRIES
                /\ c.fin_sent <=> c.state \in FinSentStates

SegShape(m, t) ==
  /\ "RST" \in m.flags => m.n = 0 /\ m.flags = {"RST"} /\ m.sg = 0 /\ m.ag = 0
  /\ "RST" \notin m.flags => 1 < t /\ IF m.to = Server THEN m.sg = 1 ELSE m.sg \in 2 .. t - 1
  /\ "SYN" \in m.flags => m.seq = 0 /\ m.n = 0 /\ ("ACK" \notin m.flags => m.to = Server)
  /\ "FIN" \in m.flags => m.n = 0 /\ "ACK" \in m.flags
  /\ m.ag < t

Shape ==
  /\ \A h \in Host : ConnShape(h, conn[h], next_gen)
  /\ \A m \in net : SegShape(m, next_gen)
  /\ next_gen = 1 => net = {}
  /\ \A g \in next_gen .. MaxOpen : wrote[g] = 0

TInv == TypeOK /\ Shape

LEMMA Consts ==
  /\ Client # Server /\ MSS \in Nat \ {0} /\ RECV_CAP \in Nat \ {0}
  /\ SEND_CAP \in Nat \ {0} /\ MAX_RETRIES \in Nat
  /\ MaxBytes \in Nat /\ MaxOpen \in Nat /\ MaxFaults \in Nat
BY HostAssumption, SizeAssumption, BoundAssumption

LEMMA LeastMost ==
  ASSUME NEW a \in Int, NEW b \in Int
  PROVE  /\ Least(a, b) \in {a, b} /\ Least(a, b) <= a /\ Least(a, b) <= b
         /\ Most(a, b) \in {a, b} /\ Most(a, b) >= a /\ Most(a, b) >= b
BY DEF Least, Most

LEMMA ConnFields ==
  ASSUME NEW c \in Conns
  PROVE  /\ c.state \in State \cup {"None"} /\ c.tag \in 0 .. MaxOpen
         /\ c.una \in Nat /\ c.nxt \in Nat /\ c.irs \in 0 .. MaxOpen /\ c.rcv \in Nat
         /\ c.win \in 0 .. RECV_CAP /\ c.drained \in Nat /\ c.q \in 0 .. SEND_CAP
         /\ c.held \in 0 .. RECV_CAP /\ c.got \in Seq(Nat)
         /\ c.fin_sent \in BOOLEAN /\ c.fin_acked \in BOOLEAN
         /\ c.app_closed \in BOOLEAN /\ c.accepted \in BOOLEAN /\ c.rto \in BOOLEAN
         /\ c.retries \in 0 .. MAX_RETRIES + 1
BY DEF Conns

LEMMA NatFields ==
  ASSUME NEW c \in Conns
  PROVE  /\ c.una \in Nat /\ c.nxt \in Nat /\ c.rcv \in Nat /\ c.drained \in Nat
         /\ c.q \in Nat /\ c.held \in Nat /\ c.retries \in Nat /\ Len(c.got) \in Nat
<1>1. c.q \in 0 .. SEND_CAP /\ c.held \in 0 .. RECV_CAP /\ c.retries \in 0 .. MAX_RETRIES + 1
  BY ConnFields
<1>2. c.q \in Nat /\ c.held \in Nat /\ c.retries \in Nat
  BY <1>1, Consts
<1>3. c.got \in Seq(Nat)
  BY ConnFields
<1>4. Len(c.got) \in Nat
  BY <1>3, LenProperties
<1> QED
  BY <1>2, <1>4, ConnFields

LEMMA SegNats ==
  ASSUME NEW m \in Segs
  PROVE  m.seq \in Nat /\ m.ack \in Nat /\ m.first \in Nat /\ m.n \in Nat
<1>1. m.n \in 0 .. MSS /\ m.seq \in Nat /\ m.ack \in Nat /\ m.first \in Nat
  BY DEF Segs
<1> QED
  BY <1>1, Consts

LEMMA LimitFacts ==
  ASSUME NEW c \in Conns, c.una <= c.nxt
  PROVE  /\ InFlight(c) \in Nat /\ InFlight(c) = c.nxt - c.una
         /\ SendLimit(c) \in Nat /\ SendLimit(c) >= InFlight(c)
         /\ InFlight(c) <= c.q => SendLimit(c) <= c.q
         /\ c.q > 0 => SendLimit(c) > 0
         /\ c.q = 0 => SendLimit(c) = InFlight(c)
         /\ c.win = 0 /\ InFlight(c) = 1 => SendLimit(c) = 1
<1>1. /\ c.una \in Nat /\ c.nxt \in Nat /\ c.win \in 0 .. RECV_CAP /\ c.q \in 0 .. SEND_CAP
      /\ SEND_CAP \in Nat /\ RECV_CAP \in Nat
  BY ConnFields, Consts
<1> QED
  BY <1>1 DEF InFlight, SendLimit, Least, Most

\* tcp_output changes how far has been sent, and nothing of what is sent.
LEMMA AfterOutputFacts ==
  ASSUME NEW c \in Conns, c.una <= c.nxt, NEW d, d = AfterOutput(c)
  PROVE  /\ d \in Conns /\ d.una <= d.nxt
         /\ d.tag = c.tag /\ d.una = c.una /\ d.irs = c.irs /\ d.rcv = c.rcv /\ d.win = c.win
         /\ d.drained = c.drained /\ d.q = c.q /\ d.held = c.held /\ d.got = c.got
         /\ d.fin_acked = c.fin_acked /\ d.app_closed = c.app_closed
         /\ d.accepted = c.accepted /\ d.retries = c.retries
         /\ d.nxt = IF MaySend(c)
                    THEN c.una + SendLimit(c) + (IF SendsFin(c) THEN 1 ELSE 0) ELSE c.nxt
         /\ d.fin_sent = (c.fin_sent \/ SendsFin(c))
         /\ d.rto = (c.rto \/ Pieces(c) # {} \/ SendsFin(c))
         /\ d.state = IF ~SendsFin(c) THEN c.state
                      ELSE IF c.state = "CloseWait" THEN "LastAck" ELSE "FinWait1"
<1>1. /\ c.una \in Nat /\ c.nxt \in Nat /\ SendLimit(c) \in Nat
      /\ SendLimit(c) >= InFlight(c) /\ InFlight(c) = c.nxt - c.una
  BY ConnFields, LimitFacts
<1>2. /\ d.tag = c.tag /\ d.una = c.una /\ d.irs = c.irs /\ d.rcv = c.rcv /\ d.win = c.win
      /\ d.drained = c.drained /\ d.q = c.q /\ d.held = c.held /\ d.got = c.got
      /\ d.fin_acked = c.fin_acked /\ d.app_closed = c.app_closed
      /\ d.accepted = c.accepted /\ d.retries = c.retries
      /\ d.nxt = IF MaySend(c)
                 THEN c.una + SendLimit(c) + (IF SendsFin(c) THEN 1 ELSE 0) ELSE c.nxt
      /\ d.fin_sent = (c.fin_sent \/ SendsFin(c))
      /\ d.rto = (c.rto \/ Pieces(c) # {} \/ SendsFin(c))
      /\ d.state = IF ~SendsFin(c) THEN c.state
                   ELSE IF c.state = "CloseWait" THEN "LastAck" ELSE "FinWait1"
  BY DEF AfterOutput, Conns
<1>3. d.nxt \in Nat /\ d.una <= d.nxt
  BY <1>1, <1>2
<1>4. (c.fin_sent \/ SendsFin(c)) \in BOOLEAN /\ (c.rto \/ Pieces(c) # {} \/ SendsFin(c)) \in BOOLEAN
  OBVIOUS
<1>5. /\ d.nxt \in Nat /\ d.fin_sent \in BOOLEAN /\ d.rto \in BOOLEAN
      /\ d.state \in State \cup {"None"}
  BY <1>2, <1>3, <1>4, ConnFields DEF State
<1>6. d = [c EXCEPT !.nxt = d.nxt, !.rto = d.rto, !.fin_sent = d.fin_sent, !.state = d.state]
  BY <1>2 DEF AfterOutput, Conns
<1>7. d \in Conns
  <2> HIDE DEF AfterOutput
  <2> QED
    BY <1>5, <1>6 DEF Conns
<1> QED
  BY <1>2, <1>3, <1>7

\* What tcp_output sends: data from snd_nxt up to its limit, then the FIN.
LEMMA OutputSegs ==
  ASSUME NEW h \in Host, NEW c \in Conns, c.una <= c.nxt, NEW m \in Output(h, c)
  PROVE  /\ m \in Segs /\ m.to = Peer(h)
         /\ m.sg = c.tag /\ m.ag = c.irs /\ m.ack = c.rcv /\ MaySend(c)
         /\ \/ /\ m.flags = {"ACK"} /\ m.n > 0 /\ m.seq >= c.nxt
               /\ m.seq - c.una = m.first - c.drained
               /\ m.seq + m.n <= c.una + SendLimit(c)
            \/ /\ m.flags = {"FIN", "ACK"} /\ m.n = 0
               /\ m.seq = c.una + SendLimit(c) /\ SendsFin(c)
<1>1. /\ c.una \in Nat /\ c.nxt \in Nat /\ c.drained \in Nat /\ c.rcv \in Nat
      /\ SendLimit(c) \in Nat /\ InFlight(c) \in Nat /\ InFlight(c) = c.nxt - c.una
      /\ MSS \in Nat /\ MSS > 0 /\ RECV_CAP - c.held \in 0 .. RECV_CAP
      /\ c.tag \in 0 .. MaxOpen /\ c.irs \in 0 .. MaxOpen
  BY ConnFields, LimitFacts, Consts
<1>2. Peer(h) \in Host
  BY DEF Peer, Host
<1>3. ASSUME NEW s \in Pieces(c),
             m = Seg(h, c, {"ACK"}, c.una + s, c.drained + s, Least(MSS, SendLimit(c) - s))
      PROVE  /\ m \in Segs /\ m.to = Peer(h)
             /\ m.sg = c.tag /\ m.ag = c.irs /\ m.ack = c.rcv /\ MaySend(c)
             /\ m.flags = {"ACK"} /\ m.n > 0 /\ m.seq >= c.nxt
             /\ m.seq - c.una = m.first - c.drained
             /\ m.seq + m.n <= c.una + SendLimit(c)
  <2> DEFINE n == Least(MSS, SendLimit(c) - s)
  <2>1. s \in Nat /\ s >= InFlight(c) /\ s < SendLimit(c) /\ MaySend(c)
    BY <1>1 DEF Pieces
  <2>2. n \in 0 .. MSS /\ n > 0 /\ n <= SendLimit(c) - s
    BY <1>1, <2>1 DEF Least
  <2>3. /\ m.to = Peer(h) /\ m.flags = {"ACK"} /\ m.sg = c.tag /\ m.ag = c.irs
        /\ m.ack = c.rcv /\ m.seq = c.una + s /\ m.first = c.drained + s /\ m.n = n
        /\ m.win = RECV_CAP - c.held
    BY <1>3 DEF Seg
  <2> HIDE DEF n
  <2>4. m = [to |-> m.to, flags |-> m.flags, sg |-> m.sg, seq |-> m.seq, ag |-> m.ag,
             ack |-> m.ack, win |-> m.win, first |-> m.first, n |-> m.n]
    BY <1>3 DEF Seg
  <2>5. m \in Segs
    BY <1>1, <1>2, <2>1, <2>2, <2>3, <2>4 DEF Segs
  <2> QED
    BY <1>1, <2>1, <2>2, <2>3, <2>5
<1>4. ASSUME SendsFin(c), m = Seg(h, c, {"FIN", "ACK"}, c.una + SendLimit(c), 0, 0)
      PROVE  /\ m \in Segs /\ m.to = Peer(h)
             /\ m.sg = c.tag /\ m.ag = c.irs /\ m.ack = c.rcv /\ MaySend(c)
             /\ m.flags = {"FIN", "ACK"} /\ m.n = 0 /\ m.seq = c.una + SendLimit(c)
  <2>1. MaySend(c)
    BY <1>4 DEF SendsFin
  <2> QED
    BY <1>1, <1>2, <1>4, <2>1 DEF Seg, Segs
<1> QED
  BY <1>3, <1>4 DEF Output

\* What a retransmission sends: the head of sendq, or the FIN, or the SYN.
LEMMA ResentSegs ==
  ASSUME NEW h \in Host, NEW c \in Conns, NEW m \in Resent(h, c)
  PROVE  /\ m \in Segs /\ m.to = Peer(h)
         /\ m.sg = c.tag /\ m.ag = c.irs /\ m.ack = c.rcv
         /\ \/ c.state = "SynSent" /\ m.flags = {"SYN"} /\ m.n = 0 /\ m.seq = 0
            \/ c.state = "SynRcvd" /\ m.flags = {"SYN", "ACK"} /\ m.n = 0 /\ m.seq = 0
            \/ /\ c.state \notin {"SynSent", "SynRcvd"} /\ m.flags = {"ACK"}
               /\ m.n > 0 /\ m.n <= c.q /\ m.seq = c.una /\ m.first = c.drained
            \/ /\ c.state \notin {"SynSent", "SynRcvd"} /\ m.flags = {"FIN", "ACK"}
               /\ m.n = 0 /\ m.seq = c.una /\ c.q = 0 /\ c.fin_sent /\ ~c.fin_acked
<1>1. /\ c.una \in Nat /\ c.drained \in Nat /\ c.rcv \in Nat /\ c.q \in Nat
      /\ MSS \in Nat /\ MSS > 0 /\ RECV_CAP - c.held \in 0 .. RECV_CAP
      /\ c.tag \in 0 .. MaxOpen /\ c.irs \in 0 .. MaxOpen
  BY ConnFields, Consts
<1>2. Peer(h) \in Host
  BY DEF Peer, Host
<1>3. CASE c.state = "SynSent"
  <2>1. m = Seg(h, c, {"SYN"}, 0, 0, 0)
    BY <1>3 DEF Resent
  <2> QED
    BY <1>1, <1>2, <1>3, <2>1 DEF Seg, Segs
<1>4. CASE c.state = "SynRcvd"
  <2>1. m = Seg(h, c, {"SYN", "ACK"}, 0, 0, 0)
    BY <1>4 DEF Resent
  <2> QED
    BY <1>1, <1>2, <1>4, <2>1 DEF Seg, Segs
<1>5. CASE c.state \notin {"SynSent", "SynRcvd"} /\ c.q > 0
  <2>1. m = Seg(h, c, {"ACK"}, c.una, c.drained, Least(c.q, MSS))
    BY <1>5 DEF Resent
  <2>2. Least(c.q, MSS) \in 0 .. MSS /\ Least(c.q, MSS) > 0 /\ Least(c.q, MSS) <= c.q
    BY <1>1, <1>5 DEF Least
  <2> QED
    BY <1>1, <1>2, <1>5, <2>1, <2>2 DEF Seg, Segs
<1>6. CASE c.state \notin {"SynSent", "SynRcvd"} /\ ~(c.q > 0)
  <2>1. /\ c.fin_sent /\ ~c.fin_acked
        /\ m = Seg(h, c, {"FIN", "ACK"}, c.una, 0, 0)
    BY <1>6 DEF Resent
  <2>2. c.q = 0
    BY <1>1, <1>6
  <2> QED
    BY <1>1, <1>2, <1>6, <2>1, <2>2 DEF Seg, Segs
<1> QED
  BY <1>3, <1>4, <1>5, <1>6

\* The first two steps of tcp_input: the window and the acknowledgement.
LEMMA AckFacts ==
  ASSUME NEW c \in Conns, NEW m \in Segs, c.una <= c.nxt,
         NEW a, a = TakeAck(TakeWindow(c, m), m)
  PROVE  /\ a \in Conns /\ a.una <= a.nxt
         /\ a.tag = c.tag /\ a.nxt = c.nxt /\ a.irs = c.irs /\ a.rcv = c.rcv /\ a.held = c.held
         /\ a.got = c.got /\ a.fin_sent = c.fin_sent /\ a.app_closed = c.app_closed
         /\ a.accepted = c.accepted /\ (a.retries = c.retries \/ a.retries = 0)
         /\ ~NewAck(c, m) =>
              /\ a.una = c.una /\ a.q = c.q /\ a.drained = c.drained
              /\ a.fin_acked = c.fin_acked /\ a.rto = c.rto
              /\ a.state = TakeWindow(c, m).state
         /\ NewAck(c, m) =>
              /\ a.una = m.ack /\ Drained(c, m) \in Nat /\ Drained(c, m) <= c.q
              /\ a.q = c.q - Drained(c, m) /\ a.drained = c.drained + Drained(c, m)
              /\ a.fin_acked = (c.fin_acked \/ AcksFin(c, m)) /\ a.rto = (m.ack # c.nxt)
              /\ a.state = CASE AcksFin(c, m) /\ TakeWindow(c, m).state = "FinWait1" -> "FinWait2"
                             [] AcksFin(c, m) /\ TakeWindow(c, m).state = "Closing" -> "TimeWait"
                             [] AcksFin(c, m) /\ TakeWindow(c, m).state = "LastAck" -> "Closed"
                             [] OTHER -> TakeWindow(c, m).state
<1> DEFINE w == TakeWindow(c, m)
<1>1. /\ m.win \in 0 .. RECV_CAP /\ m.ack \in Nat
  BY DEF Segs
<1>2. /\ w \in Conns
      /\ w.tag = c.tag /\ w.una = c.una /\ w.nxt = c.nxt /\ w.irs = c.irs /\ w.rcv = c.rcv
      /\ w.held = c.held /\ w.q = c.q /\ w.drained = c.drained /\ w.fin_acked = c.fin_acked
      /\ w.rto = c.rto /\ w.retries = c.retries
      /\ w.got = c.got /\ w.fin_sent = c.fin_sent /\ w.app_closed = c.app_closed
      /\ w.accepted = c.accepted
  <2>1. /\ w.tag = c.tag /\ w.una = c.una /\ w.nxt = c.nxt /\ w.irs = c.irs /\ w.rcv = c.rcv
        /\ w.held = c.held /\ w.q = c.q /\ w.drained = c.drained /\ w.fin_acked = c.fin_acked
        /\ w.rto = c.rto /\ w.retries = c.retries
        /\ w.got = c.got /\ w.fin_sent = c.fin_sent /\ w.app_closed = c.app_closed
        /\ w.accepted = c.accepted
    BY DEF TakeWindow, Conns
  <2>2. w.win \in 0 .. RECV_CAP /\ w.state \in State \cup {"None"}
    BY <1>1, ConnFields DEF TakeWindow, State, Conns
  <2>3. w = [c EXCEPT !.win = w.win, !.state = w.state]
    BY DEF TakeWindow, Conns
  <2> HIDE DEF w
  <2>4. w \in Conns
    BY <2>2, <2>3 DEF Conns
  <2> QED
    BY <2>1, <2>4
<1>3. NewAck(w, m) <=> NewAck(c, m)
  BY <1>2 DEF NewAck
<1>4. Drained(w, m) = Drained(c, m) /\ (AcksFin(w, m) <=> AcksFin(c, m))
  BY <1>2, <1>3 DEF Drained, AcksFin
<1>5. c.una \in Nat /\ c.nxt \in Nat /\ c.q \in Nat /\ c.q <= SEND_CAP /\ c.drained \in Nat
      /\ c.fin_acked \in BOOLEAN /\ SEND_CAP \in Nat /\ MAX_RETRIES \in Nat
  BY ConnFields, Consts
<1>6. a = TakeAck(w, m)
  OBVIOUS
<1>w. w.state = TakeWindow(c, m).state
  OBVIOUS
<1> HIDE DEF w
<1>7. CASE ~NewAck(c, m)
  <2>1. a = w
    BY <1>3, <1>6, <1>7 DEF TakeAck
  <2> QED
    BY <1>2, <1>w, <1>7, <2>1
<1>8. CASE NewAck(c, m)
  <2>1. a = [w EXCEPT !.q = @ - Drained(c, m),
                   !.drained = @ + Drained(c, m),
                   !.fin_acked = @ \/ AcksFin(c, m),
                   !.state = CASE AcksFin(c, m) /\ @ = "FinWait1" -> "FinWait2"
                               [] AcksFin(c, m) /\ @ = "Closing" -> "TimeWait"
                               [] AcksFin(c, m) /\ @ = "LastAck" -> "Closed"
                               [] OTHER -> @,
                   !.una = m.ack,
                   !.retries = 0,
                   !.rto = m.ack # w.nxt]
    BY <1>3, <1>4, <1>6, <1>8 DEF TakeAck
  <2>2. Drained(c, m) \in Nat /\ Drained(c, m) <= c.q
    BY <1>1, <1>5, <1>8 DEF Drained, Least, NewAck
  <2>3. /\ a.tag = w.tag /\ a.nxt = w.nxt /\ a.irs = w.irs /\ a.rcv = w.rcv /\ a.held = w.held
        /\ a.got = w.got /\ a.fin_sent = w.fin_sent /\ a.app_closed = w.app_closed
        /\ a.accepted = w.accepted /\ a.retries = 0 /\ a.win = w.win
        /\ a.una = m.ack /\ a.q = w.q - Drained(c, m) /\ a.drained = w.drained + Drained(c, m)
        /\ a.fin_acked = (w.fin_acked \/ AcksFin(c, m)) /\ a.rto = (m.ack # w.nxt)
        /\ a.state = CASE AcksFin(c, m) /\ w.state = "FinWait1" -> "FinWait2"
                       [] AcksFin(c, m) /\ w.state = "Closing" -> "TimeWait"
                       [] AcksFin(c, m) /\ w.state = "LastAck" -> "Closed"
                       [] OTHER -> w.state
    BY <1>2, <2>1 DEF Conns
  <2>4. /\ a.una \in Nat /\ a.q \in 0 .. SEND_CAP /\ a.drained \in Nat
        /\ a.fin_acked \in BOOLEAN /\ a.rto \in BOOLEAN /\ a.retries \in 0 .. MAX_RETRIES + 1
        /\ a.una <= a.nxt
    BY <1>1, <1>2, <1>5, <1>8, <2>2, <2>3 DEF NewAck
  <2>5. a.state \in State \cup {"None"}
    <3>1. w.state \in State \cup {"None"}
      BY <1>2, ConnFields
    <3>2. a.state \in {"FinWait2", "TimeWait", "Closed", w.state}
      BY <2>3
    <3> QED
      BY <3>1, <3>2 DEF State
  <2>6. a = [w EXCEPT !.q = a.q, !.drained = a.drained, !.fin_acked = a.fin_acked,
                !.state = a.state, !.una = a.una, !.retries = a.retries, !.rto = a.rto]
    BY <1>2, <2>1 DEF Conns
  <2>7. a \in Conns
    BY <1>2, <2>4, <2>5, <2>6 DEF Conns
  <2> QED
    BY <1>2, <1>5, <1>8, <1>w, <2>2, <2>3, <2>4, <2>7
<1> QED
  BY <1>7, <1>8

\* A payload becomes the numbers of its bytes.
LEMMA PayloadFacts ==
  ASSUME NEW s \in Seq(Nat), NEW f \in Nat, NEW n \in Nat, NEW t,
         t = s \o [k \in 1 .. n |-> f + k]
  PROVE  /\ t \in Seq(Nat) /\ Len(t) = Len(s) + n
         /\ \A k \in 1 .. Len(s) : t[k] = s[k]
         /\ \A k \in 1 .. n : t[Len(s) + k] = f + k
<1> DEFINE p == [k \in 1 .. n |-> f + k]
<1>1. p \in [1 .. n -> Nat]
  OBVIOUS
<1>2. p \in Seq(Nat) /\ DOMAIN p = 1 .. n
  BY <1>1, SeqDef
<1>3. Len(p) = n
  BY <1>2, LenProperties
<1>4. \A k \in 1 .. n : p[k] = f + k
  OBVIOUS
<1>5. t = s \o p
  OBVIOUS
<1> HIDE DEF p
<1>6. /\ t \in Seq(Nat) /\ Len(t) = Len(s) + Len(p)
      /\ \A i \in 1 .. Len(s) + Len(p) : t[i] = IF i <= Len(s) THEN s[i] ELSE p[i - Len(s)]
  <2>1. PICK q \in Seq(Nat) : q = p
    BY <1>2
  <2>2. t = s \o q
    BY <1>5, <2>1
  <2>3. /\ s \o q \in Seq(Nat) /\ Len(s \o q) = Len(s) + Len(q)
        /\ \A i \in 1 .. Len(s) + Len(q) :
              (s \o q)[i] = IF i <= Len(s) THEN s[i] ELSE q[i - Len(s)]
    BY ConcatProperties
  <2> QED
    BY <2>1, <2>2, <2>3
<1>7. Len(s) \in Nat
  BY LenProperties
<1>8. ASSUME NEW k \in 1 .. n PROVE t[Len(s) + k] = f + k
  <2>1. Len(s) + k \in 1 .. Len(s) + Len(p) /\ ~(Len(s) + k <= Len(s)) /\ Len(s) + k - Len(s) = k
    BY <1>3, <1>7
  <2> QED
    BY <1>4, <1>6, <2>1
<1>9. ASSUME NEW k \in 1 .. Len(s) PROVE t[k] = s[k]
  <2>1. k \in 1 .. Len(s) + Len(p) /\ k <= Len(s)
    BY <1>3, <1>7
  <2> QED
    BY <1>6, <2>1
<1> QED
  BY <1>3, <1>6, <1>8, <1>9

Payload(m) == [k \in 1 .. m.n |-> m.first + k]

AfterFin(s) == CASE s \in {"Established", "SynRcvd"} -> "CloseWait"
                 [] s = "FinWait1" -> "Closing"
                 [] s = "FinWait2" -> "TimeWait"
                 [] OTHER -> s

\* All of tcp_input: the acknowledgement, and one of data, FIN and neither.
LEMMA AbsorbedFacts ==
  ASSUME NEW c \in Conns, NEW m \in Segs, c.una <= c.nxt, "FIN" \in m.flags => m.n = 0,
         NEW a, a = TakeAck(TakeWindow(c, m), m),
         NEW d, d = Absorbed(c, m)
  PROVE  /\ d \in Conns /\ d.una <= d.nxt
         /\ d.tag = a.tag /\ d.una = a.una /\ d.nxt = a.nxt /\ d.irs = a.irs
         /\ d.q = a.q /\ d.drained = a.drained /\ d.fin_sent = a.fin_sent
         /\ d.fin_acked = a.fin_acked /\ d.app_closed = a.app_closed
         /\ d.accepted = a.accepted /\ d.rto = a.rto /\ d.retries = a.retries
         /\ d.win = a.win
         /\ \/ /\ Accepts(c, m)
               /\ d.rcv = c.rcv + m.n /\ d.got = c.got \o Payload(m)
               /\ d.state = a.state
            \/ /\ "FIN" \in m.flags /\ m.sg = c.irs /\ m.seq = c.rcv
               /\ d.rcv = c.rcv + 1 /\ d.got = c.got /\ d.state = AfterFin(a.state)
            \/ d.rcv = c.rcv /\ d.got = c.got /\ d.state = a.state
<1> DEFINE t == TakeData(a, m)
<1>1. /\ a \in Conns /\ a.una <= a.nxt
      /\ a.irs = c.irs /\ a.rcv = c.rcv /\ a.held = c.held /\ a.got = c.got
  BY AckFacts
<1>2. /\ m.n \in Nat /\ m.first \in Nat /\ c.rcv \in Nat /\ c.held \in Nat /\ c.got \in Seq(Nat)
      /\ RECV_CAP \in Nat
  BY ConnFields, Consts DEF Segs
<1>3. Accepts(a, m) <=> Accepts(c, m)
  BY <1>1 DEF Accepts, InOrder
<1>4. /\ t \in Conns
      /\ t.tag = a.tag /\ t.una = a.una /\ t.nxt = a.nxt /\ t.irs = a.irs
      /\ t.q = a.q /\ t.drained = a.drained /\ t.fin_sent = a.fin_sent
      /\ t.fin_acked = a.fin_acked /\ t.app_closed = a.app_closed
      /\ t.accepted = a.accepted /\ t.rto = a.rto /\ t.retries = a.retries
      /\ t.win = a.win /\ t.state = a.state
      /\ IF Accepts(c, m)
         THEN t.rcv = c.rcv + m.n /\ t.got = c.got \o Payload(m)
         ELSE t.rcv = c.rcv /\ t.got = c.got
  <2>1. CASE ~Accepts(c, m)
    <3>1. t = a
      BY <1>3, <2>1 DEF TakeData
    <3> HIDE DEF t
    <3> QED
      BY <1>1, <2>1, <3>1
  <2>2. CASE Accepts(c, m)
    <3> DEFINE g == a.got \o [k \in 1 .. m.n |-> m.first + k]
    <3>1. t = [a EXCEPT !.rcv = a.rcv + m.n, !.held = a.held + m.n, !.got = g]
      BY <1>3, <2>2 DEF TakeData
    <3>2. g \in Seq(Nat)
      BY <1>1, <1>2, PayloadFacts
    <3>3. a.rcv + m.n \in Nat /\ a.held + m.n \in 0 .. RECV_CAP
      BY <1>1, <1>2, <2>2 DEF Accepts
    <3>4. g = c.got \o Payload(m)
      BY <1>1 DEF Payload
    <3> HIDE DEF t, g
    <3>5. t \in Conns
      BY <1>1, <3>1, <3>2, <3>3 DEF Conns
    <3>6. /\ t.tag = a.tag /\ t.una = a.una /\ t.nxt = a.nxt /\ t.irs = a.irs
          /\ t.q = a.q /\ t.drained = a.drained /\ t.fin_sent = a.fin_sent
          /\ t.fin_acked = a.fin_acked /\ t.app_closed = a.app_closed
          /\ t.accepted = a.accepted /\ t.rto = a.rto /\ t.retries = a.retries
          /\ t.win = a.win /\ t.state = a.state /\ t.rcv = a.rcv + m.n /\ t.got = g
      BY <1>1, <3>1 DEF Conns
    <3> QED
      BY <1>1, <2>2, <3>4, <3>5, <3>6
  <2> QED
    BY <2>1, <2>2
<1>5. d = TakeFin(t, m, FinInOrder(a, m))
  BY DEF Absorbed
<1>6. FinInOrder(a, m) => "FIN" \in m.flags /\ m.n = 0 /\ m.sg = c.irs /\ m.seq = c.rcv
  BY <1>1 DEF FinInOrder
<1> HIDE DEF t
<1>7. CASE ~FinInOrder(a, m)
  <2>1. d = t
    BY <1>5, <1>7 DEF TakeFin
  <2> QED
    BY <1>1, <1>4, <2>1
<1>8. CASE FinInOrder(a, m)
  <2>1. d = [t EXCEPT !.rcv = t.rcv + 1, !.state = AfterFin(t.state)]
    BY <1>5, <1>8 DEF TakeFin, AfterFin
  <2>2. ~Accepts(c, m)
    BY <1>6, <1>8 DEF Accepts
  <2>3. AfterFin(t.state) \in State \cup {"None"}
    <3>1. t.state \in State \cup {"None"}
      BY <1>4, ConnFields
    <3>2. AfterFin(t.state) \in {"CloseWait", "Closing", "TimeWait", t.state}
      BY DEF AfterFin
    <3> QED
      BY <3>1, <3>2 DEF State
  <2>4. t.rcv + 1 \in Nat
    BY <1>2, <1>4, <2>2
  <2>5. d \in Conns
    BY <1>4, <2>1, <2>3, <2>4 DEF Conns
  <2>6. /\ d.tag = t.tag /\ d.una = t.una /\ d.nxt = t.nxt /\ d.irs = t.irs
        /\ d.q = t.q /\ d.drained = t.drained /\ d.fin_sent = t.fin_sent
        /\ d.fin_acked = t.fin_acked /\ d.app_closed = t.app_closed
        /\ d.accepted = t.accepted /\ d.rto = t.rto /\ d.retries = t.retries
        /\ d.win = t.win /\ d.got = t.got /\ d.rcv = t.rcv + 1 /\ d.state = AfterFin(t.state)
    BY <1>4, <2>1 DEF Conns
  <2> QED
    BY <1>1, <1>4, <1>6, <1>8, <2>2, <2>5, <2>6
<1> QED
  BY <1>7, <1>8

\* A connection as it is made.
LEMMA NewConnFacts ==
  ASSUME NEW g \in 0 .. MaxOpen, NEW s \in State \cup {"None"}, NEW p \in 0 .. MaxOpen,
         NEW r \in Nat, NEW w \in 0 .. RECV_CAP, NEW o \in BOOLEAN,
         NEW c, c = NewConn(g, s, p, r, w, o)
  PROVE  /\ c \in Conns /\ c.una <= c.nxt
         /\ c.state = s /\ c.tag = g /\ c.una = 0 /\ c.nxt = 1 /\ c.irs = p /\ c.rcv = r
         /\ c.win = w /\ c.drained = 0 /\ c.q = 0 /\ c.held = 0 /\ c.got = <<>>
         /\ ~c.fin_sent /\ ~c.fin_acked /\ ~c.app_closed /\ c.accepted = o /\ c.rto
         /\ c.retries = 0
BY Consts DEF NewConn, Conns, State

LEMMA NoConnFacts ==
  /\ NoConn \in Conns /\ NoConn.state = "None" /\ NoConn.tag = 0 /\ NoConn.irs = 0
  /\ NoConn.una <= NoConn.nxt /\ NoConn.drained = 0 /\ NoConn.got = <<>> /\ NoConn.rcv = 0
  /\ ~NoConn.fin_sent /\ ~NoConn.app_closed /\ ~NoConn.accepted
<1> DEFINE c == NewConn(0, "None", 0, 0, 0, FALSE)
<1>0. c = NewConn(0, "None", 0, 0, 0, FALSE) /\ NoConn = [c EXCEPT !.rto = FALSE]
  BY DEF NoConn
<1> HIDE DEF c
<1>1. /\ 0 \in 0 .. MaxOpen /\ 0 \in 0 .. RECV_CAP /\ 0 \in Nat /\ FALSE \in BOOLEAN
      /\ "None" \in State \cup {"None"}
  BY Consts
<1>2. /\ c \in Conns /\ c.una <= c.nxt
      /\ c.state = "None" /\ c.tag = 0 /\ c.irs = 0 /\ c.rcv = 0 /\ c.drained = 0
      /\ c.got = <<>> /\ ~c.fin_sent /\ ~c.app_closed /\ ~c.accepted
  BY <1>0, <1>1, Consts DEF NewConn, Conns, State
<1>3. NoConn \in Conns
  BY <1>0, <1>2 DEF Conns
<1>4. /\ NoConn.state = c.state /\ NoConn.tag = c.tag /\ NoConn.irs = c.irs /\ NoConn.rcv = c.rcv
      /\ NoConn.drained = c.drained /\ NoConn.got = c.got /\ NoConn.fin_sent = c.fin_sent
      /\ NoConn.app_closed = c.app_closed /\ NoConn.accepted = c.accepted
      /\ NoConn.una = c.una /\ NoConn.nxt = c.nxt
  BY <1>0, <1>2 DEF Conns
<1> QED
  BY <1>2, <1>3, <1>4

\* A single segment as Seg makes it.
LEMMA SegFacts ==
  ASSUME NEW h \in Host, NEW c \in Conns, NEW f \in SUBSET {"SYN", "ACK", "FIN", "RST"},
         NEW s \in Nat, NEW m, m = Seg(h, c, f, s, 0, 0)
  PROVE  /\ m \in Segs /\ m.to = Peer(h) /\ m.flags = f /\ m.sg = c.tag /\ m.seq = s
         /\ m.ag = c.irs /\ m.ack = c.rcv /\ m.first = 0 /\ m.n = 0
         /\ m.win = RECV_CAP - c.held
<1>1. /\ c.rcv \in Nat /\ RECV_CAP - c.held \in 0 .. RECV_CAP /\ MSS \in Nat
      /\ c.tag \in 0 .. MaxOpen /\ c.irs \in 0 .. MaxOpen
  BY ConnFields, Consts
<1>2. Peer(h) \in Host
  BY DEF Peer, Host
<1> QED
  BY <1>1, <1>2 DEF Seg, Segs

LEMMA RstFacts ==
  ASSUME NEW h \in Host
  PROVE  /\ Rst(h) \in Segs /\ Rst(h).to = Peer(h) /\ Rst(h).flags = {"RST"} /\ Rst(h).n = 0
         /\ Rst(h).ag = 0 /\ Rst(h).sg = 0 /\ Rst(h).ack = 0
<1>1. Peer(h) \in Host
  BY DEF Peer, Host
<1> QED
  BY <1>1, Consts DEF Rst, Segs

LEMMA Peers ==
  ASSUME NEW h \in Host
  PROVE  /\ Peer(h) \in Host /\ Peer(h) # h /\ Peer(Peer(h)) = h
         /\ Peer(h) = Server <=> h = Client
         /\ h = Server <=> h # Client
BY Consts DEF Peer, Host

\* What a later tag does not change.
LEMMA ShapesKeep ==
  ASSUME NEW t \in Nat, NEW u \in Nat, t <= u
  PROVE  /\ \A h \in Host, c \in Conns : ConnShape(h, c, t) => ConnShape(h, c, u)
         /\ \A m \in Segs : SegShape(m, t) => SegShape(m, u)
<1>1. ASSUME NEW h \in Host, NEW c \in Conns, ConnShape(h, c, t)
      PROVE  ConnShape(h, c, u)
  <2>1. c.tag \in Nat /\ c.irs \in Nat
    BY ConnFields, Consts
  <2> QED
    BY <1>1, <2>1 DEF ConnShape
<1>2. ASSUME NEW m \in Segs, SegShape(m, t)
      PROVE  SegShape(m, u)
  <2>1. m.sg \in Nat /\ m.ag \in Nat
    BY Consts DEF Segs
  <2> QED
    BY <1>2, <2>1 DEF SegShape
<1> QED
  BY <1>1, <1>2

\* What a host sends has the shape of a segment.
LEMMA SentShape ==
  ASSUME NEW h \in Host, NEW c \in Conns, NEW t \in Nat, ConnShape(h, c, t), c.state # "None",
         NEW m \in Segs, m.to = Peer(h), m.sg = c.tag, m.ag = c.irs,
         \/ m.flags = {"ACK"}
         \/ m.flags = {"FIN", "ACK"} /\ m.n = 0
         \/ m.flags = {"SYN"} /\ h = Client /\ m.seq = 0 /\ m.n = 0
         \/ m.flags = {"SYN", "ACK"} /\ m.seq = 0 /\ m.n = 0
  PROVE  SegShape(m, t)
<1>1. c.tag \in Nat /\ c.irs \in Nat
  BY ConnFields, Consts
<1>2. 1 < t /\ m.ag < t /\ IF m.to = Server THEN m.sg = 1 ELSE m.sg \in 2 .. t - 1
  BY <1>1, Peers DEF ConnShape
<1> QED
  BY <1>2, Peers DEF SegShape

\* tcp_output keeps the shape of its connection.
LEMMA OutputShape ==
  ASSUME NEW h \in Host, NEW c \in Conns, NEW t \in Nat, ConnShape(h, c, t),
         c.state # "None", Live(c) \/ c.fin_sent,
         NEW d, d = AfterOutput(c)
  PROVE  /\ d \in Conns /\ ConnShape(h, d, t) /\ d.state # "None"
         /\ \A m \in Output(h, c) : m \in Segs /\ SegShape(m, t)
<1>1. c.una <= c.nxt
  BY DEF ConnShape
<1>2. /\ d \in Conns /\ d.una <= d.nxt
      /\ d.tag = c.tag /\ d.irs = c.irs /\ d.app_closed = c.app_closed
      /\ d.accepted = c.accepted /\ d.retries = c.retries
      /\ d.fin_sent = (c.fin_sent \/ SendsFin(c))
      /\ d.state = IF ~SendsFin(c) THEN c.state
                   ELSE IF c.state = "CloseWait" THEN "LastAck" ELSE "FinWait1"
  BY <1>1, AfterOutputFacts
<1>3. SendsFin(c) => c.app_closed /\ ~c.fin_sent
  BY DEF SendsFin, MaySend
<1>4. ConnShape(h, d, t) /\ d.state # "None"
  BY <1>2, <1>3 DEF ConnShape, FinSentStates, Live
<1>5. ASSUME NEW m \in Output(h, c) PROVE m \in Segs /\ SegShape(m, t)
  <2>1. /\ m \in Segs /\ m.to = Peer(h) /\ m.sg = c.tag /\ m.ag = c.irs
        /\ m.flags = {"ACK"} \/ (m.flags = {"FIN", "ACK"} /\ m.n = 0)
    BY <1>1, OutputSegs
  <2> QED
    BY <2>1, SentShape
<1> QED
  BY <1>2, <1>4, <1>5

\* So does what tcp_input does before it.
LEMMA AbsorbedShape ==
  ASSUME NEW h \in Host, NEW c \in Conns, NEW t \in Nat, ConnShape(h, c, t),
         Live(c), c.state # "SynSent",
         NEW m \in Segs, "FIN" \in m.flags => m.n = 0,
         NEW b, b = Absorbed(c, m)
  PROVE  /\ b \in Conns /\ ConnShape(h, b, t) /\ b.state # "None"
         /\ Live(b) \/ b.fin_sent
<1> DEFINE a == TakeAck(TakeWindow(c, m), m)
           w == TakeWindow(c, m)
<1>1. c.una <= c.nxt
  BY DEF ConnShape
<1>2. /\ a \in Conns /\ a.una <= a.nxt /\ a.tag = c.tag /\ a.irs = c.irs
      /\ a.fin_sent = c.fin_sent /\ a.app_closed = c.app_closed /\ a.accepted = c.accepted
      /\ a.retries = c.retries \/ a.retries = 0
      /\ ~NewAck(c, m) => a.state = w.state
      /\ NewAck(c, m) =>
           a.state = CASE AcksFin(c, m) /\ w.state = "FinWait1" -> "FinWait2"
                       [] AcksFin(c, m) /\ w.state = "Closing" -> "TimeWait"
                       [] AcksFin(c, m) /\ w.state = "LastAck" -> "Closed"
                       [] OTHER -> w.state
  BY <1>1, AckFacts
<1>3. w.state = c.state \/ (c.state = "SynRcvd" /\ w.state = "Established")
  BY DEF TakeWindow, Conns
<1>4. /\ b \in Conns /\ b.una <= b.nxt /\ b.tag = a.tag /\ b.irs = a.irs
      /\ b.fin_sent = a.fin_sent /\ b.app_closed = a.app_closed /\ b.accepted = a.accepted
      /\ b.retries = a.retries
      /\ b.state = a.state \/ b.state = AfterFin(a.state)
  <2>1. a = TakeAck(TakeWindow(c, m), m)
    OBVIOUS
  <2> HIDE DEF a
  <2> QED
    BY <1>1, <2>1, AbsorbedFacts
<1>5. AcksFin(c, m) => c.fin_sent
  BY DEF AcksFin
<1>6. c.fin_sent <=> c.state \in FinSentStates
  BY DEF ConnShape
<1>7. MAX_RETRIES \in Nat
  BY Consts
<1> HIDE DEF a, w
<1>8. /\ a.state # "None" /\ a.state # "SynSent"
      /\ a.state = "SynRcvd" => c.state = "SynRcvd"
      /\ a.state = "Closed" => a.fin_sent
      /\ a.state # "Closed" => (a.fin_sent <=> a.state \in FinSentStates)
  BY <1>2, <1>3, <1>5, <1>6 DEF Live, FinSentStates
<1>9. /\ b.state # "None" /\ b.state # "SynSent"
      /\ b.state = "SynRcvd" => c.state = "SynRcvd"
      /\ b.state = "Closed" => b.fin_sent
      /\ b.state # "Closed" => (b.fin_sent <=> b.state \in FinSentStates)
  BY <1>4, <1>8 DEF AfterFin, FinSentStates
<1>10. Live(b) \/ b.fin_sent
  BY <1>9 DEF Live
<1>11. ConnShape(h, b, t)
  BY <1>2, <1>4, <1>7, <1>9 DEF ConnShape, Live
<1> QED
  BY <1>4, <1>9, <1>10, <1>11

LEMMA HostFacts ==
  ASSUME TInv, NEW h \in Host
  PROVE  /\ conn[h] \in Conns /\ ConnShape(h, conn[h], next_gen) /\ conn[h].una <= conn[h].nxt
         /\ next_gen \in Nat /\ next_gen >= 1 /\ next_gen <= MaxOpen + 1
BY Consts DEF TInv, TypeOK, Shape, ConnShape

\* A step that changes the connection of one host and adds segments.
LEMMA TStep ==
  ASSUME TInv, NEW h \in Host, NEW d \in Conns,
         conn' = [conn EXCEPT ![h] = d],
         next_gen' \in 1 .. MaxOpen + 1, next_gen <= next_gen',
         ConnShape(h, d, next_gen'),
         \A m \in net' : m \in net \/ (m \in Segs /\ SegShape(m, next_gen')),
         next_gen' = 1 => net' = {},
         wrote' \in [1 .. MaxOpen -> Nat], \A g \in next_gen' .. MaxOpen : wrote'[g] = 0,
         taken' \in [1 .. MaxOpen -> Nat], rushed' \in SUBSET (1 .. MaxOpen),
         unwritten' \in 0 .. MaxBytes, faults' \in 0 .. MaxFaults
  PROVE  TInv'
<1>1. next_gen \in Nat /\ next_gen' \in Nat
  BY HostFacts, Consts
<1>2. conn' \in [Host -> Conns]
  BY DEF TInv, TypeOK
<1>3. ASSUME NEW o \in Host PROVE ConnShape(o, conn'[o], next_gen')
  <2>1. CASE o = h
    BY <2>1 DEF TInv, TypeOK
  <2>2. CASE o # h
    <3>1. conn'[o] = conn[o] /\ conn[o] \in Conns /\ ConnShape(o, conn[o], next_gen)
      BY <2>2, HostFacts DEF TInv, TypeOK
    <3> QED
      BY <1>1, <3>1, ShapesKeep
  <2> QED
    BY <2>1, <2>2
<1>4. ASSUME NEW m \in net' PROVE m \in Segs /\ SegShape(m, next_gen')
  <2>1. CASE m \in net
    <3>1. m \in Segs /\ SegShape(m, next_gen)
      BY <2>1 DEF TInv, TypeOK, Shape
    <3> QED
      BY <1>1, <3>1, ShapesKeep
  <2> QED
    BY <2>1
<1>5. net' \in SUBSET Segs
  BY <1>4
<1>6. TypeOK'
  BY <1>2, <1>5 DEF TypeOK
<1>7. Shape'
  BY <1>3, <1>4 DEF Shape
<1> QED
  BY <1>6, <1>7 DEF TInv

LEMMA TypesRest ==
  ASSUME TInv
  PROVE  /\ wrote \in [1 .. MaxOpen -> Nat] /\ \A g \in next_gen .. MaxOpen : wrote[g] = 0
         /\ taken \in [1 .. MaxOpen -> Nat] /\ rushed \in SUBSET (1 .. MaxOpen)
         /\ unwritten \in 0 .. MaxBytes /\ faults \in 0 .. MaxFaults
         /\ next_gen \in 1 .. MaxOpen + 1
         /\ next_gen = 1 => net = {}
BY DEF TInv, TypeOK, Shape

\* Before the first connection nothing is there to act.
LEMMA Opened ==
  ASSUME TInv, NEW h \in Host, conn[h].state # "None"
  PROVE  1 < next_gen /\ conn[h].tag \in 1 .. next_gen - 1
<1>1. conn[h].tag \in Nat /\ next_gen \in Nat /\ ConnShape(h, conn[h], next_gen)
  BY HostFacts, ConnFields, Consts
<1> QED
  BY <1>1 DEF ConnShape

LEMMA ArriveFacts ==
  ASSUME TInv, NEW m, NEW dup \in BOOLEAN, NEW out, Arrive(m, dup, out)
  PROVE  /\ faults' \in 0 .. MaxFaults
         /\ \A k \in net' : k \in net \/ k \in out
<1>1. faults \in 0 .. MaxFaults /\ MaxFaults \in Nat
  BY TypesRest, Consts
<1> QED
  BY <1>1 DEF Arrive

LEMMA ExpiresFacts ==
  ASSUME TInv, Expires
  PROVE  faults' \in 0 .. MaxFaults
<1>1. faults \in 0 .. MaxFaults /\ MaxFaults \in Nat
  BY TypesRest, Consts
<1> QED
  BY <1>1 DEF Expires

\* What is made of a segment that arrives.
LEMMA InboxFacts ==
  ASSUME TInv, NEW h \in Host, NEW m \in Inbox(h)
  PROVE  /\ m \in net /\ m \in Segs /\ m.to = h /\ SegShape(m, next_gen) /\ 1 < next_gen
<1>1. m \in net /\ m.to = h /\ m \in Segs /\ SegShape(m, next_gen)
  BY DEF Inbox, TInv, TypeOK, Shape
<1>2. next_gen # 1 /\ next_gen \in 1 .. MaxOpen + 1
  BY <1>1 DEF TInv, TypeOK, Shape
<1> QED
  BY <1>1, <1>2, Consts

LEMMA InitTInv == Init => TInv
<1> SUFFICES ASSUME Init PROVE TInv
  OBVIOUS
<1>1. TypeOK
  BY NoConnFacts, Consts DEF Init, TypeOK
<1>2. ASSUME NEW h \in Host PROVE ConnShape(h, conn[h], next_gen)
  BY NoConnFacts DEF Init, ConnShape, Live
<1>3. Shape
  BY <1>2 DEF Init, Shape
<1> QED
  BY <1>1, <1>3 DEF TInv

LEMMA ConnectT ==
  ASSUME TInv, NEW h \in Host, Connect(h)
  PROVE  TInv'
<1> DEFINE c == NewConn(next_gen, "SynSent", 0, 0, 0, TRUE)
           m == Seg(h, c, {"SYN"}, 0, 0, 0)
<1>1. /\ h = Client /\ next_gen = 1 /\ next_gen <= MaxOpen /\ next_gen' = next_gen + 1
      /\ conn' = [conn EXCEPT ![h] = c] /\ net' = net \cup {m}
      /\ UNCHANGED <<wrote, taken, rushed, unwritten, faults>>
  BY DEF Connect
<1>2. /\ c \in Conns /\ c.una <= c.nxt /\ c.state = "SynSent" /\ c.tag = 1 /\ c.irs = 0
      /\ ~c.fin_sent /\ ~c.app_closed /\ c.accepted /\ c.retries = 0
  BY <1>1, Consts DEF NewConn, Conns, State
<1>3. c = NewConn(next_gen, "SynSent", 0, 0, 0, TRUE)
  OBVIOUS
<1> HIDE DEF c
<1>4. ConnShape(h, c, 2)
  BY <1>1, <1>2, Consts DEF ConnShape, Live, FinSentStates
<1>5. /\ m \in Segs /\ m.to = Peer(h) /\ m.flags = {"SYN"} /\ m.sg = c.tag /\ m.seq = 0
      /\ m.ag = c.irs /\ m.n = 0
  BY <1>2, SegFacts
<1> HIDE DEF m
<1>6. SegShape(m, 2)
  BY <1>1, <1>2, <1>4, <1>5, SentShape
<1>7. next_gen' = 2 /\ 2 \in 1 .. MaxOpen + 1
  BY <1>1, Consts
<1>8. /\ wrote' \in [1 .. MaxOpen -> Nat] /\ \A g \in next_gen' .. MaxOpen : wrote'[g] = 0
      /\ taken' \in [1 .. MaxOpen -> Nat] /\ rushed' \in SUBSET (1 .. MaxOpen)
      /\ unwritten' \in 0 .. MaxBytes /\ faults' \in 0 .. MaxFaults
  <2>1. \A g \in 2 .. MaxOpen : g \in next_gen .. MaxOpen
    BY <1>1, Consts
  <2> QED
    BY <1>1, <1>7, <2>1, TypesRest
<1>9. \A k \in net' : k \in net \/ (k \in Segs /\ SegShape(k, next_gen'))
  BY <1>1, <1>5, <1>6, <1>7
<1>10. next_gen <= next_gen' /\ next_gen' \in 1 .. MaxOpen + 1 /\ next_gen' # 1
  BY <1>1, <1>7
<1>11. ConnShape(h, c, next_gen') /\ conn' = [conn EXCEPT ![h] = c]
  BY <1>1, <1>4, <1>7
<1> QED
  BY <1>2, <1>8, <1>9, <1>10, <1>11, TStep

LEMMA WriteT ==
  ASSUME TInv, NEW h \in Host, Write(h)
  PROVE  TInv'
<1>1. PICK n \in 1 .. Least(SEND_CAP - conn[h].q, unwritten) :
        /\ conn' = [conn EXCEPT ![h] = AfterOutput([conn[h] EXCEPT !.q = @ + n])]
        /\ net' = net \cup Output(h, [conn[h] EXCEPT !.q = @ + n])
        /\ wrote' = [wrote EXCEPT ![conn[h].tag] = @ + n]
        /\ unwritten' = unwritten - n
  <2>1. conn[h] \in Conns
    BY HostFacts
  <2>2. \A n : [conn[h] EXCEPT !.q = @ + n].tag = conn[h].tag
    BY <2>1 DEF Conns
  <2> QED
    BY <2>2 DEF Write
<1> DEFINE c == [conn[h] EXCEPT !.q = @ + n]
           d == AfterOutput(c)
<1>2. /\ ~Released(conn[h]) /\ conn[h].state \notin {"None", "Closed", "TimeWait"}
      /\ UNCHANGED <<next_gen, taken, rushed, faults>>
  BY DEF Write
<1>3. /\ conn[h] \in Conns /\ ConnShape(h, conn[h], next_gen) /\ next_gen \in Nat
      /\ unwritten \in 0 .. MaxBytes /\ conn[h].q \in 0 .. SEND_CAP /\ MaxBytes \in Nat
      /\ SEND_CAP \in Nat
  BY HostFacts, TypesRest, ConnFields, Consts
<1>4. n \in Nat /\ conn[h].q + n \in 0 .. SEND_CAP /\ unwritten - n \in 0 .. MaxBytes
  BY <1>3 DEF Least
<1>5. /\ c \in Conns /\ c.state = conn[h].state /\ ConnShape(h, c, next_gen)
  <2>1. c \in Conns
    BY <1>3, <1>4 DEF Conns
  <2>2. /\ c.state = conn[h].state /\ c.tag = conn[h].tag /\ c.irs = conn[h].irs
        /\ c.accepted = conn[h].accepted /\ c.una = conn[h].una /\ c.nxt = conn[h].nxt
        /\ c.app_closed = conn[h].app_closed /\ c.fin_sent = conn[h].fin_sent
        /\ c.retries = conn[h].retries
    BY <1>3 DEF Conns
  <2> HIDE DEF c
  <2>3. ConnShape(h, c, next_gen)
    BY <1>2, <1>3, <2>2 DEF ConnShape, Live
  <2> QED
    BY <2>1, <2>2, <2>3
<1>6. c.state # "None" /\ Live(c)
  BY <1>2, <1>5 DEF Live
<1>7. conn' = [conn EXCEPT ![h] = d] /\ net' = net \cup Output(h, c)
  BY <1>1
<1> HIDE DEF c
<1>8. d \in Conns /\ ConnShape(h, d, next_gen) /\ \A m \in Output(h, c) : m \in Segs /\ SegShape(m, next_gen)
  BY <1>3, <1>5, <1>6, OutputShape
<1> HIDE DEF d
<1>9. 1 < next_gen /\ conn[h].tag \in 1 .. next_gen - 1
  BY <1>2, Opened
<1>10. wrote' \in [1 .. MaxOpen -> Nat] /\ \A g \in next_gen' .. MaxOpen : wrote'[g] = 0
  <2>1. /\ wrote \in [1 .. MaxOpen -> Nat] /\ \A g \in next_gen .. MaxOpen : wrote[g] = 0
        /\ next_gen' = next_gen
    BY <1>2, TypesRest
  <2>2. \A g \in next_gen .. MaxOpen : g # conn[h].tag /\ g \in 1 .. MaxOpen
    BY <1>3, <1>9, Consts
  <2>3. \A g \in 1 .. MaxOpen : wrote'[g] = wrote[g] \/ (g = conn[h].tag /\ wrote'[g] = wrote[g] + n)
    BY <1>1, <2>1
  <2>4. conn[h].tag \in 1 .. MaxOpen
    BY <1>3, <1>9, HostFacts, Consts
  <2>5. wrote' \in [1 .. MaxOpen -> Nat]
    <3>1. wrote[conn[h].tag] + n \in Nat
      BY <1>4, <2>1, <2>4
    <3> QED
      BY <1>1, <2>1, <2>4, <3>1
  <2> QED
    BY <2>1, <2>2, <2>3, <2>5
<1>11. \A k \in net' : k \in net \/ (k \in Segs /\ SegShape(k, next_gen'))
  BY <1>2, <1>7, <1>8
<1>12. next_gen <= next_gen' /\ next_gen' \in 1 .. MaxOpen + 1 /\ next_gen' # 1
  BY <1>2, <1>9, HostFacts, Consts
<1>13. ConnShape(h, d, next_gen')
  BY <1>2, <1>8
<1>14. /\ taken' \in [1 .. MaxOpen -> Nat] /\ rushed' \in SUBSET (1 .. MaxOpen)
       /\ unwritten' \in 0 .. MaxBytes /\ faults' \in 0 .. MaxFaults
  BY <1>1, <1>2, <1>4, TypesRest
<1> QED
  BY <1>7, <1>8, <1>10, <1>11, <1>12, <1>13, <1>14, TStep

LEMMA TKeep ==
  ASSUME TInv, NEW h \in Host, NEW d \in Conns,
         conn' = [conn EXCEPT ![h] = d], ConnShape(h, d, next_gen), 1 < next_gen,
         \A m \in net' : m \in net \/ (m \in Segs /\ SegShape(m, next_gen)),
         UNCHANGED <<next_gen, wrote, unwritten>>,
         taken' \in [1 .. MaxOpen -> Nat], rushed' \in SUBSET (1 .. MaxOpen),
         faults' \in 0 .. MaxFaults
  PROVE  TInv'
<1>1. /\ next_gen' = next_gen /\ wrote' = wrote /\ unwritten' = unwritten
      /\ next_gen' \in 1 .. MaxOpen + 1 /\ next_gen <= next_gen' /\ next_gen' # 1
  BY HostFacts, TypesRest, Consts
<1>2. /\ wrote' \in [1 .. MaxOpen -> Nat] /\ \A g \in next_gen' .. MaxOpen : wrote'[g] = 0
      /\ unwritten' \in 0 .. MaxBytes
  BY <1>1, TypesRest
<1>3. /\ ConnShape(h, d, next_gen')
      /\ \A m \in net' : m \in net \/ (m \in Segs /\ SegShape(m, next_gen'))
  BY <1>1
<1> QED
  BY <1>1, <1>2, <1>3, TStep

\* What RecvSegment does.
LEMMA RecvSegmentDoes ==
  ASSUME TInv, NEW h \in Host, NEW m \in Inbox(h), NEW dup \in BOOLEAN, RecvSegment(h, m, dup),
         NEW b, b = Absorbed(conn[h], m), NEW d, d = AfterOutput(b)
  PROVE  /\ Live(conn[h]) /\ conn[h].state # "SynSent" /\ "RST" \notin m.flags
         /\ conn' = [conn EXCEPT ![h] = Reaped(d)]
         /\ \A k \in net' : \/ k \in net \/ k \in Output(h, b)
                            \/ k = Seg(h, d, {"ACK"}, d.nxt, 0, 0)
         /\ taken' = IF b.irs = 0 THEN taken
                     ELSE [taken EXCEPT ![b.irs] = Most(@, Len(b.got))]
         /\ faults' \in 0 .. MaxFaults
         /\ UNCHANGED <<next_gen, wrote, rushed, unwritten>>
<1>1. PICK c \in {Absorbed(conn[h], m)} :
       /\ conn' = [conn EXCEPT ![h] = Reaped(AfterOutput(c))]
       /\ Arrive(m, dup, Output(h, c) \cup
            (IF Output(h, c) = {} /\ (m.n > 0 \/ "FIN" \in m.flags)
             THEN {Seg(h, AfterOutput(c), {"ACK"}, AfterOutput(c).nxt, 0, 0)} ELSE {}))
       /\ taken' = IF c.irs = 0 THEN taken
                       ELSE [taken EXCEPT ![c.irs] = Most(@, Len(c.got))]
  BY DEF RecvSegment
<1>2. c = b /\ AfterOutput(c) = d
  BY <1>1
<1>3. /\ faults' \in 0 .. MaxFaults
      /\ \A k \in net' : k \in net \/ k \in Output(h, b) \cup
            (IF Output(h, b) = {} /\ (m.n > 0 \/ "FIN" \in m.flags)
             THEN {Seg(h, d, {"ACK"}, d.nxt, 0, 0)} ELSE {})
  BY <1>1, <1>2, ArriveFacts
<1>4. \A k \in net' : \/ k \in net \/ k \in Output(h, b)
                      \/ k = Seg(h, d, {"ACK"}, d.nxt, 0, 0)
  BY <1>3
<1>5. /\ Live(conn[h]) /\ conn[h].state # "SynSent" /\ "RST" \notin m.flags
      /\ UNCHANGED <<next_gen, wrote, rushed, unwritten>>
  BY DEF RecvSegment
<1> QED
  BY <1>1, <1>2, <1>3, <1>4, <1>5

LEMMA ReapedShape ==
  ASSUME NEW h \in Host, NEW c \in Conns, NEW t \in Nat, ConnShape(h, c, t)
  PROVE  Reaped(c) \in Conns /\ ConnShape(h, Reaped(c), t)
<1>1. ConnShape(h, NoConn, t)
  BY NoConnFacts DEF ConnShape, Live
<1> QED
  BY <1>1, NoConnFacts DEF Reaped

LEMMA RecvSegmentT ==
  ASSUME TInv, NEW h \in Host, NEW m \in Inbox(h), NEW dup \in BOOLEAN, RecvSegment(h, m, dup)
  PROVE  TInv'
<1> DEFINE b == Absorbed(conn[h], m)
           d == AfterOutput(b)
           k0 == Seg(h, d, {"ACK"}, d.nxt, 0, 0)
<1>1. /\ conn[h] \in Conns /\ ConnShape(h, conn[h], next_gen) /\ next_gen \in Nat
      /\ m \in Segs /\ SegShape(m, next_gen) /\ 1 < next_gen
  BY HostFacts, InboxFacts
<1>2. /\ Live(conn[h]) /\ conn[h].state # "SynSent" /\ "RST" \notin m.flags
      /\ conn' = [conn EXCEPT ![h] = Reaped(d)]
      /\ \A k \in net' : k \in net \/ k \in Output(h, b) \/ k = k0
      /\ taken' = IF b.irs = 0 THEN taken
                  ELSE [taken EXCEPT ![b.irs] = Most(@, Len(b.got))]
      /\ faults' \in 0 .. MaxFaults
      /\ UNCHANGED <<next_gen, wrote, rushed, unwritten>>
  BY RecvSegmentDoes
<1>3. b = Absorbed(conn[h], m) /\ d = AfterOutput(b) /\ k0 = Seg(h, d, {"ACK"}, d.nxt, 0, 0)
  OBVIOUS
<1> HIDE DEF b, d, k0
<1>4. "FIN" \in m.flags => m.n = 0
  BY <1>1 DEF SegShape
<1>5. b \in Conns /\ ConnShape(h, b, next_gen) /\ b.state # "None" /\ (Live(b) \/ b.fin_sent)
  BY <1>1, <1>2, <1>3, <1>4, AbsorbedShape
<1>6. /\ d \in Conns /\ ConnShape(h, d, next_gen) /\ d.state # "None"
      /\ \A k \in Output(h, b) : k \in Segs /\ SegShape(k, next_gen)
  BY <1>1, <1>3, <1>5, OutputShape
<1>7. k0 \in Segs /\ SegShape(k0, next_gen)
  <2>1. d.nxt \in Nat
    BY <1>6, ConnFields
  <2>2. /\ k0 \in Segs /\ k0.to = Peer(h) /\ k0.flags = {"ACK"} /\ k0.sg = d.tag /\ k0.ag = d.irs
    BY <1>3, <1>6, <2>1, SegFacts
  <2> QED
    BY <1>1, <1>6, <2>2, SentShape
<1>8. Reaped(d) \in Conns /\ ConnShape(h, Reaped(d), next_gen)
  BY <1>1, <1>6, ReapedShape
<1>9. taken' \in [1 .. MaxOpen -> Nat]
  <2>1. b.irs \in 0 .. MaxOpen /\ Len(b.got) \in Nat /\ taken \in [1 .. MaxOpen -> Nat]
    BY <1>5, ConnFields, TypesRest
  <2>2. b.irs # 0 => Most(taken[b.irs], Len(b.got)) \in Nat
    BY <2>1, Consts DEF Most
  <2> QED
    BY <1>2, <2>1, <2>2, Consts
<1>10. rushed' \in SUBSET (1 .. MaxOpen)
  BY <1>2, TypesRest
<1>11. \A k \in net' : k \in net \/ (k \in Segs /\ SegShape(k, next_gen))
  BY <1>2, <1>6, <1>7
<1> QED
  BY <1>1, <1>2, <1>8, <1>9, <1>10, <1>11, TKeep

LEMMA SameConn ==
  ASSUME TInv, NEW h \in Host, conn' = conn
  PROVE  conn' = [conn EXCEPT ![h] = conn[h]]
BY DEF TInv, TypeOK

\* A client whose SYN is answered.
Answered(c, m) == [c EXCEPT !.irs = m.sg, !.rcv = m.seq + 1, !.una = m.ack,
                            !.win = m.win, !.state = "Established",
                            !.rto = FALSE, !.retries = 0]

LEMMA AnsweredConn ==
  ASSUME NEW k \in Conns, NEW i \in 0 .. MaxOpen, NEW r \in Nat, NEW u \in Nat,
         NEW w \in 0 .. RECV_CAP, NEW s \in State \cup {"None"}, NEW n \in 0 .. MAX_RETRIES + 1
  PROVE  [k EXCEPT !.irs = i, !.rcv = r, !.una = u, !.win = w, !.state = s,
                   !.rto = FALSE, !.retries = n] \in Conns
BY DEF Conns

LEMMA EstablishedConn ==
  ASSUME TInv, NEW h \in Host, NEW m \in Inbox(h), conn[h].state = "SynSent",
         {"SYN", "ACK"} \subseteq m.flags, "RST" \notin m.flags,
         m.ag = conn[h].tag, m.ack = conn[h].nxt,
         NEW c, c = Answered(conn[h], m)
  PROVE  /\ c \in Conns /\ h = Client /\ ConnShape(h, c, next_gen)
         /\ c.state = "Established" /\ c.tag = conn[h].tag /\ c.nxt = conn[h].nxt
         /\ c.una = conn[h].nxt /\ c.irs = m.sg /\ c.irs \in 2 .. next_gen - 1 /\ c.rcv = 1
         /\ c.drained = conn[h].drained /\ c.q = conn[h].q /\ c.got = conn[h].got
         /\ c.fin_sent = conn[h].fin_sent /\ c.fin_acked = conn[h].fin_acked
         /\ c.app_closed = conn[h].app_closed /\ c.accepted = conn[h].accepted
         /\ ~c.rto /\ ~c.fin_sent
<1>1. /\ conn[h] \in Conns /\ ConnShape(h, conn[h], next_gen)
      /\ m \in Segs /\ SegShape(m, next_gen) /\ m.to = h
  BY HostFacts, InboxFacts
<1>2. h = Client /\ ~conn[h].fin_sent
  BY <1>1 DEF ConnShape, Live, FinSentStates
<1>3. m.sg \in 2 .. next_gen - 1 /\ m.seq = 0 /\ m.ack = conn[h].nxt /\ m.sg # 0
  BY <1>1, <1>2, Consts DEF SegShape
<1>4. /\ m.sg \in 0 .. MaxOpen /\ m.seq + 1 = 1 /\ m.win \in 0 .. RECV_CAP
      /\ m.ack \in Nat /\ MAX_RETRIES \in Nat
  <2>1. m.sg \in 0 .. MaxOpen /\ m.win \in 0 .. RECV_CAP
    BY <1>1 DEF Segs
  <2>2. m.ack \in Nat /\ MAX_RETRIES \in Nat
    BY <1>1, SegNats, Consts
  <2> QED
    BY <1>3, <2>1, <2>2
<1>s. "Established" \in State \cup {"None"} /\ 1 \in Nat /\ 0 \in 0 .. MAX_RETRIES + 1
  BY <1>4 DEF State
<1>c. c = [conn[h] EXCEPT !.irs = m.sg, !.rcv = 1, !.una = m.ack,
                 !.win = m.win, !.state = "Established", !.rto = FALSE, !.retries = 0]
  BY <1>4 DEF Answered
<1>5. c \in Conns
  <2>1. PICK k \in Conns : k = conn[h]
    BY <1>1
  <2>2. m.win \in 0 .. RECV_CAP /\ m.sg \in 0 .. MaxOpen /\ m.ack \in Nat
    BY <1>4
  <2>3. c = [k EXCEPT !.irs = m.sg, !.rcv = 1, !.una = m.ack,
                      !.win = m.win, !.state = "Established", !.rto = FALSE, !.retries = 0]
    BY <1>c, <2>1
  <2>4. [k EXCEPT !.irs = m.sg, !.rcv = 1, !.una = m.ack, !.win = m.win,
                  !.state = "Established", !.rto = FALSE, !.retries = 0] \in Conns
    BY <1>s, <2>2, AnsweredConn, Zenon
  <2> QED
    BY <2>3, <2>4
<1>6. /\ c.state = "Established" /\ c.tag = conn[h].tag /\ c.nxt = conn[h].nxt
      /\ c.una = conn[h].nxt /\ c.irs = m.sg /\ c.rcv = 1 /\ c.retries = 0
      /\ c.drained = conn[h].drained /\ c.q = conn[h].q /\ c.got = conn[h].got
      /\ c.fin_sent = conn[h].fin_sent /\ c.fin_acked = conn[h].fin_acked
      /\ c.app_closed = conn[h].app_closed /\ c.accepted = conn[h].accepted
      /\ ~c.rto
  BY <1>1, <1>3, <1>c DEF Conns
<1>7. ConnShape(h, c, next_gen)
  <2>1. c.nxt \in Nat
    BY <1>5, ConnFields
  <2> QED
    BY <1>1, <1>2, <1>3, <1>4, <1>6, <2>1 DEF ConnShape, Live, FinSentStates
<1> QED
  BY <1>2, <1>3, <1>5, <1>6, <1>7

LEMMA RecvInSynSentDoes ==
  ASSUME TInv, NEW h \in Host, NEW m \in Inbox(h), NEW dup \in BOOLEAN, RecvInSynSent(h, m, dup),
         NEW c, c = Answered(conn[h], m)
  PROVE  /\ conn[h].state = "SynSent" /\ "RST" \notin m.flags
         /\ faults' \in 0 .. MaxFaults
         /\ UNCHANGED <<next_gen, wrote, taken, rushed, unwritten>>
         /\ \/ conn' = conn /\ \A k \in net' : k \in net
            \/ /\ {"SYN", "ACK"} \subseteq m.flags
               /\ m.ag = conn[h].tag /\ m.ack = conn[h].nxt
               /\ conn' = [conn EXCEPT ![h] = AfterOutput(c)]
               /\ \A k \in net' : \/ k \in net \/ k \in Output(h, c)
                                  \/ k = Seg(h, c, {"ACK"}, c.nxt, 0, 0)
<1>1. /\ conn[h].state = "SynSent" /\ "RST" \notin m.flags
      /\ UNCHANGED <<next_gen, wrote, taken, rushed, unwritten>>
  BY DEF RecvInSynSent
<1>2. CASE ~({"SYN", "ACK"} \subseteq m.flags /\ m.ag = conn[h].tag /\ m.ack = conn[h].nxt)
  <2>1. conn' = conn /\ Arrive(m, dup, {})
    BY <1>2 DEF RecvInSynSent
  <2>2. faults' \in 0 .. MaxFaults /\ \A k \in net' : k \in net
    BY <2>1, ArriveFacts
  <2> QED
    BY <1>1, <2>1, <2>2
<1>3. CASE {"SYN", "ACK"} \subseteq m.flags /\ m.ag = conn[h].tag /\ m.ack = conn[h].nxt
  <2>1. /\ conn' = [conn EXCEPT ![h] = AfterOutput(c)]
        /\ Arrive(m, dup, IF Output(h, c) # {} THEN Output(h, c)
                          ELSE {Seg(h, c, {"ACK"}, c.nxt, 0, 0)})
    BY <1>3 DEF RecvInSynSent, Answered
  <2>2. /\ faults' \in 0 .. MaxFaults
        /\ \A k \in net' : k \in net \/ k \in (IF Output(h, c) # {} THEN Output(h, c)
                          ELSE {Seg(h, c, {"ACK"}, c.nxt, 0, 0)})
    BY <2>1, ArriveFacts
  <2>3. \A k \in net' : \/ k \in net \/ k \in Output(h, c)
                        \/ k = Seg(h, c, {"ACK"}, c.nxt, 0, 0)
    BY <2>2
  <2> QED
    BY <1>1, <1>3, <2>1, <2>2, <2>3
<1> QED
  BY <1>2, <1>3

LEMMA RecvInSynSentT ==
  ASSUME TInv, NEW h \in Host, NEW m \in Inbox(h), NEW dup \in BOOLEAN, RecvInSynSent(h, m, dup)
  PROVE  TInv'
<1> DEFINE c == Answered(conn[h], m)
           d == AfterOutput(c)
           k0 == Seg(h, c, {"ACK"}, c.nxt, 0, 0)
<1>1. /\ conn[h] \in Conns /\ ConnShape(h, conn[h], next_gen) /\ next_gen \in Nat
      /\ 1 < next_gen
  BY HostFacts, InboxFacts
<1>2. /\ conn[h].state = "SynSent" /\ "RST" \notin m.flags
      /\ faults' \in 0 .. MaxFaults
      /\ UNCHANGED <<next_gen, wrote, taken, rushed, unwritten>>
      /\ \/ conn' = conn /\ \A k \in net' : k \in net
         \/ /\ {"SYN", "ACK"} \subseteq m.flags
            /\ m.ag = conn[h].tag /\ m.ack = conn[h].nxt
            /\ conn' = [conn EXCEPT ![h] = d]
            /\ \A k \in net' : \/ k \in net \/ k \in Output(h, c) \/ k = k0
  BY RecvInSynSentDoes
<1>3. /\ c = Answered(conn[h], m)
      /\ d = AfterOutput(c) /\ k0 = Seg(h, c, {"ACK"}, c.nxt, 0, 0)
  OBVIOUS
<1> HIDE DEF c, d, k0
<1>4. taken' \in [1 .. MaxOpen -> Nat] /\ rushed' \in SUBSET (1 .. MaxOpen)
  BY <1>2, TypesRest
<1>5. CASE conn' = conn /\ \A k \in net' : k \in net
  <2>1. conn' = [conn EXCEPT ![h] = conn[h]]
    BY <1>5, SameConn
  <2> QED
    BY <1>1, <1>2, <1>4, <1>5, <2>1, TKeep
<1>6. CASE /\ {"SYN", "ACK"} \subseteq m.flags
           /\ m.ag = conn[h].tag /\ m.ack = conn[h].nxt
           /\ conn' = [conn EXCEPT ![h] = d]
           /\ \A k \in net' : \/ k \in net \/ k \in Output(h, c) \/ k = k0
  <2>1. c \in Conns /\ ConnShape(h, c, next_gen) /\ c.state = "Established"
    BY <1>2, <1>3, <1>6, EstablishedConn
  <2>2. c.state # "None" /\ Live(c)
    BY <2>1 DEF Live
  <2>3. /\ d \in Conns /\ ConnShape(h, d, next_gen) /\ d.state # "None"
        /\ \A k \in Output(h, c) : k \in Segs /\ SegShape(k, next_gen)
    BY <1>1, <1>3, <2>1, <2>2, OutputShape
  <2>4. k0 \in Segs /\ SegShape(k0, next_gen)
    <3>1. c.nxt \in Nat
      BY <2>1, ConnFields
    <3>2. /\ k0 \in Segs /\ k0.to = Peer(h) /\ k0.flags = {"ACK"} /\ k0.sg = c.tag /\ k0.ag = c.irs
      BY <1>3, <2>1, <3>1, SegFacts
    <3> QED
      BY <1>1, <2>1, <2>2, <3>2, SentShape
  <2>5. \A k \in net' : k \in net \/ (k \in Segs /\ SegShape(k, next_gen))
    BY <1>6, <2>3, <2>4
  <2> QED
    BY <1>1, <1>2, <1>4, <1>6, <2>3, <2>5, TKeep
<1> QED
  BY <1>2, <1>5, <1>6

LEMMA ChangedShape ==
  ASSUME NEW h \in Host, NEW t \in Nat, NEW c \in Conns, ConnShape(h, c, t), NEW d \in Conns,
         d.state = c.state, d.tag = c.tag, d.irs = c.irs, d.una = c.una, d.nxt = c.nxt,
         d.fin_sent = c.fin_sent, d.app_closed = c.app_closed, c.state # "None",
         d.accepted = c.accepted \/ (d.accepted /\ c.state # "SynRcvd"),
         Live(c) => d.retries \in 0 .. MAX_RETRIES
  PROVE  ConnShape(h, d, t)
<1>1. d.state # "None" /\ (Live(d) <=> Live(c)) /\ MAX_RETRIES \in Nat
  BY Consts DEF Live
<1> QED
  BY <1>1 DEF ConnShape, Live

LEMMA AcceptT ==
  ASSUME TInv, NEW h \in Host, Accept(h)
  PROVE  TInv'
<1> DEFINE d == [conn[h] EXCEPT !.accepted = TRUE]
<1>1. /\ conn[h] \in Conns /\ ConnShape(h, conn[h], next_gen) /\ next_gen \in Nat
  BY HostFacts
<1>2. /\ Live(conn[h]) /\ conn[h].state # "SynRcvd" /\ conn[h].state # "None"
      /\ conn' = [conn EXCEPT ![h] = d]
      /\ UNCHANGED <<net, next_gen, wrote, taken, rushed, unwritten, faults>>
  BY DEF Accept, Live
<1>3. d = [conn[h] EXCEPT !.accepted = TRUE]
  OBVIOUS
<1> HIDE DEF d
<1>4. d \in Conns
  BY <1>1, <1>3 DEF Conns
<1>5. /\ d.state = conn[h].state /\ d.tag = conn[h].tag /\ d.irs = conn[h].irs
      /\ d.una = conn[h].una /\ d.nxt = conn[h].nxt /\ d.fin_sent = conn[h].fin_sent
      /\ d.app_closed = conn[h].app_closed /\ d.accepted /\ d.retries = conn[h].retries
  BY <1>1, <1>3 DEF Conns
<1>6. Live(conn[h]) => d.retries \in 0 .. MAX_RETRIES
  BY <1>1, <1>5, ConnFields, Consts DEF ConnShape
<1>7. ConnShape(h, d, next_gen)
  BY <1>1, <1>2, <1>4, <1>5, <1>6, ChangedShape
<1>8. 1 < next_gen
  BY <1>2, Opened
<1>9. /\ taken' \in [1 .. MaxOpen -> Nat] /\ rushed' \in SUBSET (1 .. MaxOpen)
      /\ faults' \in 0 .. MaxFaults
  BY <1>2, TypesRest
<1>10. \A k \in net' : k \in net \/ (k \in Segs /\ SegShape(k, next_gen))
  BY <1>2
<1> QED
  BY <1>2, <1>4, <1>7, <1>8, <1>9, <1>10, TKeep

LEMMA ReadT ==
  ASSUME TInv, NEW h \in Host, Read(h)
  PROVE  TInv'
<1>0. PICK n \in 1 .. conn[h].held : conn' = [conn EXCEPT ![h].held = @ - n]
  BY DEF Read
<1> DEFINE d == [conn[h] EXCEPT !.held = @ - n]
<1>1. /\ conn[h] \in Conns /\ ConnShape(h, conn[h], next_gen) /\ next_gen \in Nat
      /\ conn[h].held \in 0 .. RECV_CAP /\ RECV_CAP \in Nat
  BY HostFacts, ConnFields, Consts
<1>2. /\ ~Released(conn[h]) /\ conn' = [conn EXCEPT ![h] = d]
      /\ UNCHANGED <<net, next_gen, wrote, taken, rushed, unwritten, faults>>
  BY <1>0 DEF Read
<1>3. d = [conn[h] EXCEPT !.held = conn[h].held - n] /\ conn[h].held - n \in 0 .. RECV_CAP
  BY <1>1
<1> HIDE DEF d
<1>4. d \in Conns
  BY <1>1, <1>3 DEF Conns
<1>5. /\ d.state = conn[h].state /\ d.tag = conn[h].tag /\ d.irs = conn[h].irs
      /\ d.una = conn[h].una /\ d.nxt = conn[h].nxt /\ d.fin_sent = conn[h].fin_sent
      /\ d.app_closed = conn[h].app_closed /\ d.accepted = conn[h].accepted
      /\ d.retries = conn[h].retries
  BY <1>1, <1>3 DEF Conns
<1>6. Live(conn[h]) => d.retries \in 0 .. MAX_RETRIES
  BY <1>1, <1>5, ConnFields, Consts DEF ConnShape
<1>n. conn[h].state # "None"
  BY <1>1, <1>2, NoConnFacts DEF ConnShape, Released
<1>7. ConnShape(h, d, next_gen)
  BY <1>1, <1>n, <1>4, <1>5, <1>6, ChangedShape
<1>8. 1 < next_gen
  BY <1>n, Opened
<1>9. /\ taken' \in [1 .. MaxOpen -> Nat] /\ rushed' \in SUBSET (1 .. MaxOpen)
      /\ faults' \in 0 .. MaxFaults
  BY <1>2, TypesRest
<1>10. \A k \in net' : k \in net \/ (k \in Segs /\ SegShape(k, next_gen))
  BY <1>2
<1> QED
  BY <1>2, <1>4, <1>7, <1>8, <1>9, <1>10, TKeep

\* A connection whose application has closed it.
LEMMA ClosedConn ==
  ASSUME NEW h \in Host, NEW t \in Nat, NEW k \in Conns, ConnShape(h, k, t),
         k.state # "None", ~Released(k), NEW c, c = [k EXCEPT !.app_closed = TRUE]
  PROVE  /\ c \in Conns /\ ConnShape(h, c, t)
         /\ c.state = k.state /\ c.tag = k.tag /\ c.irs = k.irs /\ c.una = k.una
         /\ c.nxt = k.nxt /\ c.fin_sent = k.fin_sent /\ c.app_closed /\ c.accepted = k.accepted
         /\ c.retries = k.retries /\ c.rcv = k.rcv /\ c.win = k.win /\ c.drained = k.drained
         /\ c.q = k.q /\ c.held = k.held /\ c.got = k.got /\ c.fin_acked = k.fin_acked
         /\ c.rto = k.rto
<1>1. c \in Conns
  BY DEF Conns
<1>2. /\ c.state = k.state /\ c.tag = k.tag /\ c.irs = k.irs /\ c.una = k.una
      /\ c.nxt = k.nxt /\ c.fin_sent = k.fin_sent /\ c.app_closed /\ c.accepted = k.accepted
      /\ c.retries = k.retries /\ c.rcv = k.rcv /\ c.win = k.win /\ c.drained = k.drained
      /\ c.q = k.q /\ c.held = k.held /\ c.got = k.got /\ c.fin_acked = k.fin_acked
      /\ c.rto = k.rto
  BY DEF Conns
<1>3. ConnShape(h, c, t)
  BY <1>2 DEF ConnShape, Released, Live
<1> QED
  BY <1>1, <1>2, <1>3

LEMMA CloseDoes ==
  ASSUME TInv, NEW h \in Host, Close(h), NEW c, c = [conn[h] EXCEPT !.app_closed = TRUE]
  PROVE  /\ conn[h].state # "None" /\ ~Released(conn[h])
         /\ UNCHANGED <<next_gen, wrote, taken, unwritten, faults>>
         /\ conn' = [conn EXCEPT ![h] = IF Live(c) THEN AfterOutput(c) ELSE NoConn]
         /\ net' = net \cup (IF Live(c) THEN Output(h, c) ELSE {})
         /\ rushed' = rushed \cup (IF conn[h].state = "SynSent" THEN {conn[h].tag} ELSE {})
<1>1. c.state = conn[h].state /\ c.tag = conn[h].tag
  BY HostFacts DEF Conns
<1> QED
  BY <1>1 DEF Close

LEMMA CloseT ==
  ASSUME TInv, NEW h \in Host, Close(h)
  PROVE  TInv'
<1> DEFINE c == [conn[h] EXCEPT !.app_closed = TRUE]
           d == AfterOutput(c)
<1>1. /\ conn[h] \in Conns /\ ConnShape(h, conn[h], next_gen) /\ next_gen \in Nat
      /\ next_gen <= MaxOpen + 1
  BY HostFacts
<1>2. /\ conn[h].state # "None" /\ ~Released(conn[h])
      /\ UNCHANGED <<next_gen, wrote, taken, unwritten, faults>>
      /\ conn' = [conn EXCEPT ![h] = IF Live(c) THEN d ELSE NoConn]
      /\ net' = net \cup (IF Live(c) THEN Output(h, c) ELSE {})
      /\ rushed' = rushed \cup (IF conn[h].state = "SynSent" THEN {conn[h].tag} ELSE {})
  BY CloseDoes
<1>3. c = [conn[h] EXCEPT !.app_closed = TRUE] /\ d = AfterOutput(c)
  OBVIOUS
<1> HIDE DEF c, d
<1>4. c \in Conns /\ ConnShape(h, c, next_gen) /\ c.state = conn[h].state
  BY <1>1, <1>2, <1>3, ClosedConn
<1>5. 1 < next_gen /\ conn[h].tag \in 1 .. next_gen - 1
  BY <1>2, Opened
<1>6. rushed' \in SUBSET (1 .. MaxOpen)
  <2>1. rushed \in SUBSET (1 .. MaxOpen) /\ next_gen \in 1 .. MaxOpen + 1
    BY TypesRest
  <2>2. conn[h].tag \in 1 .. MaxOpen
    BY <1>5, <2>1, Consts
  <2> QED
    BY <1>2, <2>1, <2>2
<1>7. taken' \in [1 .. MaxOpen -> Nat] /\ faults' \in 0 .. MaxFaults
  BY <1>2, TypesRest
<1>8. CASE Live(c)
  <2>1. /\ d \in Conns /\ ConnShape(h, d, next_gen)
        /\ \A m \in Output(h, c) : m \in Segs /\ SegShape(m, next_gen)
    BY <1>1, <1>2, <1>3, <1>4, <1>8, OutputShape
  <2>2. conn' = [conn EXCEPT ![h] = d] /\ net' = net \cup Output(h, c)
    BY <1>2, <1>8
  <2>3. \A k \in net' : k \in net \/ (k \in Segs /\ SegShape(k, next_gen))
    BY <2>1, <2>2
  <2> QED
    BY <1>2, <1>5, <1>6, <1>7, <2>1, <2>2, <2>3, TKeep
<1>9. CASE ~Live(c)
  <2>1. NoConn \in Conns /\ ConnShape(h, NoConn, next_gen)
    BY NoConnFacts DEF ConnShape, Live
  <2>2. conn' = [conn EXCEPT ![h] = NoConn] /\ net' = net
    BY <1>2, <1>9
  <2>3. \A k \in net' : k \in net \/ (k \in Segs /\ SegShape(k, next_gen))
    BY <2>2
  <2> QED
    BY <1>2, <1>5, <1>6, <1>7, <2>1, <2>2, <2>3, TKeep
<1> QED
  BY <1>8, <1>9

LEMMA LoseT ==
  ASSUME TInv, NEW m \in net, Lose(m)
  PROVE  TInv'
<1>1. /\ faults' \in 0 .. MaxFaults /\ \A k \in net' : k \in net
      /\ UNCHANGED <<conn, next_gen, wrote, taken, rushed, unwritten>>
  <2>1. faults \in 0 .. MaxFaults /\ MaxFaults \in Nat
    BY TypesRest, Consts
  <2> QED
    BY <2>1 DEF Lose
<1>2. Client \in Host /\ conn' = [conn EXCEPT ![Client] = conn[Client]]
  BY <1>1, SameConn DEF Host
<1>3. next_gen # 1 /\ next_gen \in 1 .. MaxOpen + 1
  BY TypesRest
<1>4. 1 < next_gen /\ conn[Client] \in Conns /\ ConnShape(Client, conn[Client], next_gen)
  BY <1>2, <1>3, HostFacts, Consts
<1>5. /\ taken' \in [1 .. MaxOpen -> Nat] /\ rushed' \in SUBSET (1 .. MaxOpen)
  BY <1>1, TypesRest
<1>6. \A k \in net' : k \in net \/ (k \in Segs /\ SegShape(k, next_gen))
  BY <1>1
<1> QED
  BY <1>1, <1>2, <1>4, <1>5, <1>6, TKeep

\* The connection a SYN opens.
SynConn(g, m) == NewConn(g, "SynRcvd", m.sg, m.seq + 1, m.win, FALSE)

LEMMA SynConnFacts ==
  ASSUME NEW g \in 0 .. MaxOpen, NEW m, m.sg \in 0 .. MaxOpen, m.seq + 1 \in Nat,
         m.win \in 0 .. RECV_CAP, NEW c, c = SynConn(g, m)
  PROVE  /\ c \in Conns /\ c.una <= c.nxt
         /\ c.state = "SynRcvd" /\ c.tag = g /\ c.una = 0 /\ c.nxt = 1 /\ c.irs = m.sg
         /\ c.rcv = m.seq + 1
         /\ c.win = m.win /\ c.drained = 0 /\ c.q = 0 /\ c.held = 0 /\ c.got = <<>>
         /\ ~c.fin_sent /\ ~c.fin_acked /\ ~c.app_closed /\ ~c.accepted /\ c.rto
         /\ c.retries = 0
BY Consts DEF SynConn, NewConn, Conns, State

LEMMA RecvSynDoes ==
  ASSUME TInv, NEW h \in Host, NEW m \in Inbox(h), NEW dup \in BOOLEAN, RecvSyn(h, m, dup),
         NEW c, c = SynConn(next_gen, m)
  PROVE  /\ h = Server /\ ~Live(conn[h]) /\ conn[h].state # "Closed"
         /\ next_gen <= MaxOpen /\ m.sg = 1 /\ m.seq = 0 /\ m.n = 0
         /\ "SYN" \in m.flags /\ "ACK" \notin m.flags
         /\ c \in Conns /\ c.state = "SynRcvd" /\ c.tag = next_gen /\ c.una = 0 /\ c.nxt = 1
         /\ c.irs = 1 /\ c.rcv = 1 /\ c.win = m.win /\ c.drained = 0 /\ c.q = 0 /\ c.held = 0
         /\ c.got = <<>> /\ ~c.fin_sent /\ ~c.fin_acked /\ ~c.app_closed /\ ~c.accepted
         /\ c.rto /\ c.retries = 0
         /\ ConnShape(h, c, next_gen + 1)
         /\ conn' = [conn EXCEPT ![h] = c]
         /\ faults' \in 0 .. MaxFaults
         /\ \A k \in net' : k \in net \/ k = Seg(h, c, {"SYN", "ACK"}, 0, 0, 0)
         /\ next_gen' = next_gen + 1
         /\ UNCHANGED <<wrote, taken, rushed, unwritten>>
<1>1. /\ m \in Segs /\ m.to = h /\ SegShape(m, next_gen) /\ 1 < next_gen
      /\ next_gen \in Nat
  BY HostFacts, InboxFacts
<1>2. /\ Opens(h, m) /\ ~Blocked(m) /\ conn' = [conn EXCEPT ![h] = c]
      /\ Arrive(m, dup, {Seg(h, c, {"SYN", "ACK"}, 0, 0, 0)})
      /\ next_gen' = next_gen + 1 /\ UNCHANGED <<wrote, taken, rushed, unwritten>>
  BY DEF RecvSyn, SynConn
<1>3. /\ h = Server /\ ~Live(conn[h]) /\ "SYN" \in m.flags /\ "ACK" \notin m.flags
      /\ conn[h].state # "Closed" /\ ~(next_gen > MaxOpen)
  BY <1>1, <1>2 DEF Opens, Blocked
<1>r. "RST" \notin m.flags
  <2>1. "RST" \in m.flags => m.flags = {"RST"}
    BY <1>1 DEF SegShape
  <2> QED
    BY <1>3, <2>1
<1>4. /\ "RST" \notin m.flags /\ m.sg = 1 /\ m.seq = 0 /\ m.n = 0
  BY <1>r, <1>1, <1>3 DEF SegShape
<1>5. next_gen <= MaxOpen /\ next_gen \in 0 .. MaxOpen
  <2>1. MaxOpen \in Nat
    BY Consts
  <2> QED
    BY <1>1, <1>3, <2>1
<1>6. /\ "SynRcvd" \in State \cup {"None"} /\ m.sg \in 0 .. MaxOpen /\ m.seq + 1 \in Nat
      /\ m.win \in 0 .. RECV_CAP /\ FALSE \in BOOLEAN
  BY <1>1, <1>4 DEF State, Segs
<1>7. /\ c \in Conns /\ c.una <= c.nxt
      /\ c.state = "SynRcvd" /\ c.tag = next_gen /\ c.una = 0 /\ c.nxt = 1 /\ c.irs = m.sg
      /\ c.rcv = m.seq + 1
      /\ c.win = m.win /\ c.drained = 0 /\ c.q = 0 /\ c.held = 0 /\ c.got = <<>>
      /\ ~c.fin_sent /\ ~c.fin_acked /\ ~c.app_closed /\ ~c.accepted /\ c.rto
      /\ c.retries = 0
  BY <1>5, <1>6, SynConnFacts
<1>8. ConnShape(h, c, next_gen + 1)
  BY <1>1, <1>3, <1>4, <1>7, Consts DEF ConnShape, Live, FinSentStates
<1>9. /\ faults' \in 0 .. MaxFaults
      /\ \A k \in net' : k \in net \/ k \in {Seg(h, c, {"SYN", "ACK"}, 0, 0, 0)}
  BY <1>2, ArriveFacts
<1>10. \A k \in net' : k \in net \/ k = Seg(h, c, {"SYN", "ACK"}, 0, 0, 0)
  BY <1>9
<1>11. c.irs = 1 /\ c.rcv = 1
  BY <1>4, <1>7
<1> QED
  BY <1>2, <1>3, <1>4, <1>5, <1>7, <1>8, <1>9, <1>10, <1>11

LEMMA RecvSynT ==
  ASSUME TInv, NEW h \in Host, NEW m \in Inbox(h), NEW dup \in BOOLEAN, RecvSyn(h, m, dup)
  PROVE  TInv'
<1> DEFINE c == SynConn(next_gen, m)
           k0 == Seg(h, c, {"SYN", "ACK"}, 0, 0, 0)
<1>1. /\ next_gen <= MaxOpen /\ c \in Conns /\ ConnShape(h, c, next_gen + 1)
      /\ c.state = "SynRcvd" /\ c.tag = next_gen /\ c.irs = 1
      /\ conn' = [conn EXCEPT ![h] = c] /\ faults' \in 0 .. MaxFaults
      /\ \A k \in net' : k \in net \/ k = k0
      /\ next_gen' = next_gen + 1
      /\ UNCHANGED <<wrote, taken, rushed, unwritten>>
  BY RecvSynDoes
<1>2. k0 = Seg(h, c, {"SYN", "ACK"}, 0, 0, 0)
  OBVIOUS
<1> HIDE DEF c, k0
<1>3. /\ k0 \in Segs /\ k0.to = Peer(h) /\ k0.flags = {"SYN", "ACK"} /\ k0.sg = c.tag
      /\ k0.ag = c.irs /\ k0.seq = 0 /\ k0.n = 0
  BY <1>1, <1>2, SegFacts
<1>4. next_gen \in Nat /\ 1 < next_gen /\ next_gen + 1 \in 1 .. MaxOpen + 1
  BY <1>1, HostFacts, InboxFacts, Consts
<1>5. SegShape(k0, next_gen + 1)
  <2>1. next_gen + 1 \in Nat /\ c.state # "None"
    BY <1>1, <1>4
  <2> QED
    BY <1>1, <1>3, <2>1, SentShape
<1>6. /\ wrote' \in [1 .. MaxOpen -> Nat] /\ taken' \in [1 .. MaxOpen -> Nat]
      /\ rushed' \in SUBSET (1 .. MaxOpen) /\ unwritten' \in 0 .. MaxBytes
      /\ \A g \in next_gen .. MaxOpen : wrote'[g] = 0
  BY <1>1, TypesRest
<1>7. \A g \in next_gen' .. MaxOpen : wrote'[g] = 0
  BY <1>1, <1>4, <1>6, Consts
<1>8. \A k \in net' : k \in net \/ (k \in Segs /\ SegShape(k, next_gen'))
  BY <1>1, <1>3, <1>5
<1>9. next_gen' \in 1 .. MaxOpen + 1 /\ next_gen <= next_gen' /\ next_gen' # 1
  BY <1>1, <1>4
<1>10. ConnShape(h, c, next_gen')
  BY <1>1
<1> QED
  BY <1>1, <1>6, <1>7, <1>8, <1>9, <1>10, TStep

\* Steps that leave the connection as it is.
LEMMA TSame ==
  ASSUME TInv, NEW h \in Host, 1 < next_gen,
         \A k \in net' : k \in net \/ (k \in Segs /\ SegShape(k, next_gen)),
         UNCHANGED <<conn, next_gen, wrote, taken, rushed, unwritten>>,
         faults' \in 0 .. MaxFaults
  PROVE  TInv'
<1>1. conn[h] \in Conns /\ ConnShape(h, conn[h], next_gen)
  BY HostFacts
<1>2. conn' = [conn EXCEPT ![h] = conn[h]]
  BY SameConn
<1>3. taken' \in [1 .. MaxOpen -> Nat] /\ rushed' \in SUBSET (1 .. MaxOpen)
  BY TypesRest
<1> QED
  BY <1>1, <1>2, <1>3, TKeep

LEMMA RefuseT ==
  ASSUME TInv, NEW h \in Host, NEW m \in Inbox(h), NEW dup \in BOOLEAN, Refuse(h, m, dup)
  PROVE  TInv'
<1>1. /\ Arrive(m, dup, IF "RST" \in m.flags THEN {} ELSE {Rst(h)})
      /\ UNCHANGED <<conn, next_gen, wrote, taken, rushed, unwritten>>
  BY DEF Refuse
<1>2. /\ faults' \in 0 .. MaxFaults
      /\ \A k \in net' : k \in net \/ k \in (IF "RST" \in m.flags THEN {} ELSE {Rst(h)})
  BY <1>1, ArriveFacts
<1>3. 1 < next_gen
  BY InboxFacts
<1>4. Rst(h) \in Segs /\ SegShape(Rst(h), next_gen)
  <2>1. next_gen \in Nat
    BY HostFacts
  <2> QED
    BY <1>3, <2>1, RstFacts DEF SegShape
<1>5. \A k \in net' : k \in net \/ (k \in Segs /\ SegShape(k, next_gen))
  BY <1>2, <1>4
<1> QED
  BY <1>1, <1>2, <1>3, <1>5, TSame

LEMMA RecvRepeatedSynT ==
  ASSUME TInv, NEW h \in Host, NEW m \in Inbox(h), NEW dup \in BOOLEAN, RecvRepeatedSyn(h, m, dup)
  PROVE  TInv'
<1> DEFINE k0 == Seg(h, conn[h], {"SYN", "ACK"}, 0, 0, 0)
<1>1. /\ conn[h].state = "SynRcvd" /\ Arrive(m, dup, {k0})
      /\ UNCHANGED <<conn, next_gen, wrote, taken, rushed, unwritten>>
  BY DEF RecvRepeatedSyn, RepeatsSyn
<1>2. faults' \in 0 .. MaxFaults /\ \A k \in net' : k \in net \/ k \in {k0}
  BY <1>1, ArriveFacts
<1>3. 1 < next_gen /\ conn[h] \in Conns /\ ConnShape(h, conn[h], next_gen) /\ next_gen \in Nat
  BY InboxFacts, HostFacts
<1>k. k0 = Seg(h, conn[h], {"SYN", "ACK"}, 0, 0, 0)
  OBVIOUS
<1> HIDE DEF k0
<1>4. /\ k0 \in Segs /\ k0.to = Peer(h) /\ k0.flags = {"SYN", "ACK"} /\ k0.sg = conn[h].tag
      /\ k0.ag = conn[h].irs /\ k0.seq = 0 /\ k0.n = 0
  BY <1>3, <1>k, SegFacts
<1>5. SegShape(k0, next_gen)
  BY <1>1, <1>3, <1>4, SentShape
<1>6. \A k \in net' : k \in net \/ (k \in Segs /\ SegShape(k, next_gen))
  BY <1>2, <1>4, <1>5
<1> QED
  BY <1>1, <1>2, <1>3, <1>6, TSame

\* A connection that a timer ends, and one that a reset or TimeWait ends.
Expired(c) == [c EXCEPT !.state = "Closed", !.rto = FALSE, !.retries = @ + 1]
Rested(c) == [c EXCEPT !.state = "Closed"]

\* A connection that ends: by a reset, a timer or tcp_close.
LEMMA EndedConn ==
  ASSUME NEW h \in Host, NEW t \in Nat, NEW k \in Conns, ConnShape(h, k, t), Live(k),
         NEW d \in Conns, d.state = "Closed", d.tag = k.tag, d.irs = k.irs, d.una = k.una,
         d.nxt = k.nxt, d.fin_sent = k.fin_sent, d.app_closed = k.app_closed,
         d.accepted = k.accepted
  PROVE  ConnShape(h, d, t)
BY DEF ConnShape, Live

LEMMA RecvRstDoes ==
  ASSUME TInv, NEW h \in Host, NEW m \in Inbox(h), NEW dup \in BOOLEAN, RecvRst(h, m, dup),
         NEW d, d = Rested(conn[h])
  PROVE  /\ Live(conn[h]) /\ "RST" \in m.flags /\ conn' = [conn EXCEPT ![h] = d]
         /\ d \in Conns /\ ConnShape(h, d, next_gen) /\ d.state = "Closed"
         /\ d.tag = conn[h].tag /\ d.irs = conn[h].irs /\ d.una = conn[h].una
         /\ d.nxt = conn[h].nxt /\ d.rcv = conn[h].rcv /\ d.drained = conn[h].drained
         /\ d.q = conn[h].q /\ d.got = conn[h].got /\ d.fin_sent = conn[h].fin_sent
         /\ d.fin_acked = conn[h].fin_acked /\ d.app_closed = conn[h].app_closed
         /\ d.accepted = conn[h].accepted /\ d.rto = conn[h].rto
         /\ faults' \in 0 .. MaxFaults /\ \A k \in net' : k \in net
         /\ UNCHANGED <<next_gen, wrote, taken, rushed, unwritten>>
<1>1. conn[h] \in Conns /\ ConnShape(h, conn[h], next_gen) /\ next_gen \in Nat
  BY HostFacts
<1>2. /\ Live(conn[h]) /\ "RST" \in m.flags /\ conn' = [conn EXCEPT ![h] = d]
      /\ Arrive(m, dup, {}) /\ UNCHANGED <<next_gen, wrote, taken, rushed, unwritten>>
  BY DEF RecvRst, Rested
<1>3. "Closed" \in State \cup {"None"}
  BY DEF State
<1>4. d \in Conns
  BY <1>1, <1>3 DEF Conns, Rested
<1>5. /\ d.state = "Closed"
      /\ d.tag = conn[h].tag /\ d.irs = conn[h].irs /\ d.una = conn[h].una
      /\ d.nxt = conn[h].nxt /\ d.rcv = conn[h].rcv /\ d.drained = conn[h].drained
      /\ d.q = conn[h].q /\ d.got = conn[h].got /\ d.fin_sent = conn[h].fin_sent
      /\ d.fin_acked = conn[h].fin_acked /\ d.app_closed = conn[h].app_closed
      /\ d.accepted = conn[h].accepted /\ d.rto = conn[h].rto
  BY <1>1 DEF Conns, Rested
<1>6. ConnShape(h, d, next_gen)
  BY <1>1, <1>2, <1>4, <1>5, EndedConn
<1>7. faults' \in 0 .. MaxFaults /\ \A k \in net' : k \in net
  BY <1>2, ArriveFacts
<1> QED
  BY <1>2, <1>4, <1>5, <1>6, <1>7

LEMMA RecvRstT ==
  ASSUME TInv, NEW h \in Host, NEW m \in Inbox(h), NEW dup \in BOOLEAN, RecvRst(h, m, dup)
  PROVE  TInv'
<1> DEFINE d == Rested(conn[h])
<1>1. /\ conn' = [conn EXCEPT ![h] = d] /\ d \in Conns /\ ConnShape(h, d, next_gen)
      /\ faults' \in 0 .. MaxFaults /\ \A k \in net' : k \in net
      /\ UNCHANGED <<next_gen, wrote, taken, rushed, unwritten>>
  BY RecvRstDoes
<1> HIDE DEF d
<1>2. 1 < next_gen
  BY InboxFacts
<1>3. taken' \in [1 .. MaxOpen -> Nat] /\ rushed' \in SUBSET (1 .. MaxOpen)
  BY <1>1, TypesRest
<1>4. \A k \in net' : k \in net \/ (k \in Segs /\ SegShape(k, next_gen))
  BY <1>1
<1> QED
  BY <1>1, <1>2, <1>3, <1>4, TKeep

LEMMA TimeWaitEndsDoes ==
  ASSUME TInv, NEW h \in Host, TimeWaitEnds(h), NEW d, d = Rested(conn[h])
  PROVE  /\ conn[h].state = "TimeWait" /\ conn' = [conn EXCEPT ![h] = Reaped(d)]
         /\ faults' \in 0 .. MaxFaults
         /\ UNCHANGED <<net, next_gen, wrote, taken, rushed, unwritten>>
         /\ d \in Conns /\ ConnShape(h, d, next_gen) /\ d.state = "Closed"
         /\ d.tag = conn[h].tag /\ d.irs = conn[h].irs /\ d.rcv = conn[h].rcv
         /\ d.drained = conn[h].drained /\ d.got = conn[h].got
<1>1. conn[h] \in Conns /\ ConnShape(h, conn[h], next_gen) /\ next_gen \in Nat
  BY HostFacts
<1>2. /\ conn[h].state = "TimeWait" /\ Expires
      /\ UNCHANGED <<net, next_gen, wrote, taken, rushed, unwritten>>
  BY DEF TimeWaitEnds
<1>3. conn' = [conn EXCEPT ![h] = Reaped(d)]
  BY Zenon DEF TimeWaitEnds, Rested
<1>4. faults' \in 0 .. MaxFaults
  BY <1>2, ExpiresFacts
<1>5. "Closed" \in State \cup {"None"}
  BY DEF State
<1>6. d \in Conns
  BY <1>1, <1>5 DEF Conns, Rested
<1>7. /\ d.state = "Closed" /\ d.tag = conn[h].tag /\ d.irs = conn[h].irs
      /\ d.una = conn[h].una /\ d.nxt = conn[h].nxt /\ d.fin_sent = conn[h].fin_sent
      /\ d.app_closed = conn[h].app_closed /\ d.accepted = conn[h].accepted
      /\ d.rcv = conn[h].rcv /\ d.drained = conn[h].drained /\ d.got = conn[h].got
  BY <1>1 DEF Conns, Rested
<1>8. ConnShape(h, d, next_gen)
  BY <1>1, <1>2, <1>6, <1>7, EndedConn DEF Live
<1> QED
  BY <1>2, <1>3, <1>4, <1>6, <1>7, <1>8

LEMMA TimeWaitEndsT ==
  ASSUME TInv, NEW h \in Host, TimeWaitEnds(h)
  PROVE  TInv'
<1> DEFINE d == Rested(conn[h])
<1>1. /\ conn[h].state = "TimeWait" /\ conn' = [conn EXCEPT ![h] = Reaped(d)]
      /\ faults' \in 0 .. MaxFaults
      /\ UNCHANGED <<net, next_gen, wrote, taken, rushed, unwritten>>
      /\ d \in Conns /\ ConnShape(h, d, next_gen)
  BY TimeWaitEndsDoes
<1> HIDE DEF d
<1>2. 1 < next_gen /\ next_gen \in Nat
  BY <1>1, Opened, HostFacts
<1>3. Reaped(d) \in Conns /\ ConnShape(h, Reaped(d), next_gen)
  BY <1>1, <1>2, ReapedShape
<1>4. taken' \in [1 .. MaxOpen -> Nat] /\ rushed' \in SUBSET (1 .. MaxOpen)
  BY <1>1, TypesRest
<1>5. \A k \in net' : k \in net \/ (k \in Segs /\ SegShape(k, next_gen))
  BY <1>1
<1> QED
  BY <1>1, <1>2, <1>3, <1>4, <1>5, TKeep

LEMMA GiveUpDoes ==
  ASSUME TInv, NEW h \in Host, GiveUp(h), NEW d, d = Expired(conn[h])
  PROVE  /\ Live(conn[h]) /\ conn' = [conn EXCEPT ![h] = Reaped(d)]
         /\ faults' \in 0 .. MaxFaults
         /\ UNCHANGED <<net, next_gen, wrote, taken, rushed, unwritten>>
         /\ d \in Conns /\ ConnShape(h, d, next_gen) /\ d.state = "Closed"
         /\ d.tag = conn[h].tag /\ d.irs = conn[h].irs /\ d.rcv = conn[h].rcv
         /\ d.drained = conn[h].drained /\ d.got = conn[h].got
<1>1. conn[h] \in Conns /\ ConnShape(h, conn[h], next_gen) /\ next_gen \in Nat
  BY HostFacts
<1>2. /\ Live(conn[h]) /\ Expires
      /\ UNCHANGED <<net, next_gen, wrote, taken, rushed, unwritten>>
  BY DEF GiveUp
<1>3. conn' = [conn EXCEPT ![h] = Reaped(d)]
  BY Zenon DEF GiveUp, Expired
<1>4. faults' \in 0 .. MaxFaults
  BY <1>2, ExpiresFacts
<1>5. "Closed" \in State \cup {"None"}
  BY DEF State
<1>6. d \in Conns
  <2>1. conn[h].retries + 1 \in 0 .. MAX_RETRIES + 1
    <3>1. conn[h].retries <= MAX_RETRIES
      BY <1>1, <1>2 DEF ConnShape
    <3>2. conn[h].retries \in Nat /\ MAX_RETRIES \in Nat
      BY <1>1, NatFields, Consts
    <3> QED
      BY <3>1, <3>2
  <2> QED
    BY <1>1, <1>5, <2>1 DEF Conns, Expired
<1>7. /\ d.state = "Closed" /\ d.tag = conn[h].tag /\ d.irs = conn[h].irs
      /\ d.una = conn[h].una /\ d.nxt = conn[h].nxt /\ d.fin_sent = conn[h].fin_sent
      /\ d.app_closed = conn[h].app_closed /\ d.accepted = conn[h].accepted
      /\ d.rcv = conn[h].rcv /\ d.drained = conn[h].drained /\ d.got = conn[h].got
  BY <1>1 DEF Conns, Expired
<1>8. ConnShape(h, d, next_gen)
  BY <1>1, <1>2, <1>6, <1>7, EndedConn
<1> QED
  BY <1>2, <1>3, <1>4, <1>6, <1>7, <1>8

LEMMA GiveUpT ==
  ASSUME TInv, NEW h \in Host, GiveUp(h)
  PROVE  TInv'
<1> DEFINE d == Expired(conn[h])
<1>1. /\ Live(conn[h]) /\ conn' = [conn EXCEPT ![h] = Reaped(d)]
      /\ faults' \in 0 .. MaxFaults
      /\ UNCHANGED <<net, next_gen, wrote, taken, rushed, unwritten>>
      /\ d \in Conns /\ ConnShape(h, d, next_gen)
  BY GiveUpDoes
<1> HIDE DEF d
<1>2. 1 < next_gen /\ next_gen \in Nat
  BY <1>1, Opened, HostFacts DEF Live
<1>3. Reaped(d) \in Conns /\ ConnShape(h, Reaped(d), next_gen)
  BY <1>1, <1>2, ReapedShape
<1>4. taken' \in [1 .. MaxOpen -> Nat] /\ rushed' \in SUBSET (1 .. MaxOpen)
  BY <1>1, TypesRest
<1>5. \A k \in net' : k \in net \/ (k \in Segs /\ SegShape(k, next_gen))
  BY <1>1
<1> QED
  BY <1>1, <1>2, <1>3, <1>4, <1>5, TKeep

LEMMA RetransmitDoes ==
  ASSUME TInv, NEW h \in Host, Retransmit(h), NEW d, d = [conn[h] EXCEPT !.retries = @ + 1]
  PROVE  /\ Live(conn[h]) /\ conn' = [conn EXCEPT ![h] = d]
         /\ net' = net \cup Resent(h, conn[h])
         /\ faults' \in 0 .. MaxFaults
         /\ UNCHANGED <<next_gen, wrote, taken, rushed, unwritten>>
         /\ d \in Conns /\ ConnShape(h, d, next_gen)
         /\ d.state = conn[h].state /\ d.tag = conn[h].tag /\ d.irs = conn[h].irs
         /\ d.una = conn[h].una /\ d.nxt = conn[h].nxt /\ d.rcv = conn[h].rcv
         /\ d.win = conn[h].win /\ d.drained = conn[h].drained /\ d.q = conn[h].q
         /\ d.held = conn[h].held
         /\ d.got = conn[h].got /\ d.fin_sent = conn[h].fin_sent
         /\ d.fin_acked = conn[h].fin_acked /\ d.app_closed = conn[h].app_closed
         /\ d.accepted = conn[h].accepted /\ d.rto = conn[h].rto
<1>1. conn[h] \in Conns /\ ConnShape(h, conn[h], next_gen) /\ next_gen \in Nat
  BY HostFacts
<1>2. /\ Live(conn[h]) /\ Expires /\ net' = net \cup Resent(h, conn[h])
      /\ conn[h].retries < MAX_RETRIES /\ conn' = [conn EXCEPT ![h] = d]
      /\ UNCHANGED <<next_gen, wrote, taken, rushed, unwritten>>
  BY DEF Retransmit
<1>3. faults' \in 0 .. MaxFaults
  BY <1>2, ExpiresFacts
<1>4. /\ conn[h].retries + 1 \in 0 .. MAX_RETRIES
      /\ conn[h].retries + 1 \in 0 .. MAX_RETRIES + 1
  <2>1. conn[h].retries \in Nat /\ MAX_RETRIES \in Nat
    BY <1>1, NatFields, Consts
  <2> QED
    BY <1>2, <2>1
<1>5. d \in Conns
  BY <1>1, <1>4 DEF Conns
<1>6. /\ d.state = conn[h].state /\ d.tag = conn[h].tag /\ d.irs = conn[h].irs
      /\ d.una = conn[h].una /\ d.nxt = conn[h].nxt /\ d.rcv = conn[h].rcv
      /\ d.win = conn[h].win /\ d.drained = conn[h].drained /\ d.q = conn[h].q
      /\ d.held = conn[h].held
      /\ d.got = conn[h].got /\ d.fin_sent = conn[h].fin_sent
      /\ d.fin_acked = conn[h].fin_acked /\ d.app_closed = conn[h].app_closed
      /\ d.accepted = conn[h].accepted /\ d.rto = conn[h].rto
      /\ d.retries = conn[h].retries + 1
  BY <1>1 DEF Conns
<1>7. ConnShape(h, d, next_gen)
  BY <1>1, <1>2, <1>4, <1>5, <1>6, ChangedShape DEF Live
<1> QED
  BY <1>2, <1>3, <1>5, <1>6, <1>7

LEMMA RetransmitT ==
  ASSUME TInv, NEW h \in Host, Retransmit(h)
  PROVE  TInv'
<1> DEFINE d == [conn[h] EXCEPT !.retries = @ + 1]
<1>1. /\ Live(conn[h]) /\ conn' = [conn EXCEPT ![h] = d]
      /\ net' = net \cup Resent(h, conn[h])
      /\ faults' \in 0 .. MaxFaults
      /\ UNCHANGED <<next_gen, wrote, taken, rushed, unwritten>>
      /\ d \in Conns /\ ConnShape(h, d, next_gen)
  BY RetransmitDoes
<1> HIDE DEF d
<1>2. /\ 1 < next_gen /\ next_gen \in Nat /\ conn[h].state # "None"
      /\ conn[h] \in Conns /\ ConnShape(h, conn[h], next_gen)
  BY <1>1, Opened, HostFacts DEF Live
<1>3. ASSUME NEW k \in Resent(h, conn[h]) PROVE k \in Segs /\ SegShape(k, next_gen)
  <2>1. /\ k \in Segs /\ k.to = Peer(h) /\ k.sg = conn[h].tag /\ k.ag = conn[h].irs
        /\ \/ conn[h].state = "SynSent" /\ k.flags = {"SYN"} /\ k.n = 0 /\ k.seq = 0
           \/ k.flags = {"SYN", "ACK"} /\ k.n = 0 /\ k.seq = 0
           \/ k.flags = {"ACK"}
           \/ k.flags = {"FIN", "ACK"} /\ k.n = 0
    BY <1>2, ResentSegs
  <2>2. conn[h].state = "SynSent" => h = Client
    BY <1>2 DEF ConnShape
  <2> QED
    BY <1>2, <2>1, <2>2, SentShape
<1>4. taken' \in [1 .. MaxOpen -> Nat] /\ rushed' \in SUBSET (1 .. MaxOpen)
  BY <1>1, TypesRest
<1>5. \A k \in net' : k \in net \/ (k \in Segs /\ SegShape(k, next_gen))
  BY <1>1, <1>3
<1> QED
  BY <1>1, <1>2, <1>4, <1>5, TKeep

LEMMA NextTInv == TInv /\ [Next]_vars => TInv'
<1> SUFFICES ASSUME TInv, [Next]_vars PROVE TInv'
  OBVIOUS
<1>1. CASE \E h \in Host : \/ Connect(h) \/ Accept(h) \/ Read(h)
                           \/ Write(h) \/ Close(h)
                           \/ TimeWaitEnds(h) \/ GiveUp(h) \/ Retransmit(h)
  BY <1>1, ConnectT, AcceptT, ReadT, WriteT, CloseT, TimeWaitEndsT, GiveUpT, RetransmitT
<1>2. CASE \E h \in Host : \E m \in Inbox(h), dup \in BOOLEAN :
               \/ RecvSyn(h, m, dup) \/ Refuse(h, m, dup)
               \/ RecvRst(h, m, dup) \/ RecvRepeatedSyn(h, m, dup)
               \/ RecvInSynSent(h, m, dup) \/ RecvSegment(h, m, dup)
  BY <1>2, RecvSynT, RefuseT, RecvRstT, RecvRepeatedSynT, RecvInSynSentT, RecvSegmentT
<1>3. CASE \E m \in net : Lose(m)
  BY <1>3, LoseT
<1>4. CASE UNCHANGED vars
  BY <1>4 DEF vars, TInv, TypeOK, Shape
<1> QED
  BY <1>1, <1>2, <1>3, <1>4 DEF Next

\* recvq and sendq stay within their capacities and the retries within their
\* limit, for any sizes.
THEOREM TypeCorrect == Spec => []TypeOK
<1>1. TInv => TypeOK
  BY DEF TInv
<1> QED
  BY <1>1, InitTInv, NextTInv, PTL DEF Spec

(***************************************************************************)
(* The timer is armed                                                      *)
(***************************************************************************)

\* What tcp_output needs of a connection to leave its timer right, and what
\* the timer is for.
Covered(c) ==
  /\ c.una # c.nxt => c.rto
  /\ c.fin_sent => c.q <= c.nxt - c.una
  /\ c.state = "SynRcvd" => ~c.accepted /\ c.q = 0 /\ c.una = 0 /\ c.nxt = 1
Timed(c) == Live(c) => Covered(c) /\ (c.q > 0 => c.rto)

LEMMA OutputTimed ==
  ASSUME NEW c \in Conns, c.una <= c.nxt, Covered(c), NEW d, d = AfterOutput(c)
  PROVE  Timed(d)
<1>1. /\ c.una \in Nat /\ c.nxt \in Nat /\ c.q \in Nat /\ InFlight(c) = c.nxt - c.una
      /\ SendLimit(c) \in Nat /\ SendLimit(c) >= InFlight(c)
      /\ c.q > 0 => SendLimit(c) > 0
  BY ConnFields, LimitFacts, Consts
<1>2. /\ d.una = c.una /\ d.q = c.q /\ d.accepted = c.accepted
      /\ d.nxt = IF MaySend(c)
                 THEN c.una + SendLimit(c) + (IF SendsFin(c) THEN 1 ELSE 0) ELSE c.nxt
      /\ d.fin_sent = (c.fin_sent \/ SendsFin(c))
      /\ d.rto = (c.rto \/ Pieces(c) # {} \/ SendsFin(c))
      /\ d.state = IF ~SendsFin(c) THEN c.state
                   ELSE IF c.state = "CloseWait" THEN "LastAck" ELSE "FinWait1"
  BY AfterOutputFacts
<1>b. /\ d.fin_sent <=> c.fin_sent \/ SendsFin(c)
      /\ d.rto <=> c.rto \/ Pieces(c) # {} \/ SendsFin(c)
  BY <1>2
<1>3. CASE ~MaySend(c)
  <2>1. ~SendsFin(c)
    BY <1>3 DEF SendsFin
  <2>2. c.fin_sent \/ c.state = "SynRcvd"
    BY <1>3 DEF MaySend
  <2>3. /\ d.nxt = c.nxt /\ d.state = c.state
        /\ d.fin_sent <=> c.fin_sent
        /\ c.rto => d.rto
    BY <1>2, <1>b, <1>3, <2>1
  <2>4. c.q > 0 => c.una # c.nxt
    BY <1>1, <2>2 DEF Covered
  <2> QED
    BY <1>2, <2>3, <2>4 DEF Covered, Timed
<1>4. CASE MaySend(c) /\ SendsFin(c)
  <2>1. d.rto /\ d.nxt = c.una + SendLimit(c) + 1 /\ d.state # "SynRcvd"
    BY <1>2, <1>4
  <2>2. SendLimit(c) >= c.q
    BY <1>4 DEF SendsFin
  <2>3. d.q <= d.nxt - d.una
    BY <1>1, <1>2, <2>1, <2>2
  <2> QED
    BY <2>1, <2>3 DEF Covered, Timed
<1>5. CASE MaySend(c) /\ ~SendsFin(c)
  <2>1. /\ d.nxt = c.una + SendLimit(c) /\ d.state = c.state
        /\ ~c.fin_sent /\ ~d.fin_sent /\ c.state # "SynRcvd"
        /\ d.rto <=> c.rto \/ Pieces(c) # {}
    <3>1. ~c.fin_sent /\ c.state # "SynRcvd"
      BY <1>5 DEF MaySend
    <3>2. /\ d.rto <=> c.rto \/ Pieces(c) # {}
          /\ d.fin_sent <=> c.fin_sent
      BY <1>b, <1>5
    <3>3. d.nxt = c.una + SendLimit(c) /\ d.state = c.state
      BY <1>1, <1>2, <1>5
    <3> QED
      BY <3>1, <3>2, <3>3
  <2>2. SendLimit(c) > InFlight(c) => Pieces(c) # {}
    <3> SUFFICES ASSUME SendLimit(c) > InFlight(c) PROVE InFlight(c) \in Pieces(c)
      OBVIOUS
    <3>1. InFlight(c) \in Nat /\ InFlight(c) \in InFlight(c) .. SendLimit(c) - 1
      BY <1>1
    <3>2. (InFlight(c) - InFlight(c)) % MSS = 0
      BY <3>1, Consts
    <3> QED
      BY <1>5, <3>1, <3>2 DEF Pieces
  <2>3. ~d.rto => c.una = c.nxt /\ SendLimit(c) = 0 /\ c.q = 0
    <3>1. ~d.rto => ~c.rto /\ ~(SendLimit(c) > InFlight(c))
      BY <2>1, <2>2
    <3>2. ~d.rto => c.una = c.nxt
      BY <3>1 DEF Covered
    <3> QED
      BY <1>1, <3>1, <3>2
  <2>4. /\ d.q > 0 => d.rto
        /\ d.una # d.nxt => d.rto
    BY <1>1, <1>2, <2>1, <2>3
  <2>5. ~d.fin_sent /\ d.state # "SynRcvd"
    BY <2>1
  <2> QED
    BY <2>4, <2>5 DEF Covered, Timed
<1> QED
  BY <1>3, <1>4, <1>5

\* Acknowledgements, data and the peer's FIN keep a connection covered.
LEMMA AbsorbedCovered ==
  ASSUME NEW h \in Host, NEW t \in Nat, NEW c \in Conns, ConnShape(h, c, t), Live(c), Covered(c),
         NEW m \in Segs, "FIN" \in m.flags => m.n = 0, NEW b, b = Absorbed(c, m)
  PROVE  Covered(b)
<1> DEFINE a == TakeAck(TakeWindow(c, m), m)
           w == TakeWindow(c, m)
<1>1. c.una <= c.nxt /\ c.una \in Nat /\ c.nxt \in Nat /\ c.q \in Nat
  BY ConnFields, Consts DEF ConnShape
<1>2. m.ack \in Nat
  BY DEF Segs
<1>3. /\ a.nxt = c.nxt /\ a.fin_sent = c.fin_sent /\ a.accepted = c.accepted
      /\ ~NewAck(c, m) => /\ a.una = c.una /\ a.q = c.q /\ a.rto = c.rto /\ a.state = w.state
      /\ NewAck(c, m) =>
           /\ a.una = m.ack /\ a.q = c.q - Drained(c, m) /\ a.rto = (m.ack # c.nxt)
           /\ a.state = CASE AcksFin(c, m) /\ w.state = "FinWait1" -> "FinWait2"
                          [] AcksFin(c, m) /\ w.state = "Closing" -> "TimeWait"
                          [] AcksFin(c, m) /\ w.state = "LastAck" -> "Closed"
                          [] OTHER -> w.state
  BY <1>1, AckFacts
<1>4. /\ b.una = a.una /\ b.nxt = a.nxt /\ b.q = a.q /\ b.fin_sent = a.fin_sent
      /\ b.accepted = a.accepted /\ b.rto = a.rto
      /\ b.state = a.state \/ b.state = AfterFin(a.state)
  <2>1. a = TakeAck(TakeWindow(c, m), m)
    OBVIOUS
  <2> HIDE DEF a
  <2> QED
    BY <1>1, <2>1, AbsorbedFacts
<1>5. w.state = "SynRcvd" => c.state = "SynRcvd" /\ ~NewAck(c, m)
  <2>1. w.state = IF /\ c.state = "SynRcvd" /\ "ACK" \in m.flags
                     /\ m.ag = c.tag /\ m.ack = c.nxt
                  THEN "Established" ELSE c.state
    BY DEF TakeWindow, Conns
  <2>2. c.state = "SynRcvd" /\ NewAck(c, m) => w.state = "Established"
    <3>1. c.state = "SynRcvd" => c.una = 0 /\ c.nxt = 1
      BY DEF Covered
    <3>2. NewAck(c, m) => "ACK" \in m.flags /\ m.ag = c.tag /\ c.una < m.ack /\ m.ack <= c.nxt
      BY DEF NewAck
    <3>3. c.state = "SynRcvd" /\ NewAck(c, m) => m.ack = c.nxt
      BY <1>2, <3>1, <3>2
    <3> QED
      BY <2>1, <3>2, <3>3
  <2> QED
    BY <2>1, <2>2
<1> HIDE DEF a, w
<1>6. b.state = "SynRcvd" => a.state = "SynRcvd" /\ w.state = "SynRcvd"
  BY <1>3, <1>4 DEF AfterFin
<1>7. CASE ~NewAck(c, m)
  BY <1>3, <1>4, <1>5, <1>6, <1>7 DEF Covered
<1>8. CASE NewAck(c, m)
  <2>1. c.una < m.ack /\ m.ack <= c.nxt
    BY <1>8 DEF NewAck
  <2>2. c.fin_sent => c.q <= c.nxt - c.una
    BY DEF Covered
  <2>3. c.fin_sent => c.q - Drained(c, m) <= c.nxt - m.ack
    BY <1>1, <1>2, <2>1, <2>2 DEF Drained, Least
  <2>4. b.state # "SynRcvd"
    BY <1>5, <1>6, <1>8
  <2>5. b.una # b.nxt => b.rto
    BY <1>3, <1>4, <1>8
  <2>6. b.fin_sent => b.q <= b.nxt - b.una
    BY <1>3, <1>4, <1>8, <2>3
  <2> QED
    BY <2>4, <2>5, <2>6 DEF Covered
<1> QED
  BY <1>7, <1>8

AllTimed == \A h \in Host : Timed(conn[h])

LEMMA TimedStep ==
  ASSUME TInv, AllTimed, NEW h \in Host, NEW d, conn' = [conn EXCEPT ![h] = d], Timed(d)
  PROVE  AllTimed'
<1> SUFFICES ASSUME NEW o \in Host PROVE Timed(conn'[o])
  BY DEF AllTimed
<1>1. conn'[o] = IF o = h THEN d ELSE conn[o]
  BY DEF TInv, TypeOK
<1> QED
  BY <1>1 DEF AllTimed

LEMMA ReapedTimed ==
  ASSUME NEW d, Timed(d)
  PROVE  Timed(Reaped(d))
BY NoConnFacts DEF Reaped, Timed, Live

LEMMA NewTimed ==
  ASSUME NEW d, d.una = 0, d.nxt = 1, d.q = 0, d.rto, ~d.fin_sent,
         d.state = "SynRcvd" => ~d.accepted
  PROVE  Timed(d)
BY DEF Timed, Covered

LEMMA WriteDoes ==
  ASSUME TInv, NEW h \in Host, Write(h)
  PROVE  \E n \in Nat \ {0}, c \in Conns :
           /\ ~Released(conn[h]) /\ conn[h].state \notin {"None", "Closed", "TimeWait"}
           /\ c = [conn[h] EXCEPT !.q = @ + n]
           /\ c.state = conn[h].state /\ c.tag = conn[h].tag /\ c.irs = conn[h].irs
           /\ c.accepted = conn[h].accepted /\ c.una = conn[h].una /\ c.nxt = conn[h].nxt
           /\ c.app_closed = conn[h].app_closed /\ c.fin_sent = conn[h].fin_sent
           /\ c.fin_acked = conn[h].fin_acked /\ c.drained = conn[h].drained
           /\ c.rcv = conn[h].rcv /\ c.got = conn[h].got /\ c.rto = conn[h].rto
           /\ c.win = conn[h].win /\ c.q = conn[h].q + n
           /\ conn' = [conn EXCEPT ![h] = AfterOutput(c)]
           /\ net' = net \cup Output(h, c)
           /\ wrote' = [wrote EXCEPT ![conn[h].tag] = @ + n]
           /\ UNCHANGED <<next_gen, taken, rushed, faults>>
<1>1. PICK n \in 1 .. Least(SEND_CAP - conn[h].q, unwritten) :
        /\ conn' = [conn EXCEPT ![h] = AfterOutput([conn[h] EXCEPT !.q = @ + n])]
        /\ net' = net \cup Output(h, [conn[h] EXCEPT !.q = @ + n])
        /\ wrote' = [wrote EXCEPT ![conn[h].tag] = @ + n]
  <2>1. conn[h] \in Conns
    BY HostFacts
  <2>2. \A n : [conn[h] EXCEPT !.q = @ + n].tag = conn[h].tag
    BY <2>1 DEF Conns
  <2> QED
    BY <2>2 DEF Write
<1> DEFINE c == [conn[h] EXCEPT !.q = @ + n]
<1>2. /\ conn[h] \in Conns /\ unwritten \in 0 .. MaxBytes /\ conn[h].q \in 0 .. SEND_CAP
      /\ MaxBytes \in Nat /\ SEND_CAP \in Nat
  BY HostFacts, TypesRest, ConnFields, Consts
<1>3. n \in Nat \ {0} /\ conn[h].q + n \in 0 .. SEND_CAP
  BY <1>2 DEF Least
<1>4. c \in Conns
  BY <1>2, <1>3 DEF Conns
<1>5. /\ c.state = conn[h].state /\ c.tag = conn[h].tag /\ c.irs = conn[h].irs
      /\ c.accepted = conn[h].accepted /\ c.una = conn[h].una /\ c.nxt = conn[h].nxt
      /\ c.app_closed = conn[h].app_closed /\ c.fin_sent = conn[h].fin_sent
      /\ c.fin_acked = conn[h].fin_acked /\ c.drained = conn[h].drained
      /\ c.rcv = conn[h].rcv /\ c.got = conn[h].got /\ c.rto = conn[h].rto
      /\ c.win = conn[h].win /\ c.q = conn[h].q + n
  BY <1>2 DEF Conns
<1>6. /\ c = [conn[h] EXCEPT !.q = @ + n]
      /\ conn' = [conn EXCEPT ![h] = AfterOutput(c)] /\ net' = net \cup Output(h, c)
  BY <1>1
<1>7. /\ ~Released(conn[h]) /\ conn[h].state \notin {"None", "Closed", "TimeWait"}
      /\ UNCHANGED <<next_gen, taken, rushed, faults>>
  BY DEF Write
<1> HIDE DEF c
<1> QED
  BY <1>1, <1>3, <1>4, <1>5, <1>6, <1>7

LEMMA InitTimed == Init => AllTimed
BY NoConnFacts DEF Init, AllTimed, Timed, Live

LEMMA UserTimed ==
  ASSUME TInv, AllTimed, NEW h \in Host,
         Connect(h) \/ Accept(h) \/ Read(h) \/ Write(h) \/ Close(h)
  PROVE  AllTimed'
<1>0. /\ conn[h] \in Conns /\ ConnShape(h, conn[h], next_gen) /\ Timed(conn[h])
      /\ conn[h].una <= conn[h].nxt
  BY HostFacts DEF AllTimed
<1>1. CASE Connect(h)
  <2> DEFINE c == NewConn(next_gen, "SynSent", 0, 0, 0, TRUE)
  <2>1. conn' = [conn EXCEPT ![h] = c]
    BY <1>1 DEF Connect
  <2>2. c.una = 0 /\ c.nxt = 1 /\ c.q = 0 /\ c.rto /\ ~c.fin_sent /\ c.state # "SynRcvd"
    BY DEF NewConn
  <2> HIDE DEF c
  <2> QED
    BY <2>1, <2>2, NewTimed, TimedStep
<1>2. CASE Accept(h)
  <2> DEFINE c == [conn[h] EXCEPT !.accepted = TRUE]
  <2>1. conn' = [conn EXCEPT ![h] = c] /\ conn[h].state # "SynRcvd"
    BY <1>2 DEF Accept
  <2>2. /\ c.una = conn[h].una /\ c.nxt = conn[h].nxt /\ c.q = conn[h].q /\ c.rto = conn[h].rto
        /\ c.fin_sent = conn[h].fin_sent /\ c.state = conn[h].state
    BY <1>0 DEF Conns
  <2> HIDE DEF c
  <2>3. Timed(c)
    BY <1>0, <2>1, <2>2 DEF Timed, Covered, Live
  <2> QED
    BY <2>1, <2>3, TimedStep
<1>3. CASE Read(h)
  <2>0. PICK n \in 1 .. conn[h].held : conn' = [conn EXCEPT ![h].held = @ - n]
    BY <1>3 DEF Read
  <2> DEFINE c == [conn[h] EXCEPT !.held = @ - n]
  <2>1. conn' = [conn EXCEPT ![h] = c]
    BY <2>0
  <2>2. /\ c.una = conn[h].una /\ c.nxt = conn[h].nxt /\ c.q = conn[h].q /\ c.rto = conn[h].rto
        /\ c.fin_sent = conn[h].fin_sent /\ c.state = conn[h].state
        /\ c.accepted = conn[h].accepted
    BY <1>0 DEF Conns
  <2> HIDE DEF c
  <2>3. Timed(c)
    BY <1>0, <2>2 DEF Timed, Covered, Live
  <2> QED
    BY <2>1, <2>3, TimedStep
<1>4. CASE Write(h)
  <2>1. PICK n \in Nat \ {0}, c \in Conns :
           /\ ~Released(conn[h]) /\ conn[h].state \notin {"None", "Closed", "TimeWait"}
           /\ c.state = conn[h].state
           /\ c.accepted = conn[h].accepted /\ c.una = conn[h].una /\ c.nxt = conn[h].nxt
           /\ c.fin_sent = conn[h].fin_sent /\ c.rto = conn[h].rto
           /\ conn' = [conn EXCEPT ![h] = AfterOutput(c)]
    BY <1>4, WriteDoes
  <2>2. Covered(conn[h])
    BY <1>0, <2>1 DEF Timed, Live
  <2>3. ~c.fin_sent
    BY <1>0, <2>1 DEF ConnShape, Released
  <2>4. c.state # "SynRcvd"
    BY <2>1, <2>2 DEF Covered, Released
  <2>5. Covered(c)
    BY <2>1, <2>2, <2>3, <2>4 DEF Covered
  <2>6. Timed(AfterOutput(c))
    BY <1>0, <2>1, <2>5, OutputTimed
  <2> QED
    BY <2>1, <2>6, TimedStep
<1>5. CASE Close(h)
  <2> DEFINE c == [conn[h] EXCEPT !.app_closed = TRUE]
  <2>1. /\ conn[h].state # "None" /\ ~Released(conn[h])
        /\ conn' = [conn EXCEPT ![h] = IF Live(c) THEN AfterOutput(c) ELSE NoConn]
    BY <1>5, CloseDoes
  <2>2. /\ c \in Conns /\ c.una = conn[h].una /\ c.nxt = conn[h].nxt /\ c.q = conn[h].q
        /\ c.rto = conn[h].rto
        /\ c.fin_sent = conn[h].fin_sent /\ c.state = conn[h].state
        /\ c.accepted = conn[h].accepted
    BY <1>0 DEF Conns
  <2> HIDE DEF c
  <2>3. CASE Live(c)
    <3>1. Covered(c)
      BY <1>0, <2>2, <2>3 DEF Timed, Covered, Live
    <3>2. Timed(AfterOutput(c))
      BY <1>0, <2>2, <3>1, OutputTimed
    <3> QED
      BY <2>1, <2>3, <3>2, TimedStep
  <2>4. CASE ~Live(c)
    <3>1. Timed(NoConn)
      BY NoConnFacts DEF Timed, Live
    <3> QED
      BY <2>1, <2>4, <3>1, TimedStep
  <2> QED
    BY <2>3, <2>4
<1> QED
  BY <1>1, <1>2, <1>3, <1>4, <1>5

LEMMA InputTimed ==
  ASSUME TInv, AllTimed, NEW h \in Host, NEW m \in Inbox(h), NEW dup \in BOOLEAN,
         \/ RecvSyn(h, m, dup) \/ Refuse(h, m, dup)
         \/ RecvRst(h, m, dup) \/ RecvRepeatedSyn(h, m, dup)
         \/ RecvInSynSent(h, m, dup) \/ RecvSegment(h, m, dup)
  PROVE  AllTimed'
<1>0. /\ conn[h] \in Conns /\ ConnShape(h, conn[h], next_gen) /\ Timed(conn[h])
      /\ conn[h].una <= conn[h].nxt /\ next_gen \in Nat /\ m \in Segs /\ SegShape(m, next_gen)
  BY HostFacts, InboxFacts DEF AllTimed
<1>1. CASE RecvSyn(h, m, dup)
  <2> DEFINE c == SynConn(next_gen, m)
  <2>1. /\ conn' = [conn EXCEPT ![h] = c] /\ c.una = 0 /\ c.nxt = 1 /\ c.q = 0 /\ c.rto
        /\ ~c.fin_sent /\ ~c.accepted
    BY <1>1, RecvSynDoes
  <2> HIDE DEF c
  <2> QED
    BY <2>1, NewTimed, TimedStep
<1>2. CASE Refuse(h, m, dup) \/ RecvRepeatedSyn(h, m, dup)
  BY <1>2 DEF Refuse, RecvRepeatedSyn, AllTimed
<1>3. CASE RecvRst(h, m, dup)
  <2> DEFINE c == Rested(conn[h])
  <2>1. conn' = [conn EXCEPT ![h] = c] /\ c.state = "Closed"
    BY <1>3, RecvRstDoes
  <2> HIDE DEF c
  <2>2. Timed(c)
    BY <2>1 DEF Timed, Live
  <2> QED
    BY <2>1, <2>2, TimedStep
<1>4. CASE RecvInSynSent(h, m, dup)
  <2> DEFINE c == Answered(conn[h], m)
  <2>1. \/ conn' = conn
        \/ /\ {"SYN", "ACK"} \subseteq m.flags /\ "RST" \notin m.flags
           /\ conn[h].state = "SynSent"
           /\ m.ag = conn[h].tag /\ m.ack = conn[h].nxt
           /\ conn' = [conn EXCEPT ![h] = AfterOutput(c)]
    BY <1>4, RecvInSynSentDoes
  <2>2. CASE conn' = conn
    BY <2>2 DEF AllTimed
  <2>3. CASE /\ {"SYN", "ACK"} \subseteq m.flags /\ "RST" \notin m.flags
             /\ conn[h].state = "SynSent"
             /\ m.ag = conn[h].tag /\ m.ack = conn[h].nxt
             /\ conn' = [conn EXCEPT ![h] = AfterOutput(c)]
    <3>1. /\ c \in Conns /\ c.una = conn[h].nxt /\ c.nxt = conn[h].nxt /\ ~c.fin_sent
          /\ c.state = "Established"
      BY <2>3, EstablishedConn
    <3>2. c.una <= c.nxt
      BY <3>1, ConnFields
    <3> HIDE DEF c
    <3>3. Covered(c)
      BY <3>1 DEF Covered
    <3>4. Timed(AfterOutput(c))
      BY <3>1, <3>2, <3>3, OutputTimed
    <3> QED
      BY <2>3, <3>4, TimedStep
  <2> QED
    BY <2>1, <2>2, <2>3
<1>5. CASE RecvSegment(h, m, dup)
  <2> DEFINE b == Absorbed(conn[h], m)
             d == AfterOutput(b)
  <2>1. Live(conn[h]) /\ conn[h].state # "SynSent" /\ conn' = [conn EXCEPT ![h] = Reaped(d)]
    BY <1>5, RecvSegmentDoes
  <2>2. "FIN" \in m.flags => m.n = 0
    BY <1>0 DEF SegShape
  <2>3. Covered(conn[h])
    BY <1>0, <2>1 DEF Timed
  <2>4. b = Absorbed(conn[h], m) /\ d = AfterOutput(b)
    OBVIOUS
  <2> HIDE DEF b, d
  <2>5. b \in Conns /\ ConnShape(h, b, next_gen)
    BY <1>0, <2>1, <2>2, <2>4, AbsorbedShape
  <2>6. Covered(b)
    BY <1>0, <2>1, <2>2, <2>3, <2>4, AbsorbedCovered
  <2>7. b.una <= b.nxt
    BY <2>5 DEF ConnShape
  <2>8. Timed(d)
    BY <2>4, <2>5, <2>6, <2>7, OutputTimed
  <2>9. Timed(Reaped(d))
    BY <2>8, ReapedTimed
  <2> QED
    BY <2>1, <2>9, TimedStep
<1> QED
  BY <1>1, <1>2, <1>3, <1>4, <1>5

LEMMA TickTimed ==
  ASSUME TInv, AllTimed, NEW h \in Host, TimeWaitEnds(h) \/ GiveUp(h) \/ Retransmit(h)
  PROVE  AllTimed'
<1>1. CASE TimeWaitEnds(h)
  <2>1. conn' = [conn EXCEPT ![h] = Reaped(Rested(conn[h]))] /\ Rested(conn[h]).state = "Closed"
    BY <1>1, TimeWaitEndsDoes
  <2>2. Timed(Reaped(Rested(conn[h])))
    BY <2>1, ReapedTimed DEF Timed, Live
  <2> QED
    BY <2>1, <2>2, TimedStep
<1>2. CASE GiveUp(h)
  <2>1. conn' = [conn EXCEPT ![h] = Reaped(Expired(conn[h]))] /\ Expired(conn[h]).state = "Closed"
    BY <1>2, GiveUpDoes
  <2>2. Timed(Reaped(Expired(conn[h])))
    BY <2>1, ReapedTimed DEF Timed, Live
  <2> QED
    BY <2>1, <2>2, TimedStep
<1>3. CASE Retransmit(h)
  <2>1. PICK d : d = [conn[h] EXCEPT !.retries = @ + 1]
    OBVIOUS
  <2>2. /\ conn' = [conn EXCEPT ![h] = d]
        /\ d.state = conn[h].state /\ d.una = conn[h].una /\ d.nxt = conn[h].nxt
        /\ d.q = conn[h].q /\ d.fin_sent = conn[h].fin_sent
        /\ d.accepted = conn[h].accepted /\ d.rto = conn[h].rto
    BY <1>3, <2>1, RetransmitDoes
  <2>3. Timed(d)
    BY <2>2 DEF AllTimed, Timed, Covered, Live
  <2> QED
    BY <2>2, <2>3, TimedStep
<1> QED
  BY <1>1, <1>2, <1>3

LEMMA NextTimed == TInv /\ AllTimed /\ [Next]_vars => AllTimed'
<1> SUFFICES ASSUME TInv, AllTimed, [Next]_vars PROVE AllTimed'
  OBVIOUS
<1>1. CASE \E h \in Host : \/ Connect(h) \/ Accept(h) \/ Read(h)
                           \/ Write(h) \/ Close(h)
                           \/ TimeWaitEnds(h) \/ GiveUp(h) \/ Retransmit(h)
  BY <1>1, UserTimed, TickTimed
<1>2. CASE \E h \in Host : \E m \in Inbox(h), dup \in BOOLEAN :
               \/ RecvSyn(h, m, dup) \/ Refuse(h, m, dup)
               \/ RecvRst(h, m, dup) \/ RecvRepeatedSyn(h, m, dup)
               \/ RecvInSynSent(h, m, dup) \/ RecvSegment(h, m, dup)
  BY <1>2, InputTimed
<1>3. CASE (\E m \in net : Lose(m)) \/ UNCHANGED vars
  BY <1>3 DEF Lose, vars, AllTimed
<1> QED
  BY <1>1, <1>2, <1>3 DEF Next

\* While anything is unacknowledged or unsent, a timer runs: no connection
\* waits on a lost segment for ever.
THEOREM TimerIsArmed == Spec => []TimerArmed
<1>1. AllTimed => TimerArmed
  BY DEF AllTimed, Timed, Covered, TimerArmed
<1> QED
  BY <1>1, InitTInv, NextTInv, InitTimed, NextTimed, PTL DEF Spec

(***************************************************************************)
(* No slot is left behind but by a reset                                   *)
(***************************************************************************)

NoneDies == \A o \in Host : Dead(o)' => Dead(o)

LEMMA DeadStep ==
  ASSUME TInv, NEW h \in Host, NEW d, conn' = [conn EXCEPT ![h] = d],
         d.state = "Closed" /\ Released(d) => Dead(h)
  PROVE  NoneDies
<1> SUFFICES ASSUME NEW o \in Host, Dead(o)' PROVE Dead(o)
  BY DEF NoneDies
<1>1. conn'[o] = IF o = h THEN d ELSE conn[o]
  BY DEF TInv, TypeOK
<1>2. conn'[o].state = "Closed" /\ Released(conn'[o])
  BY DEF Dead
<1> QED
  BY <1>1, <1>2 DEF Dead

LEMMA OutputStays ==
  ASSUME NEW c \in Conns, c.una <= c.nxt, c.state # "Closed"
  PROVE  AfterOutput(c).state # "Closed"
<1> DEFINE d == AfterOutput(c)
<1>1. d.state = IF ~SendsFin(c) THEN c.state
                ELSE IF c.state = "CloseWait" THEN "LastAck" ELSE "FinWait1"
  BY AfterOutputFacts
<1> HIDE DEF d
<1>2. d.state # "Closed"
  BY <1>1
<1> QED
  BY <1>2 DEF d

LEMMA UserNoneDies ==
  ASSUME TInv, NEW h \in Host,
         Connect(h) \/ Accept(h) \/ Read(h) \/ Write(h) \/ Close(h)
  PROVE  NoneDies
<1>0. conn[h] \in Conns /\ conn[h].una <= conn[h].nxt
  BY HostFacts
<1>1. CASE Connect(h)
  <2> DEFINE c == NewConn(next_gen, "SynSent", 0, 0, 0, TRUE)
  <2>1. conn' = [conn EXCEPT ![h] = c]
    BY <1>1 DEF Connect
  <2>2. c.state # "Closed"
    BY DEF NewConn
  <2> HIDE DEF c
  <2> QED
    BY <2>1, <2>2, DeadStep
<1>2. CASE Accept(h)
  <2> DEFINE c == [conn[h] EXCEPT !.accepted = TRUE]
  <2>1. conn' = [conn EXCEPT ![h] = c] /\ conn[h].state # "Closed"
    BY <1>2 DEF Accept, Live
  <2>2. c.state = conn[h].state
    BY <1>0 DEF Conns
  <2> HIDE DEF c
  <2> QED
    BY <2>1, <2>2, DeadStep
<1>3. CASE Read(h)
  <2>0. PICK n \in 1 .. conn[h].held : conn' = [conn EXCEPT ![h].held = @ - n]
    BY <1>3 DEF Read
  <2> DEFINE c == [conn[h] EXCEPT !.held = @ - n]
  <2>1. conn' = [conn EXCEPT ![h] = c]
    BY <2>0
  <2>2. ~Released(c)
    <3>1. c.app_closed = conn[h].app_closed /\ c.accepted = conn[h].accepted
      BY <1>0 DEF Conns
    <3> QED
      BY <1>3, <3>1 DEF Read, Released
  <2> HIDE DEF c
  <2> QED
    BY <2>1, <2>2, DeadStep
<1>4. CASE Write(h)
  <2>1. PICK n \in Nat \ {0}, c \in Conns :
           /\ conn[h].state \notin {"None", "Closed", "TimeWait"}
           /\ c.state = conn[h].state /\ c.una = conn[h].una /\ c.nxt = conn[h].nxt
           /\ conn' = [conn EXCEPT ![h] = AfterOutput(c)]
    BY <1>4, WriteDoes
  <2>2. AfterOutput(c).state # "Closed"
    BY <1>0, <2>1, OutputStays
  <2> QED
    BY <2>1, <2>2, DeadStep
<1>5. CASE Close(h)
  <2> DEFINE c == [conn[h] EXCEPT !.app_closed = TRUE]
  <2>1. conn' = [conn EXCEPT ![h] = IF Live(c) THEN AfterOutput(c) ELSE NoConn]
    BY <1>5, CloseDoes
  <2>2. c \in Conns /\ c.una = conn[h].una /\ c.nxt = conn[h].nxt
    BY <1>0 DEF Conns
  <2> HIDE DEF c
  <2>3. CASE Live(c)
    <3>1. AfterOutput(c).state # "Closed"
      BY <1>0, <2>2, <2>3, OutputStays DEF Live
    <3> QED
      BY <2>1, <2>3, <3>1, DeadStep
  <2>4. CASE ~Live(c)
    <3>1. NoConn.state # "Closed"
      BY NoConnFacts
    <3> QED
      BY <2>1, <2>4, <3>1, DeadStep
  <2> QED
    BY <2>3, <2>4
<1> QED
  BY <1>1, <1>2, <1>3, <1>4, <1>5

\* What is closed and released goes; a connection that is still wanted stays.
LEMMA ReapedGoes ==
  ASSUME NEW d
  PROVE  ~(Reaped(d).state = "Closed" /\ Released(Reaped(d)))
BY NoConnFacts DEF Reaped

LEMMA InputNoneDies ==
  ASSUME TInv, NEW h \in Host, NEW m \in Inbox(h), NEW dup \in BOOLEAN,
         \/ RecvSyn(h, m, dup) \/ Refuse(h, m, dup) \/ RecvRepeatedSyn(h, m, dup)
         \/ RecvInSynSent(h, m, dup) \/ RecvSegment(h, m, dup)
  PROVE  NoneDies
<1>1. CASE RecvSyn(h, m, dup)
  <2> DEFINE c == SynConn(next_gen, m)
  <2>1. conn' = [conn EXCEPT ![h] = c] /\ c.state = "SynRcvd"
    BY <1>1, RecvSynDoes
  <2> HIDE DEF c
  <2> QED
    BY <2>1, DeadStep
<1>2. CASE Refuse(h, m, dup) \/ RecvRepeatedSyn(h, m, dup)
  BY <1>2 DEF Refuse, RecvRepeatedSyn, NoneDies, Dead
<1>4. CASE RecvInSynSent(h, m, dup)
  <2> DEFINE c == Answered(conn[h], m)
  <2>1. \/ conn' = conn
        \/ /\ {"SYN", "ACK"} \subseteq m.flags /\ "RST" \notin m.flags
           /\ conn[h].state = "SynSent"
           /\ m.ag = conn[h].tag /\ m.ack = conn[h].nxt
           /\ conn' = [conn EXCEPT ![h] = AfterOutput(c)]
    BY <1>4, RecvInSynSentDoes
  <2>2. CASE conn' = conn
    BY <2>2 DEF NoneDies, Dead
  <2>3. CASE /\ {"SYN", "ACK"} \subseteq m.flags /\ "RST" \notin m.flags
             /\ conn[h].state = "SynSent"
             /\ m.ag = conn[h].tag /\ m.ack = conn[h].nxt
             /\ conn' = [conn EXCEPT ![h] = AfterOutput(c)]
    <3>1. c \in Conns /\ c.una = conn[h].nxt /\ c.nxt = conn[h].nxt /\ c.state = "Established"
      BY <2>3, EstablishedConn
    <3>2. c.una <= c.nxt
      BY <3>1, ConnFields
    <3> HIDE DEF c
    <3>3. AfterOutput(c).state # "Closed"
      BY <3>1, <3>2, OutputStays
    <3> QED
      BY <2>3, <3>3, DeadStep
  <2> QED
    BY <2>1, <2>2, <2>3
<1>5. CASE RecvSegment(h, m, dup)
  <2> DEFINE d == AfterOutput(Absorbed(conn[h], m))
  <2>1. conn' = [conn EXCEPT ![h] = Reaped(d)]
    BY <1>5, RecvSegmentDoes
  <2> HIDE DEF d
  <2> QED
    BY <2>1, ReapedGoes, DeadStep
<1> QED
  BY <1>1, <1>2, <1>4, <1>5

LEMMA TickNoneDies ==
  ASSUME TInv, NEW h \in Host, TimeWaitEnds(h) \/ GiveUp(h) \/ Retransmit(h)
  PROVE  NoneDies
<1>1. CASE TimeWaitEnds(h)
  <2>1. conn' = [conn EXCEPT ![h] = Reaped(Rested(conn[h]))]
    BY <1>1, TimeWaitEndsDoes
  <2> QED
    BY <2>1, ReapedGoes, DeadStep
<1>2. CASE GiveUp(h)
  <2>1. conn' = [conn EXCEPT ![h] = Reaped(Expired(conn[h]))]
    BY <1>2, GiveUpDoes
  <2> QED
    BY <2>1, ReapedGoes, DeadStep
<1>3. CASE Retransmit(h)
  <2> DEFINE d == [conn[h] EXCEPT !.retries = @ + 1]
  <2>1. conn' = [conn EXCEPT ![h] = d] /\ d.state = conn[h].state /\ Live(conn[h])
    BY <1>3, RetransmitDoes
  <2> HIDE DEF d
  <2> QED
    BY <2>1, DeadStep DEF Live
<1> QED
  BY <1>1, <1>2, <1>3

\* Only a reset leaves a closed connection in a slot that nobody will free.
THEOREM OnlyResetsStrand == Spec => DeadOnlyByReset
<1>1. ASSUME TInv, [Next]_vars
      PROVE  [\A h \in Host : ~Dead(h) /\ Dead(h)' => \E m \in Inbox(h) : "RST" \in m.flags]_vars
  <2>1. CASE \E h \in Host : \/ Connect(h) \/ Accept(h) \/ Read(h)
                             \/ Write(h) \/ Close(h)
                             \/ TimeWaitEnds(h) \/ GiveUp(h) \/ Retransmit(h)
    BY <1>1, <2>1, UserNoneDies, TickNoneDies DEF NoneDies
  <2>2. CASE \E h \in Host : \E m \in Inbox(h), dup \in BOOLEAN :
                 \/ RecvSyn(h, m, dup) \/ Refuse(h, m, dup) \/ RecvRepeatedSyn(h, m, dup)
                 \/ RecvInSynSent(h, m, dup) \/ RecvSegment(h, m, dup)
    BY <1>1, <2>2, InputNoneDies DEF NoneDies
  <2>3. CASE \E h \in Host : \E m \in Inbox(h), dup \in BOOLEAN : RecvRst(h, m, dup)
    <3>0. PICK h \in Host : \E m \in Inbox(h), dup \in BOOLEAN : RecvRst(h, m, dup)
      BY <2>3
    <3>1. PICK m \in Inbox(h), dup \in BOOLEAN : RecvRst(h, m, dup)
      BY <3>0
    <3>2. /\ "RST" \in m.flags /\ conn' = [conn EXCEPT ![h] = Rested(conn[h])]
      BY <1>1, <3>1, RecvRstDoes
    <3>3. \A o \in Host : o = h \/ conn'[o] = conn[o]
      BY <1>1, <3>2 DEF TInv, TypeOK
    <3>4. \A o \in Host : o = h \/ (Dead(o)' <=> Dead(o))
      BY <3>3 DEF Dead
    <3>5. \E k \in Inbox(h) : "RST" \in k.flags
      BY <3>1, <3>2
    <3> QED
      BY <3>4, <3>5
  <2>4. CASE (\E m \in net : Lose(m)) \/ UNCHANGED vars
    BY <2>4 DEF Lose, vars, Dead
  <2> QED
    BY <1>1, <2>1, <2>2, <2>3, <2>4 DEF Next
<1> QED
  BY <1>1, InitTInv, NextTInv, PTL DEF Spec, DeadOnlyByReset

(***************************************************************************)
(* The sending side                                                        *)
(***************************************************************************)

\* The data and the FINs of stream g among the segments N.
DataIn(N, g) == {m \in N : m.sg = g /\ m.n > 0}
FinsIn(N, g) == {m \in N : m.sg = g /\ "FIN" \in m.flags}

\* An open connection whose application has written w bytes: what has left
\* sendq is what was acknowledged, but for the SYN and the FIN.
Proper(c, w) ==
  /\ c.una = c.drained + 1 + (IF c.fin_acked THEN 1 ELSE 0)
  /\ c.drained + c.q = w
  /\ ~c.fin_sent => ~c.fin_acked /\ c.nxt <= c.una + c.q
  /\ c.fin_sent /\ ~c.fin_acked => c.nxt = c.una + c.q + 1
  /\ c.fin_acked => c.q = 0 /\ c.nxt = c.una

\* One whose SYN is on its way.
Fresh(c, w) ==
  /\ c.una = 0 /\ c.nxt = 1 /\ c.drained = 0 /\ c.q = w
  /\ ~c.fin_sent /\ ~c.fin_acked

\* A client that was closed in SynSent and sent its FIN with the SYN: its
\* numbers are off by one, but no more than one byte was ever in sendq.
EarlySender(c) ==
  /\ c.fin_sent /\ c.nxt = 2 /\ c.una <= 2
  /\ c.una = 0 => c.drained = 0 /\ c.q <= 1 /\ ~c.fin_acked
  /\ c.una > 0 => c.q = 0
  /\ c.una = 2 => c.fin_acked
Early(c, N, R) ==
  /\ EarlySender(c) /\ c.tag \in R
  /\ c.rcv = 0 /\ c.got = <<>> /\ ~TookFin(c)
  /\ \A m \in DataIn(N, c.tag) : m.seq + m.n <= 1

\* What the client k can still take bytes from.
Hears(k, g) == k.state = "SynSent" \/ k.irs = g

\* A server connection that took a FIN before it was open: nobody hears it.
Mute(c, k, N) ==
  /\ c.una = 0 /\ c.drained = 0 /\ c.nxt > 0
  /\ ~Hears(k, c.tag)
  /\ \A m \in N : m.to = Server => m.ag # c.tag

ClientInv(c, N, W, R) ==
  Live(c) =>
    IF c.state = "SynSent"
    THEN /\ Fresh(c, W[c.tag]) /\ c.rcv = 0 /\ c.got = <<>> /\ c.win = 0
         /\ DataIn(N, c.tag) = {} /\ FinsIn(N, c.tag) = {}
    ELSE IF c.irs = 0 THEN Early(c, N, R) ELSE Proper(c, W[c.tag])
ServerInv(c, k, N, W) ==
  Live(c) =>
    IF c.state = "SynRcvd"
    THEN /\ Fresh(c, W[c.tag]) /\ c.q = 0 /\ ~c.accepted
         /\ DataIn(N, c.tag) = {} /\ FinsIn(N, c.tag) = {}
         /\ \A m \in N : m.to = Server /\ m.ag = c.tag => m.ack = 1
         /\ k.irs = c.tag => k.rcv = 1
    ELSE Proper(c, W[c.tag]) \/ Mute(c, k, N)

\* What the client k says to a server connection it says to one only.
AgInv(k, N) ==
  /\ Live(k) => \A m \in N : m.to = Server => m.ag \in {0, k.irs}
  /\ \A m \in FinsIn(N, 1) : /\ k.state # "SynSent" /\ k.irs \in {0, m.ag}
                             /\ \A o \in N : o.to = Server => o.ag \in {0, m.ag}

Sender == /\ ClientInv(conn[Client], net, wrote, rushed)
          /\ ServerInv(conn[Server], conn[Client], net, wrote)
          /\ AgInv(conn[Client], net)

\* tcp_output keeps numbers and queue together.
LEMMA OutputProper ==
  ASSUME NEW c \in Conns, c.una <= c.nxt, NEW w, Proper(c, w), NEW d, d = AfterOutput(c)
  PROVE  /\ Proper(d, w)
         /\ MaySend(c) => /\ ~c.fin_sent /\ ~c.fin_acked
                          /\ c.una = c.drained + 1 /\ SendLimit(c) <= c.q
         /\ SendsFin(c) => SendLimit(c) = c.q
<1>1. /\ c.una \in Nat /\ c.nxt \in Nat /\ c.q \in Nat /\ c.drained \in Nat
      /\ c.fin_sent \in BOOLEAN /\ c.fin_acked \in BOOLEAN
      /\ SendLimit(c) \in Nat /\ InFlight(c) = c.nxt - c.una
      /\ InFlight(c) <= c.q => SendLimit(c) <= c.q
  BY ConnFields, LimitFacts, Consts
<1>2. /\ d.una = c.una /\ d.q = c.q /\ d.drained = c.drained /\ d.fin_acked = c.fin_acked
      /\ d.nxt = IF MaySend(c)
                 THEN c.una + SendLimit(c) + (IF SendsFin(c) THEN 1 ELSE 0) ELSE c.nxt
      /\ d.fin_sent = (c.fin_sent \/ SendsFin(c))
  BY AfterOutputFacts
<1>b. d.fin_sent <=> c.fin_sent \/ SendsFin(c)
  BY <1>2
<1>3. MaySend(c) => /\ ~c.fin_sent /\ ~c.fin_acked
                    /\ c.una = c.drained + 1 /\ SendLimit(c) <= c.q
  <2> SUFFICES ASSUME MaySend(c)
               PROVE  /\ ~c.fin_sent /\ ~c.fin_acked
                      /\ c.una = c.drained + 1 /\ SendLimit(c) <= c.q
    OBVIOUS
  <2>1. ~c.fin_sent
    BY DEF MaySend
  <2>2. ~c.fin_acked /\ c.nxt <= c.una + c.q /\ c.una = c.drained + 1
    BY <1>1, <2>1 DEF Proper
  <2>3. SendLimit(c) <= c.q
    BY <1>1, <2>2
  <2> QED
    BY <2>1, <2>2, <2>3
<1>4. SendsFin(c) => MaySend(c) /\ SendLimit(c) = c.q
  BY <1>1, <1>3 DEF SendsFin
<1>5. CASE ~MaySend(c)
  <2>1. d.nxt = c.nxt /\ (d.fin_sent <=> c.fin_sent)
    BY <1>2, <1>b, <1>4, <1>5
  <2>2. Proper(d, w)
    BY <1>2, <2>1 DEF Proper
  <2> QED
    BY <1>3, <1>4, <2>2
<1>6. CASE MaySend(c)
  <2>1. /\ ~c.fin_acked /\ c.una = c.drained + 1 /\ SendLimit(c) <= c.q
        /\ c.drained + c.q = w
    BY <1>3, <1>6 DEF Proper
  <2>2. d.fin_sent => d.nxt = d.una + d.q + 1
    BY <1>1, <1>2, <1>b, <1>3, <1>4, <1>6
  <2>3. ~d.fin_sent => d.nxt <= d.una + d.q
    BY <1>1, <1>2, <1>b, <1>6, <2>1
  <2>4. ~d.fin_acked
    BY <1>2, <2>1
  <2>5. Proper(d, w)
    BY <1>2, <2>1, <2>2, <2>3, <2>4 DEF Proper
  <2> QED
    BY <1>3, <1>4, <2>5
<1> QED
  BY <1>5, <1>6

\* So do acknowledgements, and what else tcp_input does.
LEMMA AckProper ==
  ASSUME NEW c \in Conns, c.una <= c.nxt, NEW w, Proper(c, w), NEW m \in Segs,
         NEW a, a = TakeAck(TakeWindow(c, m), m)
  PROVE  Proper(a, w)
<1>1. /\ c.una \in Nat /\ c.nxt \in Nat /\ c.q \in Nat /\ c.drained \in Nat
      /\ c.fin_sent \in BOOLEAN /\ c.fin_acked \in BOOLEAN /\ m.ack \in Nat
  BY ConnFields, Consts DEF Segs
<1>2. /\ a.nxt = c.nxt /\ a.fin_sent = c.fin_sent
      /\ ~NewAck(c, m) => /\ a.una = c.una /\ a.q = c.q /\ a.drained = c.drained
                          /\ a.fin_acked = c.fin_acked
      /\ NewAck(c, m) => /\ a.una = m.ack
                         /\ a.q = c.q - Drained(c, m) /\ a.drained = c.drained + Drained(c, m)
                         /\ a.fin_acked = (c.fin_acked \/ AcksFin(c, m))
  BY AckFacts
<1>b. NewAck(c, m) => (a.fin_acked <=> c.fin_acked \/ AcksFin(c, m))
  BY <1>2
<1>3. CASE ~NewAck(c, m)
  BY <1>2, <1>3 DEF Proper
<1>4. CASE NewAck(c, m)
  <2>1. c.una < m.ack /\ m.ack <= c.nxt
    BY <1>4 DEF NewAck
  <2>2. ~c.fin_acked
    BY <1>1, <2>1 DEF Proper
  <2>3. c.una = c.drained + 1 /\ c.drained + c.q = w
    BY <1>1, <2>2 DEF Proper
  <2>4. Drained(c, m) = IF m.ack - c.una <= c.q THEN m.ack - c.una ELSE c.q
    BY DEF Drained, Least
  <2>5. CASE m.ack - c.una <= c.q
    <3>1. ~AcksFin(c, m) /\ ~a.fin_acked
      BY <1>1, <1>b, <1>4, <2>2, <2>4, <2>5 DEF AcksFin
    <3>2. /\ c.fin_sent => c.nxt = c.una + c.q + 1
          /\ ~c.fin_sent => c.nxt <= c.una + c.q
      BY <2>2 DEF Proper
    <3>3. a.una = m.ack /\ a.q = c.q - (m.ack - c.una) /\ a.drained = c.drained + (m.ack - c.una)
      BY <1>2, <1>4, <2>4, <2>5
    <3>4. a.una = a.drained + 1 /\ a.drained + a.q = w
      BY <1>1, <2>1, <2>3, <3>3
    <3>5. /\ a.fin_sent => a.nxt = a.una + a.q + 1
          /\ ~a.fin_sent => a.nxt <= a.una + a.q
      BY <1>1, <1>2, <2>1, <3>2, <3>3
    <3>6. a.drained \in Nat
      BY <1>1, <2>1, <3>3
    <3> QED
      BY <3>1, <3>4, <3>5, <3>6 DEF Proper
  <2>6. CASE ~(m.ack - c.una <= c.q)
    <3>1. c.fin_sent /\ c.nxt = c.una + c.q + 1
      BY <1>1, <2>1, <2>2, <2>6 DEF Proper
    <3>2. m.ack = c.una + c.q + 1
      BY <1>1, <2>1, <2>6, <3>1
    <3>3. AcksFin(c, m) /\ a.fin_acked
      BY <1>1, <1>b, <1>4, <2>4, <2>6, <3>1 DEF AcksFin
    <3>4. a.una = c.una + c.q + 1 /\ a.q = 0 /\ a.drained = c.drained + c.q
      BY <1>1, <1>2, <1>4, <2>4, <2>6, <3>2
    <3>5. a.una = a.drained + 1 + 1 /\ a.drained + a.q = w /\ a.nxt = a.una
      BY <1>1, <1>2, <2>3, <3>1, <3>4
    <3>6. a.fin_sent
      BY <1>2, <3>1
    <3> QED
      BY <3>3, <3>4, <3>5, <3>6 DEF Proper
  <2> QED
    BY <2>5, <2>6
<1> QED
  BY <1>3, <1>4

LEMMA AbsorbedProper ==
  ASSUME NEW c \in Conns, c.una <= c.nxt, NEW w, Proper(c, w), NEW m \in Segs,
         "FIN" \in m.flags => m.n = 0, NEW b, b = Absorbed(c, m)
  PROVE  Proper(b, w)
<1> DEFINE a == TakeAck(TakeWindow(c, m), m)
<1>1. a = TakeAck(TakeWindow(c, m), m)
  OBVIOUS
<1> HIDE DEF a
<1>2. Proper(a, w)
  BY <1>1, AckProper
<1>3. /\ b.una = a.una /\ b.nxt = a.nxt /\ b.q = a.q /\ b.drained = a.drained
      /\ b.fin_sent = a.fin_sent /\ b.fin_acked = a.fin_acked
  BY <1>1, AbsorbedFacts
<1> QED
  BY <1>2, <1>3 DEF Proper

LEMMA AbsorbedEarly ==
  ASSUME NEW c \in Conns, c.una <= c.nxt, EarlySender(c), NEW m \in Segs,
         "FIN" \in m.flags => m.n = 0, NEW b, b = Absorbed(c, m)
  PROVE  EarlySender(b)
<1> DEFINE a == TakeAck(TakeWindow(c, m), m)
<1>1. a = TakeAck(TakeWindow(c, m), m)
  OBVIOUS
<1> HIDE DEF a
<1>2. /\ c.una \in Nat /\ c.nxt \in Nat /\ c.q \in Nat /\ c.drained \in Nat
      /\ c.fin_sent \in BOOLEAN /\ c.fin_acked \in BOOLEAN /\ m.ack \in Nat
  BY ConnFields, Consts DEF Segs
<1>3. /\ a.nxt = c.nxt /\ a.fin_sent = c.fin_sent
      /\ ~NewAck(c, m) => /\ a.una = c.una /\ a.q = c.q /\ a.drained = c.drained
                          /\ a.fin_acked = c.fin_acked
      /\ NewAck(c, m) => /\ a.una = m.ack
                         /\ a.q = c.q - Drained(c, m) /\ a.drained = c.drained + Drained(c, m)
                         /\ a.fin_acked = (c.fin_acked \/ AcksFin(c, m))
  BY <1>1, AckFacts
<1>b. NewAck(c, m) => (a.fin_acked <=> c.fin_acked \/ AcksFin(c, m))
  BY <1>3
<1>4. EarlySender(a)
  <2>1. CASE ~NewAck(c, m)
    BY <1>3, <2>1 DEF EarlySender
  <2>2. CASE NewAck(c, m)
    <3>1. c.una < m.ack /\ m.ack <= 2 /\ c.nxt = 2 /\ c.fin_sent
      BY <2>2 DEF NewAck, EarlySender
    <3>2. Drained(c, m) = c.q
      BY <1>2, <3>1 DEF Drained, Least, EarlySender
    <3>3. a.una = m.ack /\ a.una > 0 /\ a.q = 0
      BY <1>2, <1>3, <2>2, <3>1, <3>2
    <3>4. m.ack = 2 => AcksFin(c, m)
      BY <1>2, <2>2, <3>1, <3>2 DEF AcksFin, EarlySender
    <3> QED
      BY <1>2, <1>3, <1>b, <2>2, <3>1, <3>3, <3>4 DEF EarlySender
  <2> QED
    BY <2>1, <2>2
<1>5. /\ b.una = a.una /\ b.nxt = a.nxt /\ b.q = a.q /\ b.drained = a.drained
      /\ b.fin_sent = a.fin_sent /\ b.fin_acked = a.fin_acked
  BY <1>1, AbsorbedFacts
<1> QED
  BY <1>4, <1>5 DEF EarlySender

\* In SynSent the SYN is the one byte that a window of 0 admits: tcp_output
\* sends no data, and the FIN only when sendq has room for it.
LEMMA FreshOutput ==
  ASSUME NEW h \in Host, NEW c \in Conns, NEW w, Fresh(c, w), c.state = "SynSent", c.win = 0,
         NEW d, d = AfterOutput(c)
  PROVE  /\ ~SendsFin(c) => Fresh(d, w) /\ d.state = "SynSent" /\ Output(h, c) = {}
         /\ SendsFin(c) =>
              /\ EarlySender(d) /\ d.una = 0 /\ d.q = c.q /\ c.q <= 1 /\ d.state = "FinWait1"
              /\ \A m \in Output(h, c) : m.n = 0 /\ m.seq = 1
<1>1. /\ c.una = 0 /\ c.nxt = 1 /\ c.drained = 0 /\ c.q = w /\ ~c.fin_sent /\ ~c.fin_acked
      /\ c.q \in Nat
  BY ConnFields, Consts DEF Fresh
<1>2. InFlight(c) = 1 /\ SendLimit(c) = 1
  BY <1>1, LimitFacts
<1>3. MaySend(c)
  BY <1>1 DEF MaySend
<1>4. /\ d.una = c.una /\ d.q = c.q /\ d.drained = c.drained /\ d.fin_acked = c.fin_acked
      /\ d.nxt = IF MaySend(c)
                 THEN c.una + SendLimit(c) + (IF SendsFin(c) THEN 1 ELSE 0) ELSE c.nxt
      /\ d.fin_sent = (c.fin_sent \/ SendsFin(c))
      /\ d.state = IF ~SendsFin(c) THEN c.state
                   ELSE IF c.state = "CloseWait" THEN "LastAck" ELSE "FinWait1"
  BY <1>1, AfterOutputFacts
<1>5. d.fin_sent <=> SendsFin(c)
  BY <1>1, <1>4
<1>6. d.nxt = IF SendsFin(c) THEN 2 ELSE 1
  BY <1>1, <1>2, <1>3, <1>4
<1>7. \A m \in Output(h, c) : m.n = 0 /\ m.seq = 1 /\ SendsFin(c)
  <2> SUFFICES ASSUME NEW m \in Output(h, c) PROVE m.n = 0 /\ m.seq = 1 /\ SendsFin(c)
    OBVIOUS
  <2>1. /\ m \in Segs
        /\ \/ m.n > 0 /\ m.seq >= c.nxt /\ m.seq + m.n <= c.una + SendLimit(c)
           \/ m.n = 0 /\ m.seq = c.una + SendLimit(c) /\ SendsFin(c)
    BY <1>1, OutputSegs
  <2>2. m.n \in Nat /\ m.seq \in Nat
    BY <2>1, Consts DEF Segs
  <2> QED
    BY <1>1, <1>2, <2>1, <2>2
<1>8. CASE ~SendsFin(c)
  <2>1. Output(h, c) = {}
    BY <1>7, <1>8
  <2>2. Fresh(d, w) /\ d.state = "SynSent"
    BY <1>1, <1>4, <1>5, <1>6, <1>8 DEF Fresh
  <2> QED
    BY <1>8, <2>1, <2>2
<1>9. CASE SendsFin(c)
  <2>1. c.q <= 1
    BY <1>2, <1>9 DEF SendsFin
  <2>2. EarlySender(d)
    BY <1>1, <1>4, <1>5, <1>6, <1>9, <2>1 DEF EarlySender
  <2>3. d.state = "FinWait1" /\ d.una = 0 /\ d.q = c.q
    BY <1>1, <1>4, <1>9
  <2> QED
    BY <1>7, <1>9, <2>1, <2>2, <2>3
<1> QED
  BY <1>8, <1>9

\* A step of the server: the client's half stays if the server's is right.
LEMMA ServerStep ==
  ASSUME TInv, TInv', Sender, NEW d \in Conns, conn' = [conn EXCEPT ![Server] = d],
         \A m \in net' : m \in net \/ m.to = Client,
         wrote'[1] = wrote[1], rushed \subseteq rushed',
         ServerInv(d, conn[Client], net', wrote')
  PROVE  Sender'
<1>1. /\ Client # Server /\ Client \in Host /\ Server \in Host
      /\ conn'[Client] = conn[Client] /\ conn'[Server] = d
  BY Consts DEF Host, TInv, TypeOK
<1>2. ASSUME NEW m \in net', m \notin net PROVE m.to # Server /\ m.sg # 1
  <2>1. m.to = Client
    BY <1>2
  <2>2. SegShape(m, next_gen') /\ m \in Segs
    BY DEF TInv, Shape, TypeOK
  <2> QED
    BY <1>1, <2>1, <2>2 DEF SegShape
<1>3. DataIn(net', 1) \subseteq DataIn(net, 1) /\ FinsIn(net', 1) \subseteq FinsIn(net, 1)
  BY <1>2 DEF DataIn, FinsIn
<1>4. \A m \in net' : m.to = Server => m \in net
  BY <1>2
<1>5. AgInv(conn[Client], net')
  <2>1. AgInv(conn[Client], net)
    BY DEF Sender
  <2> QED
    BY <1>3, <1>4, <2>1 DEF AgInv
<1>6. ClientInv(conn[Client], net', wrote', rushed')
  <2>1. ClientInv(conn[Client], net, wrote, rushed)
    BY DEF Sender
  <2>2. Live(conn[Client]) => conn[Client].tag = 1
    <3>1. ConnShape(Client, conn[Client], next_gen)
      BY <1>1, HostFacts
    <3> QED
      BY <3>1 DEF ConnShape, Live
  <2>3. CASE ~Live(conn[Client])
    BY <2>3 DEF ClientInv
  <2>4. CASE Live(conn[Client]) /\ conn[Client].state = "SynSent"
    BY <1>3, <2>1, <2>2, <2>4 DEF ClientInv
  <2>5. CASE Live(conn[Client]) /\ conn[Client].state # "SynSent" /\ conn[Client].irs = 0
    BY <1>3, <2>1, <2>2, <2>5 DEF ClientInv, Early
  <2>6. CASE Live(conn[Client]) /\ conn[Client].state # "SynSent" /\ conn[Client].irs # 0
    BY <2>1, <2>2, <2>6 DEF ClientInv
  <2> QED
    BY <2>3, <2>4, <2>5, <2>6
<1> QED
  BY <1>1, <1>5, <1>6 DEF Sender

\* A segment of a client that acknowledges i to a server with connection s.
Says(m, i, s) ==
  /\ m.to = Server
  /\ m.ag = 0 \/ (m.ag = i /\ (s.state = "SynRcvd" /\ i = s.tag => m.ack = 1))

\* The client's connection becomes d, which acknowledges i unless it is new
\* or gone; it was live if more than a reset is sent.
ClientMoves(d, i) ==
  /\ d \in Conns /\ conn' = [conn EXCEPT ![Client] = d]
  /\ d.irs \in {0, i}
  /\ d.state = "SynSent" => conn[Client].state = "SynSent"
  /\ conn[Client].state = "SynSent" \/ i = conn[Client].irs
  /\ Live(d) => Live(conn[Client]) /\ d.irs = i
  /\ \A m \in net' :
       \/ m \in net
       \/ /\ Says(m, i, conn[Server])
          /\ (m.ag = 0 /\ "FIN" \notin m.flags) \/ (m.ag = i /\ Live(conn[Client]))
          /\ "FIN" \in m.flags => d.state # "SynSent"
  /\ conn[Server].state = "SynRcvd" /\ d.irs = conn[Server].tag => d.rcv = 1
  /\ \A g \in 2 .. MaxOpen : wrote'[g] = wrote[g]

\* The server's half through a step of the client.
LEMMA ServerKeeps ==
  ASSUME TInv, TInv', Sender, NEW d, NEW i, ClientMoves(d, i)
  PROVE  ServerInv(conn[Server], d, net', wrote')
<1>0. /\ d.irs \in {0, i}
      /\ d.state = "SynSent" => conn[Client].state = "SynSent"
      /\ conn[Client].state = "SynSent" \/ i = conn[Client].irs
      /\ \A m \in net' : m \in net \/ Says(m, i, conn[Server])
      /\ conn[Server].state = "SynRcvd" /\ d.irs = conn[Server].tag => d.rcv = 1
      /\ \A g \in 2 .. MaxOpen : wrote'[g] = wrote[g]
  BY DEF ClientMoves
<1> DEFINE s == conn[Server]
           k == conn[Client]
<1>1. /\ Client # Server /\ Client \in Host /\ Server \in Host
      /\ s \in Conns /\ ConnShape(Server, s, next_gen) /\ next_gen \in Nat
      /\ next_gen <= MaxOpen + 1
  BY HostFacts, Consts DEF Host
<1>2. SUFFICES ASSUME Live(s) PROVE ServerInv(s, d, net', wrote')
  BY DEF ServerInv
<1>3. s.tag \in 2 .. MaxOpen
  <2>1. s.tag \in 2 .. next_gen - 1
    BY <1>1, <1>2 DEF ConnShape, Live
  <2> QED
    BY <1>1, <2>1, Consts
<1>4. wrote'[s.tag] = wrote[s.tag]
  BY <1>0, <1>3
<1>5. ServerInv(s, k, net, wrote)
  BY DEF Sender
<1> HIDE DEF s, k
<1>6. ASSUME NEW m \in net', m \notin net PROVE m.to = Server /\ m.sg \in {0, 1}
  <2>1. m.to = Server
    BY <1>0, <1>6 DEF Says
  <2>2. SegShape(m, next_gen') /\ m \in Segs
    BY DEF TInv, Shape, TypeOK
  <2> QED
    BY <2>1, <2>2 DEF SegShape
<1>7. DataIn(net', s.tag) \subseteq DataIn(net, s.tag) /\ FinsIn(net', s.tag) \subseteq FinsIn(net, s.tag)
  BY <1>3, <1>6 DEF DataIn, FinsIn
<1>8. CASE s.state = "SynRcvd"
  <2>1. /\ Fresh(s, wrote[s.tag]) /\ s.q = 0 /\ ~s.accepted
        /\ DataIn(net, s.tag) = {} /\ FinsIn(net, s.tag) = {}
        /\ \A m \in net : m.to = Server /\ m.ag = s.tag => m.ack = 1
    BY <1>2, <1>5, <1>8 DEF ServerInv
  <2>2. \A m \in net' : m.to = Server /\ m.ag = s.tag => m.ack = 1
    BY <1>0, <1>3, <1>8, <2>1 DEF s, Says
  <2>3. d.irs = s.tag => d.rcv = 1
    BY <1>0, <1>8 DEF s
  <2> QED
    BY <1>4, <1>7, <1>8, <2>1, <2>2, <2>3 DEF ServerInv
<1>9. CASE s.state # "SynRcvd" /\ Proper(s, wrote[s.tag])
  BY <1>4, <1>9 DEF ServerInv
<1>10. CASE s.state # "SynRcvd" /\ Mute(s, k, net)
  <2>1. /\ s.una = 0 /\ s.drained = 0 /\ s.nxt > 0
        /\ k.state # "SynSent" /\ k.irs # s.tag
        /\ \A m \in net : m.to = Server => m.ag # s.tag
    BY <1>10 DEF Mute, Hears
  <2>2. i # s.tag /\ d.state # "SynSent" /\ i = k.irs
    BY <1>0, <2>1 DEF k
  <2>3. d.irs # s.tag
    BY <1>0, <1>3, <2>2
  <2>4. \A m \in net' : m.to = Server => m.ag # s.tag
    BY <1>0, <1>3, <2>1, <2>2 DEF Says
  <2>5. Mute(s, d, net')
    BY <2>1, <2>2, <2>3, <2>4 DEF Mute, Hears
  <2> QED
    BY <1>10, <2>5 DEF ServerInv
<1> QED
  BY <1>2, <1>5, <1>8, <1>9, <1>10 DEF ServerInv

\* A step of the client.
LEMMA ClientStep ==
  ASSUME TInv, TInv', Sender, NEW d, NEW i, ClientMoves(d, i),
         ClientInv(d, net', wrote', rushed')
  PROVE  Sender'
<1> DEFINE k == conn[Client]
<1>1. /\ Client # Server /\ Client \in Host /\ Server \in Host
      /\ conn'[Client] = d /\ conn'[Server] = conn[Server]
  BY Consts DEF Host, TInv, TypeOK, ClientMoves
<1>2. ServerInv(conn[Server], d, net', wrote')
  BY ServerKeeps
<1>3. AgInv(k, net) /\ (k.state = "SynSent" => k.irs = 0)
  <2>1. ConnShape(Client, conn[Client], next_gen)
    BY <1>1, HostFacts
  <2> QED
    BY <2>1 DEF Sender, ConnShape
<1>i. (k.state = "SynSent" \/ i = k.irs) /\ d.irs \in {0, i}
  BY DEF ClientMoves
<1>m. \A m \in net' :
        \/ m \in net
        \/ /\ m.to = Server
           /\ (m.ag = 0 /\ "FIN" \notin m.flags) \/ (m.ag = i /\ Live(k))
           /\ "FIN" \in m.flags => d.state # "SynSent"
  BY DEF Says, ClientMoves
<1>d. /\ Live(d) => Live(k) /\ d.irs = i
      /\ d.state = "SynSent" => k.state = "SynSent"
  BY DEF ClientMoves
<1> HIDE DEF k
<1>4. Live(k) => \A m \in net : m.to = Server => m.ag \in {0, i}
  BY <1>3, <1>i DEF AgInv
<1>5. ASSUME Live(d), NEW m \in net', m.to = Server PROVE m.ag \in {0, d.irs}
  BY <1>4, <1>5, <1>m, <1>d
<1>6. ASSUME NEW m \in FinsIn(net', 1)
      PROVE  /\ d.state # "SynSent" /\ d.irs \in {0, m.ag}
             /\ \A o \in net' : o.to = Server => o.ag \in {0, m.ag}
  <2>1. m \in net' /\ m.sg = 1 /\ "FIN" \in m.flags
    BY <1>6 DEF FinsIn
  <2>2. CASE m \in net
    <3>1. m \in FinsIn(net, 1)
      BY <2>1, <2>2 DEF FinsIn
    <3>2. /\ k.state # "SynSent" /\ k.irs \in {0, m.ag}
          /\ \A o \in net : o.to = Server => o.ag \in {0, m.ag}
      BY <1>3, <3>1 DEF AgInv
    <3>3. i \in {0, m.ag} /\ d.state # "SynSent"
      BY <1>i, <1>d, <3>2
    <3> QED
      BY <1>i, <1>m, <3>2, <3>3
  <2>3. CASE m \notin net
    <3>1. m.ag = i /\ Live(k) /\ d.state # "SynSent"
      BY <1>m, <2>1, <2>3
    <3> QED
      BY <1>4, <1>i, <1>m, <3>1
  <2> QED
    BY <2>2, <2>3
<1>7. AgInv(d, net')
  BY <1>5, <1>6 DEF AgInv
<1> QED
  BY <1>1, <1>2, <1>7 DEF Sender

(***************************************************************************)
(* The steps, by what they do to a connection                              *)
(***************************************************************************)

\* The same but for what the applications and the timers did.
Alike(d, k) ==
  /\ d.state = k.state /\ d.tag = k.tag /\ d.una = k.una /\ d.nxt = k.nxt
  /\ d.irs = k.irs /\ d.rcv = k.rcv /\ d.win = k.win /\ d.drained = k.drained
  /\ d.got = k.got /\ d.fin_sent = k.fin_sent /\ d.fin_acked = k.fin_acked

\* Nothing is new, and what is sent was sent before, or resets.
Repeats(h, d) ==
  /\ d \in Conns /\ conn' = [conn EXCEPT ![h] = d]
  /\ Alike(d, conn[h]) /\ d.q = conn[h].q
  /\ d.accepted = conn[h].accepted \/ d.state # "SynRcvd"
  /\ \A m \in net' : \/ m \in net \/ m = Rst(h)
                     \/ Live(conn[h]) /\ m \in Resent(h, conn[h])
  /\ UNCHANGED <<wrote, taken, rushed>>

\* The connection is over.
Stops(h, d) ==
  /\ d \in Conns /\ conn' = [conn EXCEPT ![h] = d] /\ ~Live(d)
  /\ \/ d = NoConn
     \/ /\ d.tag = conn[h].tag /\ d.irs = conn[h].irs /\ d.rcv = conn[h].rcv
        /\ d.got = conn[h].got /\ d.drained = conn[h].drained /\ d.state = "Closed"
  /\ \A m \in net' : m \in net
  /\ UNCHANGED <<wrote, taken, rushed>>

\* The application gives n bytes or closes, and tcp_output follows.
Sends(h, c, n) ==
  /\ Live(conn[h]) /\ ~Released(conn[h])
  /\ c \in Conns /\ Alike(c, conn[h]) /\ n \in Nat /\ c.q = conn[h].q + n
  /\ c.app_closed => n = 0 /\ (c.state = "SynSent" => c.tag \in rushed')
  /\ conn' = [conn EXCEPT ![h] = AfterOutput(c)] /\ net' = net \cup Output(h, c)
  /\ wrote' = [wrote EXCEPT ![conn[h].tag] = @ + n] /\ rushed \subseteq rushed'
  /\ taken' = taken

Kinds(h) ==
  \/ \E d \in Conns : Repeats(h, d) \/ Stops(h, d)
  \/ \E c \in Conns, n \in Nat : Sends(h, c, n)

LEMMA AlikeSelf ==
  ASSUME TInv, NEW h \in Host, conn' = conn,
         \A m \in net' : \/ m \in net \/ m = Rst(h)
                         \/ Live(conn[h]) /\ m \in Resent(h, conn[h]),
         UNCHANGED <<wrote, taken, rushed>>
  PROVE  Kinds(h)
<1>1. conn[h] \in Conns /\ conn' = [conn EXCEPT ![h] = conn[h]]
  BY HostFacts, SameConn
<1>2. Alike(conn[h], conn[h])
  BY DEF Alike
<1> QED
  BY <1>1, <1>2 DEF Kinds, Repeats

LEMMA RestKinds ==
  ASSUME TInv, NEW h \in Host
  PROVE  /\ Accept(h) \/ Read(h) => Kinds(h)
         /\ \A m \in Inbox(h), dup \in BOOLEAN :
              Refuse(h, m, dup) \/ RecvRepeatedSyn(h, m, dup) => Kinds(h)
         /\ Retransmit(h) => Kinds(h)
<1>0. conn[h] \in Conns
  BY HostFacts
<1>1. ASSUME Accept(h) PROVE Kinds(h)
  <2> DEFINE d == [conn[h] EXCEPT !.accepted = TRUE]
  <2>1. /\ conn[h].state # "SynRcvd" /\ conn' = [conn EXCEPT ![h] = d]
        /\ UNCHANGED <<net, wrote, taken, rushed>>
    BY <1>0, <1>1 DEF Accept, Conns
  <2>2. d \in Conns /\ Alike(d, conn[h]) /\ d.q = conn[h].q
    BY <1>0 DEF Conns, Alike
  <2> HIDE DEF d
  <2>3. d.state # "SynRcvd"
    BY <2>1, <2>2 DEF Alike
  <2> QED
    BY <2>1, <2>2, <2>3 DEF Kinds, Repeats
<1>2. ASSUME Read(h) PROVE Kinds(h)
  <2>1. PICK n \in 1 .. conn[h].held : conn' = [conn EXCEPT ![h].held = @ - n]
    BY <1>2 DEF Read
  <2> DEFINE d == [conn[h] EXCEPT !.held = @ - n]
  <2>2. conn' = [conn EXCEPT ![h] = d] /\ UNCHANGED <<net, wrote, taken, rushed>>
    BY <1>2, <2>1 DEF Read
  <2>3. conn[h].held - n \in 0 .. RECV_CAP
    BY <1>0, <2>1, ConnFields, Consts
  <2>4. d \in Conns /\ Alike(d, conn[h]) /\ d.q = conn[h].q /\ d.accepted = conn[h].accepted
    BY <1>0, <2>3 DEF Conns, Alike
  <2> HIDE DEF d
  <2> QED
    BY <2>2, <2>4 DEF Kinds, Repeats
<1>3. ASSUME NEW m \in Inbox(h), NEW dup \in BOOLEAN, Refuse(h, m, dup) PROVE Kinds(h)
  <2>1. \A k \in net' : k \in net \/ k \in (IF "RST" \in m.flags THEN {} ELSE {Rst(h)})
    <3>1. Arrive(m, dup, IF "RST" \in m.flags THEN {} ELSE {Rst(h)})
      BY <1>3 DEF Refuse
    <3> QED
      BY <3>1, ArriveFacts
  <2>2. \A k \in net' : k \in net \/ k = Rst(h)
    BY <2>1
  <2>3. UNCHANGED <<conn, wrote, taken, rushed>>
    BY <1>3 DEF Refuse
  <2> QED
    BY <2>2, <2>3, AlikeSelf
<1>4. ASSUME NEW m \in Inbox(h), NEW dup \in BOOLEAN, RecvRepeatedSyn(h, m, dup) PROVE Kinds(h)
  <2>1. \A k \in net' : k \in net \/ k \in {Seg(h, conn[h], {"SYN", "ACK"}, 0, 0, 0)}
    <3>1. Arrive(m, dup, {Seg(h, conn[h], {"SYN", "ACK"}, 0, 0, 0)})
      BY <1>4 DEF RecvRepeatedSyn
    <3> QED
      BY <3>1, ArriveFacts
  <2>2. conn[h].state = "SynRcvd"
    BY <1>4 DEF RecvRepeatedSyn, RepeatsSyn
  <2>3. Live(conn[h]) /\ Seg(h, conn[h], {"SYN", "ACK"}, 0, 0, 0) \in Resent(h, conn[h])
    BY <2>2 DEF Live, Resent
  <2>4. UNCHANGED <<conn, wrote, taken, rushed>>
    BY <1>4 DEF RecvRepeatedSyn
  <2> QED
    BY <2>1, <2>3, <2>4, AlikeSelf
<1>5. ASSUME Retransmit(h) PROVE Kinds(h)
  <2> DEFINE d == [conn[h] EXCEPT !.retries = @ + 1]
  <2>0. d = [conn[h] EXCEPT !.retries = @ + 1]
    OBVIOUS
  <2> HIDE DEF d
  <2>1. Live(conn[h]) /\ conn' = [conn EXCEPT ![h] = d] /\ net' = net \cup Resent(h, conn[h])
        /\ UNCHANGED <<wrote, taken, rushed>> /\ d \in Conns
        /\ d.q = conn[h].q /\ d.accepted = conn[h].accepted
    BY <1>5, <2>0, RetransmitDoes
  <2>2. Alike(d, conn[h])
    BY <1>5, <2>0, RetransmitDoes DEF Alike
  <2> QED
    BY <2>1, <2>2 DEF Kinds, Repeats
<1> QED
  BY <1>1, <1>2, <1>3, <1>4, <1>5

LEMMA ReapedStops ==
  ASSUME TInv, NEW h \in Host, NEW d \in Conns, d.state = "Closed",
         d.tag = conn[h].tag, d.irs = conn[h].irs, d.rcv = conn[h].rcv,
         d.got = conn[h].got, d.drained = conn[h].drained,
         conn' = [conn EXCEPT ![h] = d] \/ conn' = [conn EXCEPT ![h] = Reaped(d)],
         \A m \in net' : m \in net, UNCHANGED <<wrote, taken, rushed>>
  PROVE  Kinds(h)
<1>1. ~Live(d) /\ ~Live(NoConn) /\ NoConn \in Conns
  BY NoConnFacts DEF Live
<1>2. Reaped(d) \in {d, NoConn}
  BY DEF Reaped
<1>3. PICK e \in {d, NoConn} : conn' = [conn EXCEPT ![h] = e]
  BY <1>2
<1>4. Stops(h, e)
  BY <1>1, <1>3 DEF Stops
<1> QED
  BY <1>1, <1>3, <1>4 DEF Kinds

LEMMA StopKinds ==
  ASSUME TInv, NEW h \in Host
  PROVE  /\ \A m \in Inbox(h), dup \in BOOLEAN : RecvRst(h, m, dup) => Kinds(h)
         /\ TimeWaitEnds(h) => Kinds(h)
         /\ GiveUp(h) => Kinds(h)
<1>1. ASSUME NEW m \in Inbox(h), NEW dup \in BOOLEAN, RecvRst(h, m, dup) PROVE Kinds(h)
  <2> DEFINE d == Rested(conn[h])
  <2>0. d = Rested(conn[h])
    OBVIOUS
  <2> HIDE DEF d
  <2>1. /\ conn' = [conn EXCEPT ![h] = d] /\ d \in Conns /\ d.state = "Closed"
        /\ d.tag = conn[h].tag /\ d.irs = conn[h].irs /\ d.got = conn[h].got
        /\ d.rcv = conn[h].rcv /\ d.drained = conn[h].drained
        /\ \A k \in net' : k \in net
        /\ UNCHANGED <<wrote, taken, rushed>>
    BY <1>1, <2>0, RecvRstDoes
  <2> QED
    BY <2>1, ReapedStops
<1>2. ASSUME TimeWaitEnds(h) PROVE Kinds(h)
  <2> DEFINE d == Rested(conn[h])
  <2>0. d = Rested(conn[h])
    OBVIOUS
  <2> HIDE DEF d
  <2>1. /\ conn' = [conn EXCEPT ![h] = Reaped(d)] /\ d \in Conns /\ d.state = "Closed"
        /\ d.tag = conn[h].tag /\ d.irs = conn[h].irs /\ d.got = conn[h].got
        /\ d.rcv = conn[h].rcv /\ d.drained = conn[h].drained
        /\ net' = net
        /\ UNCHANGED <<wrote, taken, rushed>>
    BY <1>2, <2>0, TimeWaitEndsDoes
  <2> QED
    BY <2>1, ReapedStops
<1>3. ASSUME GiveUp(h) PROVE Kinds(h)
  <2> DEFINE d == Expired(conn[h])
  <2>0. d = Expired(conn[h])
    OBVIOUS
  <2> HIDE DEF d
  <2>1. /\ conn' = [conn EXCEPT ![h] = Reaped(d)] /\ d \in Conns /\ d.state = "Closed"
        /\ d.tag = conn[h].tag /\ d.irs = conn[h].irs /\ d.got = conn[h].got
        /\ d.rcv = conn[h].rcv /\ d.drained = conn[h].drained
        /\ net' = net
        /\ UNCHANGED <<wrote, taken, rushed>>
    BY <1>3, <2>0, GiveUpDoes
  <2> QED
    BY <2>1, ReapedStops
<1> QED
  BY <1>1, <1>2, <1>3

LEMMA SendKinds ==
  ASSUME TInv, NEW h \in Host
  PROVE  /\ Write(h) => Kinds(h)
         /\ Close(h) => Kinds(h)
<1>1. ASSUME Write(h) PROVE Kinds(h)
  <2>1. PICK n \in Nat \ {0} : \E c \in Conns :
           /\ ~Released(conn[h]) /\ conn[h].state \notin {"None", "Closed", "TimeWait"}
           /\ c = [conn[h] EXCEPT !.q = @ + n]
           /\ c.state = conn[h].state /\ c.tag = conn[h].tag /\ c.irs = conn[h].irs
           /\ c.accepted = conn[h].accepted /\ c.una = conn[h].una /\ c.nxt = conn[h].nxt
           /\ c.app_closed = conn[h].app_closed /\ c.fin_sent = conn[h].fin_sent
           /\ c.fin_acked = conn[h].fin_acked /\ c.drained = conn[h].drained
           /\ c.rcv = conn[h].rcv /\ c.got = conn[h].got /\ c.rto = conn[h].rto
           /\ c.win = conn[h].win /\ c.q = conn[h].q + n
           /\ conn' = [conn EXCEPT ![h] = AfterOutput(c)]
           /\ net' = net \cup Output(h, c)
           /\ wrote' = [wrote EXCEPT ![conn[h].tag] = @ + n]
           /\ UNCHANGED <<next_gen, taken, rushed, faults>>
    BY <1>1, WriteDoes
  <2>2. PICK c \in Conns :
           /\ ~Released(conn[h]) /\ conn[h].state \notin {"None", "Closed", "TimeWait"}
           /\ c.state = conn[h].state /\ c.tag = conn[h].tag /\ c.irs = conn[h].irs
           /\ c.una = conn[h].una /\ c.nxt = conn[h].nxt
           /\ c.app_closed = conn[h].app_closed /\ c.fin_sent = conn[h].fin_sent
           /\ c.fin_acked = conn[h].fin_acked /\ c.drained = conn[h].drained
           /\ c.rcv = conn[h].rcv /\ c.got = conn[h].got
           /\ c.win = conn[h].win /\ c.q = conn[h].q + n
           /\ conn' = [conn EXCEPT ![h] = AfterOutput(c)]
           /\ net' = net \cup Output(h, c)
           /\ wrote' = [wrote EXCEPT ![conn[h].tag] = @ + n]
           /\ UNCHANGED <<taken, rushed>>
    BY <2>1
  <2>3. Alike(c, conn[h]) /\ Live(conn[h]) /\ ~c.app_closed
    BY <2>2 DEF Alike, Live, Released
  <2> QED
    BY <2>2, <2>3 DEF Kinds, Sends
<1>2. ASSUME Close(h) PROVE Kinds(h)
  <2> DEFINE c == [conn[h] EXCEPT !.app_closed = TRUE]
  <2>0. c = [conn[h] EXCEPT !.app_closed = TRUE]
    OBVIOUS
  <2> HIDE DEF c
  <2>1. /\ conn[h].state # "None" /\ ~Released(conn[h])
        /\ UNCHANGED <<next_gen, wrote, taken, unwritten, faults>>
        /\ conn' = [conn EXCEPT ![h] = IF Live(c) THEN AfterOutput(c) ELSE NoConn]
        /\ net' = net \cup (IF Live(c) THEN Output(h, c) ELSE {})
        /\ rushed' = rushed \cup (IF conn[h].state = "SynSent" THEN {conn[h].tag} ELSE {})
    BY <1>2, <2>0, CloseDoes
  <2>2. /\ c \in Conns /\ c.q = conn[h].q /\ c.state = conn[h].state /\ c.tag = conn[h].tag
    BY <2>0, <2>1, HostFacts, ClosedConn
  <2>3. Alike(c, conn[h])
    BY <2>0, <2>1, HostFacts, ClosedConn DEF Alike
  <2>4. CASE Live(c)
    <3>1. Live(conn[h])
      BY <2>2, <2>4 DEF Live
    <3>2. /\ conn' = [conn EXCEPT ![h] = AfterOutput(c)] /\ net' = net \cup Output(h, c)
          /\ rushed \subseteq rushed' /\ (c.state = "SynSent" => c.tag \in rushed')
          /\ taken' = taken
      BY <2>1, <2>2, <2>4
    <3>3. wrote' = [wrote EXCEPT ![conn[h].tag] = @ + 0] /\ c.q = conn[h].q + 0
      <4>1. wrote \in [1 .. MaxOpen -> Nat] /\ conn[h].q \in Nat /\ conn[h].tag \in 1 .. MaxOpen
        <5>1. wrote \in [1 .. MaxOpen -> Nat] /\ next_gen \in 1 .. MaxOpen + 1
          BY TypesRest
        <5>2. conn[h].q \in Nat
          BY HostFacts, ConnFields, Consts
        <5>3. conn[h].tag \in 1 .. next_gen - 1
          BY <2>1, Opened
        <5> QED
          BY <5>1, <5>2, <5>3, Consts
      <4>2. wrote[conn[h].tag] + 0 = wrote[conn[h].tag]
        BY <4>1
      <4> QED
        BY <2>1, <2>2, <4>1, <4>2
    <3>4. Sends(h, c, 0)
      BY <2>1, <2>2, <2>3, <3>1, <3>2, <3>3 DEF Sends
    <3> QED
      BY <2>2, <3>4 DEF Kinds
  <2>5. CASE ~Live(c)
    <3>1. conn' = [conn EXCEPT ![h] = NoConn] /\ net' = net
      BY <2>1, <2>5
    <3>2. rushed' = rushed
      BY <2>1, <2>2, <2>5 DEF Live
    <3>3. Stops(h, NoConn)
      BY <2>1, <3>1, <3>2, NoConnFacts DEF Stops, Live
    <3> QED
      BY <3>3, NoConnFacts DEF Kinds
  <2> QED
    BY <2>4, <2>5
<1> QED
  BY <1>1, <1>2

Kind ==
  \/ \E h \in Host : Kinds(h) \/ Connect(h)
  \/ \E h \in Host : \E m \in Inbox(h), dup \in BOOLEAN :
       RecvSyn(h, m, dup) \/ RecvSegment(h, m, dup)
       \/ (RecvInSynSent(h, m, dup) /\ conn' # conn)

LEMMA NextKind ==
  ASSUME TInv, [Next]_vars
  PROVE  Kind
<1>1. CASE \E h \in Host : \/ Connect(h) \/ Accept(h) \/ Read(h) \/ Write(h) \/ Close(h)
                           \/ TimeWaitEnds(h) \/ GiveUp(h) \/ Retransmit(h)
  BY <1>1, RestKinds, StopKinds, SendKinds DEF Kind
<1>2. CASE \E h \in Host : \E m \in Inbox(h), dup \in BOOLEAN :
               \/ RecvSyn(h, m, dup) \/ Refuse(h, m, dup)
               \/ RecvRst(h, m, dup) \/ RecvRepeatedSyn(h, m, dup)
               \/ RecvSegment(h, m, dup)
  BY <1>2, RestKinds, StopKinds DEF Kind
<1>3. ASSUME NEW h \in Host, NEW m \in Inbox(h), NEW dup \in BOOLEAN, RecvInSynSent(h, m, dup)
      PROVE  Kind
  <2>1. CASE conn' # conn
    BY <1>3, <2>1 DEF Kind
  <2>2. CASE conn' = conn
    <3>1. UNCHANGED <<wrote, taken, rushed>>
      BY <1>3 DEF RecvInSynSent
    <3>2. PICK c : c = Answered(conn[h], m)
      OBVIOUS
    <3>3. \/ \A k \in net' : k \in net
          \/ /\ {"SYN", "ACK"} \subseteq m.flags /\ "RST" \notin m.flags
             /\ conn[h].state = "SynSent"
             /\ m.ag = conn[h].tag /\ m.ack = conn[h].nxt
             /\ conn' = [conn EXCEPT ![h] = AfterOutput(c)]
      BY <1>3, <3>2, RecvInSynSentDoes
    <3>4. CASE \A k \in net' : k \in net
      BY <2>2, <3>1, <3>4, AlikeSelf DEF Kind
    <3>5. CASE /\ {"SYN", "ACK"} \subseteq m.flags /\ "RST" \notin m.flags
               /\ conn[h].state = "SynSent"
               /\ m.ag = conn[h].tag /\ m.ack = conn[h].nxt
               /\ conn' = [conn EXCEPT ![h] = AfterOutput(c)]
      <4>1. c \in Conns /\ c.state = "Established" /\ c.una <= c.nxt
        <5>1. c \in Conns /\ c.state = "Established" /\ c.una = conn[h].nxt /\ c.nxt = conn[h].nxt
          BY <1>3, <3>2, <3>5, EstablishedConn
        <5> QED
          BY <5>1, ConnFields
      <4>2. AfterOutput(c).state # "SynSent"
        BY <4>1, AfterOutputFacts
      <4>3. conn'[h] = AfterOutput(c)
        BY <3>5 DEF TInv, TypeOK
      <4> QED
        BY <2>2, <3>5, <4>2, <4>3
    <3> QED
      BY <3>3, <3>4, <3>5
  <2> QED
    BY <2>1, <2>2
<1>4. CASE (\E m \in net : Lose(m)) \/ UNCHANGED vars
  <2>1. \A k \in net' : k \in net
    BY <1>4 DEF Lose, vars
  <2>2. conn' = conn /\ UNCHANGED <<wrote, taken, rushed>>
    BY <1>4 DEF Lose, vars
  <2>3. Client \in Host
    BY DEF Host
  <2> QED
    BY <2>1, <2>2, <2>3, AlikeSelf DEF Kind
<1> QED
  BY <1>1, <1>2, <1>3, <1>4 DEF Next

(***************************************************************************)
(* The sender's numbers are kept by every step                             *)
(***************************************************************************)

LEMMA Ends ==
  /\ Client \in Host /\ Server \in Host /\ Client # Server
  /\ Peer(Client) = Server /\ Peer(Server) = Client
  /\ \A h \in Host : h = Client \/ h = Server
BY Consts DEF Host, Peer

LEMMA AnswerIsOne ==
  ASSUME Sender, conn[Server].state = "SynRcvd", conn[Client].irs = conn[Server].tag
  PROVE  conn[Client].rcv = 1
<1>1. ServerInv(conn[Server], conn[Client], net, wrote) /\ Live(conn[Server])
  BY DEF Sender, Live
<1> QED
  BY <1>1 DEF ServerInv

\* What the client repeats.
LEMMA RepeatsMoves ==
  ASSUME TInv, Sender, NEW d, Repeats(Client, d)
  PROVE  ClientMoves(d, conn[Client].irs)
<1> DEFINE k == conn[Client]
<1>1. k \in Conns /\ k.irs \in 0 .. MaxOpen
  BY Ends, HostFacts, ConnFields
<1>2. /\ d \in Conns /\ conn' = [conn EXCEPT ![Client] = d] /\ d.irs = k.irs /\ d.rcv = k.rcv
      /\ d.state = k.state /\ (Live(d) <=> Live(k))
      /\ wrote' = wrote
  BY DEF Repeats, Alike, Live
<1>3. ASSUME NEW m \in net', m \notin net
      PROVE  /\ Says(m, k.irs, conn[Server])
             /\ (m.ag = 0 /\ "FIN" \notin m.flags) \/ (m.ag = k.irs /\ Live(k))
             /\ "FIN" \in m.flags => d.state # "SynSent"
  <2>1. m = Rst(Client) \/ (Live(k) /\ m \in Resent(Client, k))
    BY <1>3 DEF Repeats
  <2>2. CASE m = Rst(Client)
    BY <2>2, Ends, RstFacts DEF Says
  <2>3. CASE Live(k) /\ m \in Resent(Client, k)
    <3>1. /\ m.to = Server /\ m.ag = k.irs /\ m.ack = k.rcv
          /\ "FIN" \in m.flags => k.state # "SynSent"
      BY <1>1, <2>3, Ends, ResentSegs
    <3> QED
      BY <1>2, <2>3, <3>1, AnswerIsOne DEF Says
  <2> QED
    BY <2>1, <2>2, <2>3
<1>4. conn[Server].state = "SynRcvd" /\ d.irs = conn[Server].tag => d.rcv = 1
  BY <1>2, AnswerIsOne
<1> QED
  BY <1>2, <1>3, <1>4 DEF ClientMoves

LEMMA RepeatsSender ==
  ASSUME TInv, TInv', Sender, NEW h \in Host, NEW d, Repeats(h, d)
  PROVE  Sender'
<1> DEFINE k == conn[h]
<1>1. k \in Conns /\ ConnShape(h, k, next_gen) /\ k.una <= k.nxt
  BY HostFacts
<1>2. /\ d \in Conns /\ conn' = [conn EXCEPT ![h] = d] /\ d.state = k.state /\ d.tag = k.tag
      /\ d.una = k.una /\ d.nxt = k.nxt /\ d.irs = k.irs /\ d.rcv = k.rcv /\ d.win = k.win
      /\ d.drained = k.drained /\ d.got = k.got /\ d.fin_sent = k.fin_sent
      /\ d.fin_acked = k.fin_acked /\ d.q = k.q
      /\ d.accepted = k.accepted \/ d.state # "SynRcvd"
      /\ (Live(d) <=> Live(k)) /\ wrote' = wrote /\ rushed' = rushed
  BY DEF Repeats, Alike, Live
<1>s. /\ d.state = k.state /\ d.tag = k.tag /\ d.irs = k.irs /\ (Live(d) <=> Live(k))
      /\ wrote' = wrote /\ rushed' = rushed
  BY <1>2
<1>3. ASSUME NEW m \in net', m \notin net
      PROVE  /\ m \in Segs /\ m.to = Peer(h)
             /\ m = Rst(h) \/ (Live(k) /\ m \in Resent(h, k))
  BY <1>1, <1>3, RstFacts, ResentSegs DEF Repeats
<1>4. ASSUME k.state \in {"SynSent", "SynRcvd"}, NEW m \in net', m \notin net
      PROVE  m.n = 0 /\ "FIN" \notin m.flags
  BY <1>1, <1>3, <1>4, RstFacts, ResentSegs
<1> HIDE DEF k
<1>5. ASSUME k.state \in {"SynSent", "SynRcvd"}, NEW g
      PROVE  DataIn(net', g) \subseteq DataIn(net, g) /\ FinsIn(net', g) \subseteq FinsIn(net, g)
  <2>1. \A m \in net' : m \in net \/ (m.n = 0 /\ "FIN" \notin m.flags)
    BY <1>4, <1>5
  <2> QED
    BY <2>1 DEF DataIn, FinsIn
<1>6. CASE h = Client
  <2>1. ClientMoves(d, conn[Client].irs)
    BY <1>6, RepeatsMoves
  <2>2. ClientInv(k, net, wrote, rushed)
    BY <1>6 DEF Sender, k
  <2>3. ASSUME k.state = "SynSent" PROVE ClientInv(d, net', wrote', rushed')
    <3>1. /\ Fresh(k, wrote[k.tag]) /\ k.rcv = 0 /\ k.got = <<>> /\ k.win = 0
          /\ DataIn(net, k.tag) = {} /\ FinsIn(net, k.tag) = {}
      BY <2>2, <2>3 DEF ClientInv, Live
    <3>2. Fresh(d, wrote[d.tag])
      BY <1>2, <3>1 DEF Fresh
    <3>3. DataIn(net', d.tag) = {} /\ FinsIn(net', d.tag) = {}
      BY <1>2, <1>5, <2>3, <3>1
    <3>4. d.rcv = 0 /\ d.got = <<>> /\ d.win = 0
      BY <1>2, <3>1
    <3> QED
      BY <1>s, <2>3, <3>2, <3>3, <3>4 DEF ClientInv
  <2>4. ASSUME Live(k) /\ k.state # "SynSent" /\ k.irs = 0 PROVE ClientInv(d, net', wrote', rushed')
    <3>1. Early(k, net, rushed)
      BY <2>2, <2>4 DEF ClientInv
    <3>2. EarlySender(k) /\ \A m \in DataIn(net, k.tag) : m.seq + m.n <= 1
      BY <3>1 DEF Early
    <3>3. EarlySender(d)
      BY <1>2, <3>2 DEF EarlySender
    <3>4. ASSUME NEW m \in DataIn(net', d.tag) PROVE m.seq + m.n <= 1
      <4>1. CASE m \in net
        BY <1>2, <3>2, <3>4, <4>1 DEF DataIn
      <4>2. CASE m \notin net
        <5>1. m \in net' /\ m.n > 0
          BY <3>4 DEF DataIn
        <5>2. m \in Resent(h, k) /\ m \in Segs
          BY <1>3, <4>2, <5>1, RstFacts
        <5>3. m.n <= k.q /\ m.seq = k.una
          BY <1>1, <5>1, <5>2, ResentSegs DEF k
        <5>4. k.una \in Nat /\ k.q \in Nat /\ m.n \in Nat /\ m.seq \in Nat
          BY <1>1, <5>2, ConnFields, Consts DEF Segs, k
        <5>5. (k.una = 0 => k.q <= 1) /\ (k.una > 0 => k.q = 0)
          BY <3>2 DEF EarlySender
        <5> QED
          BY <5>1, <5>3, <5>4, <5>5
      <4> QED
        BY <4>1, <4>2
    <3>5. Early(d, net', rushed')
      BY <1>2, <3>1, <3>3, <3>4 DEF Early, TookFin
    <3> QED
      BY <1>s, <2>4, <3>5 DEF ClientInv
  <2>5. ASSUME Live(k) /\ k.state # "SynSent" /\ k.irs # 0 PROVE ClientInv(d, net', wrote', rushed')
    <3>1. Proper(k, wrote[k.tag])
      BY <2>2, <2>5 DEF ClientInv
    <3>2. Proper(d, wrote[d.tag])
      BY <1>2, <3>1 DEF Proper
    <3> QED
      BY <1>s, <2>5, <3>2 DEF ClientInv
  <2>6. ASSUME ~Live(k) PROVE ClientInv(d, net', wrote', rushed')
    BY <1>s, <2>6 DEF ClientInv
  <2>7. ClientInv(d, net', wrote', rushed')
    BY <2>2, <2>3, <2>4, <2>5, <2>6 DEF Live
  <2> QED
    BY <2>1, <2>7, ClientStep
<1>7. CASE h = Server
  <2>1. \A m \in net' : m \in net \/ m.to = Client
    BY <1>3, <1>7, Ends
  <2>2. ServerInv(k, conn[Client], net, wrote)
    BY <1>7 DEF Sender, k
  <2>a. \A m \in net' : m.to = Server => m \in net
    BY <2>1, Ends
  <2>3. ASSUME k.state = "SynRcvd" PROVE ServerInv(d, conn[Client], net', wrote')
    <3>1. /\ Fresh(k, wrote[k.tag]) /\ k.q = 0 /\ ~k.accepted
          /\ DataIn(net, k.tag) = {} /\ FinsIn(net, k.tag) = {}
          /\ \A m \in net : m.to = Server /\ m.ag = k.tag => m.ack = 1
          /\ conn[Client].irs = k.tag => conn[Client].rcv = 1
      BY <2>2, <2>3 DEF ServerInv, Live
    <3>2. Fresh(d, wrote[d.tag])
      BY <1>2, <3>1 DEF Fresh
    <3>3. DataIn(net', d.tag) = {} /\ FinsIn(net', d.tag) = {}
      BY <1>2, <1>5, <2>3, <3>1
    <3>4. d.q = 0 /\ ~d.accepted
      BY <1>2, <2>3, <3>1
    <3>5. \A m \in net' : m.to = Server /\ m.ag = d.tag => m.ack = 1
      BY <1>s, <2>a, <3>1
    <3> QED
      BY <1>s, <2>3, <3>1, <3>2, <3>3, <3>4, <3>5 DEF ServerInv
  <2>4. ASSUME Live(k) /\ k.state # "SynRcvd" /\ Proper(k, wrote[k.tag])
       PROVE  ServerInv(d, conn[Client], net', wrote')
    <3>1. Proper(d, wrote[d.tag])
      BY <1>2, <2>4 DEF Proper
    <3> QED
      BY <1>s, <2>4, <3>1 DEF ServerInv
  <2>5. ASSUME Live(k) /\ k.state # "SynRcvd" /\ Mute(k, conn[Client], net)
       PROVE  ServerInv(d, conn[Client], net', wrote')
    <3>1. Mute(d, conn[Client], net')
      BY <1>2, <2>5, <2>a DEF Mute
    <3> QED
      BY <1>s, <2>5, <3>1 DEF ServerInv
  <2>6. ASSUME ~Live(k) PROVE ServerInv(d, conn[Client], net', wrote')
    BY <1>s, <2>6 DEF ServerInv
  <2>7. ServerInv(d, conn[Client], net', wrote')
    BY <2>2, <2>3, <2>4, <2>5, <2>6 DEF ServerInv
  <2> QED
    BY <1>2, <1>7, <2>1, <2>7, ServerStep
<1> QED
  BY <1>6, <1>7, Ends

LEMMA StopsSender ==
  ASSUME TInv, TInv', Sender, NEW h \in Host, NEW d, Stops(h, d)
  PROVE  Sender'
<1>1. /\ d \in Conns /\ conn' = [conn EXCEPT ![h] = d] /\ ~Live(d)
      /\ d.irs \in {0, conn[h].irs} /\ (d = NoConn \/ d.state = "Closed")
      /\ d = NoConn \/ d.got = conn[h].got
      /\ \A m \in net' : m \in net
      /\ wrote' = wrote /\ rushed' = rushed
  BY NoConnFacts DEF Stops
<1>2. d.state # "SynSent"
  BY <1>1 DEF Live
<1>3. CASE h = Server
  <2>1. ServerInv(d, conn[Client], net', wrote')
    BY <1>1 DEF ServerInv
  <2> QED
    BY <1>1, <1>3, <2>1, ServerStep
<1>4. CASE h = Client
  <2>1. ClientInv(d, net', wrote', rushed')
    BY <1>1 DEF ClientInv
  <2>2. conn[Server].state = "SynRcvd" /\ d.irs = conn[Server].tag => d.rcv = 1
    <3>1. ConnShape(Server, conn[Server], next_gen)
      BY Ends, HostFacts
    <3>2. conn[Server].state = "SynRcvd" => conn[Server].tag # 0
      BY <3>1, Ends DEF ConnShape
    <3> QED
      BY <1>4, <3>2, AnswerIsOne, NoConnFacts DEF Stops
  <2>3. ClientMoves(d, conn[Client].irs)
    BY <1>1, <1>2, <1>4, <2>2 DEF ClientMoves
  <2> QED
    BY <2>1, <2>3, ClientStep
<1> QED
  BY <1>3, <1>4, Ends

LEMMA SendsFacts ==
  ASSUME TInv, NEW h \in Host, NEW c, NEW n, Sends(h, c, n), NEW d, d = AfterOutput(c)
  PROVE  /\ c \in Conns /\ c.una <= c.nxt /\ Live(conn[h]) /\ Live(c) /\ conn[h].accepted
         /\ ~conn[h].fin_sent /\ ~c.fin_sent
         /\ c.tag = conn[h].tag /\ c.irs = conn[h].irs /\ c.rcv = conn[h].rcv
         /\ c.state = conn[h].state /\ c.una = conn[h].una /\ c.drained = conn[h].drained
         /\ c.nxt = conn[h].nxt /\ c.got = conn[h].got /\ c.win = conn[h].win
         /\ c.q = conn[h].q + n /\ n \in Nat
         /\ c.tag \in 1 .. MaxOpen /\ wrote'[c.tag] = wrote[c.tag] + n
         /\ \A g \in 1 .. MaxOpen : g # c.tag => wrote'[g] = wrote[g]
         /\ conn' = [conn EXCEPT ![h] = d]
         /\ \A m \in net' : m \in net \/ m \in Output(h, c)
<1>1. /\ conn[h] \in Conns /\ ConnShape(h, conn[h], next_gen) /\ conn[h].una <= conn[h].nxt
  BY HostFacts
<1>2. /\ c \in Conns /\ Live(conn[h]) /\ ~Released(conn[h]) /\ Alike(c, conn[h])
      /\ c.q = conn[h].q + n /\ n \in Nat
      /\ wrote' = [wrote EXCEPT ![conn[h].tag] = @ + n]
      /\ conn' = [conn EXCEPT ![h] = d] /\ net' = net \cup Output(h, c)
  BY DEF Sends
<1>3. conn[h].accepted /\ ~conn[h].app_closed /\ conn[h].state # "None"
  BY <1>2 DEF Released, Live
<1>4. ~conn[h].fin_sent
  BY <1>1, <1>3 DEF ConnShape
<1>5. conn[h].tag \in 1 .. MaxOpen /\ wrote \in [1 .. MaxOpen -> Nat]
  <2>1. conn[h].tag \in 1 .. next_gen - 1 /\ next_gen \in 1 .. MaxOpen + 1
    BY <1>3, Opened, TypesRest
  <2> QED
    BY <2>1, TypesRest, Consts
<1>6. /\ c.tag = conn[h].tag /\ c.irs = conn[h].irs /\ c.rcv = conn[h].rcv
      /\ c.state = conn[h].state /\ c.una = conn[h].una /\ c.drained = conn[h].drained
      /\ c.nxt = conn[h].nxt /\ c.got = conn[h].got /\ c.win = conn[h].win
  BY <1>2 DEF Alike
<1>7. ~c.fin_sent
  BY <1>2, <1>4 DEF Alike
<1>8. Live(c)
  BY <1>2, <1>6 DEF Live
<1>9. /\ wrote'[c.tag] = wrote[c.tag] + n
      /\ \A g \in 1 .. MaxOpen : g # c.tag => wrote'[g] = wrote[g]
  BY <1>2, <1>5, <1>6
<1> QED
  BY <1>1, <1>2, <1>3, <1>4, <1>5, <1>6, <1>7, <1>8, <1>9

LEMMA SendsProper ==
  ASSUME TInv, NEW h \in Host, NEW c, NEW n, Sends(h, c, n), NEW d, d = AfterOutput(c),
         Proper(conn[h], wrote[conn[h].tag])
  PROVE  Proper(c, wrote'[c.tag]) /\ Proper(d, wrote'[d.tag])
<1>1. /\ c \in Conns /\ c.una <= c.nxt /\ c.tag = conn[h].tag
      /\ ~conn[h].fin_sent /\ ~c.fin_sent /\ c.una = conn[h].una /\ c.drained = conn[h].drained
      /\ c.nxt = conn[h].nxt /\ c.q = conn[h].q + n /\ n \in Nat
      /\ wrote'[c.tag] = wrote[c.tag] + n
  BY SendsFacts
<1>2. /\ conn[h] \in Conns /\ conn[h].una \in Nat /\ conn[h].nxt \in Nat /\ conn[h].q \in Nat
      /\ conn[h].drained \in Nat
  <2>1. conn[h] \in Conns
    BY HostFacts
  <2> QED
    BY <2>1, NatFields
<1>3. c.fin_acked <=> conn[h].fin_acked
  BY DEF Sends, Alike
<1>4. /\ conn[h].una = conn[h].drained + 1 /\ ~conn[h].fin_acked
      /\ conn[h].drained + conn[h].q = wrote[conn[h].tag]
      /\ conn[h].nxt <= conn[h].una + conn[h].q
  BY <1>1, <1>2 DEF Proper
<1>5. /\ c.una = c.drained + 1 /\ ~c.fin_acked
      /\ c.drained + c.q = wrote'[c.tag] /\ c.nxt <= c.una + c.q
  BY <1>1, <1>2, <1>3, <1>4
<1>6. c.drained \in Nat
  BY <1>1, <1>2
<1>7. Proper(c, wrote'[c.tag])
  BY <1>1, <1>5, <1>6 DEF Proper
<1>8. Proper(d, wrote'[c.tag]) /\ d.tag = c.tag
  BY <1>1, <1>7, OutputProper, AfterOutputFacts
<1> QED
  BY <1>7, <1>8

LEMMA SendsSender ==
  ASSUME TInv, TInv', Sender, NEW h \in Host, NEW c, NEW n, Sends(h, c, n)
  PROVE  Sender'
<1> DEFINE d == AfterOutput(c)
<1>0. d = AfterOutput(c)
  OBVIOUS
<1> HIDE DEF d
<1>1. /\ c \in Conns /\ c.una <= c.nxt /\ Live(conn[h]) /\ Live(c) /\ conn[h].accepted
      /\ ~conn[h].fin_sent /\ ~c.fin_sent
      /\ c.tag = conn[h].tag /\ c.irs = conn[h].irs /\ c.rcv = conn[h].rcv
      /\ c.state = conn[h].state
      /\ c.tag \in 1 .. MaxOpen /\ wrote'[c.tag] = wrote[c.tag] + n
      /\ \A g \in 1 .. MaxOpen : g # c.tag => wrote'[g] = wrote[g]
      /\ conn' = [conn EXCEPT ![h] = d]
      /\ \A m \in net' : m \in net \/ m \in Output(h, c)
  BY <1>0, SendsFacts
<1>2. /\ d \in Conns /\ d.una <= d.nxt /\ d.tag = c.tag /\ d.irs = c.irs /\ d.rcv = c.rcv
      /\ d.una = c.una /\ d.drained = c.drained /\ d.got = c.got /\ d.win = c.win
      /\ d.state = IF ~SendsFin(c) THEN c.state
                   ELSE IF c.state = "CloseWait" THEN "LastAck" ELSE "FinWait1"
  BY <1>0, <1>1, AfterOutputFacts
<1>3. d.state = c.state \/ d.state \in {"LastAck", "FinWait1"}
  BY <1>2
<1>4. Live(d)
  BY <1>1, <1>3 DEF Live
<1>5. ConnShape(h, conn[h], next_gen) /\ conn[h] \in Conns
  BY HostFacts
<1>6. CASE h = Client
  <2>0. ClientInv(conn[h], net, wrote, rushed) /\ c.tag = 1
    BY <1>1, <1>5, <1>6 DEF Sender, ConnShape, Live
  <2>1. ClientMoves(d, conn[Client].irs)
    <3>1. ASSUME NEW m \in net', m \notin net
          PROVE  /\ Says(m, conn[Client].irs, conn[Server])
                 /\ m.ag = conn[Client].irs
                 /\ "FIN" \in m.flags => d.state # "SynSent"
      <4>1. m \in Output(h, c)
        BY <1>1, <3>1
      <4>2. /\ m.to = Server /\ m.ag = c.irs /\ m.ack = c.rcv
            /\ "FIN" \in m.flags => SendsFin(c)
        BY <1>1, <1>6, <4>1, OutputSegs, Ends
      <4>3. SendsFin(c) => d.state # "SynSent"
        BY <1>2
      <4> QED
        BY <1>1, <1>6, <4>2, <4>3, AnswerIsOne DEF Says
    <3>2. conn[Server].state = "SynRcvd" /\ d.irs = conn[Server].tag => d.rcv = 1
      BY <1>1, <1>2, <1>6, AnswerIsOne
    <3>3. \A g \in 2 .. MaxOpen : wrote'[g] = wrote[g]
      BY <1>1, <2>0
    <3>4. d.state = "SynSent" => conn[Client].state = "SynSent"
      BY <1>1, <1>3, <1>6
    <3> QED
      BY <1>1, <1>2, <1>6, <3>1, <3>2, <3>3, <3>4 DEF ClientMoves
  <2>2. ASSUME c.state = "SynSent" PROVE ClientInv(d, net', wrote', rushed')
    <3>1. /\ Fresh(conn[h], wrote[c.tag]) /\ conn[h].rcv = 0 /\ conn[h].got = <<>>
          /\ conn[h].win = 0
          /\ DataIn(net, c.tag) = {} /\ FinsIn(net, c.tag) = {}
      BY <1>1, <2>0, <2>2 DEF ClientInv
    <3>2. Fresh(c, wrote'[c.tag]) /\ c.win = 0 /\ c.got = <<>> /\ c.rcv = 0
      <4>1. /\ c.una = conn[h].una /\ c.drained = conn[h].drained
            /\ c.nxt = conn[h].nxt /\ c.q = conn[h].q + n /\ c.win = conn[h].win
            /\ c.got = conn[h].got
        BY SendsFacts
      <4>2. c.fin_acked <=> conn[h].fin_acked
        BY DEF Sends, Alike
      <4> QED
        BY <1>1, <3>1, <4>1, <4>2 DEF Fresh
    <3>3. /\ ~SendsFin(c) => Fresh(d, wrote'[c.tag]) /\ d.state = "SynSent" /\ Output(h, c) = {}
          /\ SendsFin(c) => /\ EarlySender(d) /\ d.state = "FinWait1"
                            /\ \A m \in Output(h, c) : m.n = 0 /\ m.seq = 1
      BY <1>0, <1>1, <2>2, <3>2, FreshOutput
    <3>4. CASE ~SendsFin(c)
      <4>1. \A m \in net' : m \in net
        BY <1>1, <3>3, <3>4
      <4>2. DataIn(net', d.tag) = {} /\ FinsIn(net', d.tag) = {}
        BY <1>2, <3>1, <4>1 DEF DataIn, FinsIn
      <4>3. d.rcv = 0 /\ d.got = <<>> /\ d.win = 0 /\ d.state = "SynSent"
            /\ Fresh(d, wrote'[d.tag])
        BY <1>2, <3>2, <3>3, <3>4
      <4> QED
        BY <4>2, <4>3 DEF ClientInv
    <3>5. CASE SendsFin(c)
      <4>1. EarlySender(d) /\ d.state = "FinWait1" /\ d.irs = 0 /\ d.rcv = 0 /\ d.got = <<>>
        BY <1>1, <1>2, <1>5, <1>6, <2>2, <3>2, <3>3, <3>5 DEF ConnShape
      <4>2. d.tag \in rushed'
        BY <1>2, <2>2, <3>5 DEF Sends, SendsFin
      <4>3. DataIn(net', d.tag) = {}
        BY <1>1, <1>2, <3>1, <3>3, <3>5 DEF DataIn
      <4>4. Early(d, net', rushed')
        BY <4>1, <4>2, <4>3 DEF Early, TookFin
      <4> QED
        BY <4>1, <4>4 DEF ClientInv
    <3> QED
      BY <3>4, <3>5
  <2>3. ASSUME c.state # "SynSent" PROVE ClientInv(d, net', wrote', rushed')
    <3>1. c.irs # 0
      BY <1>1, <2>0, <2>3 DEF ClientInv, Early, EarlySender
    <3>2. Proper(conn[h], wrote[conn[h].tag])
      BY <1>1, <2>0, <2>3, <3>1 DEF ClientInv
    <3>3. Proper(d, wrote'[d.tag])
      BY <1>0, <3>2, SendsProper
    <3>4. d.state # "SynSent"
      BY <1>3, <2>3
    <3> QED
      BY <1>2, <3>1, <3>3, <3>4 DEF ClientInv
  <2> QED
    BY <2>1, <2>2, <2>3, ClientStep
<1>7. CASE h = Server
  <2>0. ServerInv(conn[h], conn[Client], net, wrote) /\ c.tag # 1
    BY <1>1, <1>5, <1>7, Ends DEF Sender, ConnShape, Live
  <2>1. \A m \in net' : m \in net \/ m.to = Client
    BY <1>1, <1>7, OutputSegs, Ends
  <2>2. c.state # "SynRcvd" /\ d.state # "SynRcvd"
    BY <1>1, <1>3, <2>0 DEF ServerInv
  <2>3. ASSUME Proper(conn[h], wrote[conn[h].tag]) PROVE ServerInv(d, conn[Client], net', wrote')
    <3>1. Proper(d, wrote'[d.tag])
      BY <1>0, <2>3, SendsProper
    <3> QED
      BY <2>2, <3>1 DEF ServerInv
  <2>4. ASSUME Mute(conn[h], conn[Client], net) PROVE ServerInv(d, conn[Client], net', wrote')
    <3>1. c.una = 0 /\ c.drained = 0 /\ c.nxt > 0
      BY <2>4, SendsFacts DEF Mute
    <3>2. d.nxt > 0
      <4>1. d.nxt = IF MaySend(c)
                    THEN c.una + SendLimit(c) + (IF SendsFin(c) THEN 1 ELSE 0) ELSE c.nxt
        BY <1>0, <1>1, AfterOutputFacts
      <4>2. SendLimit(c) \in Nat /\ SendLimit(c) >= c.nxt - c.una
        BY <1>1, LimitFacts
      <4>3. c.nxt \in Nat
        BY <1>1, ConnFields
      <4> QED
        BY <3>1, <4>1, <4>2, <4>3
    <3>3. Mute(d, conn[Client], net')
      BY <1>1, <1>2, <2>1, <2>4, <3>1, <3>2, Ends DEF Mute
    <3> QED
      BY <2>2, <3>3 DEF ServerInv
  <2>5. ServerInv(d, conn[Client], net', wrote')
    BY <1>1, <2>0, <2>2, <2>3, <2>4 DEF ServerInv
  <2>6. wrote'[1] = wrote[1]
    BY <1>1, <2>0, Consts
  <2>7. rushed \subseteq rushed'
    BY DEF Sends
  <2> QED
    BY <1>1, <1>2, <1>7, <2>1, <2>5, <2>6, <2>7, ServerStep
<1> QED
  BY <1>6, <1>7, Ends

\* What a segment does to its connection k, which becomes b and, after
\* tcp_output, d.
Gets(h, m, k, b, d) ==
  /\ k \in Conns /\ k.una <= k.nxt /\ ConnShape(h, k, next_gen)
  /\ m \in net /\ m \in Segs /\ m.to = h /\ SegShape(m, next_gen)
  /\ "RST" \notin m.flags /\ ("FIN" \in m.flags => m.n = 0 /\ "ACK" \in m.flags)
  /\ Live(k) /\ k.state # "SynSent"
  /\ b = Absorbed(k, m) /\ b \in Conns /\ b.una <= b.nxt /\ ConnShape(h, b, next_gen)
  /\ Live(b) \/ b.fin_sent
  /\ b.tag = k.tag /\ b.irs = k.irs /\ b.nxt = k.nxt
  /\ d = AfterOutput(b) /\ d \in Conns /\ d.tag = k.tag /\ d.irs = k.irs /\ d.rcv = b.rcv
  /\ d.una = b.una /\ d.drained = b.drained /\ d.got = b.got /\ d.q = b.q /\ d.state # "None"
  /\ d.accepted = b.accepted
  /\ d.state = b.state \/ (SendsFin(b) /\ d.state \in {"LastAck", "FinWait1"})

LEMMA GetsFacts ==
  ASSUME TInv, NEW h \in Host, NEW m \in Inbox(h), NEW dup \in BOOLEAN, RecvSegment(h, m, dup)
  PROVE  \E b, d :
           /\ Gets(h, m, conn[h], b, d)
           /\ conn' = [conn EXCEPT ![h] = Reaped(d)]
           /\ \A k \in net' : \/ k \in net \/ k \in Output(h, b)
                              \/ k = Seg(h, d, {"ACK"}, d.nxt, 0, 0)
           /\ taken' = IF b.irs = 0 THEN taken
                       ELSE [taken EXCEPT ![b.irs] = Most(@, Len(b.got))]
           /\ UNCHANGED <<wrote, rushed>>
<1> DEFINE k == conn[h]
           b == Absorbed(k, m)
           d == AfterOutput(b)
           a == TakeAck(TakeWindow(k, m), m)
<1>1. /\ k \in Conns /\ ConnShape(h, k, next_gen) /\ k.una <= k.nxt /\ next_gen \in Nat
      /\ m \in Segs /\ SegShape(m, next_gen) /\ m \in net /\ m.to = h
  BY HostFacts, InboxFacts
<1>2. /\ b = Absorbed(k, m) /\ d = AfterOutput(b) /\ a = TakeAck(TakeWindow(k, m), m)
  OBVIOUS
<1>3. /\ Live(k) /\ k.state # "SynSent" /\ "RST" \notin m.flags
      /\ conn' = [conn EXCEPT ![h] = Reaped(d)]
      /\ \A o \in net' : \/ o \in net \/ o \in Output(h, b)
                         \/ o = Seg(h, d, {"ACK"}, d.nxt, 0, 0)
      /\ taken' = IF b.irs = 0 THEN taken
                  ELSE [taken EXCEPT ![b.irs] = Most(@, Len(b.got))]
      /\ UNCHANGED <<wrote, rushed>>
  BY RecvSegmentDoes
<1> HIDE DEF k, b, d, a
<1>4. "FIN" \in m.flags => m.n = 0 /\ "ACK" \in m.flags
  BY <1>1 DEF SegShape
<1>5. /\ b \in Conns /\ ConnShape(h, b, next_gen) /\ b.state # "None" /\ (Live(b) \/ b.fin_sent)
  BY <1>1, <1>2, <1>3, <1>4, AbsorbedShape
<1>6. b.tag = k.tag /\ b.irs = k.irs /\ b.nxt = k.nxt /\ b.una <= b.nxt
  <2>1. b.tag = a.tag /\ b.irs = a.irs /\ b.nxt = a.nxt /\ b.una <= b.nxt
    BY <1>1, <1>2, <1>4, AbsorbedFacts
  <2>2. a.tag = k.tag /\ a.irs = k.irs /\ a.nxt = k.nxt
    BY <1>1, <1>2, AckFacts
  <2> QED
    BY <2>1, <2>2
<1>7. /\ d \in Conns /\ d.tag = b.tag /\ d.irs = b.irs /\ d.rcv = b.rcv /\ d.got = b.got
      /\ d.una = b.una /\ d.drained = b.drained /\ d.q = b.q /\ d.accepted = b.accepted
      /\ d.state = IF ~SendsFin(b) THEN b.state
                   ELSE IF b.state = "CloseWait" THEN "LastAck" ELSE "FinWait1"
  BY <1>2, <1>5, <1>6, AfterOutputFacts
<1>8. /\ d.state # "None"
      /\ d.state = b.state \/ (SendsFin(b) /\ d.state \in {"LastAck", "FinWait1"})
  BY <1>5, <1>7
<1>9. Gets(h, m, k, b, d)
  BY <1>1, <1>2, <1>3, <1>4, <1>5, <1>6, <1>7, <1>8 DEF Gets
<1> QED
  BY <1>3, <1>9 DEF k

\* What it does to what was received.
LEMMA GetsTakes ==
  ASSUME NEW h \in Host, NEW m, NEW k, NEW b, NEW d, Gets(h, m, k, b, d),
         NEW a, a = TakeAck(TakeWindow(k, m), m)
  PROVE  /\ \/ /\ Accepts(k, m)
               /\ b.rcv = k.rcv + m.n /\ b.got = k.got \o Payload(m)
               /\ b.state = a.state
            \/ /\ "FIN" \in m.flags /\ m.sg = k.irs /\ m.seq = k.rcv
               /\ b.rcv = k.rcv + 1 /\ b.got = k.got /\ b.state = AfterFin(a.state)
            \/ b.rcv = k.rcv /\ b.got = k.got /\ b.state = a.state
         /\ b.una = a.una /\ b.drained = a.drained /\ b.q = a.q /\ a.state \in State \cup {"None"}
         /\ b.fin_sent = a.fin_sent /\ b.fin_acked = a.fin_acked /\ b.accepted = a.accepted
         /\ a.fin_sent = k.fin_sent /\ a.accepted = k.accepted
<1>1. /\ k \in Conns /\ k.una <= k.nxt /\ m \in Segs /\ ("FIN" \in m.flags => m.n = 0)
      /\ b = Absorbed(k, m)
  BY DEF Gets
<1>2. /\ a \in Conns /\ a.fin_sent = k.fin_sent /\ a.accepted = k.accepted
  BY <1>1, AckFacts
<1>3. a.state \in State \cup {"None"}
  BY <1>2, ConnFields
<1>4.       \/ /\ Accepts(k, m)
               /\ b.rcv = k.rcv + m.n /\ b.got = k.got \o Payload(m)
               /\ b.state = a.state
            \/ /\ "FIN" \in m.flags /\ m.sg = k.irs /\ m.seq = k.rcv
               /\ b.rcv = k.rcv + 1 /\ b.got = k.got /\ b.state = AfterFin(a.state)
            \/ b.rcv = k.rcv /\ b.got = k.got /\ b.state = a.state
  BY <1>1, AbsorbedFacts
<1>5. /\ b.una = a.una /\ b.drained = a.drained /\ b.q = a.q
      /\ b.fin_sent = a.fin_sent /\ b.fin_acked = a.fin_acked /\ b.accepted = a.accepted
  BY <1>1, AbsorbedFacts
<1> QED
  BY <1>2, <1>3, <1>4, <1>5

\* What it says in answer.
LEMMA GetsSays ==
  ASSUME NEW h \in Host, NEW m, NEW k, NEW b, NEW d, Gets(h, m, k, b, d),
         NEW o, o \in Output(h, b) \/ o = Seg(h, d, {"ACK"}, d.nxt, 0, 0)
  PROVE  /\ o \in Segs /\ o.to = Peer(h) /\ o.sg = k.tag /\ o.ag = k.irs /\ o.ack = b.rcv
         /\ "FIN" \in o.flags \/ o.n > 0 => o \in Output(h, b) /\ MaySend(b)
         /\ "FIN" \in o.flags => SendsFin(b)
<1>1. /\ b \in Conns /\ b.una <= b.nxt /\ d \in Conns /\ d.tag = k.tag /\ d.irs = k.irs
      /\ d.rcv = b.rcv /\ b.tag = k.tag /\ b.irs = k.irs
  BY DEF Gets
<1>2. CASE o \in Output(h, b)
  <2>1. /\ o \in Segs /\ o.to = Peer(h) /\ o.sg = b.tag /\ o.ag = b.irs /\ o.ack = b.rcv
        /\ MaySend(b) /\ ("FIN" \in o.flags => SendsFin(b))
    BY <1>1, <1>2, OutputSegs
  <2> QED
    BY <1>1, <1>2, <2>1
<1>3. CASE o = Seg(h, d, {"ACK"}, d.nxt, 0, 0)
  <2>1. d.nxt \in Nat
    BY <1>1, ConnFields
  <2>2. /\ o \in Segs /\ o.to = Peer(h) /\ o.flags = {"ACK"} /\ o.sg = d.tag /\ o.ag = d.irs
        /\ o.ack = d.rcv /\ o.n = 0
    BY <1>1, <1>3, <2>1, SegFacts
  <2> QED
    BY <1>1, <2>2
<1> QED
  BY <1>2, <1>3

LEMMA AckState ==
  ASSUME NEW k \in Conns, k.una <= k.nxt, NEW m \in Segs, k.state # "SynSent",
         NEW a, a = TakeAck(TakeWindow(k, m), m)
  PROVE  /\ a.state # "SynSent"
         /\ a.state = "SynRcvd" <=>
              k.state = "SynRcvd" /\ ~("ACK" \in m.flags /\ m.ag = k.tag /\ m.ack = k.nxt)
         /\ k.state = "SynRcvd" => a.state \in {"SynRcvd", "Established"}
         /\ TookFin(a) => TookFin(k)
         /\ TookFin(k) /\ a.state # "Closed" => TookFin(a)
<1> DEFINE w == TakeWindow(k, m).state
<1>1. w = IF k.state = "SynRcvd" /\ "ACK" \in m.flags /\ m.ag = k.tag /\ m.ack = k.nxt
          THEN "Established" ELSE k.state
  BY DEF TakeWindow, Conns
<1>2. /\ ~NewAck(k, m) => a.state = w
      /\ NewAck(k, m) =>
            a.state = CASE AcksFin(k, m) /\ w = "FinWait1" -> "FinWait2"
                             [] AcksFin(k, m) /\ w = "Closing" -> "TimeWait"
                             [] AcksFin(k, m) /\ w = "LastAck" -> "Closed"
                             [] OTHER -> w
  BY AckFacts
<1> HIDE DEF w
<1>3. \/ a.state = w
      \/ w = "FinWait1" /\ a.state = "FinWait2"
      \/ w = "Closing" /\ a.state = "TimeWait"
      \/ w = "LastAck" /\ a.state = "Closed"
  BY <1>2
<1> QED
  BY <1>1, <1>3 DEF TookFin

\* The client's half of a segment it gets.
LEMMA GetsMoves ==
  ASSUME TInv, Sender, NEW m, NEW b, NEW d, Gets(Client, m, conn[Client], b, d),
         conn' = [conn EXCEPT ![Client] = Reaped(d)],
         \A o \in net' : \/ o \in net \/ o \in Output(Client, b)
                         \/ o = Seg(Client, d, {"ACK"}, d.nxt, 0, 0),
         UNCHANGED <<wrote, rushed>>
  PROVE  ClientMoves(Reaped(d), conn[Client].irs) /\ d.state # "SynSent"
<1> DEFINE k == conn[Client]
           i == conn[Client].irs
           s == conn[Server]
<1>1. /\ k \in Conns /\ k.una <= k.nxt /\ m \in net /\ m \in Segs /\ Live(k) /\ k.state # "SynSent"
      /\ d \in Conns /\ d.irs = i /\ d.rcv = b.rcv
      /\ d.state = b.state \/ d.state \in {"LastAck", "FinWait1"}
      /\ SendsFin(b) \/ d.state = b.state
  BY DEF Gets
<1> HIDE DEF k
<1>2. PICK a : a = TakeAck(TakeWindow(k, m), m)
  OBVIOUS
<1>3. /\ \/ Accepts(k, m) /\ b.state = a.state
         \/ "FIN" \in m.flags /\ m.sg = i /\ b.state = AfterFin(a.state)
         \/ b.rcv = k.rcv /\ b.state = a.state
      /\ a.state # "SynSent"
  BY <1>1, <1>2, GetsTakes, AckState, Ends DEF k
<1>4. d.state # "SynSent"
  BY <1>1, <1>3 DEF AfterFin
<1>5. ASSUME s.state = "SynRcvd", i = s.tag PROVE b.rcv = 1
  <2>1. k.rcv = 1
    BY <1>5, AnswerIsOne DEF k
  <2>2. DataIn(net, s.tag) = {} /\ FinsIn(net, s.tag) = {}
    BY <1>5 DEF Sender, ServerInv, Live
  <2>3. ~Accepts(k, m)
    BY <1>1, <1>5, <2>2 DEF Accepts, InOrder, DataIn, k
  <2>4. ~("FIN" \in m.flags /\ m.sg = i)
    BY <1>1, <1>5, <2>2 DEF FinsIn
  <2> QED
    BY <1>3, <2>1, <2>3, <2>4
<1>6. Reaped(d) \in {d, NoConn}
  BY DEF Reaped
<1>7. s.state = "SynRcvd" /\ Reaped(d).irs = s.tag => Reaped(d).rcv = 1
  <2>1. ConnShape(Server, conn[Server], next_gen)
    BY Ends, HostFacts
  <2>2. s.state = "SynRcvd" => s.tag # 0
    BY <2>1, Ends DEF ConnShape
  <2>3. CASE Reaped(d) = d
    BY <1>1, <1>5, <2>3
  <2>4. CASE Reaped(d) = NoConn
    BY <2>2, <2>4, NoConnFacts
  <2> QED
    BY <1>6, <2>3, <2>4
<1>8. ASSUME NEW o \in net', o \notin net
      PROVE  Says(o, i, s) /\ o.ag = i
  <2>1. o.to = Server /\ o.ag = i /\ o.ack = b.rcv
    BY <1>8, GetsSays, Ends
  <2> QED
    BY <1>5, <2>1 DEF Says
<1>9. /\ Reaped(d) \in Conns /\ Reaped(d).irs \in {0, i} /\ Reaped(d).state # "SynSent"
      /\ (Live(Reaped(d)) => Reaped(d).irs = i)
  BY <1>1, <1>4, <1>6, NoConnFacts DEF Live
<1> HIDE DEF s
<1>10. ClientMoves(Reaped(d), i)
  BY <1>1, <1>7, <1>8, <1>9 DEF ClientMoves, k, s
<1> QED
  BY <1>4, <1>10

LEMMA GetsClient ==
  ASSUME TInv, Sender, NEW m, NEW b, NEW d, Gets(Client, m, conn[Client], b, d),
         d.state # "SynSent",
         \A o \in net' : \/ o \in net \/ o \in Output(Client, b)
                         \/ o = Seg(Client, d, {"ACK"}, d.nxt, 0, 0),
         UNCHANGED <<wrote, rushed>>
  PROVE  ClientInv(d, net', wrote', rushed')
<1> DEFINE k == conn[Client]
<1>1. /\ k \in Conns /\ k.una <= k.nxt /\ m \in Segs /\ Live(k) /\ k.state # "SynSent"
      /\ m.to = Client /\ SegShape(m, next_gen) /\ "RST" \notin m.flags
      /\ ("FIN" \in m.flags => m.n = 0)
      /\ b = Absorbed(k, m) /\ b \in Conns /\ b.una <= b.nxt /\ b.tag = k.tag
      /\ d = AfterOutput(b) /\ d.tag = k.tag /\ d.irs = k.irs /\ d.rcv = b.rcv /\ d.got = b.got
      /\ d.state = b.state \/ SendsFin(b)
  BY DEF Gets
<1>2. ClientInv(k, net, wrote, rushed)
  BY DEF Sender
<1> HIDE DEF k
<1>3. ASSUME k.irs = 0 PROVE Early(d, net', rushed')
  <2>1. Early(k, net, rushed) /\ EarlySender(k)
    BY <1>1, <1>2, <1>3 DEF ClientInv, Early
  <2>2. EarlySender(b) /\ b.fin_sent
    BY <1>1, <2>1, AbsorbedEarly DEF EarlySender
  <2>3. ~MaySend(b) /\ ~SendsFin(b)
    BY <2>2 DEF MaySend, SendsFin
  <2>4. EarlySender(d)
    <3>1. /\ d.una = b.una /\ d.q = b.q /\ d.drained = b.drained /\ d.nxt = b.nxt
          /\ d.fin_acked = b.fin_acked /\ d.fin_sent = (b.fin_sent \/ SendsFin(b))
      BY <1>1, <2>3, AfterOutputFacts
    <3>2. d.fin_sent
      BY <2>2, <3>1
    <3> QED
      BY <2>2, <3>1, <3>2 DEF EarlySender
  <2>5. PICK a : a = TakeAck(TakeWindow(k, m), m)
    OBVIOUS
  <2>6. m.sg # 0
    BY <1>1, Ends DEF SegShape
  <2>7. b.rcv = k.rcv /\ b.got = k.got /\ b.state = a.state
    <3>1. ~Accepts(k, m)
      BY <1>3, <2>6 DEF Accepts, InOrder
    <3> QED
      BY <1>3, <2>5, <2>6, <3>1, GetsTakes, Ends DEF k
  <2>8. ~TookFin(d) /\ d.rcv = 0 /\ d.got = <<>>
    <3>1. TookFin(a) => TookFin(k)
      BY <1>1, <2>5, AckState
    <3> QED
      BY <1>1, <2>1, <2>3, <2>7, <3>1 DEF TookFin, Early
  <2>9. \A o \in DataIn(net', d.tag) : o.seq + o.n <= 1
    <3>1. ASSUME NEW o \in DataIn(net', d.tag) PROVE o \in net
      <4>1. o \in net' /\ o.n > 0
        BY <3>1 DEF DataIn
      <4> QED
        BY <2>3, <4>1, GetsSays, Ends
    <3> QED
      BY <1>1, <2>1, <3>1 DEF Early, DataIn
  <2> QED
    BY <1>1, <2>1, <2>4, <2>8, <2>9 DEF Early
<1>4. ASSUME k.irs # 0 PROVE Proper(d, wrote'[d.tag])
  <2>1. Proper(k, wrote[k.tag])
    BY <1>1, <1>2, <1>4 DEF ClientInv
  <2>2. Proper(b, wrote[k.tag])
    BY <1>1, <2>1, AbsorbedProper
  <2> QED
    BY <1>1, <2>2, OutputProper
<1> QED
  BY <1>1, <1>3, <1>4 DEF ClientInv

\* The server's half; a FIN before the connection is open makes it mute.
LEMMA GetsServer ==
  ASSUME TInv, Sender, NEW m, NEW b, NEW d, Gets(Server, m, conn[Server], b, d),
         \A o \in net' : \/ o \in net \/ o \in Output(Server, b)
                         \/ o = Seg(Server, d, {"ACK"}, d.nxt, 0, 0),
         UNCHANGED <<wrote, rushed>>
  PROVE  ServerInv(d, conn[Client], net', wrote')
<1> DEFINE k == conn[Server]
           l == conn[Client]
<1>1. /\ k \in Conns /\ k.una <= k.nxt /\ m \in Segs /\ Live(k) /\ k.state # "SynSent"
      /\ m \in net /\ m.to = Server /\ SegShape(m, next_gen) /\ "RST" \notin m.flags
      /\ ("FIN" \in m.flags => m.n = 0 /\ "ACK" \in m.flags)
      /\ b = Absorbed(k, m) /\ b \in Conns /\ b.una <= b.nxt /\ b.tag = k.tag
      /\ d = AfterOutput(b) /\ d.tag = k.tag /\ d.irs = k.irs /\ d.rcv = b.rcv
      /\ d.accepted = b.accepted
      /\ d.una = b.una /\ d.drained = b.drained /\ d.q = b.q
      /\ d.state = b.state \/ (SendsFin(b) /\ d.state \in {"LastAck", "FinWait1"})
      /\ ConnShape(Server, k, next_gen) /\ ConnShape(Server, b, next_gen)
  BY DEF Gets
<1>2. ServerInv(k, l, net, wrote) /\ AgInv(l, net)
  BY DEF Sender
<1>3. \A o \in net' : o.to = Server => o \in net
  BY GetsSays, Ends
<1>4. \A o \in net' : o \in net \/ (o.n = 0 /\ "FIN" \notin o.flags) \/ MaySend(b)
  <2>1. ASSUME NEW o \in net', o \notin net
        PROVE  (o.n = 0 /\ "FIN" \notin o.flags) \/ MaySend(b)
    <3>1. /\ o \in Segs /\ ("FIN" \in o.flags \/ o.n > 0 => MaySend(b))
      BY <2>1, GetsSays, Ends
    <3>2. o.n \in Nat
      BY <3>1, Consts DEF Segs
    <3> QED
      BY <3>1, <3>2
  <2> QED
    BY <2>1
<1> HIDE DEF k, l
<1>a. PICK a : a = TakeAck(TakeWindow(k, m), m)
  OBVIOUS
<1>5. /\ a.state = "SynRcvd" <=>
           k.state = "SynRcvd" /\ ~("ACK" \in m.flags /\ m.ag = k.tag /\ m.ack = k.nxt)
      /\ k.state = "SynRcvd" => a.state \in {"SynRcvd", "Established"}
  BY <1>1, <1>a, AckState
<1>6. /\ \/ b.state = a.state
         \/ "FIN" \in m.flags /\ m.sg = k.irs /\ b.state = AfterFin(a.state)
      /\ b.una = a.una /\ b.drained = a.drained /\ b.q = a.q
  BY <1>a, GetsTakes, Ends DEF k
<1>7. d.nxt > 0 \/ b.nxt = 0
  <2>1. d.nxt = IF MaySend(b)
                THEN b.una + SendLimit(b) + (IF SendsFin(b) THEN 1 ELSE 0) ELSE b.nxt
    BY <1>1, AfterOutputFacts
  <2>2. /\ SendLimit(b) \in Nat /\ SendLimit(b) >= InFlight(b) /\ InFlight(b) = b.nxt - b.una
        /\ b.nxt \in Nat /\ b.una \in Nat
    BY <1>1, LimitFacts, ConnFields
  <2> QED
    BY <2>1, <2>2
<1>8. ASSUME Proper(b, wrote[k.tag]), d.state # "SynRcvd" PROVE ServerInv(d, l, net', wrote')
  <2>1. Proper(d, wrote[k.tag])
    BY <1>1, <1>8, OutputProper
  <2> QED
    BY <1>1, <1>8, <2>1 DEF ServerInv
<1>9. ASSUME k.state # "SynRcvd" PROVE d.state # "SynRcvd"
  <2>1. a.state # "SynRcvd" /\ b.state # "SynRcvd"
    BY <1>5, <1>6, <1>9 DEF AfterFin
  <2> QED
    BY <1>1, <2>1
<1>10. CASE k.state # "SynRcvd" /\ Proper(k, wrote[k.tag])
  BY <1>1, <1>8, <1>9, <1>10, AbsorbedProper DEF l
<1>11. CASE k.state # "SynRcvd" /\ Mute(k, l, net)
  <2>1. k.una = 0 /\ k.drained = 0 /\ k.nxt > 0 /\ m.ag # k.tag
    BY <1>1, <1>11 DEF Mute
  <2>2. a.una = 0 /\ a.drained = 0 /\ b.nxt = k.nxt
    <3>1. ~NewAck(k, m)
      BY <2>1 DEF NewAck
    <3>2. b.nxt = k.nxt
      BY DEF Gets, k
    <3> QED
      BY <1>1, <1>a, <2>1, <3>1, <3>2, AckFacts
  <2>3. k.nxt \in Nat
    BY <1>1, ConnFields
  <2>4. d.una = 0 /\ d.drained = 0 /\ d.nxt > 0
    BY <1>1, <1>6, <1>7, <2>1, <2>2, <2>3
  <2>5. Mute(d, l, net')
    BY <1>1, <1>3, <1>11, <2>4 DEF Mute
  <2> QED
    BY <1>9, <1>11, <2>5 DEF ServerInv, l
<1>12. CASE k.state = "SynRcvd"
  <2>1. /\ Fresh(k, wrote[k.tag]) /\ k.q = 0 /\ ~k.accepted
        /\ DataIn(net, k.tag) = {} /\ FinsIn(net, k.tag) = {}
        /\ \A o \in net : o.to = Server /\ o.ag = k.tag => o.ack = 1
        /\ l.irs = k.tag => l.rcv = 1
    BY <1>1, <1>2, <1>12 DEF ServerInv
  <2>2. /\ k.una = 0 /\ k.nxt = 1 /\ k.drained = 0 /\ k.q = wrote[k.tag]
        /\ ~k.fin_sent /\ ~k.fin_acked
    BY <2>1 DEF Fresh
  <2>3. /\ a.fin_sent = k.fin_sent /\ a.accepted = k.accepted /\ a.nxt = k.nxt
        /\ ~NewAck(k, m) => /\ a.una = k.una /\ a.q = k.q /\ a.drained = k.drained
                            /\ a.fin_acked = k.fin_acked
        /\ NewAck(k, m) => /\ a.una = m.ack /\ a.q = k.q - Drained(k, m)
                           /\ a.drained = k.drained + Drained(k, m)
                           /\ Drained(k, m) \in Nat /\ Drained(k, m) <= k.q
                           /\ a.fin_acked = (k.fin_acked \/ AcksFin(k, m))
    BY <1>1, <1>a, AckFacts
  <2>4. ~AcksFin(k, m)
    BY <2>2 DEF AcksFin
  <2>5. ~a.fin_sent /\ ~a.accepted /\ ~a.fin_acked /\ a.q = 0 /\ a.drained = 0
    <3>1. ~a.fin_sent /\ ~a.accepted
      BY <2>1, <2>2, <2>3
    <3>2. ~a.fin_acked
      <4>1. (k.fin_acked \/ AcksFin(k, m)) = FALSE /\ k.fin_acked = FALSE
        <5>1. k.fin_acked \in BOOLEAN
          BY <1>1, ConnFields
        <5> QED
          BY <2>2, <2>4, <5>1
      <4> QED
        BY <2>3, <4>1
    <3>3. a.q = 0 /\ a.drained = 0
      BY <2>1, <2>2, <2>3
    <3> QED
      BY <3>1, <3>2, <3>3
  <2>6. NewAck(k, m) => "ACK" \in m.flags /\ m.ag = k.tag /\ m.ack = 1
    BY <1>1, <2>1 DEF NewAck
  <2>7. "ACK" \in m.flags /\ m.ag = k.tag => NewAck(k, m) /\ m.ack = 1
    BY <1>1, <2>1, <2>2 DEF NewAck
  <2>8. b.fin_sent = a.fin_sent /\ b.fin_acked = a.fin_acked /\ b.accepted = a.accepted
        /\ b.nxt = k.nxt
    BY <1>a, GetsTakes, Ends DEF k, Gets
  <2>9. /\ ~b.fin_sent /\ ~b.fin_acked /\ ~b.accepted /\ b.q = 0 /\ b.drained = 0 /\ b.nxt = 1
        /\ b.una = IF NewAck(k, m) THEN 1 ELSE 0
    BY <1>6, <2>2, <2>3, <2>5, <2>6, <2>8
  <2>10. ~SendsFin(b)
    <3>1. ~b.app_closed
      BY <1>1, <2>9 DEF ConnShape
    <3> QED
      BY <3>1 DEF SendsFin
  <2>11. d.state = b.state
    BY <1>1, <2>10
  <2>12. CASE NewAck(k, m)
    <3>1. a.state = "Established"
      BY <1>5, <1>12, <2>2, <2>6, <2>12
    <3>2. d.state # "SynRcvd"
      BY <1>6, <2>11, <3>1 DEF AfterFin
    <3>3. Proper(b, wrote[k.tag])
      BY <2>1, <2>2, <2>9, <2>12 DEF Proper
    <3> QED
      BY <1>8, <3>2, <3>3 DEF l
  <2>13. CASE ~NewAck(k, m) /\ b.state = "SynRcvd"
    <3>1. d.nxt = 1 /\ ~d.fin_sent /\ ~d.fin_acked
      <4>1. ~MaySend(b)
        BY <2>13 DEF MaySend
      <4>2. /\ d.nxt = b.nxt /\ d.fin_acked = b.fin_acked
            /\ d.fin_sent = (b.fin_sent \/ SendsFin(b))
        BY <1>1, <4>1, AfterOutputFacts
      <4> QED
        BY <2>9, <2>10, <4>2
    <3>2. Fresh(d, wrote[k.tag])
      BY <1>1, <2>1, <2>2, <2>9, <2>13, <3>1 DEF Fresh
    <3>3. ~MaySend(b)
      BY <2>13 DEF MaySend
    <3>4. DataIn(net', d.tag) = {} /\ FinsIn(net', d.tag) = {}
      <4>1. \A o \in net' : o \in net \/ (o.n = 0 /\ "FIN" \notin o.flags)
        BY <1>4, <3>3
      <4> QED
        BY <1>1, <2>1, <4>1 DEF DataIn, FinsIn
    <3>5. d.q = 0 /\ ~d.accepted
      BY <1>1, <2>9
    <3>6. \A o \in net' : o.to = Server /\ o.ag = d.tag => o.ack = 1
      BY <1>1, <1>3, <2>1
    <3>7. d.state = "SynRcvd" /\ d.tag = k.tag
      BY <1>1, <2>11, <2>13
    <3> QED
      BY <2>1, <3>2, <3>4, <3>5, <3>6, <3>7 DEF ServerInv, l
  <2>14. CASE ~NewAck(k, m) /\ b.state # "SynRcvd"
    <3>1. m.ag # k.tag \/ "ACK" \notin m.flags
      BY <2>7, <2>14
    <3>2. a.state = "SynRcvd"
      BY <1>5, <1>12, <3>1
    <3>3. "FIN" \in m.flags /\ m.sg = k.irs /\ "ACK" \in m.flags
      BY <1>1, <1>6, <2>14, <3>2
    <3>4. m.ag # k.tag /\ k.tag # 0 /\ k.irs = 1
      BY <1>1, <3>1, <3>3, Ends DEF ConnShape, Live
    <3>5. m \in FinsIn(net, 1)
      BY <1>1, <3>3, <3>4 DEF FinsIn
    <3>6. /\ l.state # "SynSent" /\ l.irs \in {0, m.ag}
          /\ \A o \in net : o.to = Server => o.ag \in {0, m.ag}
      BY <1>2, <3>5 DEF AgInv
    <3>7. Mute(d, l, net')
      <4>1. d.una = 0 /\ d.drained = 0 /\ d.nxt > 0
        BY <1>1, <1>7, <2>9, <2>14
      <4> QED
        BY <1>1, <1>3, <3>4, <3>6, <4>1 DEF Mute, Hears
    <3> QED
      BY <2>11, <2>14, <3>7 DEF ServerInv, l
  <2> QED
    BY <2>12, <2>13, <2>14
<1> QED
  BY <1>1, <1>2, <1>10, <1>11, <1>12 DEF ServerInv

LEMMA GetsSender ==
  ASSUME TInv, TInv', Sender, NEW h \in Host, NEW m \in Inbox(h), NEW dup \in BOOLEAN,
         RecvSegment(h, m, dup)
  PROVE  Sender'
<1>1. PICK b : \E d :
           /\ Gets(h, m, conn[h], b, d)
           /\ conn' = [conn EXCEPT ![h] = Reaped(d)]
           /\ \A k \in net' : \/ k \in net \/ k \in Output(h, b)
                              \/ k = Seg(h, d, {"ACK"}, d.nxt, 0, 0)
           /\ UNCHANGED <<wrote, rushed>>
  BY GetsFacts
<1>2. PICK d :
           /\ Gets(h, m, conn[h], b, d)
           /\ conn' = [conn EXCEPT ![h] = Reaped(d)]
           /\ \A k \in net' : \/ k \in net \/ k \in Output(h, b)
                              \/ k = Seg(h, d, {"ACK"}, d.nxt, 0, 0)
           /\ UNCHANGED <<wrote, rushed>>
  BY <1>1
<1>3. Reaped(d) \in {d, NoConn} /\ ~Live(NoConn) /\ d \in Conns /\ NoConn \in Conns
  BY <1>2, NoConnFacts DEF Reaped, Live, Gets
<1>4. CASE h = Client
  <2>1. ClientMoves(Reaped(d), conn[Client].irs) /\ d.state # "SynSent"
    BY <1>2, <1>4, GetsMoves
  <2>2. ClientInv(d, net', wrote', rushed')
    BY <1>2, <1>4, <2>1, GetsClient
  <2>3. ClientInv(NoConn, net', wrote', rushed')
    BY <1>3 DEF ClientInv
  <2>4. ClientInv(Reaped(d), net', wrote', rushed')
    BY <1>3, <2>2, <2>3
  <2> QED
    BY <2>1, <2>4, ClientStep
<1>5. CASE h = Server
  <2>1. ServerInv(d, conn[Client], net', wrote')
    BY <1>2, <1>5, GetsServer
  <2>2. ServerInv(NoConn, conn[Client], net', wrote')
    BY <1>3 DEF ServerInv
  <2>3. ServerInv(Reaped(d), conn[Client], net', wrote') /\ Reaped(d) \in Conns
    BY <1>3, <2>1, <2>2
  <2>4. \A o \in net' : o \in net \/ o.to = Client
    BY <1>2, <1>5, GetsSays, Ends
  <2> QED
    BY <1>2, <1>5, <2>3, <2>4, ServerStep
<1> QED
  BY <1>4, <1>5, Ends

\* A SYN opens a connection that nothing on its way can belong to.
LEMMA SynSender ==
  ASSUME TInv, TInv', Sender, NEW h \in Host, NEW m \in Inbox(h), NEW dup \in BOOLEAN,
         RecvSyn(h, m, dup)
  PROVE  Sender'
<1>1. PICK c : c = SynConn(next_gen, m)
  OBVIOUS
<1>2. /\ h = Server /\ next_gen <= MaxOpen
      /\ c \in Conns /\ c.state = "SynRcvd" /\ c.tag = next_gen /\ c.una = 0 /\ c.nxt = 1
      /\ c.drained = 0 /\ c.q = 0 /\ ~c.fin_sent /\ ~c.fin_acked /\ ~c.accepted
      /\ conn' = [conn EXCEPT ![h] = c]
      /\ \A k \in net' : k \in net \/ k = Seg(h, c, {"SYN", "ACK"}, 0, 0, 0)
      /\ UNCHANGED <<wrote, taken, rushed>>
  BY <1>1, RecvSynDoes
<1>3. /\ next_gen \in Nat /\ 1 < next_gen /\ wrote[next_gen] = 0
      /\ ConnShape(Client, conn[Client], next_gen)
  BY <1>2, InboxFacts, TypesRest, HostFacts, Ends, Consts
<1>4. ASSUME NEW o \in net' PROVE o \in net \/ (o.to = Client /\ o.n = 0 /\ o.flags = {"SYN", "ACK"})
  BY <1>2, SegFacts, Ends
<1>5. \A o \in net : o.ag # next_gen /\ o.sg # next_gen
  <2>1. ASSUME NEW o \in net PROVE o.ag # next_gen /\ o.sg # next_gen
    <3>1. SegShape(o, next_gen) /\ o \in Segs
      BY DEF TInv, Shape, TypeOK
    <3>2. o.ag \in Nat
      BY <3>1, Consts DEF Segs
    <3> QED
      BY <1>3, <3>1, <3>2 DEF SegShape
  <2> QED
    BY <2>1
<1>6. conn[Client].irs # next_gen
  <2>1. conn[Client].state = "None" => conn[Client].irs = 0
    BY <1>3, NoConnFacts DEF ConnShape
  <2> QED
    BY <1>3, <2>1 DEF ConnShape
<1>7. ServerInv(c, conn[Client], net', wrote')
  <2>1. Fresh(c, wrote'[c.tag])
    BY <1>2, <1>3 DEF Fresh
  <2>2. DataIn(net', c.tag) = {} /\ FinsIn(net', c.tag) = {}
    BY <1>2, <1>4, <1>5 DEF DataIn, FinsIn
  <2>3. \A o \in net' : o.to = Server /\ o.ag = c.tag => o.ack = 1
    BY <1>2, <1>4, <1>5, Ends
  <2> QED
    BY <1>2, <1>6, <2>1, <2>2, <2>3 DEF ServerInv
<1> QED
  BY <1>2, <1>4, <1>7, ServerStep

\* The client's SYN is answered.
LEMMA AnsweredSender ==
  ASSUME TInv, TInv', Sender, NEW h \in Host, NEW m \in Inbox(h), NEW dup \in BOOLEAN,
         RecvInSynSent(h, m, dup), conn' # conn
  PROVE  Sender'
<1>1. PICK c : c = Answered(conn[h], m)
  OBVIOUS
<1> DEFINE d == AfterOutput(c)
<1>d. d = AfterOutput(c)
  OBVIOUS
<1> HIDE DEF d
<1>2. /\ conn[h].state = "SynSent" /\ "RST" \notin m.flags
      /\ UNCHANGED <<wrote, taken, rushed>>
      /\ {"SYN", "ACK"} \subseteq m.flags
      /\ m.ag = conn[h].tag /\ m.ack = conn[h].nxt
      /\ conn' = [conn EXCEPT ![h] = d]
      /\ \A k \in net' : \/ k \in net \/ k \in Output(h, c)
                         \/ k = Seg(h, c, {"ACK"}, c.nxt, 0, 0)
  BY <1>1, <1>d, RecvInSynSentDoes
<1>3. /\ c \in Conns /\ h = Client /\ c.state = "Established" /\ c.tag = conn[h].tag
      /\ c.nxt = conn[h].nxt
      /\ c.una = conn[h].nxt /\ c.irs = m.sg /\ c.irs \in 2 .. next_gen - 1 /\ c.rcv = 1
      /\ c.drained = conn[h].drained /\ c.q = conn[h].q /\ ~c.fin_sent
      /\ c.fin_acked = conn[h].fin_acked
  BY <1>1, <1>2, EstablishedConn
<1>4. /\ c.una \in Nat /\ c.nxt \in Nat /\ c.q \in Nat /\ c.una <= c.nxt /\ next_gen \in Nat
  <2>1. /\ c.una \in Nat /\ c.nxt \in Nat /\ c.q \in Nat
    BY <1>3, ConnFields, Consts
  <2> QED
    BY <1>3, <2>1, HostFacts
<1>5. /\ d \in Conns /\ d.tag = c.tag /\ d.irs = c.irs /\ d.rcv = c.rcv
      /\ d.state = IF ~SendsFin(c) THEN c.state
                   ELSE IF c.state = "CloseWait" THEN "LastAck" ELSE "FinWait1"
  BY <1>3, <1>4, <1>d, AfterOutputFacts
<1>6. Live(conn[h]) /\ d.state # "SynSent"
  BY <1>2, <1>3, <1>5 DEF Live
<1>7. Fresh(conn[h], wrote[c.tag])
  BY <1>2, <1>3, <1>6 DEF Sender, ClientInv
<1>8. Proper(d, wrote'[d.tag])
  <2>1. ~c.fin_acked /\ c.una = 1 /\ c.nxt = 1 /\ c.drained = 0 /\ c.q = wrote[c.tag]
    BY <1>3, <1>7 DEF Fresh
  <2>2. Proper(c, wrote[c.tag])
    BY <1>3, <1>4, <2>1 DEF Proper
  <2>3. Proper(d, wrote[c.tag])
    BY <1>3, <1>4, <1>d, <2>2, OutputProper
  <2> QED
    BY <1>2, <1>5, <2>3
<1>9. ClientInv(d, net', wrote', rushed')
  BY <1>3, <1>5, <1>6, <1>8 DEF ClientInv
<1>10. ASSUME NEW o \in net', o \notin net PROVE Says(o, m.sg, conn[Server]) /\ o.ag = m.sg
  <2>1. o.to = Server /\ o.ag = c.irs /\ o.ack = c.rcv
    <3>1. CASE o \in Output(h, c)
      BY <1>3, <1>4, <3>1, OutputSegs, Ends
    <3>2. CASE o = Seg(h, c, {"ACK"}, c.nxt, 0, 0)
      BY <1>3, <1>4, <3>2, SegFacts, Ends
    <3> QED
      BY <1>2, <1>10, <3>1, <3>2
  <2> QED
    BY <1>3, <2>1 DEF Says
<1>11. ClientMoves(d, m.sg)
  BY <1>2, <1>3, <1>5, <1>6, <1>10 DEF ClientMoves
<1> QED
  BY <1>9, <1>11, ClientStep

\* tcp_connect, before there is anything else.
LEMMA ConnectSender ==
  ASSUME TInv, TInv', Sender, NEW h \in Host, Connect(h)
  PROVE  Sender'
<1> DEFINE c == NewConn(next_gen, "SynSent", 0, 0, 0, TRUE)
           s == Seg(h, c, {"SYN"}, 0, 0, 0)
<1>1. /\ h = Client /\ next_gen = 1 /\ next_gen <= MaxOpen
      /\ conn' = [conn EXCEPT ![h] = c] /\ net' = net \cup {s}
      /\ UNCHANGED <<wrote, rushed>>
  BY DEF Connect
<1>2. /\ c \in Conns /\ c.una <= c.nxt /\ c.state = "SynSent" /\ c.tag = 1 /\ c.una = 0 /\ c.nxt = 1
      /\ c.irs = 0 /\ c.rcv = 0 /\ c.win = 0 /\ c.drained = 0 /\ c.q = 0 /\ c.got = <<>>
      /\ ~c.fin_sent /\ ~c.fin_acked
  BY <1>1, Consts DEF NewConn, Conns, State
<1>3. s = Seg(h, c, {"SYN"}, 0, 0, 0)
  OBVIOUS
<1> HIDE DEF c, s
<1>4. net = {} /\ wrote[1] = 0
  BY <1>1, TypesRest, Consts
<1>5. s.to = Server /\ s.flags = {"SYN"} /\ s.n = 0 /\ s.ag = 0
  BY <1>1, <1>2, <1>3, SegFacts, Ends
<1>6. net' = {s} /\ DataIn(net', 1) = {} /\ FinsIn(net', 1) = {}
  BY <1>1, <1>4, <1>5 DEF DataIn, FinsIn
<1>7. ClientInv(c, net', wrote', rushed')
  <2>1. Fresh(c, wrote'[c.tag])
    BY <1>1, <1>2, <1>4 DEF Fresh
  <2> QED
    BY <1>2, <1>6, <2>1 DEF ClientInv
<1>8. ~Live(conn[Server])
  <2>1. ConnShape(Server, conn[Server], next_gen) /\ next_gen = 1
    BY <1>1, HostFacts, Ends
  <2> QED
    BY <2>1, Ends DEF ConnShape, Live
<1>9. conn'[Client] = c /\ conn'[Server] = conn[Server]
  BY <1>1, Ends DEF TInv, TypeOK
<1>10. ServerInv(conn'[Server], conn'[Client], net', wrote')
  BY <1>8, <1>9 DEF ServerInv
<1>11. AgInv(conn'[Client], net')
  BY <1>2, <1>5, <1>6, <1>9 DEF AgInv
<1> QED
  BY <1>7, <1>9, <1>10, <1>11 DEF Sender

LEMMA NextSender == TInv /\ Sender /\ [Next]_vars => Sender'
<1> SUFFICES ASSUME TInv, Sender, [Next]_vars PROVE Sender'
  OBVIOUS
<1>1. TInv' /\ Kind
  BY NextTInv, NextKind
<1>2. ASSUME NEW h \in Host, Kinds(h) PROVE Sender'
  <2>1. CASE \E d \in Conns : Repeats(h, d)
    BY <1>1, <2>1, RepeatsSender
  <2>2. CASE \E d \in Conns : Stops(h, d)
    BY <1>1, <2>2, StopsSender
  <2>3. CASE \E c \in Conns, n \in Nat : Sends(h, c, n)
    BY <1>1, <2>3, SendsSender
  <2> QED
    BY <1>2, <2>1, <2>2, <2>3 DEF Kinds
<1> QED
  BY <1>1, <1>2, ConnectSender, SynSender, GetsSender, AnsweredSender DEF Kind

LEMMA InitSender == Init => Sender
<1> SUFFICES ASSUME Init PROVE Sender
  OBVIOUS
<1>1. conn[Client] = NoConn /\ conn[Server] = NoConn /\ net = {} /\ ~Live(NoConn)
  BY Ends, NoConnFacts DEF Init, Live
<1> QED
  BY <1>1 DEF Sender, ClientInv, ServerInv, AgInv, FinsIn

(***************************************************************************)
(* The streams                                                             *)
(***************************************************************************)

\* What somebody may still take bytes from: the client's stream, and that of
\* a server connection the client has heard of or may hear of.
Heard(k, g) == g = 1 \/ Hears(k, g)

\* Stream g is closed at s: nothing more is written, and no data that
\* reaches beyond s is on its way or to come.
FinMark(K, N, g, s) ==
  /\ \A m \in DataIn(N, g) : m.seq + m.n <= s
  /\ \A h \in Host : K[h].tag = g /\ Live(K[h]) =>
        K[h].fin_sent /\ (K[h].q > 0 => K[h].una + K[h].q <= s)

LEMMA FinMarkStep ==
  ASSUME TInv, NEW g, NEW s \in Nat, FinMark(conn, net, g, s), NEW h \in Host, NEW d,
         conn' = [conn EXCEPT ![h] = d], NEW k, k = conn[h],
         \A m \in net' : m.n > 0 /\ m.sg = g =>
            m \in net \/ (k.tag = g /\ Live(k) /\ k.q > 0 /\ m.seq + m.n <= k.una + k.q /\ m \in Segs),
         d \in Conns,
         d.tag = g /\ Live(d) =>
            /\ d.fin_sent
            /\ d.q > 0 => k.tag = g /\ Live(k) /\ k.q > 0 /\ d.una + d.q <= k.una + k.q
  PROVE  FinMark(conn', net', g, s)
<1>1. /\ k \in Conns /\ k.una \in Nat /\ k.q \in Nat /\ d.una \in Nat /\ d.q \in Nat
  <2>1. k \in Conns
    BY HostFacts
  <2> QED
    BY <2>1, NatFields
<1>2. \A o \in Host : conn'[o] = IF o = h THEN d ELSE conn[o]
  BY DEF TInv, TypeOK
<1>3. k.tag = g /\ Live(k) => k.fin_sent /\ (k.q > 0 => k.una + k.q <= s)
  BY DEF FinMark
<1>4. ASSUME NEW m \in DataIn(net', g) PROVE m.seq + m.n <= s
  <2>1. m \in net' /\ m.n > 0 /\ m.sg = g
    BY <1>4 DEF DataIn
  <2>2. CASE m \in net
    BY <2>1, <2>2 DEF FinMark, DataIn
  <2>3. CASE m \notin net
    <3>1. m.seq + m.n <= k.una + k.q /\ k.una + k.q <= s /\ m \in Segs
      BY <1>3, <2>1, <2>3
    <3>2. m.seq \in Nat /\ m.n \in Nat
      BY <3>1, Consts DEF Segs
    <3> QED
      BY <1>1, <3>1, <3>2
  <2> QED
    BY <2>2, <2>3
<1>5. ASSUME NEW o \in Host, conn'[o].tag = g, Live(conn'[o])
      PROVE  conn'[o].fin_sent /\ (conn'[o].q > 0 => conn'[o].una + conn'[o].q <= s)
  <2>1. CASE o = h
    <3>1. d.tag = g /\ Live(d) /\ conn'[o] = d
      BY <1>2, <1>5, <2>1
    <3>2. d.q > 0 => d.una + d.q <= s
      BY <1>1, <1>3, <3>1
    <3> QED
      BY <3>1, <3>2
  <2>2. CASE o # h
    BY <1>2, <1>5, <2>2 DEF FinMark
  <2> QED
    BY <2>1, <2>2
<1> QED
  BY <1>4, <1>5 DEF FinMark

\* No step undoes the end of a stream.
LEMMA FinMarkKinds ==
  ASSUME TInv, Sender, NEW g \in Nat, NEW s \in Nat, FinMark(conn, net, g, s), g > 0, g < next_gen,
         NEW h \in Host, Kinds(h)
  PROVE  FinMark(conn', net', g, s) /\ wrote'[g] = wrote[g]
<1> DEFINE k == conn[h]
<1>0. /\ k \in Conns /\ k.una <= k.nxt /\ next_gen \in 1 .. MaxOpen + 1 /\ g \in 1 .. MaxOpen
      /\ k.una \in Nat /\ k.q \in Nat
  <2>1. k \in Conns /\ k.una <= k.nxt
    BY HostFacts
  <2>2. k.una \in Nat /\ k.q \in Nat
    BY <2>1, ConnFields, Consts
  <2>3. next_gen \in 1 .. MaxOpen + 1 /\ g \in 1 .. MaxOpen
    BY TypesRest, Consts
  <2> QED
    BY <2>1, <2>2, <2>3
<1>1. ASSUME NEW d \in Conns, Repeats(h, d) PROVE FinMark(conn', net', g, s) /\ wrote'[g] = wrote[g]
  <2>1. /\ conn' = [conn EXCEPT ![h] = d] /\ wrote' = wrote /\ d.tag = k.tag /\ d.q = k.q
        /\ d.una = k.una /\ (Live(d) <=> Live(k))
        /\ \A m \in net' : m \in net \/ m = Rst(h) \/ (Live(k) /\ m \in Resent(h, k))
    BY <1>1 DEF Repeats, Alike, Live
  <2>2. d.fin_sent = k.fin_sent
    BY <1>1 DEF Repeats, Alike
  <2>3. k.tag = g /\ Live(k) => k.fin_sent
    BY DEF FinMark
  <2>4. ASSUME NEW m \in net', m.n > 0, m.sg = g, m \notin net
        PROVE  k.tag = g /\ Live(k) /\ k.q > 0 /\ m.seq + m.n <= k.una + k.q /\ m \in Segs
    <3>1. Live(k) /\ m \in Resent(h, k)
      BY <2>1, <2>4, RstFacts
    <3>2. m.sg = k.tag /\ m.n <= k.q /\ m.seq = k.una /\ m \in Segs
      BY <1>0, <2>4, <3>1, ResentSegs
    <3>3. m.n \in Nat /\ m.seq \in Nat
      BY <3>2, Consts DEF Segs
    <3> QED
      BY <1>0, <2>4, <3>1, <3>2, <3>3
  <2>5. d.tag = g /\ Live(d) =>
            /\ d.fin_sent
            /\ d.q > 0 => k.tag = g /\ Live(k) /\ k.q > 0 /\ d.una + d.q <= k.una + k.q
    BY <1>0, <2>1, <2>2, <2>3
  <2> QED
    BY <1>0, <2>1, <2>4, <2>5, FinMarkStep
<1>2. ASSUME NEW d \in Conns, Stops(h, d) PROVE FinMark(conn', net', g, s) /\ wrote'[g] = wrote[g]
  <2>1. /\ conn' = [conn EXCEPT ![h] = d] /\ ~Live(d) /\ (\A m \in net' : m \in net) /\ wrote' = wrote
    BY <1>2 DEF Stops
  <2> QED
    BY <2>1, FinMarkStep
<1>3. ASSUME NEW c \in Conns, NEW n \in Nat, Sends(h, c, n)
      PROVE  FinMark(conn', net', g, s) /\ wrote'[g] = wrote[g]
  <2>1. PICK d : d = AfterOutput(c)
    OBVIOUS
  <2>2. /\ c.una <= c.nxt /\ Live(k) /\ ~k.fin_sent /\ c.tag = k.tag
        /\ (\A o \in 1 .. MaxOpen : o # c.tag => wrote'[o] = wrote[o])
        /\ conn' = [conn EXCEPT ![h] = d]
        /\ \A m \in net' : m \in net \/ m \in Output(h, c)
    BY <1>3, <2>1, SendsFacts
  <2>3. k.tag # g
    BY <2>2 DEF FinMark
  <2>4. d \in Conns /\ d.tag = c.tag
    BY <2>1, <2>2, AfterOutputFacts
  <2>5. \A m \in net' : m.sg = g => m \in net
    BY <2>2, <2>3, OutputSegs
  <2> QED
    BY <1>0, <2>2, <2>3, <2>4, <2>5, FinMarkStep
<1> QED
  BY <1>1, <1>2, <1>3 DEF Kinds

\* An acknowledgement takes from sendq what it adds to snd_una.
LEMMA GetsQueue ==
  ASSUME NEW h \in Host, NEW m, NEW k, NEW b, NEW d, Gets(h, m, k, b, d)
  PROVE  /\ b.q > 0 => k.q > 0 /\ b.una + b.q = k.una + k.q
         /\ d.una = b.una /\ d.q = b.q
<1>1. /\ k \in Conns /\ k.una <= k.nxt /\ m \in Segs
      /\ d.una = b.una /\ d.q = b.q
  BY DEF Gets
<1>2. PICK a : a = TakeAck(TakeWindow(k, m), m)
  OBVIOUS
<1>3. /\ k.una \in Nat /\ k.q \in Nat /\ m.ack \in Nat
  BY <1>1, ConnFields, Consts DEF Segs
<1>4. b.una = a.una /\ b.q = a.q
  BY <1>2, GetsTakes
<1>5. CASE ~NewAck(k, m)
  <2>1. a.una = k.una /\ a.q = k.q
    BY <1>1, <1>2, <1>5, AckFacts
  <2> QED
    BY <1>1, <1>4, <2>1
<1>6. CASE NewAck(k, m)
  <2>1. a.una = m.ack /\ a.q = k.q - Drained(k, m)
    BY <1>1, <1>2, <1>6, AckFacts
  <2>2. Drained(k, m) = IF m.ack - k.una <= k.q THEN m.ack - k.una ELSE k.q
    BY DEF Drained, Least
  <2>3. k.una < m.ack
    BY <1>6 DEF NewAck
  <2> QED
    BY <1>1, <1>3, <1>4, <2>1, <2>2, <2>3
<1> QED
  BY <1>5, <1>6

LEMMA FinMarkGets ==
  ASSUME TInv, NEW g \in Nat, NEW s \in Nat, FinMark(conn, net, g, s),
         NEW h \in Host, NEW m, NEW b, NEW d, Gets(h, m, conn[h], b, d),
         conn' = [conn EXCEPT ![h] = Reaped(d)],
         \A o \in net' : \/ o \in net \/ o \in Output(h, b)
                         \/ o = Seg(h, d, {"ACK"}, d.nxt, 0, 0)
  PROVE  FinMark(conn', net', g, s)
<1> DEFINE k == conn[h]
<1>1. /\ k \in Conns /\ Live(k) /\ d \in Conns /\ d.tag = k.tag /\ b \in Conns /\ b.una <= b.nxt
      /\ d = AfterOutput(b)
  BY DEF Gets
<1>2. k.tag = g => k.fin_sent
  BY <1>1 DEF FinMark
<1>3. k.fin_sent => b.fin_sent /\ d.fin_sent /\ ~MaySend(b)
  <2>1. PICK a : a = TakeAck(TakeWindow(k, m), m)
    OBVIOUS
  <2>2. b.fin_sent = a.fin_sent /\ a.fin_sent = k.fin_sent
    BY <2>1, GetsTakes
  <2>3. d.fin_sent = (b.fin_sent \/ SendsFin(b))
    BY <1>1, AfterOutputFacts
  <2>4. k.fin_sent => b.fin_sent
    BY <2>2
  <2>5. b.fin_sent => d.fin_sent
    BY <2>3
  <2> QED
    BY <2>4, <2>5 DEF MaySend
<1>4. /\ d.q > 0 => k.q > 0 /\ d.una + d.q = k.una + k.q
  BY GetsQueue
<1>5. ASSUME NEW o \in net', o.n > 0, o.sg = g, o \notin net PROVE FALSE
  <2>1. o.sg = k.tag /\ MaySend(b)
    BY <1>5, GetsSays
  <2> QED
    BY <1>2, <1>3, <1>5, <2>1
<1>6. Reaped(d) \in {d, NoConn} /\ ~Live(NoConn) /\ NoConn \in Conns
  BY NoConnFacts DEF Reaped, Live
<1>7. PICK e \in {d, NoConn} : e = Reaped(d)
  BY <1>6
<1>8. /\ k.una \in Nat /\ k.q \in Nat
  BY <1>1, NatFields
<1>9. e.tag = g /\ Live(e) =>
        /\ e.fin_sent
        /\ e.q > 0 => k.tag = g /\ Live(k) /\ k.q > 0 /\ e.una + e.q <= k.una + k.q
  <2>1. CASE e = NoConn
    BY <1>6, <2>1
  <2>2. CASE e = d
    BY <1>1, <1>2, <1>3, <1>4, <1>8, <2>2
  <2> QED
    BY <1>7, <2>1, <2>2
<1>10. e \in Conns /\ conn' = [conn EXCEPT ![h] = e]
  BY <1>1, <1>6, <1>7
<1>11. \A o \in net' : o.n > 0 /\ o.sg = g => o \in net
  BY <1>5
<1> QED
  BY <1>9, <1>10, <1>11, FinMarkStep

LEMMA FinMarkOpens ==
  ASSUME TInv, Sender, NEW g \in Nat, NEW s \in Nat, FinMark(conn, net, g, s), g > 0, g < next_gen,
         NEW h \in Host, NEW m \in Inbox(h), NEW dup \in BOOLEAN,
         RecvSyn(h, m, dup) \/ (RecvInSynSent(h, m, dup) /\ conn' # conn)
  PROVE  FinMark(conn', net', g, s) /\ wrote'[g] = wrote[g]
<1>1. CASE RecvSyn(h, m, dup)
  <2>1. PICK c : c = SynConn(next_gen, m)
    OBVIOUS
  <2>2. /\ c \in Conns /\ c.tag = next_gen
        /\ conn' = [conn EXCEPT ![h] = c]
        /\ \A k \in net' : k \in net \/ k = Seg(h, c, {"SYN", "ACK"}, 0, 0, 0)
        /\ UNCHANGED <<wrote, taken, rushed>>
    BY <1>1, <2>1, RecvSynDoes
  <2>3. c.tag # g /\ Seg(h, c, {"SYN", "ACK"}, 0, 0, 0).n = 0
    BY <2>2, SegFacts
  <2>4. \A o \in net' : o.n > 0 /\ o.sg = g => o \in net
    BY <2>2, <2>3
  <2> QED
    BY <2>2, <2>3, <2>4, FinMarkStep
<1>2. CASE RecvInSynSent(h, m, dup) /\ conn' # conn
  <2>1. PICK c : c = Answered(conn[h], m)
    OBVIOUS
  <2>2. PICK d : d = AfterOutput(c)
    OBVIOUS
  <2>3. /\ conn[h].state = "SynSent" /\ "RST" \notin m.flags
        /\ UNCHANGED <<wrote, taken, rushed>>
        /\ {"SYN", "ACK"} \subseteq m.flags
        /\ m.ag = conn[h].tag /\ m.ack = conn[h].nxt
        /\ conn' = [conn EXCEPT ![h] = d]
        /\ \A k \in net' : \/ k \in net \/ k \in Output(h, c)
                           \/ k = Seg(h, c, {"ACK"}, c.nxt, 0, 0)
    BY <1>2, <2>1, <2>2, RecvInSynSentDoes
  <2>4. c \in Conns /\ h = Client /\ c.tag = conn[h].tag /\ c.una = conn[h].nxt
        /\ c.nxt = conn[h].nxt
    BY <2>1, <2>3, EstablishedConn
  <2>5. c.una <= c.nxt /\ c.nxt \in Nat
    BY <2>4, ConnFields
  <2>6. d \in Conns /\ d.tag = c.tag
    BY <2>2, <2>4, <2>5, AfterOutputFacts
  <2>7. Live(conn[h]) /\ ~conn[h].fin_sent
    BY <2>3, <2>4 DEF Live, Sender, ClientInv, Fresh
  <2>8. c.tag # g
    BY <2>4, <2>7 DEF FinMark
  <2>9. \A o \in net' : o.n > 0 /\ o.sg = g => o \in net
    BY <2>3, <2>4, <2>5, <2>8, OutputSegs, SegFacts
  <2> QED
    BY <2>3, <2>6, <2>8, <2>9, FinMarkStep
<1> QED
  BY <1>1, <1>2

LEMMA FinMarkKeeps ==
  ASSUME TInv, Sender, [Next]_vars,
         NEW g \in Nat, NEW s \in Nat, FinMark(conn, net, g, s), g > 0, g < next_gen
  PROVE  FinMark(conn', net', g, s) /\ wrote'[g] = wrote[g]
<1>1. Kind
  BY NextKind
<1>2. ASSUME NEW h \in Host, Connect(h) PROVE FALSE
  BY <1>2 DEF Connect
<1>3. ASSUME NEW h \in Host, NEW m \in Inbox(h), NEW dup \in BOOLEAN, RecvSegment(h, m, dup)
      PROVE  FinMark(conn', net', g, s) /\ wrote'[g] = wrote[g]
  <2>1. PICK b : \E d :
           /\ Gets(h, m, conn[h], b, d)
           /\ conn' = [conn EXCEPT ![h] = Reaped(d)]
           /\ \A k \in net' : \/ k \in net \/ k \in Output(h, b)
                              \/ k = Seg(h, d, {"ACK"}, d.nxt, 0, 0)
           /\ UNCHANGED <<wrote, rushed>>
    BY <1>3, GetsFacts
  <2> QED
    BY <2>1, FinMarkGets
<1> QED
  BY <1>1, <1>2, <1>3, FinMarkKinds, FinMarkOpens DEF Kind

DataRight(m, w) == (m.seq = 0 \/ m.seq = m.first + 1) /\ m.seq + m.n <= w + 1
FinRight(m, K, N, w, R) ==
  /\ m.seq > 0 => FinMark(K, N, m.sg, m.seq)
  /\ m.sg \notin R => m.seq = w + 1

\* Data carries its place in the stream, and a FIN stands at its end.
Streams ==
  \A m \in net : Heard(conn[Client], m.sg) =>
    /\ m.n > 0 => DataRight(m, wrote[m.sg])
    /\ "FIN" \in m.flags => FinRight(m, conn, net, wrote[m.sg], rushed)

\* What a host with connection d says of its own stream.
Sent(m, d, w) ==
  /\ m.sg = d.tag /\ m \in Segs
  /\ m.n > 0 => /\ m.seq - d.una = m.first - d.drained /\ m.seq >= d.una
                /\ m.seq + m.n <= d.una + d.q
  /\ "FIN" \in m.flags => /\ d.fin_sent /\ d.una + d.q <= m.seq
                          /\ Proper(d, w) => ~d.fin_acked /\ m.seq = d.una + d.q

LEMMA OutputSent ==
  ASSUME NEW h \in Host, NEW c \in Conns, c.una <= c.nxt, NEW d, d = AfterOutput(c),
         NEW w, Proper(d, w), NEW m \in Output(h, c)
  PROVE  Sent(m, d, w)
<1>1. /\ d \in Conns /\ d.tag = c.tag /\ d.una = c.una /\ d.drained = c.drained /\ d.q = c.q
      /\ d.nxt = IF MaySend(c)
                 THEN c.una + SendLimit(c) + (IF SendsFin(c) THEN 1 ELSE 0) ELSE c.nxt
      /\ d.fin_sent = (c.fin_sent \/ SendsFin(c))
  BY AfterOutputFacts
<1>2. /\ c.una \in Nat /\ c.nxt \in Nat /\ c.q \in Nat /\ c.drained \in Nat
      /\ d.nxt \in Nat
      /\ d.fin_sent \in BOOLEAN /\ d.fin_acked \in BOOLEAN /\ SendLimit(c) \in Nat
  BY <1>1, ConnFields, LimitFacts, Consts
<1>3. /\ m \in Segs /\ m.sg = c.tag /\ MaySend(c)
      /\ \/ /\ m.flags = {"ACK"} /\ m.n > 0 /\ m.seq >= c.nxt
            /\ m.seq - c.una = m.first - c.drained
            /\ m.seq + m.n <= c.una + SendLimit(c)
         \/ /\ m.flags = {"FIN", "ACK"} /\ m.n = 0
            /\ m.seq = c.una + SendLimit(c) /\ SendsFin(c)
  BY OutputSegs
<1>4. m.seq \in Nat /\ m.n \in Nat
  BY <1>3, Consts DEF Segs
<1>5. SendsFin(c) => d.fin_sent
  BY <1>1
<1>6. d.nxt >= c.una + SendLimit(c) /\ (SendsFin(c) => d.nxt = c.una + SendLimit(c) + 1)
  BY <1>1, <1>2, <1>3
<1>7. CASE m.n > 0
  <2>1. /\ m.flags = {"ACK"} /\ m.seq >= c.nxt
        /\ m.seq - c.una = m.first - c.drained
        /\ m.seq + m.n <= c.una + SendLimit(c)
    BY <1>3, <1>7
  <2>2. c.una < d.nxt
    BY <1>2, <1>4, <1>6, <1>7, <2>1
  <2>3. ~d.fin_acked
    BY <1>1, <1>2, <2>2 DEF Proper
  <2>4. c.una + SendLimit(c) <= d.una + d.q
    <3>1. CASE d.fin_sent
      <4>1. d.nxt = d.una + d.q + 1
        BY <2>3, <3>1 DEF Proper
      <4>2. SendsFin(c)
        BY <1>1, <1>3, <3>1 DEF MaySend
      <4> QED
        BY <1>1, <1>2, <1>6, <4>1, <4>2
    <3>2. CASE ~d.fin_sent
      <4>1. d.nxt <= d.una + d.q
        BY <3>2 DEF Proper
      <4> QED
        BY <1>1, <1>2, <1>6, <4>1
    <3> QED
      BY <3>1, <3>2
  <2>5. m.seq + m.n <= d.una + d.q /\ m.seq >= d.una
    BY <1>1, <1>2, <1>4, <2>1, <2>4
  <2> QED
    BY <1>1, <1>3, <2>1, <2>5 DEF Sent
<1>8. CASE ~(m.n > 0)
  <2>1. m.seq = c.una + SendLimit(c) /\ SendsFin(c)
    BY <1>3, <1>8
  <2>2. d.fin_sent /\ d.nxt = m.seq + 1
    BY <1>5, <1>6, <2>1
  <2>3. ~d.fin_acked
    BY <1>1, <1>2, <2>1, <2>2 DEF Proper
  <2>4. d.nxt = d.una + d.q + 1
    BY <2>2, <2>3 DEF Proper
  <2>5. m.seq = d.una + d.q
    BY <1>1, <1>2, <1>4, <2>2, <2>4
  <2> QED
    BY <1>1, <1>2, <1>3, <1>8, <2>2, <2>3, <2>5 DEF Sent
<1> QED
  BY <1>7, <1>8

LEMMA ResentSent ==
  ASSUME NEW h \in Host, NEW k \in Conns, k.state \notin {"SynSent", "SynRcvd"},
         NEW m \in Resent(h, k), NEW w
  PROVE  Sent(m, k, w)
<1>1. k.una \in Nat /\ k.q \in Nat
  BY ConnFields, Consts
<1>2. /\ m \in Segs /\ m.sg = k.tag
      /\ \/ /\ m.flags = {"ACK"}
            /\ m.n > 0 /\ m.n <= k.q /\ m.seq = k.una /\ m.first = k.drained
         \/ /\ m.flags = {"FIN", "ACK"}
            /\ m.n = 0 /\ m.seq = k.una /\ k.q = 0 /\ k.fin_sent /\ ~k.fin_acked
  BY ResentSegs
<1>3. m.n \in Nat /\ m.first \in Nat
  BY <1>2, Consts DEF Segs
<1>4. CASE m.flags = {"ACK"} /\ m.n > 0 /\ m.n <= k.q /\ m.seq = k.una /\ m.first = k.drained
  <2>1. m.seq - k.una = m.first - k.drained /\ m.seq >= k.una /\ m.seq + m.n <= k.una + k.q
    BY <1>1, <1>3, <1>4
  <2> QED
    BY <1>2, <1>4, <2>1 DEF Sent
<1>5. CASE /\ m.flags = {"FIN", "ACK"}
           /\ m.n = 0 /\ m.seq = k.una /\ k.q = 0 /\ k.fin_sent /\ ~k.fin_acked
  <2>1. k.una + k.q = m.seq /\ ~(m.n > 0)
    BY <1>1, <1>5
  <2> QED
    BY <1>1, <1>2, <1>5, <2>1 DEF Sent
<1> QED
  BY <1>2, <1>4, <1>5

\* A connection that is open and heard keeps its numbers.
LEMMA Speaker ==
  ASSUME NEW K, NEW N, NEW W, NEW R, NEW t,
         ClientInv(K[Client], N, W, R), ServerInv(K[Server], K[Client], N, W),
         ConnShape(Server, K[Server], t),
         NEW h \in Host, Live(K[h]), K[h].state \notin {"SynSent", "SynRcvd"},
         Heard(K[Client], K[h].tag)
  PROVE  Proper(K[h], W[K[h].tag]) \/ (Early(K[h], N, R) /\ K[h].irs = 0)
<1>1. CASE h = Client
  BY <1>1 DEF ClientInv
<1>2. CASE h = Server
  <2>1. K[h].tag # 1
    BY <1>2, Ends DEF ConnShape, Live
  <2>2. ~Mute(K[h], K[Client], N)
    BY <2>1 DEF Mute, Heard
  <2> QED
    BY <1>2, <2>2 DEF ServerInv
<1> QED
  BY <1>1, <1>2, Ends

\* What stands on a proper connection's queue stands at its place.
LEMMA SentData ==
  ASSUME NEW d \in Conns, NEW m, NEW w \in Nat, NEW N, NEW R, Sent(m, d, w), m.n > 0,
         Proper(d, w) \/ Early(d, N, R)
  PROVE  DataRight(m, w)
<1>1. /\ d.una \in Nat /\ d.q \in Nat /\ d.drained \in Nat
      /\ m.n \in Nat /\ m.seq \in Nat /\ m.first \in Nat
  BY ConnFields, Consts DEF Sent, Segs
<1>2. m.seq - d.una = m.first - d.drained /\ m.seq >= d.una /\ m.seq + m.n <= d.una + d.q
  BY DEF Sent
<1>3. d.q > 0
  BY <1>1, <1>2
<1>4. CASE Proper(d, w)
  <2>1. d.una = d.drained + 1 /\ d.drained + d.q = w
    BY <1>1, <1>3, <1>4 DEF Proper
  <2> QED
    BY <1>1, <1>2, <2>1 DEF DataRight
<1>5. CASE Early(d, N, R)
  <2>1. d.una = 0 /\ d.q <= 1
    BY <1>1, <1>3, <1>5 DEF Early, EarlySender
  <2>2. m.seq = 0 /\ m.n = 1
    BY <1>1, <1>2, <2>1
  <2> QED
    BY <2>2 DEF DataRight
<1> QED
  BY <1>4, <1>5

LEMMA SentFin ==
  ASSUME NEW K, NEW N, NEW W, NEW R, NEW h \in Host, NEW d, d = K[h], d \in Conns,
         NEW m, NEW w \in Nat, Sent(m, d, w), "FIN" \in m.flags,
         Proper(d, w) \/ Early(d, N, R),
         \A o \in DataIn(N, d.tag) : o \in Segs /\ DataRight(o, w),
         \A o \in Host : K[o].tag = d.tag /\ Live(K[o]) => o = h
  PROVE  FinRight(m, K, N, w, R)
<1>1. /\ d.una \in Nat /\ d.q \in Nat /\ d.drained \in Nat /\ m.seq \in Nat
  <2>1. d.una \in Nat /\ d.q \in Nat /\ d.drained \in Nat
    BY NatFields
  <2>2. m.seq \in Nat
    BY SegNats DEF Sent
  <2> QED
    BY <2>1, <2>2
<1>2. /\ d.fin_sent /\ d.una + d.q <= m.seq /\ m.sg = d.tag
      /\ Proper(d, w) => ~d.fin_acked /\ m.seq = d.una + d.q
  BY DEF Sent
<1>3. CASE Proper(d, w)
  <2>1. m.seq = w + 1
    BY <1>1, <1>2, <1>3 DEF Proper
  <2>2. \A o \in DataIn(N, d.tag) : o.seq + o.n <= m.seq
    BY <2>1 DEF DataRight
  <2>3. FinMark(K, N, m.sg, m.seq)
    BY <1>2, <2>2 DEF FinMark
  <2> QED
    BY <2>1, <2>3 DEF FinRight
<1>4. CASE Early(d, N, R)
  <2>1. d.tag \in R /\ \A o \in DataIn(N, d.tag) : o.seq + o.n <= 1
    BY <1>4 DEF Early
  <2>2. ASSUME m.seq > 0 PROVE FinMark(K, N, m.sg, m.seq)
    <3>1. ASSUME NEW o \in DataIn(N, d.tag) PROVE o.seq + o.n <= m.seq
      <4>1. o \in Segs /\ o.seq + o.n <= 1
        BY <2>1
      <4>2. o.seq \in Nat /\ o.n \in Nat
        BY <4>1, Consts DEF Segs
      <4> QED
        BY <1>1, <2>2, <4>1, <4>2
    <3> QED
      BY <1>2, <3>1 DEF FinMark
  <2> QED
    BY <1>2, <2>1, <2>2 DEF FinRight
<1> QED
  BY <1>3, <1>4

LEMMA StreamsStep ==
  ASSUME TInv, TInv', Sender, Sender', Streams, [Next]_vars,
         NEW h \in Host, NEW d, d \in Conns, conn' = [conn EXCEPT ![h] = d],
         \A g \in 1 .. MaxOpen : Heard(conn'[Client], g) => Heard(conn[Client], g),
         \A g \in 1 .. MaxOpen : wrote'[g] >= wrote[g],
         rushed \subseteq rushed',
         \A m \in net' : Heard(conn'[Client], m.sg) =>
            \/ m \in net
            \/ m.n = 0 /\ "FIN" \notin m.flags
            \/ /\ Live(d) /\ d.state \notin {"SynSent", "SynRcvd"} /\ m.sg = d.tag
               /\ Proper(d, wrote'[d.tag]) \/ (Early(d, net', rushed') /\ d.irs = 0)
                     => Sent(m, d, wrote'[d.tag])
  PROVE  Streams'
<1> DEFINE H(g) == Heard(conn'[Client], g)
<1>1. /\ next_gen \in 1 .. MaxOpen + 1 /\ next_gen' \in 1 .. MaxOpen + 1
      /\ wrote \in [1 .. MaxOpen -> Nat] /\ wrote' \in [1 .. MaxOpen -> Nat]
      /\ MaxOpen \in Nat /\ net \subseteq Segs /\ net' \subseteq Segs
      /\ conn'[h] = d
  BY TypesRest, Consts DEF TInv, TypeOK
<1>2. ASSUME NEW m \in net', m.n > 0 \/ "FIN" \in m.flags PROVE m.sg \in 1 .. MaxOpen
  <2>1. SegShape(m, next_gen') /\ m \in Segs
    BY <1>1 DEF TInv, Shape
  <2>2. m.sg # 0
    BY <1>2, <2>1, Ends DEF SegShape
  <2> QED
    BY <1>1, <2>1, <2>2 DEF Segs
<1>3. ASSUME NEW m \in net, m.n > 0 \/ "FIN" \in m.flags PROVE m.sg \in 1 .. MaxOpen /\ m.sg < next_gen
  <2>1. SegShape(m, next_gen) /\ m \in Segs
    BY <1>1 DEF TInv, Shape
  <2>2. m.sg \in 1 .. next_gen - 1
    BY <1>1, <1>3, <2>1, Ends DEF SegShape
  <2> QED
    BY <1>1, <2>2
<1>4. ASSUME NEW m \in net', H(m.sg), m.n > 0 \/ "FIN" \in m.flags, m \notin net
      PROVE  /\ m.sg = d.tag /\ Live(d) /\ d.tag \in 1 .. MaxOpen
             /\ Proper(d, wrote'[d.tag]) \/ Early(d, net', rushed')
             /\ Sent(m, d, wrote'[d.tag])
  <2>1. /\ Live(d) /\ d.state \notin {"SynSent", "SynRcvd"} /\ m.sg = d.tag
        /\ Proper(d, wrote'[d.tag]) \/ (Early(d, net', rushed') /\ d.irs = 0) => Sent(m, d, wrote'[d.tag])
    <3>1. ~(m.n = 0 /\ "FIN" \notin m.flags)
      BY <1>1, <1>4
    <3> QED
      BY <1>4, <3>1
  <2>2. ClientInv(conn'[Client], net', wrote', rushed') /\ ServerInv(conn'[Server], conn'[Client], net', wrote')
    BY DEF Sender
  <2>3. ConnShape(Server, conn'[Server], next_gen')
    BY Ends DEF TInv, Shape
  <2>4. Proper(d, wrote'[d.tag]) \/ (Early(d, net', rushed') /\ d.irs = 0)
    <3>1. conn'[h].state \notin {"SynSent", "SynRcvd"} /\ Live(conn'[h]) /\ Heard(conn'[Client], conn'[h].tag)
      BY <1>1, <1>4, <2>1
    <3> HIDE DEF H
    <3>2. \/ Proper(conn'[h], wrote'[conn'[h].tag])
          \/ Early(conn'[h], net', rushed') /\ conn'[h].irs = 0
      BY <2>2, <2>3, <3>1, Speaker
    <3> QED
      BY <1>1, <3>2
  <2>5. m.sg \in 1 .. MaxOpen
    BY <1>2, <1>4
  <2> QED
    BY <2>1, <2>4, <2>5
<1>5. ASSUME NEW m \in net', H(m.sg), m.n > 0 PROVE DataRight(m, wrote'[m.sg])
  <2>1. m.sg \in 1 .. MaxOpen
    BY <1>2, <1>5
  <2>2. CASE m \in net
    <3>1. DataRight(m, wrote[m.sg])
      BY <1>5, <2>1, <2>2 DEF Streams
    <3>2. wrote[m.sg] \in Nat /\ wrote'[m.sg] \in Nat /\ wrote'[m.sg] >= wrote[m.sg]
      BY <1>1, <2>1
    <3>3. m.seq \in Nat /\ m.n \in Nat
      BY <1>1, Consts DEF Segs
    <3> QED
      BY <3>1, <3>2, <3>3 DEF DataRight
  <2>3. CASE m \notin net
    <3>2. m.sg = d.tag /\ Sent(m, d, wrote'[d.tag])
      BY <1>4, <1>5, <2>3
    <3>3. wrote'[d.tag] \in Nat
      BY <1>1, <2>1, <3>2
    <3>4. Proper(d, wrote'[d.tag]) \/ Early(d, net', rushed')
      BY <1>4, <1>5, <2>3
    <3> QED
      BY <1>5, <3>2, <3>3, <3>4, SentData
  <2> QED
    BY <2>2, <2>3
<1>6. ASSUME NEW m \in net', H(m.sg), "FIN" \in m.flags
      PROVE  FinRight(m, conn', net', wrote'[m.sg], rushed')
  <2>1. m.sg \in 1 .. MaxOpen
    BY <1>2, <1>6
  <2>2. CASE m \in net
    <3>1. FinRight(m, conn, net, wrote[m.sg], rushed) /\ m.sg < next_gen /\ m.sg \in Nat /\ m.sg > 0
      BY <1>3, <1>6, <2>1, <2>2 DEF Streams
    <3>2. wrote[m.sg] \in Nat /\ m.seq \in Nat
      BY <1>1, <2>1 DEF Segs
    <3>3. m.seq > 0 => FinMark(conn', net', m.sg, m.seq) /\ wrote'[m.sg] = wrote[m.sg]
      BY <3>1, <3>2, FinMarkKeeps DEF FinRight
    <3>4. m.sg \notin rushed' => m.seq = wrote[m.sg] + 1
      BY <3>1 DEF FinRight
    <3> QED
      BY <3>2, <3>3, <3>4 DEF FinRight
  <2>3. CASE m \notin net
    <3>1. m.sg = d.tag /\ Sent(m, d, wrote'[d.tag])
      BY <1>4, <1>6, <2>3
    <3>2. Proper(d, wrote'[d.tag]) \/ Early(d, net', rushed')
      BY <1>4, <1>6, <2>3
    <3>3. wrote'[d.tag] \in Nat
      BY <1>1, <2>1, <3>1
    <3>4. \A o \in DataIn(net', d.tag) : o \in Segs /\ DataRight(o, wrote'[d.tag])
      BY <1>1, <1>5, <1>6, <3>1 DEF DataIn
    <3>5. \A o \in Host : conn'[o].tag = d.tag /\ Live(conn'[o]) => o = h
      <4>1. \A o \in Host : ConnShape(o, conn'[o], next_gen')
        BY DEF TInv, Shape
      <4>2. conn'[h].tag = d.tag /\ Live(d)
        BY <1>1, <1>4, <1>6, <2>3
      <4> SUFFICES ASSUME NEW o \in Host, conn'[o].tag = d.tag, Live(conn'[o]), o # h PROVE FALSE
        OBVIOUS
      <4>3. ASSUME NEW q \in Host, Live(conn'[q]) PROVE q = Client <=> conn'[q].tag = 1
        BY <4>1, <4>3, Ends DEF ConnShape, Live
      <4>4. o = Client <=> h = Client
        BY <1>1, <4>2, <4>3
      <4> QED
        BY <4>4, Ends
    <3>6. FinRight(m, conn', net', wrote'[d.tag], rushed')
      BY <1>1, <1>6, <3>1, <3>2, <3>3, <3>4, <3>5, SentFin
    <3> QED
      BY <3>1, <3>6
  <2> QED
    BY <2>2, <2>3
<1> QED
  BY <1>5, <1>6 DEF Streams

\* Only tcp_connect makes a host listen to more than it did.
LEMMA HeardShrinks ==
  ASSUME TInv, NEW h \in Host, NEW d, conn' = [conn EXCEPT ![h] = d],
         h = Client => /\ d.state = "SynSent" => conn[h].state = "SynSent"
                       /\ d.irs \in {0, conn[h].irs} \/ conn[h].state = "SynSent"
  PROVE  \A g \in 1 .. MaxOpen : Heard(conn'[Client], g) => Heard(conn[Client], g)
<1>1. conn'[Client] = IF h = Client THEN d ELSE conn[Client]
  BY Ends DEF TInv, TypeOK
<1> QED
  BY <1>1 DEF Heard, Hears

LEMMA KindsStreams ==
  ASSUME TInv, TInv', Sender, Sender', Streams, [Next]_vars, NEW h \in Host, Kinds(h)
  PROVE  Streams'
<1> DEFINE k == conn[h]
<1>0. /\ k \in Conns /\ k.una <= k.nxt /\ wrote \in [1 .. MaxOpen -> Nat]
  BY HostFacts, TypesRest
<1>1. ASSUME NEW d \in Conns, Repeats(h, d) PROVE Streams'
  <2>1. /\ conn' = [conn EXCEPT ![h] = d] /\ wrote' = wrote /\ rushed' = rushed
        /\ d.tag = k.tag /\ d.q = k.q /\ d.una = k.una /\ d.nxt = k.nxt /\ d.irs = k.irs
        /\ d.drained = k.drained /\ d.state = k.state
        /\ d.fin_sent = k.fin_sent /\ d.fin_acked = k.fin_acked
        /\ \A m \in net' : m \in net \/ m = Rst(h) \/ (Live(k) /\ m \in Resent(h, k))
    BY <1>1 DEF Repeats, Alike
  <2>2. ASSUME NEW m \in net', m \notin net, ~(m.n = 0 /\ "FIN" \notin m.flags)
        PROVE  /\ Live(d) /\ d.state \notin {"SynSent", "SynRcvd"} /\ m.sg = d.tag
               /\ Sent(m, d, wrote'[d.tag])
    <3>1. Live(k) /\ m \in Resent(h, k)
      BY <2>1, <2>2, RstFacts
    <3>2. k.state \notin {"SynSent", "SynRcvd"}
      BY <1>0, <2>2, <3>1, ResentSegs
    <3>3. Sent(m, k, wrote[k.tag])
      BY <1>0, <3>1, <3>2, ResentSent
    <3>4. Proper(d, wrote[k.tag]) => Proper(k, wrote[k.tag])
      BY <2>1 DEF Proper
    <3>5. Sent(m, d, wrote[k.tag])
      BY <2>1, <3>3, <3>4 DEF Sent
    <3>6. Live(d)
      BY <2>1, <3>1 DEF Live
    <3> QED
      BY <2>1, <3>2, <3>5, <3>6 DEF Sent
  <2>3. \A g \in 1 .. MaxOpen : Heard(conn'[Client], g) => Heard(conn[Client], g)
    BY <2>1, HeardShrinks
  <2>4. \A g \in 1 .. MaxOpen : wrote'[g] >= wrote[g]
    BY <1>0, <2>1
  <2> QED
    BY <2>1, <2>2, <2>3, <2>4, StreamsStep
<1>2. ASSUME NEW d \in Conns, Stops(h, d) PROVE Streams'
  <2>1. /\ conn' = [conn EXCEPT ![h] = d] /\ (\A m \in net' : m \in net)
        /\ wrote' = wrote /\ rushed' = rushed
        /\ d.state # "SynSent" /\ d.irs \in {0, k.irs}
    BY <1>2, NoConnFacts DEF Stops
  <2>3. \A g \in 1 .. MaxOpen : Heard(conn'[Client], g) => Heard(conn[Client], g)
    BY <2>1, HeardShrinks
  <2>4. \A g \in 1 .. MaxOpen : wrote'[g] >= wrote[g]
    BY <1>0, <2>1
  <2> QED
    BY <2>1, <2>3, <2>4, StreamsStep
<1>3. ASSUME NEW c \in Conns, NEW n \in Nat, Sends(h, c, n) PROVE Streams'
  <2>1. PICK d : d = AfterOutput(c)
    OBVIOUS
  <2>2. /\ c.una <= c.nxt /\ Live(k) /\ Live(c) /\ ~k.fin_sent /\ c.tag = k.tag /\ c.irs = k.irs
        /\ k.accepted /\ c.state = k.state /\ c.tag \in 1 .. MaxOpen
        /\ wrote'[c.tag] = wrote[c.tag] + n
        /\ (\A o \in 1 .. MaxOpen : o # c.tag => wrote'[o] = wrote[o])
        /\ conn' = [conn EXCEPT ![h] = d]
        /\ \A m \in net' : m \in net \/ m \in Output(h, c)
    BY <1>3, <2>1, SendsFacts
  <2>3. /\ d \in Conns /\ d.tag = c.tag /\ d.irs = c.irs
        /\ d.state = IF ~SendsFin(c) THEN c.state
                     ELSE IF c.state = "CloseWait" THEN "LastAck" ELSE "FinWait1"
    BY <2>1, <2>2, AfterOutputFacts
  <2>4. Live(d) /\ (d.state = "SynSent" => k.state = "SynSent")
    BY <2>2, <2>3 DEF Live
  <2>5. \A g \in 1 .. MaxOpen : Heard(conn'[Client], g) => Heard(conn[Client], g)
    BY <2>2, <2>3, <2>4, HeardShrinks
  <2>6. \A g \in 1 .. MaxOpen : wrote'[g] >= wrote[g]
    BY <1>0, <2>2
  <2>7. ASSUME NEW m \in net', m \notin net, Heard(conn'[Client], m.sg)
        PROVE  /\ d.state \notin {"SynSent", "SynRcvd"} /\ m.sg = d.tag
               /\ Sent(m, d, wrote'[d.tag])
    <3>1. m \in Output(h, c) /\ m.sg = c.tag /\ MaySend(c) /\ m \in Segs
      BY <2>2, <2>7, OutputSegs
    <3>2. c.state # "SynRcvd"
      BY <3>1 DEF MaySend
    <3>3. CASE c.state = "SynSent"
      <4>1. h = Client /\ Fresh(k, wrote[k.tag]) /\ k.win = 0
        <5>1. ConnShape(h, k, next_gen)
          BY HostFacts
        <5>2. h = Client
          BY <2>2, <3>3, <5>1, Ends DEF ConnShape, Live
        <5>3. ClientInv(k, net, wrote, rushed)
          BY <5>2 DEF Sender
        <5> QED
          BY <2>2, <3>3, <5>2, <5>3 DEF ClientInv
      <4>2. /\ c.una = k.una /\ c.nxt = k.nxt /\ c.drained = k.drained /\ c.win = k.win
            /\ c.fin_acked = k.fin_acked /\ c.fin_sent = k.fin_sent
        BY <1>3 DEF Sends, Alike
      <4>3. Fresh(c, c.q) /\ c.win = 0
        BY <4>1, <4>2 DEF Fresh
      <4>4. /\ SendsFin(c) /\ EarlySender(d) /\ d.una = 0 /\ d.q <= 1 /\ d.state = "FinWait1"
            /\ m.n = 0 /\ m.seq = 1
        BY <2>1, <3>1, <3>3, <4>3, FreshOutput
      <4>5. d.fin_sent /\ d.una + d.q <= m.seq
        <5>1. d.q \in Nat
          BY <2>3, ConnFields, Consts
        <5> QED
          BY <4>4, <5>1 DEF EarlySender
      <4>6. ~Proper(d, wrote'[d.tag])
        <5>1. d.drained \in Nat
          BY <2>3, ConnFields
        <5> QED
          BY <4>4, <5>1 DEF Proper
      <4> QED
        BY <2>3, <3>1, <4>4, <4>5, <4>6 DEF Sent
    <3>4. CASE c.state # "SynSent"
      <4>1. Heard(conn[Client], k.tag)
        BY <2>2, <2>5, <2>7, <3>1
      <4>2. /\ ClientInv(conn[Client], net, wrote, rushed)
            /\ ServerInv(conn[Server], conn[Client], net, wrote)
            /\ ConnShape(Server, conn[Server], next_gen)
        BY HostFacts, Ends DEF Sender
      <4>3. Proper(conn[h], wrote[conn[h].tag]) \/ (Early(conn[h], net, rushed) /\ conn[h].irs = 0)
        BY <2>2, <3>2, <3>4, <4>1, <4>2, Speaker
      <4>4. Proper(conn[h], wrote[conn[h].tag])
        BY <2>2, <4>3 DEF Early, EarlySender
      <4>5. Proper(d, wrote'[d.tag])
        BY <1>3, <2>1, <4>4, SendsProper
      <4>6. Sent(m, d, wrote'[d.tag])
        BY <2>1, <2>2, <3>1, <4>5, OutputSent
      <4>7. d.state \notin {"SynSent", "SynRcvd"}
        BY <2>3, <3>2, <3>4
      <4> QED
        BY <2>3, <3>1, <4>6, <4>7
    <3> QED
      BY <3>3, <3>4
  <2>8. rushed \subseteq rushed'
    BY <1>3 DEF Sends
  <2> QED
    BY <2>2, <2>3, <2>4, <2>5, <2>6, <2>7, <2>8, StreamsStep
<1> QED
  BY <1>1, <1>2, <1>3 DEF Kinds

LEMMA GetsStreams ==
  ASSUME TInv, TInv', Sender, Sender', Streams, [Next]_vars,
         NEW h \in Host, NEW m \in Inbox(h), NEW dup \in BOOLEAN, RecvSegment(h, m, dup)
  PROVE  Streams'
<1> DEFINE k == conn[h]
<1>1. PICK b : \E d :
           /\ Gets(h, m, conn[h], b, d)
           /\ conn' = [conn EXCEPT ![h] = Reaped(d)]
           /\ \A o \in net' : \/ o \in net \/ o \in Output(h, b)
                              \/ o = Seg(h, d, {"ACK"}, d.nxt, 0, 0)
           /\ UNCHANGED <<wrote, rushed>>
  BY GetsFacts
<1>2. PICK d :
           /\ Gets(h, m, conn[h], b, d)
           /\ conn' = [conn EXCEPT ![h] = Reaped(d)]
           /\ \A o \in net' : \/ o \in net \/ o \in Output(h, b)
                              \/ o = Seg(h, d, {"ACK"}, d.nxt, 0, 0)
           /\ UNCHANGED <<wrote, rushed>>
  BY <1>1
<1>3. /\ k \in Conns /\ k.una <= k.nxt /\ m \in Segs /\ Live(k) /\ k.state # "SynSent"
      /\ ConnShape(h, k, next_gen) /\ ConnShape(h, b, next_gen)
      /\ b \in Conns /\ b.una <= b.nxt /\ (Live(b) \/ b.fin_sent)
      /\ d = AfterOutput(b) /\ d \in Conns /\ d.tag = k.tag /\ d.irs = k.irs /\ b.tag = k.tag
      /\ d.state = b.state \/ d.state \in {"LastAck", "FinWait1"}
  BY <1>2 DEF Gets
<1>4. b.state # "SynSent" /\ d.state # "SynSent"
  <2>1. PICK a : a = TakeAck(TakeWindow(k, m), m)
    OBVIOUS
  <2>2. a.state # "SynSent" /\ b.state \in {a.state, AfterFin(a.state)}
    BY <1>2, <1>3, <2>1, AckState, GetsTakes
  <2>3. b.state # "SynSent"
    BY <2>2 DEF AfterFin
  <2> QED
    BY <1>3, <2>3
<1>5. PICK e \in {d, NoConn} : e = Reaped(d) /\ (Live(d) => e = d)
  BY DEF Reaped, Live
<1>6. e \in Conns /\ e.state # "SynSent" /\ e.irs \in {0, k.irs} /\ conn' = [conn EXCEPT ![h] = e]
  BY <1>2, <1>3, <1>4, <1>5, NoConnFacts
<1>7. \A g \in 1 .. MaxOpen : Heard(conn'[Client], g) => Heard(conn[Client], g)
  BY <1>6, HeardShrinks
<1>8. ASSUME NEW o \in net', o \notin net, ~(o.n = 0 /\ "FIN" \notin o.flags)
      PROVE  /\ Live(e) /\ e.state \notin {"SynSent", "SynRcvd"} /\ o.sg = e.tag
             /\ Proper(e, wrote'[e.tag]) \/ (Early(e, net', rushed') /\ e.irs = 0)
                  => Sent(o, e, wrote'[e.tag])
  <2>1. /\ o \in Segs /\ o.sg = k.tag
        /\ "FIN" \in o.flags \/ o.n > 0 => o \in Output(h, b) /\ MaySend(b)
    BY <1>2, <1>8, GetsSays
  <2>2. o.n \in Nat
    BY <2>1, Consts DEF Segs
  <2>3. o \in Output(h, b) /\ MaySend(b)
    BY <1>8, <2>1, <2>2
  <2>4. ~b.fin_sent /\ b.state # "SynRcvd" /\ Live(b)
    BY <1>3, <2>3 DEF MaySend
  <2>5. Live(d) /\ d.state # "SynRcvd"
    BY <1>3, <2>4 DEF Live
  <2>6. e = d
    BY <1>5, <2>5
  <2>7. ASSUME d.irs = 0 PROVE FALSE
    <3>1. h = Client
      BY <1>3, <2>7, Ends DEF ConnShape, Live
    <3>2. ClientInv(k, net, wrote, rushed)
      BY <3>1 DEF Sender
    <3>3. k.fin_sent
      BY <1>3, <2>7, <3>2 DEF ClientInv, Early, EarlySender
    <3>4. PICK a : a = TakeAck(TakeWindow(k, m), m)
      OBVIOUS
    <3>5. b.fin_sent = a.fin_sent /\ a.fin_sent = k.fin_sent
      BY <1>2, <3>4, GetsTakes
    <3> QED
      BY <2>4, <3>3, <3>5
  <2>8. Proper(d, wrote'[d.tag]) => Sent(o, d, wrote'[d.tag])
    BY <1>3, <2>3, OutputSent
  <2> QED
    BY <1>3, <1>4, <2>1, <2>5, <2>6, <2>7, <2>8
<1>9. \A g \in 1 .. MaxOpen : wrote'[g] >= wrote[g]
  <2>1. wrote \in [1 .. MaxOpen -> Nat] /\ wrote' = wrote
    BY <1>2, TypesRest
  <2> QED
    BY <2>1
<1>10. rushed \subseteq rushed'
  BY <1>2
<1> QED
  BY <1>6, <1>7, <1>8, <1>9, <1>10, StreamsStep

LEMMA OpensStreams ==
  ASSUME TInv, TInv', Sender, Sender', Streams, [Next]_vars,
         NEW h \in Host, NEW m \in Inbox(h), NEW dup \in BOOLEAN,
         RecvSyn(h, m, dup) \/ (RecvInSynSent(h, m, dup) /\ conn' # conn)
  PROVE  Streams'
<1>0. wrote \in [1 .. MaxOpen -> Nat]
  BY TypesRest
<1>1. CASE RecvSyn(h, m, dup)
  <2>1. PICK c : c = SynConn(next_gen, m)
    OBVIOUS
  <2>2. /\ h = Server /\ c \in Conns /\ conn' = [conn EXCEPT ![h] = c]
        /\ \A k \in net' : k \in net \/ k = Seg(h, c, {"SYN", "ACK"}, 0, 0, 0)
        /\ UNCHANGED <<wrote, taken, rushed>>
    BY <1>1, <2>1, RecvSynDoes
  <2>3. \A o \in net' : o \in net \/ (o.n = 0 /\ "FIN" \notin o.flags)
    BY <2>2, SegFacts
  <2>4. \A g \in 1 .. MaxOpen : Heard(conn'[Client], g) => Heard(conn[Client], g)
    BY <2>2, Ends, HeardShrinks
  <2>5. \A g \in 1 .. MaxOpen : wrote'[g] >= wrote[g]
    BY <1>0, <2>2
  <2> QED
    BY <2>2, <2>3, <2>4, <2>5, StreamsStep
<1>2. CASE RecvInSynSent(h, m, dup) /\ conn' # conn
  <2>1. PICK c : c = Answered(conn[h], m)
    OBVIOUS
  <2>2. PICK d : d = AfterOutput(c)
    OBVIOUS
  <2>3. /\ conn[h].state = "SynSent" /\ "RST" \notin m.flags
        /\ UNCHANGED <<wrote, taken, rushed>>
        /\ {"SYN", "ACK"} \subseteq m.flags
        /\ m.ag = conn[h].tag /\ m.ack = conn[h].nxt
        /\ conn' = [conn EXCEPT ![h] = d]
        /\ \A k \in net' : \/ k \in net \/ k \in Output(h, c)
                           \/ k = Seg(h, c, {"ACK"}, c.nxt, 0, 0)
    BY <1>2, <2>1, <2>2, RecvInSynSentDoes
  <2>4. c \in Conns /\ h = Client /\ c.tag = conn[h].tag /\ c.una = conn[h].nxt
        /\ c.nxt = conn[h].nxt /\ c.state = "Established" /\ c.irs \in 2 .. next_gen - 1
    BY <2>1, <2>3, EstablishedConn
  <2>5. c.una <= c.nxt /\ c.nxt \in Nat
    BY <2>4, ConnFields
  <2>6. /\ d \in Conns /\ d.tag = c.tag /\ d.irs = c.irs
        /\ d.state = IF ~SendsFin(c) THEN c.state
                     ELSE IF c.state = "CloseWait" THEN "LastAck" ELSE "FinWait1"
    BY <2>2, <2>4, <2>5, AfterOutputFacts
  <2>7. d.state \in {"Established", "FinWait1"} /\ d.irs # 0 /\ Live(d)
    <3>1. d.state \in {"Established", "FinWait1"} /\ d.irs # 0
      BY <2>4, <2>6, TypesRest
    <3> QED
      BY <3>1 DEF Live
  <2>8. ASSUME NEW o \in net', o \notin net, ~(o.n = 0 /\ "FIN" \notin o.flags)
        PROVE  /\ o.sg = d.tag
               /\ Proper(d, wrote'[d.tag]) => Sent(o, d, wrote'[d.tag])
    <3>1. o # Seg(h, c, {"ACK"}, c.nxt, 0, 0)
      BY <2>4, <2>5, <2>8, SegFacts
    <3>2. o \in Output(h, c)
      BY <2>3, <2>8, <3>1
    <3>3. o.sg = d.tag
      BY <2>4, <2>5, <2>6, <3>2, OutputSegs
    <3> QED
      BY <2>2, <2>4, <2>5, <3>2, <3>3, OutputSent
  <2>9. \A g \in 1 .. MaxOpen : Heard(conn'[Client], g) => Heard(conn[Client], g)
    BY <2>3, HeardShrinks
  <2>10. \A g \in 1 .. MaxOpen : wrote'[g] >= wrote[g]
    BY <1>0, <2>3
  <2> QED
    BY <2>3, <2>6, <2>7, <2>8, <2>9, <2>10, StreamsStep
<1> QED
  BY <1>1, <1>2

LEMMA NextStreams ==
  ASSUME TInv, TInv', Sender, Sender', Streams, [Next]_vars
  PROVE  Streams'
<1>1. Kind
  BY NextKind
<1>2. ASSUME NEW h \in Host, Connect(h) PROVE Streams'
  <2>1. PICK c : c = NewConn(next_gen, "SynSent", 0, 0, 0, TRUE)
    OBVIOUS
  <2>2. /\ next_gen = 1 /\ next_gen <= MaxOpen /\ net' = net \cup {Seg(h, c, {"SYN"}, 0, 0, 0)}
    BY <1>2, <2>1 DEF Connect
  <2>3. c \in Conns
    BY <2>1, <2>2, Consts DEF NewConn, Conns, State
  <2>4. net = {}
    BY <2>2, TypesRest
  <2>5. \A m \in net' : m.n = 0 /\ "FIN" \notin m.flags
    BY <2>2, <2>3, <2>4, SegFacts
  <2> QED
    BY <2>5 DEF Streams
<1> QED
  BY <1>1, <1>2, KindsStreams, OpensStreams, GetsStreams DEF Kind

LEMMA InitStreams == Init => Streams
BY DEF Init, Streams

\* What host h has received is a prefix of its peer's stream, up to rcv_nxt,
\* and all of it once it has taken the FIN.
Receiver(K, N, W, R, h) ==
  /\ K[h].got = [k \in 1 .. Len(K[h].got) |-> k]
  /\ Live(K[h]) /\ K[h].irs # 0 =>
       /\ K[h].rcv > 0
       /\ ~TookFin(K[h]) => K[h].rcv = Len(K[h].got) + 1
       /\ TookFin(K[h]) => FinMark(K, N, K[h].irs, K[h].rcv - 1)
  /\ TookFin(K[h]) => K[h].irs # 0 /\ (K[h].irs \notin R => Len(K[h].got) = W[K[h].irs])
Receivers == \A h \in Host : Receiver(conn, net, wrote, rushed, h)

LEMMA IrsFacts ==
  ASSUME TInv, NEW h \in Host, Live(conn[h]), conn[h].irs # 0
  PROVE  /\ conn[h].irs \in Nat /\ conn[h].irs > 0 /\ conn[h].irs < next_gen
         /\ conn[h].irs \in 1 .. MaxOpen /\ Heard(conn[Client], conn[h].irs)
<1>1. /\ conn[h] \in Conns /\ ConnShape(h, conn[h], next_gen) /\ next_gen \in 1 .. MaxOpen + 1
  BY HostFacts, TypesRest
<1>2. conn[h].irs \in 0 .. MaxOpen /\ MaxOpen \in Nat /\ conn[h].tag \in 0 .. MaxOpen
  BY <1>1, ConnFields, Consts
<1>3. conn[h].irs < next_gen
  BY <1>1, <1>2 DEF ConnShape, Live
<1>4. Heard(conn[Client], conn[h].irs)
  BY <1>1, Ends DEF Heard, Hears, ConnShape, Live
<1> QED
  BY <1>2, <1>3, <1>4

LEMMA ReceiverSame ==
  ASSUME TInv, Sender, [Next]_vars, rushed \subseteq rushed',
         NEW h \in Host, Receiver(conn, net, wrote, rushed, h), NEW d, conn'[h] = d,
         d.got = conn[h].got \/ d.got = <<>>,
         Live(d) => /\ Live(conn[h]) /\ d.got = conn[h].got
                    /\ d.irs = conn[h].irs /\ d.rcv = conn[h].rcv
                    /\ TookFin(d) <=> TookFin(conn[h])
  PROVE  Receiver(conn', net', wrote', rushed', h)
<1> DEFINE k == conn[h]
<1>1. d.got = [i \in 1 .. Len(d.got) |-> i]
  BY DEF Receiver
<1>2. TookFin(d) => Live(d)
  BY DEF TookFin, Live
<1>3. CASE ~Live(d)
  BY <1>1, <1>2, <1>3 DEF Receiver
<1>4. CASE Live(d)
  <2>1. /\ Live(k) /\ d.got = k.got /\ d.irs = k.irs /\ d.rcv = k.rcv
        /\ TookFin(d) <=> TookFin(k)
    BY <1>4
  <2>2. CASE k.irs = 0
    BY <1>1, <2>1, <2>2 DEF Receiver
  <2>3. CASE k.irs # 0
    <3>1. k.irs \in Nat /\ k.irs > 0 /\ k.irs < next_gen /\ k.rcv \in Nat
      BY <2>1, <2>3, IrsFacts, HostFacts, ConnFields
    <3>2. /\ k.rcv > 0
          /\ ~TookFin(k) => k.rcv = Len(k.got) + 1
          /\ TookFin(k) => /\ FinMark(conn, net, k.irs, k.rcv - 1)
                           /\ k.irs \notin rushed => Len(k.got) = wrote[k.irs]
      BY <2>1, <2>3 DEF Receiver
    <3>3. k.rcv - 1 \in Nat
      BY <3>1, <3>2
    <3>4. TookFin(k) => FinMark(conn', net', k.irs, k.rcv - 1) /\ wrote'[k.irs] = wrote[k.irs]
      BY <3>1, <3>2, <3>3, FinMarkKeeps
    <3> QED
      BY <1>1, <2>1, <2>3, <3>2, <3>4 DEF Receiver
  <2> QED
    BY <2>2, <2>3
<1> QED
  BY <1>3, <1>4

\* tcp_output takes no FIN and loses none.
LEMMA OutputTook ==
  ASSUME NEW h, NEW t, NEW c \in Conns, c.una <= c.nxt, ConnShape(h, c, t), Live(c) \/ c.fin_sent,
         NEW d, d = AfterOutput(c)
  PROVE  /\ Live(d) => Live(c)
         /\ TookFin(d) <=> TookFin(c)
         /\ d.got = c.got /\ d.irs = c.irs /\ d.rcv = c.rcv
<1>1. /\ d.got = c.got /\ d.irs = c.irs /\ d.rcv = c.rcv
      /\ d.state = IF ~SendsFin(c) THEN c.state
                   ELSE IF c.state = "CloseWait" THEN "LastAck" ELSE "FinWait1"
  BY AfterOutputFacts
<1>2. SendsFin(c) => Live(c) /\ c.state \notin {"LastAck", "Closing", "TimeWait"}
  BY DEF SendsFin, MaySend, ConnShape, FinSentStates
<1>3. CASE ~SendsFin(c)
  BY <1>1, <1>3 DEF Live, TookFin
<1>4. CASE SendsFin(c) /\ c.state = "CloseWait"
  BY <1>1, <1>2, <1>4 DEF TookFin
<1>5. CASE SendsFin(c) /\ c.state # "CloseWait"
  BY <1>1, <1>2, <1>5 DEF TookFin
<1> QED
  BY <1>3, <1>4, <1>5

LEMMA ReceiversStep ==
  ASSUME TInv, Sender, Receivers, [Next]_vars, rushed \subseteq rushed',
         NEW h \in Host, NEW d, conn' = [conn EXCEPT ![h] = d],
         Receiver(conn', net', wrote', rushed', h)
  PROVE  Receivers'
<1>1. ASSUME NEW o \in Host, o # h PROVE Receiver(conn', net', wrote', rushed', o)
  <2>1. conn'[o] = conn[o] /\ Receiver(conn, net, wrote, rushed, o)
    BY <1>1 DEF TInv, TypeOK, Receivers
  <2> QED
    BY <2>1, ReceiverSame
<1> QED
  BY <1>1 DEF Receivers

LEMMA KindsReceivers ==
  ASSUME TInv, Sender, Receivers, [Next]_vars, NEW h \in Host, Kinds(h)
  PROVE  Receivers'
<1>0. Receiver(conn, net, wrote, rushed, h) /\ conn \in [Host -> Conns]
  BY DEF Receivers, TInv, TypeOK
<1>1. ASSUME NEW d \in Conns, Repeats(h, d) PROVE Receivers'
  <2>1. /\ conn' = [conn EXCEPT ![h] = d] /\ conn'[h] = d /\ rushed' = rushed
        /\ d.got = conn[h].got /\ d.irs = conn[h].irs /\ d.rcv = conn[h].rcv
        /\ d.state = conn[h].state
    BY <1>0, <1>1 DEF Repeats, Alike
  <2>2. (Live(d) <=> Live(conn[h])) /\ (TookFin(d) <=> TookFin(conn[h]))
    BY <2>1 DEF Live, TookFin
  <2>3. Receiver(conn', net', wrote', rushed', h)
    BY <1>0, <2>1, <2>2, ReceiverSame
  <2> QED
    BY <2>1, <2>3, ReceiversStep
<1>2. ASSUME NEW d \in Conns, Stops(h, d) PROVE Receivers'
  <2>1. /\ conn' = [conn EXCEPT ![h] = d] /\ conn'[h] = d /\ rushed' = rushed
        /\ d.got = conn[h].got \/ d.got = <<>>
        /\ ~Live(d)
    BY <1>0, <1>2, NoConnFacts DEF Stops
  <2>2. d.got = conn[h].got \/ d.got = <<>>
    BY <1>2, NoConnFacts DEF Stops
  <2>3. Receiver(conn', net', wrote', rushed', h)
    BY <1>0, <2>1, <2>2, ReceiverSame
  <2> QED
    BY <2>1, <2>3, ReceiversStep
<1>3. ASSUME NEW c \in Conns, NEW n \in Nat, Sends(h, c, n) PROVE Receivers'
  <2>1. PICK d : d = AfterOutput(c)
    OBVIOUS
  <2>2. /\ c.una <= c.nxt /\ Live(conn[h]) /\ Live(c)
        /\ c.irs = conn[h].irs /\ c.rcv = conn[h].rcv /\ c.got = conn[h].got
        /\ c.state = conn[h].state /\ conn' = [conn EXCEPT ![h] = d]
    BY <1>3, <2>1, SendsFacts
  <2>3. c.fin_sent <=> conn[h].fin_sent
    BY <1>3 DEF Sends, Alike
  <2>4. rushed \subseteq rushed' /\ conn'[h] = d
    BY <1>0, <1>3, <2>2 DEF Sends
  <2>5. /\ Live(d) => Live(c)
        /\ TookFin(d) <=> TookFin(c)
        /\ d.got = c.got /\ d.irs = c.irs /\ d.rcv = c.rcv
    <3>1. ConnShape(h, conn[h], next_gen)
      BY HostFacts
    <3>2. c.state \notin {"LastAck", "Closing", "TimeWait"} \/ c.fin_sent
      BY <2>2, <2>3, <3>1 DEF ConnShape, FinSentStates
    <3>3. /\ d.got = c.got /\ d.irs = c.irs /\ d.rcv = c.rcv
          /\ d.state = IF ~SendsFin(c) THEN c.state
                       ELSE IF c.state = "CloseWait" THEN "LastAck" ELSE "FinWait1"
      BY <2>1, <2>2, AfterOutputFacts
    <3>4. SendsFin(c) => c.state \notin {"LastAck", "Closing", "TimeWait"}
      BY <3>2 DEF SendsFin, MaySend
    <3>5. TookFin(d) <=> TookFin(c)
      BY <3>3, <3>4 DEF TookFin
    <3> QED
      BY <2>2, <3>3, <3>5
  <2>6. TookFin(c) <=> TookFin(conn[h])
    BY <2>2 DEF TookFin
  <2>7. Receiver(conn', net', wrote', rushed', h)
    BY <1>0, <2>2, <2>4, <2>5, <2>6, ReceiverSame
  <2> QED
    BY <2>2, <2>4, <2>7, ReceiversStep
<1> QED
  BY <1>1, <1>2, <1>3 DEF Kinds

\* A segment that arrives: data, FIN or neither.
LEMMA GetsReceiver ==
  ASSUME TInv, Sender, Streams, [Next]_vars, UNCHANGED <<wrote, rushed>>,
         NEW h \in Host, Receiver(conn, net, wrote, rushed, h),
         NEW m, NEW b, NEW d, Gets(h, m, conn[h], b, d), conn'[h] = d
  PROVE  Receiver(conn', net', wrote', rushed', h)
<1> DEFINE k == conn[h]
<1>1. /\ k \in Conns /\ k.una <= k.nxt /\ m \in net /\ m \in Segs /\ Live(k) /\ k.state # "SynSent"
      /\ SegShape(m, next_gen) /\ "RST" \notin m.flags /\ ("FIN" \in m.flags => m.n = 0)
      /\ ConnShape(h, b, next_gen) /\ b \in Conns /\ b.una <= b.nxt /\ (Live(b) \/ b.fin_sent)
      /\ b.irs = k.irs /\ d = AfterOutput(b)
  BY DEF Gets
<1>2. /\ Live(d) => Live(b)
      /\ TookFin(d) <=> TookFin(b)
      /\ d.got = b.got /\ d.irs = k.irs /\ d.rcv = b.rcv
  BY <1>1, OutputTook
<1>3. PICK a : a = TakeAck(TakeWindow(k, m), m)
  OBVIOUS
<1>4. /\ \/ /\ Accepts(k, m)
            /\ b.rcv = k.rcv + m.n /\ b.got = k.got \o Payload(m)
            /\ b.state = a.state
         \/ /\ "FIN" \in m.flags /\ m.sg = k.irs /\ m.seq = k.rcv
            /\ b.rcv = k.rcv + 1 /\ b.got = k.got /\ b.state = AfterFin(a.state)
         \/ b.rcv = k.rcv /\ b.got = k.got /\ b.state = a.state
      /\ a.state \in State \cup {"None"}
  <2> HIDE DEF k
  <2>1. Gets(h, m, k, b, d)
    BY DEF k
  <2>2. a.state \in State \cup {"None"}
    BY <1>3, <2>1, GetsTakes
  <2> QED
    BY <1>3, <2>1, <2>2, GetsTakes
<1>5. /\ a.state # "SynSent"
      /\ TookFin(a) => TookFin(k)
      /\ TookFin(k) /\ a.state # "Closed" => TookFin(a)
  BY <1>1, <1>3, AckState
<1>6. /\ k.got = [i \in 1 .. Len(k.got) |-> i]
      /\ k.irs # 0 =>
           /\ k.rcv > 0
           /\ ~TookFin(k) => k.rcv = Len(k.got) + 1
           /\ TookFin(k) => FinMark(conn, net, k.irs, k.rcv - 1)
      /\ TookFin(k) => k.irs # 0 /\ (k.irs \notin rushed => Len(k.got) = wrote[k.irs])
  BY <1>1 DEF Receiver
<1>7. /\ k.rcv \in Nat /\ k.got \in Seq(Nat) /\ Len(k.got) \in Nat
      /\ m.seq \in Nat /\ m.n \in Nat /\ m.first \in Nat
  <2>1. k.rcv \in Nat /\ Len(k.got) \in Nat /\ k.got \in Seq(Nat)
    BY <1>1, NatFields, ConnFields
  <2>2. m.seq \in Nat /\ m.n \in Nat /\ m.first \in Nat
    BY <1>1, SegNats
  <2> QED
    BY <2>1, <2>2
<1>8. "FIN" \in m.flags \/ m.n > 0 => m.sg # 0
  BY <1>1, Ends DEF SegShape
<1>9. m.sg = k.irs /\ k.irs # 0 =>
        /\ m.n > 0 => DataRight(m, wrote[m.sg])
        /\ "FIN" \in m.flags => FinRight(m, conn, net, wrote[m.sg], rushed)
  BY <1>1, IrsFacts DEF Streams
<1>10. CASE /\ Accepts(k, m)
            /\ b.rcv = k.rcv + m.n /\ b.got = k.got \o Payload(m)
            /\ b.state = a.state
  <2>1. m.n > 0 /\ m.sg = k.irs /\ m.seq = k.rcv
    BY <1>10 DEF Accepts, InOrder
  <2>2. k.irs # 0
    BY <1>8, <2>1
  <2>3. k.rcv = m.first + 1
    BY <1>6, <1>7, <1>9, <2>1, <2>2 DEF DataRight
  <2>4. ~TookFin(k)
    <3> SUFFICES ASSUME TookFin(k) PROVE FALSE
      OBVIOUS
    <3>1. m \in DataIn(net, k.irs)
      BY <1>1, <2>1 DEF DataIn
    <3>2. m.seq + m.n <= k.rcv - 1
      BY <1>6, <2>2, <3>1 DEF FinMark
    <3> QED
      BY <1>7, <2>1, <3>2
  <2>5. m.first = Len(k.got) /\ k.rcv = Len(k.got) + 1
    BY <1>6, <1>7, <2>2, <2>3, <2>4
  <2>6. /\ b.got \in Seq(Nat) /\ Len(b.got) = Len(k.got) + m.n
        /\ \A i \in 1 .. Len(k.got) : b.got[i] = k.got[i]
        /\ \A i \in 1 .. m.n : b.got[Len(k.got) + i] = m.first + i
    <3>1. b.got = k.got \o [i \in 1 .. m.n |-> m.first + i]
      BY <1>10 DEF Payload
    <3>2. PICK u \in Seq(Nat) : u = k.got
      BY <1>7
    <3>3. PICK f \in Nat : f = m.first
      BY <1>7
    <3>4. PICK n \in Nat : n = m.n
      BY <1>7
    <3>5. PICK t : t = b.got
      OBVIOUS
    <3>6. t = u \o [i \in 1 .. n |-> f + i]
      BY <3>1, <3>2, <3>3, <3>4, <3>5
    <3>7. /\ t \in Seq(Nat) /\ Len(t) = Len(u) + n
          /\ \A i \in 1 .. Len(u) : t[i] = u[i]
          /\ \A i \in 1 .. n : t[Len(u) + i] = f + i
      BY <3>6, PayloadFacts
    <3> QED
      BY <3>2, <3>3, <3>4, <3>5, <3>7
  <2>7. \A i \in 1 .. Len(b.got) : b.got[i] = i
    <3> SUFFICES ASSUME NEW i \in 1 .. Len(b.got) PROVE b.got[i] = i
      OBVIOUS
    <3>1. CASE i <= Len(k.got)
      <4>1. i \in 1 .. Len(k.got)
        BY <1>7, <2>6, <3>1
      <4>2. k.got[i] = i
        BY <1>6, <4>1
      <4> QED
        BY <2>6, <4>1, <4>2
    <3>2. CASE i > Len(k.got)
      <4>1. PICK j \in 1 .. m.n : i = Len(k.got) + j
        <5>1. i \in 1 .. Len(k.got) + m.n
          BY <2>6
        <5>2. Len(k.got) \in Nat /\ m.n \in Nat
          BY <1>7
        <5>3. i - Len(k.got) \in 1 .. m.n /\ i = Len(k.got) + (i - Len(k.got))
          BY <3>2, <5>1, <5>2
        <5> QED
          BY <5>3
      <4> QED
        BY <2>5, <2>6, <4>1
    <3> QED
      BY <1>7, <2>6, <3>1, <3>2
  <2>8. b.got = [i \in 1 .. Len(b.got) |-> i]
    <3>1. b.got = [i \in 1 .. Len(b.got) |-> b.got[i]]
      BY <2>6
    <3> QED
      BY <2>7, <3>1
  <2>9. ~TookFin(d)
    BY <1>2, <1>5, <1>10, <2>4 DEF TookFin
  <2>10. d.rcv = Len(d.got) + 1 /\ d.rcv > 0
    <3>1. d.rcv = k.rcv + m.n /\ Len(d.got) = Len(k.got) + m.n
      BY <1>2, <1>10, <2>6
    <3> QED
      BY <1>7, <2>5, <3>1
  <2> QED
    BY <1>2, <2>8, <2>9, <2>10 DEF Receiver
<1>11. CASE /\ "FIN" \in m.flags /\ m.sg = k.irs /\ m.seq = k.rcv
            /\ b.rcv = k.rcv + 1 /\ b.got = k.got /\ b.state = AfterFin(a.state)
  <2>1. k.irs # 0 /\ k.rcv > 0
    BY <1>6, <1>8, <1>11
  <2>2. FinMark(conn, net, k.irs, k.rcv) /\ (k.irs \notin rushed => k.rcv = wrote[k.irs] + 1)
    BY <1>9, <1>11, <2>1 DEF FinRight
  <2>3. k.irs \in Nat /\ k.irs > 0 /\ k.irs < next_gen /\ wrote[k.irs] \in Nat
    BY <1>1, <2>1, IrsFacts, TypesRest
  <2>4. FinMark(conn', net', k.irs, k.rcv)
    BY <1>7, <2>2, <2>3, FinMarkKeeps
  <2>5. k.irs \notin rushed => Len(k.got) = wrote[k.irs]
    <3>1. CASE TookFin(k)
      BY <1>6, <3>1
    <3>2. CASE ~TookFin(k)
      BY <1>6, <1>7, <2>1, <2>2, <2>3, <3>2
    <3> QED
      BY <3>1, <3>2
  <2>6. Live(d) => TookFin(d)
    <3>1. a.state \in State \cup {"None"} /\ a.state # "SynSent" /\ b.state = AfterFin(a.state)
      BY <1>4, <1>5, <1>11
    <3>2. Live(b) => TookFin(b)
      BY <3>1 DEF AfterFin, TookFin, Live, State
    <3> QED
      BY <1>2, <3>2
  <2>7. d.rcv > 0 /\ d.rcv - 1 = k.rcv
    <3>1. d.rcv = k.rcv + 1
      BY <1>2, <1>11
    <3> QED
      BY <1>7, <3>1
  <2>8. d.got = k.got
    BY <1>2, <1>11
  <2> QED
    BY <1>2, <1>6, <2>1, <2>4, <2>5, <2>6, <2>7, <2>8 DEF Receiver
<1>12. CASE b.rcv = k.rcv /\ b.got = k.got /\ b.state = a.state
  <2>1. Live(d) => (TookFin(d) <=> TookFin(k))
    BY <1>2, <1>5, <1>12 DEF TookFin, Live
  <2>2. d.got = k.got /\ d.irs = k.irs /\ d.rcv = k.rcv /\ rushed \subseteq rushed'
    BY <1>2, <1>12
  <2> QED
    BY <1>1, <2>1, <2>2, ReceiverSame
<1> QED
  BY <1>4, <1>10, <1>11, <1>12

LEMMA GetsReceivers ==
  ASSUME TInv, Sender, Streams, Receivers, [Next]_vars,
         NEW h \in Host, NEW m \in Inbox(h), NEW dup \in BOOLEAN, RecvSegment(h, m, dup)
  PROVE  Receivers'
<1>1. PICK b : \E d :
           /\ Gets(h, m, conn[h], b, d)
           /\ conn' = [conn EXCEPT ![h] = Reaped(d)]
           /\ UNCHANGED <<wrote, rushed>>
  BY GetsFacts
<1>2. PICK d :
           /\ Gets(h, m, conn[h], b, d)
           /\ conn' = [conn EXCEPT ![h] = Reaped(d)]
           /\ UNCHANGED <<wrote, rushed>>
  BY <1>1
<1>3. /\ Receiver(conn, net, wrote, rushed, h) /\ conn'[h] = Reaped(d) /\ rushed \subseteq rushed'
      /\ d \in Conns
  BY <1>2 DEF Receivers, TInv, TypeOK, Gets
<1>4. CASE Reaped(d) = d
  <2>1. Receiver(conn', net', wrote', rushed', h)
    BY <1>2, <1>3, <1>4, GetsReceiver
  <2> QED
    BY <1>2, <1>3, <2>1, ReceiversStep
<1>5. CASE Reaped(d) # d
  <2>1. conn'[h] = NoConn /\ ~Live(NoConn) /\ NoConn.got = <<>>
    BY <1>3, <1>5, NoConnFacts DEF Reaped, Live
  <2>2. Receiver(conn', net', wrote', rushed', h)
    BY <1>3, <2>1, ReceiverSame
  <2> QED
    BY <1>2, <1>3, <2>2, ReceiversStep
<1> QED
  BY <1>4, <1>5

\* A connection as it opens has received nothing.
LEMMA OpensReceivers ==
  ASSUME TInv, Sender, Receivers, [Next]_vars, rushed \subseteq rushed',
         NEW h \in Host, NEW d \in Conns, conn' = [conn EXCEPT ![h] = d],
         d.got = <<>>, ~TookFin(d), d.irs = 0 \/ d.rcv = 1
  PROVE  Receivers'
<1>1. d.got = [i \in 1 .. Len(d.got) |-> i] /\ Len(d.got) = 0
  OBVIOUS
<1>2. conn'[h] = d
  BY DEF TInv, TypeOK
<1>3. Receiver(conn', net', wrote', rushed', h)
  BY <1>1, <1>2 DEF Receiver
<1> QED
  BY <1>3, ReceiversStep

LEMMA NextReceivers ==
  ASSUME TInv, TInv', Sender, Streams, Receivers, [Next]_vars
  PROVE  Receivers'
<1>1. Kind
  BY NextKind
<1>2. ASSUME NEW h \in Host, Connect(h) PROVE Receivers'
  <2>1. PICK c : c = NewConn(next_gen, "SynSent", 0, 0, 0, TRUE)
    OBVIOUS
  <2>2. /\ next_gen = 1 /\ next_gen <= MaxOpen /\ conn' = [conn EXCEPT ![h] = c] /\ rushed' = rushed
    BY <1>2, <2>1 DEF Connect
  <2>3. c \in Conns /\ c.got = <<>> /\ c.state = "SynSent" /\ c.irs = 0
    BY <2>1, <2>2, Consts DEF NewConn, Conns, State
  <2>4. ~TookFin(c)
    BY <2>3 DEF TookFin
  <2> QED
    BY <2>2, <2>3, <2>4, OpensReceivers
<1>3. ASSUME NEW h \in Host, NEW m \in Inbox(h), NEW dup \in BOOLEAN, RecvSyn(h, m, dup)
      PROVE  Receivers'
  <2>1. PICK c : c = SynConn(next_gen, m)
    OBVIOUS
  <2>2. /\ c \in Conns /\ c.state = "SynRcvd" /\ conn' = [conn EXCEPT ![h] = c]
        /\ rushed' = rushed
    BY <1>3, <2>1, RecvSynDoes
  <2>3. c.got = <<>> /\ c.rcv = 1
    <3>1. "SYN" \in m.flags /\ next_gen <= MaxOpen
      <4>1. Opens(h, m) /\ ~Blocked(m) /\ m.to = h
        BY <1>3 DEF RecvSyn, Inbox
      <4>2. ~(next_gen > MaxOpen) /\ "SYN" \in m.flags
        BY <4>1 DEF Opens, Blocked
      <4>3. next_gen \in Nat
        BY TypesRest
      <4> QED
        BY <4>2, <4>3, Consts
    <3>2. m.seq = 0
      BY <3>1, InboxFacts DEF SegShape
    <3> QED
      BY <2>1, <3>2 DEF SynConn, NewConn
  <2>4. ~TookFin(c)
    BY <2>2 DEF TookFin
  <2> QED
    BY <2>2, <2>3, <2>4, OpensReceivers
<1>4. ASSUME NEW h \in Host, NEW m \in Inbox(h), NEW dup \in BOOLEAN,
             RecvInSynSent(h, m, dup), conn' # conn
      PROVE  Receivers'
  <2>1. PICK c : c = Answered(conn[h], m)
    OBVIOUS
  <2>2. PICK d : d = AfterOutput(c)
    OBVIOUS
  <2>3. /\ conn[h].state = "SynSent" /\ "RST" \notin m.flags
        /\ UNCHANGED <<wrote, taken, rushed>>
        /\ {"SYN", "ACK"} \subseteq m.flags
        /\ m.ag = conn[h].tag /\ m.ack = conn[h].nxt
        /\ conn' = [conn EXCEPT ![h] = d]
    BY <1>4, <2>1, <2>2, RecvInSynSentDoes
  <2>4. /\ c \in Conns /\ h = Client /\ c.una = conn[h].nxt
        /\ c.nxt = conn[h].nxt /\ c.state = "Established" /\ c.rcv = 1
    BY <2>1, <2>3, EstablishedConn
  <2>5. c.got = conn[h].got
    BY <2>1, HostFacts DEF Answered, Conns
  <2>6. conn[h].got = <<>>
    BY <2>3, <2>4 DEF Sender, ClientInv, Live
  <2>7. c.una <= c.nxt
    BY <2>4, ConnFields
  <2>8. /\ d \in Conns /\ d.got = c.got /\ d.rcv = c.rcv
        /\ d.state = IF ~SendsFin(c) THEN c.state
                     ELSE IF c.state = "CloseWait" THEN "LastAck" ELSE "FinWait1"
    BY <2>2, <2>4, <2>7, AfterOutputFacts
  <2>9. ~TookFin(d)
    BY <2>4, <2>8 DEF TookFin
  <2> QED
    BY <2>3, <2>4, <2>5, <2>6, <2>8, <2>9, OpensReceivers
<1> QED
  BY <1>1, <1>2, <1>3, <1>4, KindsReceivers, GetsReceivers DEF Kind

LEMMA InitReceivers == Init => Receivers
<1> SUFFICES ASSUME Init PROVE Receivers
  OBVIOUS
<1>1. \A h \in Host : conn[h] = NoConn
  BY DEF Init
<1>2. NoConn.got = <<>> /\ ~Live(NoConn) /\ ~TookFin(NoConn)
  BY NoConnFacts DEF Live, TookFin
<1>3. <<>> = [i \in 1 .. Len(<<>>) |-> i]
  OBVIOUS
<1> QED
  BY <1>1, <1>2, <1>3 DEF Receivers, Receiver

\* Everything an application reads is the peer's stream from its first byte
\* on (net.rs:770).
THEOREM StreamsAreIntact == Spec => []StreamIntact
<1> DEFINE I == TInv /\ Sender /\ Streams /\ Receivers
<1>1. Init => I
  BY InitTInv, InitSender, InitStreams, InitReceivers
<1>2. I /\ [Next]_vars => I'
  <2> SUFFICES ASSUME TInv, Sender, Streams, Receivers, [Next]_vars PROVE I'
    OBVIOUS
  <2>1. TInv' /\ Sender'
    BY NextTInv, NextSender
  <2> QED
    BY <2>1, NextStreams, NextReceivers
<1>3. I => StreamIntact
  BY DEF Receivers, Receiver, StreamIntact
<1> QED
  BY <1>1, <1>2, <1>3, PTL DEF Spec

\* Who has taken the FIN has taken all that was written before it, unless the
\* peer was closed before it was open (net.rs:776).
THEOREM EndComesLast == Spec => []EofIsEnd
<1> DEFINE I == TInv /\ Sender /\ Streams /\ Receivers
<1>1. Init => I
  BY InitTInv, InitSender, InitStreams, InitReceivers
<1>2. I /\ [Next]_vars => I'
  <2> SUFFICES ASSUME TInv, Sender, Streams, Receivers, [Next]_vars PROVE I'
    OBVIOUS
  <2>1. TInv' /\ Sender'
    BY NextTInv, NextSender
  <2> QED
    BY <2>1, NextStreams, NextReceivers
<1>3. I => EofIsEnd
  BY DEF Receivers, Receiver, EofIsEnd
<1> QED
  BY <1>1, <1>2, <1>3, PTL DEF Spec

(***************************************************************************)
(* The acknowledgements                                                    *)
(***************************************************************************)

\* Acknowledging stream g up to a says that its bytes before a were taken, or
\* that all were and nothing more will come.
Acks(K, N, W, T, R, g, a) ==
  g # 0 /\ g \notin R =>
    \/ a <= T[g] + 1
    \/ T[g] >= W[g] /\ \E s \in Nat : FinMark(K, N, g, s)

AckInv ==
  /\ \A m \in net : Acks(conn, net, wrote, taken, rushed, m.ag, m.ack)
  /\ \A h \in Host : Live(conn[h]) /\ conn[h].irs # 0 => Len(conn[h].got) <= taken[conn[h].irs]
  /\ \A h \in Host : conn[h].state # "None" /\ conn[h].tag \notin rushed =>
        conn[h].drained <= taken[conn[h].tag]

LEMMA AcksKeep ==
  ASSUME TInv, TInv', Sender, [Next]_vars, rushed \subseteq rushed',
         \A g \in 1 .. MaxOpen : taken'[g] >= taken[g],
         NEW g \in Nat, g < next_gen, NEW a \in Nat,
         Acks(conn, net, wrote, taken, rushed, g, a)
  PROVE  Acks(conn', net', wrote', taken', rushed', g, a)
<1> SUFFICES ASSUME g # 0, g \notin rushed'
             PROVE  \/ a <= taken'[g] + 1
                    \/ taken'[g] >= wrote'[g] /\ \E s \in Nat : FinMark(conn', net', g, s)
  BY DEF Acks
<1>1. /\ g \in 1 .. MaxOpen /\ g > 0 /\ wrote[g] \in Nat /\ taken[g] \in Nat /\ taken'[g] \in Nat
      /\ taken'[g] >= taken[g]
  <2>1. g \in 1 .. MaxOpen /\ g > 0
    BY TypesRest, Consts
  <2>2. /\ wrote \in [1 .. MaxOpen -> Nat] /\ taken \in [1 .. MaxOpen -> Nat]
        /\ taken' \in [1 .. MaxOpen -> Nat]
    BY DEF TInv, TypeOK
  <2> QED
    BY <2>1, <2>2
<1>2. \/ a <= taken[g] + 1
      \/ taken[g] >= wrote[g] /\ \E s \in Nat : FinMark(conn, net, g, s)
  BY DEF Acks
<1>3. CASE a <= taken[g] + 1
  BY <1>1, <1>3
<1>4. CASE taken[g] >= wrote[g] /\ \E s \in Nat : FinMark(conn, net, g, s)
  <2>1. PICK s \in Nat : FinMark(conn, net, g, s)
    BY <1>4
  <2>2. FinMark(conn', net', g, s) /\ wrote'[g] = wrote[g]
    BY <1>1, <2>1, FinMarkKeeps
  <2>3. taken'[g] >= wrote'[g]
    BY <1>1, <1>4, <2>2
  <2> QED
    BY <2>2, <2>3
<1> QED
  BY <1>2, <1>3, <1>4

\* What a live connection has received it may acknowledge.
LEMMA ReceiverAcks ==
  ASSUME NEW K, NEW N, NEW W, NEW T, NEW R, NEW h, Receiver(K, N, W, R, h), Live(K[h]),
         K[h] \in Conns,
         K[h].irs # 0 => /\ T[K[h].irs] \in Nat /\ W[K[h].irs] \in Nat
                         /\ Len(K[h].got) <= T[K[h].irs]
  PROVE  Acks(K, N, W, T, R, K[h].irs, K[h].rcv)
<1> DEFINE g == K[h].irs
<1>1. K[h].rcv \in Nat /\ Len(K[h].got) \in Nat
  <2>1. K[h].rcv \in Nat /\ K[h].got \in Seq(Nat)
    BY ConnFields
  <2> QED
    BY <2>1, LenProperties
<1> SUFFICES ASSUME g # 0, g \notin R
             PROVE  K[h].rcv <= T[g] + 1 \/ (T[g] >= W[g] /\ \E s \in Nat : FinMark(K, N, g, s))
  BY DEF Acks
<1>2. CASE ~TookFin(K[h])
  <2>1. K[h].rcv = Len(K[h].got) + 1
    BY <1>2 DEF Receiver
  <2> QED
    BY <1>1, <2>1
<1>3. CASE TookFin(K[h])
  <2>1. K[h].rcv > 0 /\ FinMark(K, N, g, K[h].rcv - 1) /\ Len(K[h].got) = W[g]
    BY <1>3 DEF Receiver
  <2>2. K[h].rcv - 1 \in Nat /\ T[g] >= W[g]
    BY <1>1, <2>1
  <2> QED
    BY <2>1, <2>2
<1> QED
  BY <1>2, <1>3

LEMMA AckStep ==
  ASSUME TInv, TInv', Sender, Receivers', AckInv, [Next]_vars, rushed \subseteq rushed',
         \A g \in 1 .. MaxOpen : taken'[g] >= taken[g],
         NEW h \in Host, NEW d \in Conns, conn' = [conn EXCEPT ![h] = d],
         Live(d) /\ d.irs # 0 => Len(d.got) <= taken'[d.irs],
         d.state # "None" /\ d.tag \notin rushed' => d.drained <= taken'[d.tag],
         \A m \in net' :
            \/ m \in net
            \/ m.ag = 0
            \/ Live(d) /\ m.ag = d.irs /\ m.ack = d.rcv
            \/ Acks(conn', net', wrote', taken', rushed', m.ag, m.ack)
  PROVE  AckInv'
<1>1. \A o \in Host : conn'[o] = IF o = h THEN d ELSE conn[o]
  BY DEF TInv, TypeOK
<1>2. /\ wrote' \in [1 .. MaxOpen -> Nat] /\ taken \in [1 .. MaxOpen -> Nat]
      /\ taken' \in [1 .. MaxOpen -> Nat] /\ conn' \in [Host -> Conns] /\ conn \in [Host -> Conns]
      /\ net \subseteq Segs
  BY DEF TInv, TypeOK
<1>3. ASSUME NEW o \in Host, Live(conn'[o]), conn'[o].irs # 0
      PROVE  conn'[o].irs \in 1 .. MaxOpen /\ Len(conn'[o].got) <= taken'[conn'[o].irs]
  <2>1. conn'[o].irs \in 1 .. MaxOpen
    BY <1>2, <1>3, ConnFields, Consts
  <2>2. CASE o = h
    BY <1>1, <1>3, <2>1, <2>2
  <2>3. CASE o # h
    <3>1. conn'[o] = conn[o]
      BY <1>1, <2>3
    <3>2. Len(conn[o].got) <= taken[conn[o].irs] /\ taken'[conn[o].irs] >= taken[conn[o].irs]
      BY <1>3, <2>1, <3>1 DEF AckInv
    <3>3. conn[o].got \in Seq(Nat)
      BY <1>2, ConnFields
    <3>4. Len(conn[o].got) \in Nat /\ taken[conn[o].irs] \in Nat /\ taken'[conn[o].irs] \in Nat
      BY <1>2, <2>1, <3>1, <3>3, LenProperties
    <3>5. Len(conn[o].got) <= taken'[conn[o].irs]
      BY <3>2, <3>4
    <3> QED
      BY <2>1, <3>1, <3>5
  <2> QED
    BY <2>2, <2>3
<1>4. ASSUME NEW o \in Host, conn'[o].state # "None", conn'[o].tag \notin rushed'
      PROVE  conn'[o].drained <= taken'[conn'[o].tag]
  <2>1. CASE o = h
    BY <1>1, <1>4, <2>1
  <2>2. CASE o # h
    <3>1. conn'[o] = conn[o]
      BY <1>1, <2>2
    <3>2. conn[o].drained <= taken[conn[o].tag]
      BY <1>4, <3>1 DEF AckInv
    <3>3. conn[o].tag \in 1 .. MaxOpen
      <4>1. conn[o].tag \in 1 .. next_gen - 1 /\ next_gen \in 1 .. MaxOpen + 1
        BY <1>4, <3>1, Opened, TypesRest
      <4> QED
        BY <4>1, Consts
    <3>4. conn[o].drained \in Nat
      BY <1>2, ConnFields
    <3>5. taken[conn[o].tag] \in Nat /\ taken'[conn[o].tag] \in Nat /\ taken'[conn[o].tag] >= taken[conn[o].tag]
      BY <1>2, <3>3
    <3> QED
      BY <3>1, <3>2, <3>4, <3>5
  <2> QED
    BY <2>1, <2>2
<1>5. ASSUME NEW m \in net' PROVE Acks(conn', net', wrote', taken', rushed', m.ag, m.ack)
  <2>1. CASE m \in net
    <3>1. SegShape(m, next_gen) /\ m \in Segs
      BY <1>2, <2>1 DEF TInv, Shape
    <3>2. m.ag \in Nat /\ m.ag < next_gen /\ m.ack \in Nat
      BY <3>1, Consts DEF Segs, SegShape
    <3> QED
      BY <2>1, <3>2, AcksKeep DEF AckInv
  <2>2. CASE m.ag = 0
    BY <2>2 DEF Acks
  <2>3. CASE Live(d) /\ m.ag = d.irs /\ m.ack = d.rcv
    <3>1. conn'[h] = d /\ Receiver(conn', net', wrote', rushed', h)
      BY <1>1 DEF Receivers
    <3>2. d.irs # 0 => d.irs \in 1 .. MaxOpen /\ Len(d.got) <= taken'[d.irs]
      BY <1>3, <2>3, <3>1
    <3>3. d.irs # 0 => taken'[d.irs] \in Nat /\ wrote'[d.irs] \in Nat
      BY <1>2, <3>2
    <3>4. Acks(conn', net', wrote', taken', rushed', conn'[h].irs, conn'[h].rcv)
      BY <2>3, <3>1, <3>2, <3>3, ReceiverAcks
    <3> QED
      BY <2>3, <3>1, <3>4
  <2> QED
    BY <2>1, <2>2, <2>3
<1> QED
  BY <1>3, <1>4, <1>5 DEF AckInv

LEMMA KindsAcks ==
  ASSUME TInv, TInv', Sender, Receivers', AckInv, [Next]_vars, NEW h \in Host, Kinds(h)
  PROVE  AckInv'
<1> DEFINE k == conn[h]
<1>1. /\ k \in Conns /\ k.una <= k.nxt /\ taken \in [1 .. MaxOpen -> Nat]
  BY HostFacts, TypesRest
<1>2. /\ Live(k) /\ k.irs # 0 => Len(k.got) <= taken[k.irs]
      /\ k.state # "None" /\ k.tag \notin rushed => k.drained <= taken[k.tag]
  BY DEF AckInv
<1>3. taken' = taken => \A g \in 1 .. MaxOpen : taken'[g] >= taken[g]
  BY <1>1
<1> HIDE DEF k
<1>4. ASSUME NEW d \in Conns, Repeats(h, d) PROVE AckInv'
  <2>1. /\ conn' = [conn EXCEPT ![h] = d] /\ taken' = taken /\ rushed' = rushed
        /\ d.tag = k.tag /\ d.irs = k.irs /\ d.rcv = k.rcv /\ d.got = k.got
        /\ d.drained = k.drained /\ d.state = k.state
        /\ \A m \in net' : m \in net \/ m = Rst(h) \/ (Live(k) /\ m \in Resent(h, k))
    BY <1>4 DEF Repeats, Alike, k
  <2>2. Live(d) <=> Live(k)
    BY <2>1 DEF Live
  <2>3. \A m \in net' : m \in net \/ m.ag = 0 \/ (Live(d) /\ m.ag = d.irs /\ m.ack = d.rcv)
    BY <1>1, <2>1, <2>2, RstFacts, ResentSegs
  <2>4. Live(d) /\ d.irs # 0 => Len(d.got) <= taken'[d.irs]
    BY <1>2, <2>1, <2>2
  <2>5. d.state # "None" /\ d.tag \notin rushed' => d.drained <= taken'[d.tag]
    BY <1>2, <2>1
  <2> QED
    BY <1>3, <2>1, <2>3, <2>4, <2>5, AckStep
<1>5. ASSUME NEW d \in Conns, Stops(h, d) PROVE AckInv'
  <2>1. /\ conn' = [conn EXCEPT ![h] = d] /\ taken' = taken /\ rushed' = rushed /\ ~Live(d)
        /\ \A m \in net' : m \in net
        /\ \/ d = NoConn
           \/ d.tag = k.tag /\ d.drained = k.drained /\ d.state = "Closed"
    BY <1>5 DEF Stops, k
  <2>2. ASSUME d.state # "None", d.tag \notin rushed' PROVE d.drained <= taken'[d.tag]
    <3>1. d.tag = k.tag /\ d.drained = k.drained
      BY <2>1, <2>2, NoConnFacts
    <3>2. ConnShape(h, d, next_gen') /\ ConnShape(h, k, next_gen)
      BY <2>1 DEF TInv, TypeOK, Shape, k
    <3>3. d.tag # 0
      BY <2>2, <3>2, TypesRest DEF ConnShape
    <3>4. k.state # "None"
      BY <3>1, <3>2, <3>3, NoConnFacts DEF ConnShape
    <3> QED
      BY <1>2, <2>1, <2>2, <3>1, <3>4
  <2> QED
    BY <1>3, <2>1, <2>2, AckStep
<1>6. ASSUME NEW c \in Conns, NEW n \in Nat, Sends(h, c, n) PROVE AckInv'
  <2>1. PICK d : d = AfterOutput(c)
    OBVIOUS
  <2>2. /\ c.una <= c.nxt /\ Live(k) /\ Live(c) /\ c.tag = k.tag /\ c.irs = k.irs
        /\ c.got = k.got /\ c.drained = k.drained /\ c.state = k.state
        /\ conn' = [conn EXCEPT ![h] = d]
        /\ \A m \in net' : m \in net \/ m \in Output(h, c)
    BY <1>6, <2>1, SendsFacts DEF k
  <2>3. taken' = taken /\ rushed \subseteq rushed'
    BY <1>6 DEF Sends
  <2>4. /\ d \in Conns /\ d.tag = c.tag /\ d.irs = c.irs /\ d.rcv = c.rcv /\ d.got = c.got
        /\ d.drained = c.drained
        /\ d.state = IF ~SendsFin(c) THEN c.state
                     ELSE IF c.state = "CloseWait" THEN "LastAck" ELSE "FinWait1"
    BY <2>1, <2>2, AfterOutputFacts
  <2>5. Live(d) /\ k.state # "None"
    BY <2>2, <2>4 DEF Live
  <2>6. \A m \in net' : m \in net \/ (Live(d) /\ m.ag = d.irs /\ m.ack = d.rcv)
    BY <2>2, <2>4, <2>5, OutputSegs
  <2>7. d.irs # 0 => Len(d.got) <= taken'[d.irs]
    BY <1>2, <2>2, <2>3, <2>4
  <2>8. d.tag \notin rushed' => d.drained <= taken'[d.tag]
    BY <1>2, <2>2, <2>3, <2>4, <2>5
  <2> QED
    BY <1>3, <2>2, <2>3, <2>4, <2>6, <2>7, <2>8, AckStep
<1> QED
  BY <1>4, <1>5, <1>6 DEF Kinds

\* An acknowledgement takes from sendq only what the peer has taken.
LEMMA GetsDrains ==
  ASSUME TInv, Sender, AckInv, NEW h \in Host, NEW m, NEW b, NEW d, Gets(h, m, conn[h], b, d),
         conn[h].tag \notin rushed
  PROVE  d.drained <= taken[conn[h].tag]
<1> DEFINE k == conn[h]
<1>1. /\ k \in Conns /\ k.una <= k.nxt /\ m \in net /\ m \in Segs /\ Live(k) /\ k.state # "SynSent"
      /\ m.to = h /\ d.drained = b.drained /\ ConnShape(h, k, next_gen)
  BY DEF Gets
<1>2. PICK a : a = TakeAck(TakeWindow(k, m), m)
  OBVIOUS
<1>3. d.drained = a.drained
  <2> HIDE DEF k
  <2>1. Gets(h, m, k, b, d)
    BY DEF k
  <2> QED
    BY <1>1, <1>2, <2>1, GetsTakes
<1>4. k.state # "None" /\ k.drained <= taken[k.tag]
  BY <1>1 DEF AckInv, Live
<1>5. /\ k.una \in Nat /\ k.nxt \in Nat /\ k.q \in Nat /\ k.drained \in Nat /\ m.ack \in Nat
      /\ k.fin_acked \in BOOLEAN
  <2>1. /\ k.una \in Nat /\ k.nxt \in Nat /\ k.q \in Nat /\ k.drained \in Nat
        /\ k.fin_acked \in BOOLEAN
    BY <1>1, ConnFields, Consts
  <2>2. m.ack \in Nat
    BY <1>1 DEF Segs
  <2> QED
    BY <2>1, <2>2
<1>6. k.tag # 0 /\ taken[k.tag] \in Nat /\ wrote[k.tag] \in Nat
  <2>1. k.tag \in 1 .. next_gen - 1 /\ next_gen \in 1 .. MaxOpen + 1
    BY <1>4, Opened, TypesRest
  <2> QED
    BY <2>1, TypesRest, Consts
<1>7. CASE ~NewAck(k, m)
  <2>1. a.drained = k.drained
    BY <1>1, <1>2, <1>7, AckFacts
  <2> QED
    BY <1>3, <1>4, <2>1
<1>8. CASE NewAck(k, m)
  <2>1. a.drained = k.drained + Drained(k, m) /\ Drained(k, m) \in Nat /\ Drained(k, m) <= k.q
    BY <1>1, <1>2, <1>8, AckFacts
  <2>2. m.ag = k.tag /\ k.una < m.ack
    BY <1>8 DEF NewAck
  <2>3. Drained(k, m) <= m.ack - k.una
    BY <1>5 DEF Drained, Least
  <2>4. k.q = 0 \/ Proper(k, wrote[k.tag])
    <3>1. CASE h = Client
      <4>1. ClientInv(k, net, wrote, rushed)
        BY <3>1 DEF Sender
      <4> QED
        BY <1>1, <4>1 DEF ClientInv, Early
    <3>2. CASE h = Server
      <4>1. ServerInv(k, conn[Client], net, wrote)
        BY <3>2 DEF Sender
      <4>2. ~Mute(k, conn[Client], net)
        BY <1>1, <2>2, <3>2 DEF Mute
      <4> QED
        BY <1>1, <4>1, <4>2 DEF ServerInv
    <3> QED
      BY <3>1, <3>2, Ends
  <2>5. CASE k.q = 0
    BY <1>3, <1>4, <1>5, <2>1, <2>5
  <2>6. CASE Proper(k, wrote[k.tag])
    <3>1. k.una >= k.drained + 1 /\ k.drained + k.q = wrote[k.tag]
      BY <1>5, <2>6 DEF Proper
    <3>2. m.ack <= taken[k.tag] + 1 \/ taken[k.tag] >= wrote[k.tag]
      BY <1>1, <1>6, <2>2 DEF AckInv, Acks
    <3>3. a.drained <= m.ack - 1 /\ a.drained <= wrote[k.tag]
      BY <1>5, <2>1, <2>3, <3>1
    <3>4. a.drained \in Nat
      BY <1>5, <2>1
    <3> QED
      BY <1>3, <1>5, <1>6, <3>2, <3>3, <3>4
  <2> QED
    BY <2>4, <2>5, <2>6
<1> QED
  BY <1>7, <1>8

LEMMA AckCloses ==
  ASSUME NEW k \in Conns, k.una <= k.nxt, NEW m \in Segs,
         NEW a, a = TakeAck(TakeWindow(k, m), m), a.state = "Closed"
  PROVE  k.state \in {"LastAck", "Closed"}
<1> DEFINE w == TakeWindow(k, m).state
<1>1. w \in {k.state, "Established"} /\ (w = "Established" \/ w = k.state)
  BY DEF TakeWindow, Conns
<1>2. /\ ~NewAck(k, m) => a.state = w
      /\ NewAck(k, m) =>
            a.state = CASE AcksFin(k, m) /\ w = "FinWait1" -> "FinWait2"
                             [] AcksFin(k, m) /\ w = "Closing" -> "TimeWait"
                             [] AcksFin(k, m) /\ w = "LastAck" -> "Closed"
                             [] OTHER -> w
  BY AckFacts
<1> HIDE DEF w
<1>3. \/ a.state = w
      \/ a.state = "FinWait2"
      \/ a.state = "TimeWait"
      \/ w = "LastAck" /\ a.state = "Closed"
  BY <1>2
<1>4. w \in {"LastAck", "Closed"}
  BY <1>3
<1> QED
  BY <1>1, <1>4

LEMMA GetsAcks ==
  ASSUME TInv, TInv', Sender, Receivers, Receivers', AckInv, [Next]_vars,
         NEW h \in Host, NEW m \in Inbox(h), NEW dup \in BOOLEAN, RecvSegment(h, m, dup)
  PROVE  AckInv'
<1> DEFINE k == conn[h]
<1>1. PICK b : \E d :
           /\ Gets(h, m, conn[h], b, d)
           /\ conn' = [conn EXCEPT ![h] = Reaped(d)]
           /\ \A o \in net' : \/ o \in net \/ o \in Output(h, b)
                              \/ o = Seg(h, d, {"ACK"}, d.nxt, 0, 0)
           /\ taken' = IF b.irs = 0 THEN taken
                       ELSE [taken EXCEPT ![b.irs] = Most(@, Len(b.got))]
           /\ UNCHANGED <<wrote, rushed>>
  BY GetsFacts
<1>2. PICK d :
           /\ Gets(h, m, conn[h], b, d)
           /\ conn' = [conn EXCEPT ![h] = Reaped(d)]
           /\ \A o \in net' : \/ o \in net \/ o \in Output(h, b)
                              \/ o = Seg(h, d, {"ACK"}, d.nxt, 0, 0)
           /\ taken' = IF b.irs = 0 THEN taken
                       ELSE [taken EXCEPT ![b.irs] = Most(@, Len(b.got))]
           /\ UNCHANGED <<wrote, rushed>>
  BY <1>1
<1>3. /\ k \in Conns /\ k.una <= k.nxt /\ m \in Segs /\ Live(k) /\ k.state # "SynSent"
      /\ b \in Conns /\ b.irs = k.irs /\ d \in Conns /\ d.tag = k.tag /\ d.irs = k.irs
      /\ d.rcv = b.rcv /\ d.got = b.got /\ d.state # "None"
      /\ d.state = b.state \/ d.state \in {"LastAck", "FinWait1"}
  BY <1>2 DEF Gets
<1>4. PICK e \in {d, NoConn} : e = Reaped(d) /\ (Live(d) => e = d)
  BY DEF Reaped, Live
<1>5. /\ taken \in [1 .. MaxOpen -> Nat] /\ wrote \in [1 .. MaxOpen -> Nat]
      /\ taken' \in [1 .. MaxOpen -> Nat] /\ rushed' = rushed /\ wrote' = wrote
      /\ k.irs \in 0 .. MaxOpen /\ Len(d.got) \in Nat
  <2>1. d.got \in Seq(Nat) /\ k.irs \in 0 .. MaxOpen
    BY <1>3, ConnFields
  <2>2. Len(d.got) \in Nat
    BY <2>1, LenProperties
  <2> QED
    BY <1>2, <2>1, <2>2 DEF TInv, TypeOK
<1>6. \A g \in 1 .. MaxOpen : taken'[g] = IF g = k.irs THEN Most(taken[g], Len(d.got)) ELSE taken[g]
  <2>1. CASE k.irs = 0
    BY <1>2, <1>3, <2>1, Consts
  <2>2. CASE k.irs # 0
    <3>1. taken' = [taken EXCEPT ![k.irs] = Most(@, Len(d.got))]
      BY <1>2, <1>3, <2>2
    <3> QED
      BY <1>5, <3>1
  <2> QED
    BY <2>1, <2>2
<1>7. \A g \in 1 .. MaxOpen : taken'[g] >= taken[g]
  BY <1>5, <1>6 DEF Most
<1>8. Live(e) /\ e.irs # 0 => Len(e.got) <= taken'[e.irs]
  <2>1. CASE e = NoConn
    BY <2>1, NoConnFacts DEF Live
  <2>2. CASE e = d
    <3>1. k.irs # 0 => k.irs \in 1 .. MaxOpen
      BY <1>5, Consts
    <3>2. k.irs # 0 => taken'[k.irs] = Most(taken[k.irs], Len(d.got)) /\ taken[k.irs] \in Nat
      BY <1>5, <1>6, <3>1
    <3>3. k.irs # 0 => Len(d.got) <= taken'[k.irs]
      BY <1>5, <3>2 DEF Most
    <3> QED
      BY <1>3, <2>2, <3>3
  <2> QED
    BY <1>4, <2>1, <2>2
<1>9. e.state # "None" /\ e.tag \notin rushed' => e.drained <= taken'[e.tag]
  <2>1. CASE e = NoConn
    BY <2>1, NoConnFacts
  <2>2. CASE e = d
    <3>1. k.tag \in 1 .. MaxOpen
      <4>1. k.state # "None"
        BY <1>3 DEF Live
      <4>2. k.tag \in 1 .. next_gen - 1 /\ next_gen \in 1 .. MaxOpen + 1
        BY <4>1, Opened, TypesRest
      <4> QED
        BY <4>2, Consts
    <3>2. k.tag \notin rushed => d.drained <= taken[k.tag]
      BY <1>2, GetsDrains
    <3>3. taken'[k.tag] >= taken[k.tag] /\ taken[k.tag] \in Nat /\ taken'[k.tag] \in Nat
      BY <1>5, <1>7, <3>1
    <3>4. d.drained \in Nat
      BY <1>3, ConnFields
    <3>5. k.tag \notin rushed => d.drained <= taken'[k.tag]
      BY <3>2, <3>3, <3>4
    <3> QED
      BY <1>3, <1>5, <2>2, <3>5
  <2> QED
    BY <1>4, <2>1, <2>2

<1>10. ASSUME NEW o \in net', o \notin net PROVE o.ag = k.irs /\ o.ack = d.rcv /\ o.ack \in Nat
  <2>1. o.ag = k.irs /\ o.ack = b.rcv /\ o \in Segs
    BY <1>2, <1>10, GetsSays
  <2> QED
    BY <1>3, <2>1 DEF Segs
\* A last segment, from a connection it has closed: the FIN was taken before.
<1>11. ASSUME ~Live(d), NEW a \in Nat
       PROVE  Acks(conn', net', wrote', taken', rushed', k.irs, a)
  <2>1. PICK c : c = TakeAck(TakeWindow(k, m), m)
    OBVIOUS
  <2>2. b.state = "Closed"
    BY <1>3, <1>11 DEF Live
  <2>3. c.state = "Closed"
    <3>1. b.state \in {c.state, AfterFin(c.state)}
      <4> HIDE DEF k
      <4>1. Gets(h, m, k, b, d)
        BY <1>2 DEF k
      <4> QED
        BY <2>1, <4>1, GetsTakes
    <3> QED
      BY <2>2, <3>1 DEF AfterFin
  <2>4. k.state = "LastAck"
    BY <1>3, <2>1, <2>3, AckCloses DEF Live
  <2>5. Receiver(conn, net, wrote, rushed, h) /\ TookFin(k)
    BY <2>4 DEF Receivers, TookFin
  <2>6. Acks(conn, net, wrote, taken, rushed, k.irs, a)
    <3>1. SUFFICES ASSUME k.irs # 0, k.irs \notin rushed
                   PROVE  /\ taken[k.irs] >= wrote[k.irs]
                          /\ \E s \in Nat : FinMark(conn, net, k.irs, s)
      BY DEF Acks
    <3>2. Len(k.got) = wrote[k.irs] /\ k.rcv > 0 /\ FinMark(conn, net, k.irs, k.rcv - 1)
      BY <1>3, <2>5, <3>1 DEF Receiver
    <3>3. Len(k.got) <= taken[k.irs]
      BY <1>3, <3>1 DEF AckInv
    <3>4. k.rcv - 1 \in Nat
      <4>1. k.rcv \in Nat
        BY <1>3, ConnFields
      <4> QED
        BY <3>2, <4>1
    <3>5. taken[k.irs] >= wrote[k.irs]
      <4>1. wrote[k.irs] \in Nat /\ taken[k.irs] \in Nat
        BY <1>5, <3>1, Consts
      <4> QED
        BY <3>2, <3>3, <4>1
    <3> QED
      BY <3>2, <3>4, <3>5
  <2>7. k.irs \in Nat /\ k.irs < next_gen
    <3>1. CASE k.irs = 0
      <4>1. next_gen \in Nat /\ next_gen >= 1
        BY HostFacts
      <4> QED
        BY <3>1, <4>1
    <3>2. CASE k.irs # 0
      BY <1>3, <3>2, IrsFacts
    <3> QED
      BY <3>1, <3>2
  <2> QED
    BY <1>5, <1>7, <2>6, <2>7, AcksKeep
<1>12. \A o \in net' :
          \/ o \in net \/ o.ag = 0
          \/ Live(e) /\ o.ag = e.irs /\ o.ack = e.rcv
          \/ Acks(conn', net', wrote', taken', rushed', o.ag, o.ack)
  <2>1. CASE Live(d)
    BY <1>3, <1>4, <1>10, <2>1
  <2>2. CASE ~Live(d)
    BY <1>10, <1>11, <2>2
  <2> QED
    BY <2>1, <2>2
<1>13. e \in Conns /\ conn' = [conn EXCEPT ![h] = e] /\ rushed \subseteq rushed'
  BY <1>2, <1>3, <1>4, <1>5, NoConnFacts
<1> QED
  BY <1>7, <1>8, <1>9, <1>12, <1>13, AckStep

\* A connection as it opens has received nothing and counts from where it was.
LEMMA OpensAcks ==
  ASSUME TInv, TInv', Sender, Receivers', AckInv, [Next]_vars, UNCHANGED <<taken, rushed>>,
         NEW h \in Host, NEW d \in Conns, conn' = [conn EXCEPT ![h] = d],
         d.got = <<>>, d.tag \notin rushed => d.drained <= taken[d.tag],
         \A m \in net' :
            \/ m \in net \/ m.ag = 0
            \/ Live(d) /\ m.ag = d.irs /\ m.ack = d.rcv
  PROVE  AckInv'
<1>1. /\ taken \in [1 .. MaxOpen -> Nat] /\ taken' = taken /\ rushed \subseteq rushed' /\ rushed' = rushed
  BY TypesRest
<1>2. \A g \in 1 .. MaxOpen : taken'[g] >= taken[g]
  BY <1>1
<1>3. Live(d) /\ d.irs # 0 => Len(d.got) <= taken'[d.irs]
  <2>1. d.irs # 0 => d.irs \in 1 .. MaxOpen
    BY ConnFields, Consts
  <2>2. Len(d.got) = 0
    OBVIOUS
  <2> QED
    BY <1>1, <2>1, <2>2
<1>4. d.state # "None" /\ d.tag \notin rushed' => d.drained <= taken'[d.tag]
  BY <1>1
<1> QED
  BY <1>1, <1>2, <1>3, <1>4, AckStep

LEMMA NextAcks ==
  ASSUME TInv, TInv', Sender, Receivers, Receivers', AckInv, [Next]_vars
  PROVE  AckInv'
<1>1. Kind
  BY NextKind
<1>0. taken \in [1 .. MaxOpen -> Nat]
  BY TypesRest
<1>2. ASSUME NEW h \in Host, Connect(h) PROVE AckInv'
  <2>1. PICK c : c = NewConn(next_gen, "SynSent", 0, 0, 0, TRUE)
    OBVIOUS
  <2>2. /\ next_gen = 1 /\ next_gen <= MaxOpen /\ conn' = [conn EXCEPT ![h] = c]
        /\ net' = net \cup {Seg(h, c, {"SYN"}, 0, 0, 0)} /\ UNCHANGED <<taken, rushed>>
    BY <1>2, <2>1 DEF Connect
  <2>3. /\ c \in Conns /\ c.got = <<>> /\ c.irs = 0 /\ c.tag = 1 /\ c.drained = 0
    BY <2>1, <2>2, Consts DEF NewConn, Conns, State
  <2>4. \A m \in net' : m \in net \/ m.ag = 0
    BY <2>2, <2>3, SegFacts
  <2>5. c.tag \notin rushed => c.drained <= taken[c.tag]
    BY <1>0, <2>2, <2>3, Consts
  <2> QED
    BY <2>2, <2>3, <2>4, <2>5, OpensAcks
<1>3. ASSUME NEW h \in Host, NEW m \in Inbox(h), NEW dup \in BOOLEAN, RecvSyn(h, m, dup)
      PROVE  AckInv'
  <2>1. PICK c : c = SynConn(next_gen, m)
    OBVIOUS
  <2>2. /\ next_gen <= MaxOpen /\ c \in Conns /\ c.state = "SynRcvd" /\ c.tag = next_gen
        /\ c.drained = 0 /\ c.got = <<>> /\ conn' = [conn EXCEPT ![h] = c]
        /\ \A k \in net' : k \in net \/ k = Seg(h, c, {"SYN", "ACK"}, 0, 0, 0)
        /\ UNCHANGED <<wrote, taken, rushed>>
    BY <1>3, <2>1, RecvSynDoes
  <2>3. Live(c)
    BY <2>2 DEF Live
  <2>4. \A k \in net' : k \in net \/ (Live(c) /\ k.ag = c.irs /\ k.ack = c.rcv)
    BY <2>2, <2>3, SegFacts
  <2>5. c.drained <= taken[c.tag]
    <3>1. c.tag \in 1 .. MaxOpen
      BY <2>2, TypesRest, Consts
    <3> QED
      BY <1>0, <2>2, <3>1
  <2> QED
    BY <2>2, <2>4, <2>5, OpensAcks
<1>4. ASSUME NEW h \in Host, NEW m \in Inbox(h), NEW dup \in BOOLEAN,
             RecvInSynSent(h, m, dup), conn' # conn
      PROVE  AckInv'
  <2>1. PICK c : c = Answered(conn[h], m)
    OBVIOUS
  <2>2. PICK d : d = AfterOutput(c)
    OBVIOUS
  <2>3. /\ conn[h].state = "SynSent" /\ "RST" \notin m.flags
        /\ UNCHANGED <<wrote, taken, rushed>>
        /\ {"SYN", "ACK"} \subseteq m.flags
        /\ m.ag = conn[h].tag /\ m.ack = conn[h].nxt
        /\ conn' = [conn EXCEPT ![h] = d]
        /\ \A k \in net' : \/ k \in net \/ k \in Output(h, c)
                           \/ k = Seg(h, c, {"ACK"}, c.nxt, 0, 0)
    BY <1>4, <2>1, <2>2, RecvInSynSentDoes
  <2>4. /\ c \in Conns /\ h = Client /\ c.tag = conn[h].tag /\ c.una = conn[h].nxt
        /\ c.nxt = conn[h].nxt /\ c.state = "Established" /\ c.drained = conn[h].drained
        /\ c.got = conn[h].got
    BY <2>1, <2>3, EstablishedConn
  <2>5. conn[h].got = <<>>
    BY <2>3, <2>4 DEF Sender, ClientInv, Live
  <2>6. c.una <= c.nxt /\ c.nxt \in Nat
    BY <2>4, ConnFields
  <2>7. /\ d \in Conns /\ d.tag = c.tag /\ d.irs = c.irs /\ d.rcv = c.rcv /\ d.got = c.got
        /\ d.drained = c.drained
        /\ d.state = IF ~SendsFin(c) THEN c.state
                     ELSE IF c.state = "CloseWait" THEN "LastAck" ELSE "FinWait1"
    BY <2>2, <2>4, <2>6, AfterOutputFacts
  <2>8. Live(d)
    BY <2>4, <2>7 DEF Live
  <2>9. \A k \in net' : k \in net \/ (Live(d) /\ k.ag = d.irs /\ k.ack = d.rcv)
    BY <2>3, <2>4, <2>6, <2>7, <2>8, OutputSegs, SegFacts
  <2>10. d.tag \notin rushed => d.drained <= taken[d.tag]
    BY <2>3, <2>4, <2>7 DEF AckInv
  <2> QED
    BY <2>3, <2>4, <2>5, <2>7, <2>9, <2>10, OpensAcks
<1> QED
  BY <1>1, <1>2, <1>3, <1>4, KindsAcks, GetsAcks DEF Kind

LEMMA InitAcks == Init => AckInv
<1> SUFFICES ASSUME Init PROVE AckInv
  OBVIOUS
<1>1. net = {} /\ \A h \in Host : conn[h] = NoConn
  BY DEF Init
<1> QED
  BY <1>1, NoConnFacts DEF AckInv, Live

\* Bytes leave sendq once the peer's application has them: an acknowledgement
\* never runs ahead of what was taken in order (net.rs:768).
THEOREM AckedBytesAreTaken == Spec => []AckedIsTaken
<1> DEFINE I == TInv /\ Sender /\ Streams /\ Receivers /\ AckInv
<1>1. Init => I
  BY InitTInv, InitSender, InitStreams, InitReceivers, InitAcks
<1>2. I /\ [Next]_vars => I'
  <2> SUFFICES ASSUME TInv, Sender, Streams, Receivers, AckInv, [Next]_vars PROVE I'
    OBVIOUS
  <2>1. TInv' /\ Sender'
    BY NextTInv, NextSender
  <2>2. Streams' /\ Receivers'
    BY <2>1, NextStreams, NextReceivers
  <2> QED
    BY <2>1, <2>2, NextAcks
<1>3. I => AckedIsTaken
  BY DEF AckInv, AckedIsTaken
<1> QED
  BY <1>1, <1>2, <1>3, PTL DEF Spec

=============================================================================
