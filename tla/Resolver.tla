------------------------------ MODULE Resolver ------------------------------
(***************************************************************************)
(* dns_resolve of net.rs: one question at a time from a fixed local port,  *)
(* repeated every retry_ms until udp_poll finds a datagram for that port   *)
(* or the time is up; datagrams wait in udp_rx, which nobody clears.  The  *)
(* server answers every question that reaches it.                          *)
(***************************************************************************)
EXTENDS Integers, Sequences, SequencesExt

CONSTANTS UDP_RX,        \* capacity of udp_rx, 16 in the code
          MaxQuestions,  \* bound: calls of dns_resolve
          MaxSends       \* bound: copies of one question, timeout/retry in the code

VARIABLES txid,      \* identifier of the latest question; 0 before the first
          asking,    \* dns_resolve is in udp_request
          sends,     \* copies of the question sent so far
          net,       \* questions and answers under way: <<kind, txid, copy>>
          udp_rx,    \* identifiers of the answers queued for the port
          outcome    \* of the latest call
vars == <<txid, asking, sends, net, udp_rx, outcome>>

Init == /\ txid = 0 /\ asking = FALSE /\ sends = 0
        /\ net = {} /\ udp_rx = << >> /\ outcome = "none yet"

\* txid is the clock: two questions differ.  The first copy goes out at once.
Ask == /\ ~asking /\ txid < MaxQuestions
       /\ txid' = txid + 1 /\ asking' = TRUE /\ sends' = 1
       /\ net' = net \cup {<<"question", txid + 1, 1>>}
       /\ UNCHANGED <<udp_rx, outcome>>

\* retry_ms is over; the copy goes out before udp_poll looks again.
AskAgain == /\ asking /\ sends < MaxSends
            /\ sends' = sends + 1
            /\ net' = net \cup {<<"question", txid, sends + 1>>}
            /\ UNCHANGED <<txid, asking, udp_rx, outcome>>

Return(what) == asking' = FALSE /\ outcome' = what

\* dns_parse refuses an answer that does not carry this question's identifier.
Parses(answer) == answer = txid

\* udp_poll pops the first datagram of the port, and dns_resolve returns with
\* whatever dns_parse makes of it.
Poll == /\ asking /\ udp_rx # << >>
        /\ Return(IF Parses(Head(udp_rx)) THEN "address" ELSE "refused")
        /\ udp_rx' = Tail(udp_rx)
        /\ UNCHANGED <<txid, sends, net>>

TimeOut == /\ asking /\ udp_rx = << >> /\ sends = MaxSends
           /\ Return("timed out")
           /\ UNCHANGED <<txid, sends, net, udp_rx>>

Serve(m) == /\ m[1] = "question"
            /\ net' = (net \ {m}) \cup {<<"answer", m[2], m[3]>>}
            /\ UNCHANGED <<txid, asking, sends, udp_rx, outcome>>

\* udp_input queues the datagram, or drops it when the queue is full.
Receive(m) == /\ m[1] = "answer"
              /\ net' = net \ {m}
              /\ udp_rx' = IF Len(udp_rx) < UDP_RX THEN Append(udp_rx, m[2]) ELSE udp_rx
              /\ UNCHANGED <<txid, asking, sends, outcome>>

Lose(m) == net' = net \ {m} /\ UNCHANGED <<txid, asking, sends, udp_rx, outcome>>

Next == \/ Ask \/ AskAgain \/ Poll \/ TimeOut
        \/ \E m \in net : Serve(m) \/ Receive(m) \/ Lose(m)
Spec == Init /\ [][Next]_vars
-----------------------------------------------------------------------------
(* "None on no-DNS / timeout / NXDOMAIN" (net.rs:1125): a call of           *)
(* dns_resolve whose server answers fails only by running out of time.      *)
NoneIsTimeout == outcome # "refused"
=============================================================================
