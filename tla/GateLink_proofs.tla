---------------------------- MODULE GateLink_proofs ----------------------------
(***************************************************************************)
(* Proofs about the link of the client to its gate: first what one turn of *)
(* the network thread comes to, then the parts of LinkInv one after the    *)
(* other.                                                                  *)
(***************************************************************************)
EXTENDS LinkInvariant, SequenceTheorems, TLAPS

-----------------------------------------------------------------------------
(* Queues. *)

(* A queue and what is behind its head. *)
LEMMA QueueFacts ==
  ASSUME NEW S, NEW q \in Seq(S), q # << >>
  PROVE  /\ Len(q) \in Nat \ {0} /\ Head(q) = q[1] /\ Head(q) \in S
         /\ Tail(q) \in Seq(S) /\ Len(Tail(q)) = Len(q) - 1
         /\ \A i \in 1..Len(Tail(q)) : Tail(q)[i] = q[i + 1]
BY HeadTailProperties, EmptySeq, LenProperties

(* A queue and one more. *)
LEMMA AppendFacts ==
  ASSUME NEW S, NEW q \in Seq(S), NEW e \in S
  PROVE  /\ Append(q, e) \in Seq(S) /\ Len(Append(q, e)) = Len(q) + 1 /\ Len(q) \in Nat
         /\ \A i \in 1..Len(q) : Append(q, e)[i] = q[i]
         /\ Append(q, e)[Len(q) + 1] = e
OBVIOUS

(* What a handler sends is behind what was sent before. *)
LEMMA SendFacts ==
  ASSUME NEW S, NEW q \in Seq(S)
  PROVE  q \o << >> = q /\ \A e \in S : q \o <<e>> = Append(q, e)
OBVIOUS

(* A queue without messages. *)
LEMMA NoMessages ==
  ASSUME NEW S, NEW q \in Seq(S)
  PROVE  /\ Len(q) \in Nat /\ (q = << >> <=> Len(q) = 0)
         /\ Len(q) = 0 => Kinded(q, {}) /\ Tickets(q) = {}
BY EmptySeq, LenProperties DEF Kinded, Tickets

(* The kinds in a queue after a step. *)
LEMMA KindedQueues ==
  ASSUME NEW S, NEW q \in Seq(S), NEW K, Kinded(q, K)
  PROVE  /\ \A e \in S : e.kind \in K => Kinded(Append(q, e), K)
         /\ q # << >> => Kinded(Tail(q), K) /\ Head(q).kind \in K
         /\ \A L : K \subseteq L => Kinded(q, L)
<1>1. ASSUME NEW e \in S, e.kind \in K PROVE Kinded(Append(q, e), K)
  <2>1. ASSUME NEW i \in 1..Len(Append(q, e)) PROVE Append(q, e)[i].kind \in K
    <3>1. i \in 1..Len(q) \/ i = Len(q) + 1
      BY AppendFacts
    <3> QED
      BY <1>1, <3>1, AppendFacts DEF Kinded
  <2> QED
    BY <2>1 DEF Kinded
<1>2. ASSUME q # << >> PROVE Kinded(Tail(q), K) /\ Head(q).kind \in K
  <2>1. /\ Len(q) \in Nat \ {0} /\ Head(q) = q[1] /\ Len(Tail(q)) = Len(q) - 1
        /\ \A i \in 1..Len(Tail(q)) : Tail(q)[i] = q[i + 1]
    BY <1>2, QueueFacts
  <2>2. 1 \in 1..Len(q) /\ \A i \in 1..Len(Tail(q)) : i + 1 \in 1..Len(q)
    BY <2>1
  <2> QED
    BY <2>1, <2>2 DEF Kinded
<1> QED
  BY <1>1, <1>2 DEF Kinded

(* What the types say of the runtime, the counters and the queues. *)
LEMMA Typed ==
  ASSUME TypeOK
  PROVE  /\ rt \in Runtimes /\ rt.lane \in Lanes /\ rt.phase \in {"auth", "enter", "scene"}
         /\ rt.next \in Nat /\ rt.next + 1 \in Nat /\ rt.next <= rt.next /\ rt.next <= rt.next + 1
         /\ rt.mark \in Nat /\ rt.mark \in Int
         /\ joined \in BOOLEAN /\ udp \in Nat /\ spent \in Nat /\ app.tick \in Int
         /\ srv.sess \in Nat /\ srv.ticket \in Nat
         /\ cmds \in Seq(Commands) /\ evts \in Seq(Events) /\ up \in Seq(ToGate)
         /\ down \in Seq(FromGate) /\ dgrams \in SUBSET Datagrams
<1>1. /\ rt \in Runtimes /\ joined \in BOOLEAN /\ udp \in Nat /\ spent \in Nat
      /\ cmds \in Seq(Commands) /\ evts \in Seq(Events) /\ up \in Seq(ToGate)
      /\ down \in Seq(FromGate) /\ dgrams \in SUBSET Datagrams
  BY DEF TypeOK
<1>2. /\ rt.lane \in Lanes /\ rt.phase \in {"auth", "enter", "scene"} /\ rt.next \in Nat
      /\ rt.mark \in Nat
  BY <1>1 DEF Runtimes
<1>3. app.tick \in Int /\ srv.sess \in Nat /\ srv.ticket \in Nat
  BY DEF TypeOK
<1>4. /\ rt.next + 1 \in Nat /\ rt.next <= rt.next /\ rt.next <= rt.next + 1
      /\ rt.mark \in Int
  BY <1>2
<1> QED
  BY <1>1, <1>2, <1>3, <1>4

-----------------------------------------------------------------------------
(* What one turn of the session comes to. *)
Turn(r, u, d, g, s, e, j) ==
  /\ rt' = r /\ up' = u /\ down' = d /\ dgrams' = g /\ udp' = s /\ evts' = e /\ joined' = j
  /\ UNCHANGED <<thread, attempt, srv, login, token, app>>
  /\ spent' \in {spent, spent + 1}
Ends(b) ==
  /\ EndSession(b) /\ UNCHANGED <<login, token, app>>
  /\ spent' \in {spent, spent + 1}

(* An outcome that is applied: the turn it makes, or the end of the session. *)
LEMMA Applied ==
  ASSUME TypeOK, UNCHANGED <<login, token, app>>, NEW r, NEW left, NEW late
  PROVE  /\ Apply(Outcome(r, << >>, << >>, << >>, FALSE), left, late)
              => Turn(r, up, left, late, udp, evts, joined)
         /\ Apply(Outcome(r, << >>, << >>, << >>, TRUE), left, late) => Ends(joined)
         /\ \A m \in ToGate : Apply(Outcome(r, <<m>>, << >>, << >>, FALSE), left, late)
              => Turn(r, Append(up, m), left, late, udp, evts, joined) \/ Ends(joined)
         /\ \A m \in ToGate, e \in Events : e.kind = "entered" =>
              (Apply(Outcome(r, <<m>>, << >>, <<e>>, FALSE), left, late)
                 => Turn(r, Append(up, m), left, late, udp, Append(evts, e), TRUE) \/ Ends(TRUE))
         /\ \A e \in Events : e.kind # "entered" =>
              (Apply(Outcome(r, << >>, << >>, <<e>>, FALSE), left, late)
                 => Turn(r, up, left, late, udp, Append(evts, e), joined))
         /\ \A d : d.kind = "attach" =>
              (Apply(Outcome(r, << >>, <<d>>, << >>, FALSE), left, late)
                 => \/ Turn(r, up, left, late \cup {d}, r.lane.attach, evts, joined)
                    \/ Turn([r EXCEPT !.lane = FailLane(r, TRUE)], up, left, late, 0, evts, joined))
         /\ \A d : d = [kind |-> "input"] =>
              (Apply(Outcome(r, << >>, <<d>>, << >>, FALSE), left, late)
                 => \/ Turn(r, up, left, late \cup {d}, udp, evts, joined)
                    \/ Turn([r EXCEPT !.lane = FailLane(r, TRUE)],
                            Append(up, d), left, late, 0, evts, joined))
<1> USE DEF Outcome
<1>1. up \in Seq(ToGate) /\ evts \in Seq(Events) /\ joined \in BOOLEAN
  BY DEF TypeOK
<1>2. up \o << >> = up /\ evts \o << >> = evts
  BY <1>1
<1>3. \A m \in ToGate : up \o <<m>> = Append(up, m)
  BY <1>1
<1>4. \A e \in Events : evts \o <<e>> = Append(evts, e)
  BY <1>1
<1>5. ToSet(<< >>) = {} /\ \A d : ToSet(<<d>>) = {d}
  BY DEF ToSet
<1>6. dgrams' = late \cup {} => dgrams' = late
  OBVIOUS
<1>7. \A d : <<d>> # << >>
  OBVIOUS
<1>8. ASSUME Apply(Outcome(r, << >>, << >>, << >>, FALSE), left, late)
      PROVE  Turn(r, up, left, late, udp, evts, joined)
  <2>1. Sent(Outcome(r, << >>, << >>, << >>, FALSE), left, late)
    BY <1>8 DEF Apply, TcpFails, UdpFails
  <2>2. ~Entered(Outcome(r, << >>, << >>, << >>, FALSE))
    BY DEF Entered
  <2> QED
    BY <2>1, <2>2, <1>1, <1>2, <1>5 DEF Sent, Turn
<1>9. ASSUME Apply(Outcome(r, << >>, << >>, << >>, TRUE), left, late)
      PROVE  Ends(joined)
  BY <1>9 DEF Apply, TcpFails, UdpFails, Ends
<1>10. ASSUME NEW m \in ToGate, Apply(Outcome(r, <<m>>, << >>, << >>, FALSE), left, late)
       PROVE  Turn(r, Append(up, m), left, late, udp, evts, joined) \/ Ends(joined)
  <2>1. \/ Sent(Outcome(r, <<m>>, << >>, << >>, FALSE), left, late)
        \/ TcpFails(Outcome(r, <<m>>, << >>, << >>, FALSE))
    BY <1>10 DEF Apply, UdpFails
  <2>2. ~Entered(Outcome(r, <<m>>, << >>, << >>, FALSE))
    BY DEF Entered
  <2>3. CASE Sent(Outcome(r, <<m>>, << >>, << >>, FALSE), left, late)
    BY <2>2, <2>3, <1>1, <1>2, <1>3, <1>5 DEF Sent, Turn
  <2>4. CASE TcpFails(Outcome(r, <<m>>, << >>, << >>, FALSE))
    <3>1. (joined \/ Entered(Outcome(r, <<m>>, << >>, << >>, FALSE))) = joined
      BY <2>2, <1>1
    <3> QED
      BY <2>4, <3>1 DEF TcpFails, Ends, Happens
  <2> QED
    BY <2>1, <2>3, <2>4
<1>11. ASSUME NEW m \in ToGate, NEW e \in Events, e.kind = "entered",
              Apply(Outcome(r, <<m>>, << >>, <<e>>, FALSE), left, late)
       PROVE  Turn(r, Append(up, m), left, late, udp, Append(evts, e), TRUE) \/ Ends(TRUE)
  <2>1. \/ Sent(Outcome(r, <<m>>, << >>, <<e>>, FALSE), left, late)
        \/ TcpFails(Outcome(r, <<m>>, << >>, <<e>>, FALSE))
    BY <1>11 DEF Apply, UdpFails
  <2>2. Entered(Outcome(r, <<m>>, << >>, <<e>>, FALSE))
    BY <1>11 DEF Entered
  <2>3. CASE Sent(Outcome(r, <<m>>, << >>, <<e>>, FALSE), left, late)
    BY <2>2, <2>3, <1>1, <1>2, <1>3, <1>4, <1>5 DEF Sent, Turn
  <2>4. CASE TcpFails(Outcome(r, <<m>>, << >>, <<e>>, FALSE))
    <3>1. (joined \/ Entered(Outcome(r, <<m>>, << >>, <<e>>, FALSE))) = TRUE
      BY <2>2
    <3> QED
      BY <2>4, <3>1 DEF TcpFails, Ends, Happens
  <2> QED
    BY <2>1, <2>3, <2>4
<1>12. ASSUME NEW e \in Events, e.kind # "entered",
              Apply(Outcome(r, << >>, << >>, <<e>>, FALSE), left, late)
       PROVE  Turn(r, up, left, late, udp, Append(evts, e), joined)
  <2>1. Sent(Outcome(r, << >>, << >>, <<e>>, FALSE), left, late)
    BY <1>12 DEF Apply, UdpFails, TcpFails
  <2>2. ~Entered(Outcome(r, << >>, << >>, <<e>>, FALSE))
    BY <1>12 DEF Entered
  <2> QED
    BY <2>2, <2>1, <1>1, <1>2, <1>4, <1>5 DEF Sent, Turn
<1>13. ASSUME NEW d, d.kind = "attach", Apply(Outcome(r, << >>, <<d>>, << >>, FALSE), left, late)
       PROVE  \/ Turn(r, up, left, late \cup {d}, r.lane.attach, evts, joined)
              \/ Turn([r EXCEPT !.lane = FailLane(r, TRUE)], up, left, late, 0, evts, joined)
  <2>1. \/ Sent(Outcome(r, << >>, <<d>>, << >>, FALSE), left, late)
        \/ UdpFails(Outcome(r, << >>, <<d>>, << >>, FALSE), left, late)
    BY <1>13 DEF Apply, TcpFails
  <2>2. ~Entered(Outcome(r, << >>, <<d>>, << >>, FALSE))
    BY DEF Entered
  <2>3. CASE Sent(Outcome(r, << >>, <<d>>, << >>, FALSE), left, late)
    BY <1>13, <2>2, <2>3, <1>1, <1>2, <1>3, <1>5 DEF Sent, Turn
  <2>4. CASE UdpFails(Outcome(r, << >>, <<d>>, << >>, FALSE), left, late)
    <3>1. <<d>> # <<[kind |-> "input"]>>
      BY <1>13
    <3> QED
      BY <2>4, <3>1, <1>2 DEF UdpFails, Turn, Happens
  <2> QED
    BY <2>1, <2>3, <2>4
<1>14. ASSUME NEW d, d = [kind |-> "input"],
              Apply(Outcome(r, << >>, <<d>>, << >>, FALSE), left, late)
       PROVE  \/ Turn(r, up, left, late \cup {d}, udp, evts, joined)
              \/ Turn([r EXCEPT !.lane = FailLane(r, TRUE)],
                      Append(up, d), left, late, 0, evts, joined)
  <2>1. \/ Sent(Outcome(r, << >>, <<d>>, << >>, FALSE), left, late)
        \/ UdpFails(Outcome(r, << >>, <<d>>, << >>, FALSE), left, late)
    BY <1>14 DEF Apply, TcpFails
  <2>2. ~Entered(Outcome(r, << >>, <<d>>, << >>, FALSE))
    BY DEF Entered
  <2>5. ~\E x \in ToSet(<<d>>) : x.kind = "attach"
    BY <1>5, <1>14
  <2>3. CASE Sent(Outcome(r, << >>, <<d>>, << >>, FALSE), left, late)
    BY <2>2, <2>3, <2>5, <1>1, <1>2, <1>3, <1>5 DEF Sent, Turn
  <2>4. CASE UdpFails(Outcome(r, << >>, <<d>>, << >>, FALSE), left, late)
    <3>1. up \o <<d>> = Append(up, d)
      BY <1>3, <1>14 DEF ToGate
    <3> QED
      BY <1>14, <2>4, <3>1 DEF UdpFails, Turn, Happens
  <2> QED
    BY <2>1, <2>3, <2>4
<1> QED
  BY <1>8, <1>9, <1>10, <1>11, <1>12, <1>13, <1>14

(* A lane after each of its steps. *)
LanesDown == {l \in Lanes : l.boot = 0 /\ l.attach = 0 /\ ~l.attached}

(* The lane of a runtime that fails, asks, attaches or is attached. *)
LEMMA LaneSteps ==
  ASSUME NEW r \in Runtimes, NEW id \in Nat
  PROVE  /\ \A retry \in BOOLEAN :
              /\ FailLane(r, retry) \in LanesDown
              /\ retry /\ r.phase = "scene" => FailLane(r, retry).timer # "none"
         /\ LET l == Bootstrapping(r.lane, id) IN
              l \in Lanes /\ l.boot = id /\ l.attach = 0 /\ ~l.attached
         /\ LET l == Attaching(r.lane, id) IN
              l \in Lanes /\ l.boot = 0 /\ l.attach = id /\ ~l.attached
         /\ LET l == Attached(r.lane) IN
              l \in Lanes /\ l.boot = 0 /\ l.attach = 0 /\ l.attached
<1>1. r.lane \in Lanes /\ LaneTries \in Nat \ {0} /\ r.lane.tries \in 0..LaneTries
  BY LinkAssumption DEF Runtimes, Lanes
<1>2. NoLane \in Lanes
  BY <1>1 DEF NoLane, Lanes
<1>3. \A t \in 0..LaneTries, x \in {"none", "retry", "cooldown"} :
        LET l == [NoLane EXCEPT !.tries = t, !.timer = x] IN
        l \in LanesDown /\ l.tries = t /\ l.timer = x
  BY <1>1 DEF NoLane, Lanes, LanesDown
<1>4. Failed(r.lane) \in LanesDown /\ Failed(r.lane).timer = "none"
      /\ Failed(r.lane) = [NoLane EXCEPT !.tries = r.lane.tries]
  BY <1>1 DEF NoLane, Lanes, LanesDown, Failed
<1>5. [Failed(r.lane) EXCEPT !.timer = "cooldown"] \in LanesDown
      /\ [Failed(r.lane) EXCEPT !.timer = "cooldown"].timer = "cooldown"
  BY <1>4 DEF Lanes, LanesDown
<1>6. r.lane.tries < LaneTries =>
        /\ [Failed(r.lane) EXCEPT !.tries = @ + 1, !.timer = "retry"] \in LanesDown
        /\ [Failed(r.lane) EXCEPT !.tries = @ + 1, !.timer = "retry"].timer = "retry"
  <2>1. Failed(r.lane).tries = r.lane.tries
    BY <1>1, <1>4 DEF NoLane
  <2>2. \A l \in LanesDown, t \in 0..LaneTries :
          /\ [l EXCEPT !.tries = t, !.timer = "retry"] \in LanesDown
          /\ [l EXCEPT !.tries = t, !.timer = "retry"].timer = "retry"
    BY DEF Lanes, LanesDown
  <2>3. r.lane.tries < LaneTries => r.lane.tries + 1 \in 0..LaneTries
    BY <1>1
  <2> QED
    BY <1>4, <2>1, <2>2, <2>3
<1>7. ASSUME NEW retry \in BOOLEAN
      PROVE  /\ FailLane(r, retry) \in LanesDown
             /\ retry /\ r.phase = "scene" => FailLane(r, retry).timer # "none"
  <2>1. CASE ~retry \/ r.phase # "scene"
    <3>1. FailLane(r, retry) = Failed(r.lane)
      BY <2>1 DEF FailLane
    <3> QED
      BY <2>1, <3>1, <1>4
  <2>2. CASE retry /\ r.phase = "scene"
    <3>1. Failed(r.lane).tries = r.lane.tries
      BY <1>1, <1>4 DEF NoLane
    <3> QED
      BY <2>2, <3>1, <1>5, <1>6 DEF FailLane
  <2> QED
    BY <2>1, <2>2
<1>8. LET l == Bootstrapping(r.lane, id) IN
        l \in Lanes /\ l.boot = id /\ l.attach = 0 /\ ~l.attached
  BY <1>1 DEF Bootstrapping, NoLane, Lanes
<1>9. LET l == Attaching(r.lane, id) IN
        l \in Lanes /\ l.boot = 0 /\ l.attach = id /\ ~l.attached
  BY <1>1 DEF Attaching, NoLane, Lanes
<1>10. LET l == Attached(r.lane) IN
         l \in Lanes /\ l.boot = 0 /\ l.attach = 0 /\ l.attached
  <2>1. \A b \in BOOLEAN : LET l == [NoLane EXCEPT !.attached = b] IN
          l \in Lanes /\ l.boot = 0 /\ l.attach = 0 /\ l.attached = b
    BY <1>2 DEF NoLane, Lanes
  <2> QED
    BY <2>1 DEF Attached
<1> QED
  BY <1>7, <1>8, <1>9, <1>10

(* What a turn comes to, by what it was about.  The app sees the turns with     *)
(* events, the gate those that send.                                            *)
Asking(l, left, late, e, j, r) ==
  Turn([r EXCEPT !.next = rt.next + 1, !.lane = l],
       Append(up, [kind |-> "ticket", id |-> rt.next]), left, late, udp, e, j)
LaneIsDown(retry, u, left, late, s, n) ==
  \E l \in LanesDown :
    /\ retry /\ rt.phase = "scene" => l.timer # "none"
    /\ Turn([rt EXCEPT !.lane = l, !.next = n], u, left, late, s, evts, joined)

LetsIn(left, late) ==
  Turn([rt EXCEPT !.phase = "enter", !.enter = rt.next, !.next = rt.next + 1],
       Append(up, [kind |-> "enter", id |-> rt.next]), left, late, udp, evts, joined)
Arrives(m, left, late) ==
  /\ m.id = rt.enter /\ m.ok /\ m.sess \in Nat
  /\ \E l \in Lanes : /\ l.boot = rt.next /\ l.attach = 0 /\ ~l.attached
                      /\ Asking(l, left, late, Append(evts, [kind |-> "entered", sess |-> m.sess]),
                                TRUE, [rt EXCEPT !.phase = "scene", !.mark = 0])
TicketFails(m, left, late) ==
  m.id = rt.lane.boot /\ ~m.ok /\ LaneIsDown(FALSE, up, left, late, udp, rt.next)
Attaches(m, left, late) ==
  /\ m.id = rt.lane.boot /\ m.ok
  /\ \/ \E l \in Lanes :
          /\ l.boot = 0 /\ l.attach = rt.next /\ ~l.attached
          /\ Turn([rt EXCEPT !.next = rt.next + 1, !.lane = l], up, left,
                  late \cup {[kind |-> "attach", id |-> rt.next, ticket |-> m.id]},
                  rt.next, evts, joined)
     \/ LaneIsDown(TRUE, up, left, late, 0, rt.next + 1)
IsAttached(m, left, late) ==
  /\ m.id = rt.lane.attach
  /\ \/ /\ m.ok
        /\ \E l \in Lanes : /\ l.boot = 0 /\ l.attach = 0 /\ l.attached
                            /\ Turn([rt EXCEPT !.lane = l], up, left, late, udp, evts, joined)
     \/ ~m.ok /\ LaneIsDown(TRUE, up, left, late, udp, rt.next)
Passes(m, left, late, mark) ==
  Turn([rt EXCEPT !.mark = mark], up, left, late, udp, Append(evts, m), joined)
Ignores(m) ==
  \/ m.kind = "entered" /\ m.id # rt.enter
  \/ m.kind = "ticket" /\ m.id # rt.lane.boot
  \/ m.kind = "attached" /\ m.id # rt.lane.attach
  \/ m.kind = "move" /\ ~IsNewMove(rt, m)

Receives(m, left, late) ==
  \/ Ends(joined)
  \/ m.kind = "entered" /\ Ends(TRUE)
  \/ Ignores(m) /\ Turn(rt, up, left, late, udp, evts, joined)
  \/ m.kind = "auth" /\ LetsIn(left, late)
  \/ m.kind = "entered" /\ Arrives(m, left, late)
  \/ m.kind = "ticket" /\ (TicketFails(m, left, late) \/ Attaches(m, left, late))
  \/ m.kind = "attached" /\ IsAttached(m, left, late)
  \/ m.kind = "refused" /\ LaneIsDown(TRUE, up, left, late, udp, rt.next)
  \/ m.kind = "move" /\ IsNewMove(rt, m) /\ Passes(m, left, late, m.tick)
  \/ m.kind \in {"appear", "leave"} /\ Passes(m, left, late, 0)

(* A message of the gate. *)
LEMMA Received ==
  ASSUME TypeOK, UNCHANGED <<login, token, app>>, NEW left, NEW late,
         NEW m \in FromGate \cup {d \in Datagrams : ToClient(d)},
         Apply(OnMessage(rt, m), left, late)
  PROVE  Receives(m, left, late)
<1>1. rt \in Runtimes /\ rt.next \in Nat /\ rt.lane \in Lanes /\ joined \in BOOLEAN
  BY Typed
<1>2. m.kind \in {"auth", "entered", "ticket", "attached", "refused", "move", "appear", "leave"}
  BY DEF FromGate, Datagrams, ToClient
<1>11. Apply(Nothing(rt), left, late) => Turn(rt, up, left, late, udp, evts, joined)
  BY Applied DEF Nothing
<1>3. CASE m.kind = "auth"
  <2>1. Apply(OnAuth(rt, m.ok), left, late)
    BY <1>3 DEF OnMessage
  <2>2. CASE ~m.ok
    BY <2>1, <2>2, Applied DEF OnAuth, Drop, Receives
  <2>3. CASE m.ok
    <3> DEFINE e == [kind |-> "enter", id |-> rt.next]
               r == [rt EXCEPT !.phase = "enter", !.enter = rt.next, !.next = rt.next + 1]
    <3>1. e \in ToGate
      BY <1>1 DEF ToGate
    <3>2. OnAuth(rt, m.ok) = Outcome(r, <<e>>, << >>, << >>, FALSE)
      BY <2>3, <1>1 DEF OnAuth, Request
    <3>3. Turn(r, Append(up, e), left, late, udp, evts, joined) \/ Ends(joined)
      BY <2>1, <3>1, <3>2, Applied
    <3> QED
      BY <1>3, <3>3 DEF Receives, LetsIn
  <2> QED
    BY <2>2, <2>3
<1>4. CASE m.kind = "entered"
  <2>1. Apply(OnEntered(rt, m), left, late)
    BY <1>4 DEF OnMessage
  <2>2. CASE m.id # rt.enter
    <3>1. OnEntered(rt, m) = Nothing(rt)
      BY <2>2 DEF OnEntered
    <3>2. Turn(rt, up, left, late, udp, evts, joined)
      BY <2>1, <3>1, <1>11
    <3> QED
      BY <2>2, <3>2, <1>4 DEF Receives, Ignores
  <2>3. CASE m.id = rt.enter /\ ~m.ok
    BY <2>1, <2>3, Applied DEF OnEntered, Drop, Receives
  <2>4. CASE m.id = rt.enter /\ m.ok
    <3> DEFINE q == [rt EXCEPT !.phase = "scene", !.mark = 0]
               l == Bootstrapping(rt.lane, rt.next)
               e == [kind |-> "entered", sess |-> m.sess]
               t == [kind |-> "ticket", id |-> rt.next]
               r == [q EXCEPT !.next = rt.next + 1, !.lane = l]
    <3>1. m.sess \in Nat /\ e \in Events /\ t \in ToGate
      BY <2>4, <1>1, <1>4 DEF FromGate, Datagrams, Events, ToGate
    <3>2. q.next = rt.next /\ q.lane = rt.lane
      BY <1>1 DEF Runtimes
    <3>3. OnEntered(rt, m) = Outcome(r, <<t>>, << >>, <<e>>, FALSE)
      BY <2>4, <3>2 DEF OnEntered, AskTicket, Request, Outcome
    <3>4. Turn(r, Append(up, t), left, late, udp, Append(evts, e), TRUE) \/ Ends(TRUE)
      BY <2>1, <3>1, <3>3, Applied
    <3>5. l \in Lanes /\ l.boot = rt.next /\ l.attach = 0 /\ ~l.attached
      BY <1>1, LaneSteps
    <3> QED
      BY <1>4, <2>4, <3>1, <3>4, <3>5 DEF Receives, Arrives, Asking
  <2> QED
    BY <2>2, <2>3, <2>4
<1>5. CASE m.kind = "ticket"
  <2>1. Apply(OnTicket(rt, m), left, late)
    BY <1>5 DEF OnMessage
  <2>2. CASE m.id # rt.lane.boot
    <3>1. OnTicket(rt, m) = Nothing(rt)
      BY <2>2 DEF OnTicket
    <3>2. Turn(rt, up, left, late, udp, evts, joined)
      BY <2>1, <3>1, <1>11
    <3> QED
      BY <2>2, <3>2, <1>5 DEF Receives, Ignores
  <2>3. CASE m.id = rt.lane.boot /\ ~m.ok
    <3> DEFINE l == FailLane(rt, FALSE)
               r == [rt EXCEPT !.lane = l]
    <3>1. Turn(r, up, left, late, udp, evts, joined)
      BY <2>1, <2>3, Applied DEF OnTicket, LaneFails, Nothing
    <3>2. l \in LanesDown /\ r = [rt EXCEPT !.lane = l, !.next = rt.next]
      BY <1>1, LaneSteps DEF Runtimes
    <3> QED
      BY <1>5, <2>3, <3>1, <3>2 DEF Receives, TicketFails, LaneIsDown
  <2>4. CASE m.id = rt.lane.boot /\ m.ok
    <3> DEFINE l == Attaching(rt.lane, rt.next)
               r == [rt EXCEPT !.next = rt.next + 1, !.lane = l]
               d == [kind |-> "attach", id |-> rt.next, ticket |-> m.id]
               f == FailLane(r, TRUE)
    <3>1. OnTicket(rt, m) = Outcome(r, << >>, <<d>>, << >>, FALSE)
      BY <2>4, <1>1 DEF OnTicket, Datagram
    <3>2. l \in Lanes /\ l.boot = 0 /\ l.attach = rt.next /\ ~l.attached
      BY <1>1, LaneSteps
    <3>10. rt.next + 1 \in Nat
      BY <1>1
    <3>3. r \in Runtimes /\ r.phase = rt.phase /\ r.lane = l
      <4> HIDE DEF l
      <4> QED
        BY <1>1, <3>2, <3>10 DEF Runtimes
    <3>4. f \in LanesDown /\ (r.phase = "scene" => f.timer # "none")
      BY <3>3, <1>1, LaneSteps
    <3>5. \/ Turn(r, up, left, late \cup {d}, r.lane.attach, evts, joined)
          \/ Turn([r EXCEPT !.lane = f], up, left, late, 0, evts, joined)
      <4>1. d.kind = "attach" /\ Apply(Outcome(r, << >>, <<d>>, << >>, FALSE), left, late)
        BY <2>1, <3>1
      <4> HIDE DEF d, r
      <4> QED
        BY <4>1, Applied
    <3>6. [r EXCEPT !.lane = f] = [rt EXCEPT !.lane = f, !.next = rt.next + 1]
      BY <1>1 DEF Runtimes
    <3>7. r.lane.attach = rt.next
      BY <3>2, <3>3
    <3>8. CASE Turn(r, up, left, late \cup {d}, r.lane.attach, evts, joined)
      <4>1. Turn(r, up, left, late \cup {d}, rt.next, evts, joined)
        BY <3>7, <3>8
      <4> QED
        BY <1>5, <2>4, <3>2, <4>1 DEF Receives, Attaches
    <3>9. CASE Turn([r EXCEPT !.lane = f], up, left, late, 0, evts, joined)
      <4>1. Turn([rt EXCEPT !.lane = f, !.next = rt.next + 1], up, left, late, 0, evts, joined)
        BY <3>6, <3>9
      <4>2. LaneIsDown(TRUE, up, left, late, 0, rt.next + 1)
        BY <4>1, <3>4, <3>3 DEF LaneIsDown
      <4> QED
        BY <1>5, <2>4, <4>2 DEF Receives, Attaches
    <3> QED
      BY <3>5, <3>8, <3>9
  <2> QED
    BY <2>2, <2>3, <2>4
<1>6. ASSUME NEW retry \in BOOLEAN, Apply(LaneFails(rt, retry), left, late)
      PROVE  LaneIsDown(retry, up, left, late, udp, rt.next)
  <2> DEFINE l == FailLane(rt, retry)
             r == [rt EXCEPT !.lane = l]
  <2>1. Turn(r, up, left, late, udp, evts, joined)
    BY <1>6, Applied DEF LaneFails, Nothing
  <2>2. l \in LanesDown /\ r = [rt EXCEPT !.lane = l, !.next = rt.next]
        /\ (retry /\ rt.phase = "scene" => l.timer # "none")
    BY <1>1, LaneSteps DEF Runtimes
  <2> QED
    BY <2>1, <2>2 DEF LaneIsDown
<1>7. CASE m.kind = "attached"
  <2>1. Apply(OnAttached(rt, m), left, late)
    BY <1>7 DEF OnMessage
  <2>2. CASE m.id # rt.lane.attach
    <3>1. OnAttached(rt, m) = Nothing(rt)
      BY <2>2 DEF OnAttached
    <3>2. Turn(rt, up, left, late, udp, evts, joined)
      BY <2>1, <3>1, <1>11
    <3> QED
      BY <2>2, <3>2, <1>7 DEF Receives, Ignores
  <2>3. CASE m.id = rt.lane.attach /\ ~m.ok
    <3>1. Apply(LaneFails(rt, TRUE), left, late)
      BY <2>1, <2>3 DEF OnAttached
    <3> QED
      BY <1>6, <1>7, <2>3, <3>1 DEF Receives, IsAttached
  <2>4. CASE m.id = rt.lane.attach /\ m.ok
    <3> DEFINE l == Attached(rt.lane)
    <3>1. Turn([rt EXCEPT !.lane = l], up, left, late, udp, evts, joined)
      BY <2>1, <2>4, Applied DEF OnAttached, Nothing
    <3>2. l \in Lanes /\ l.boot = 0 /\ l.attach = 0 /\ l.attached
      BY <1>1, LaneSteps
    <3> QED
      BY <1>7, <2>4, <3>1, <3>2 DEF Receives, IsAttached
  <2> QED
    BY <2>2, <2>3, <2>4
<1>8. CASE m.kind = "refused"
  <2>1. Apply(LaneFails(rt, TRUE), left, late)
    BY <1>8 DEF OnMessage
  <2> QED
    BY <1>6, <1>8, <2>1 DEF Receives
<1>9. CASE m.kind = "move"
  <2>1. Apply(OnMove(rt, m), left, late) /\ m \in Events
    BY <1>9 DEF OnMessage, FromGate, Datagrams, Events
  <2>2. CASE ~IsNewMove(rt, m)
    BY <2>1, <2>2, <1>9, Applied DEF OnMove, Nothing, Receives, Ignores
  <2>3. CASE IsNewMove(rt, m)
    <3>1. Turn([rt EXCEPT !.mark = m.tick], up, left, late, udp, Append(evts, m), joined)
      BY <2>1, <2>3, <1>9, Applied DEF OnMove, Event
    <3> QED
      BY <2>3, <3>1, <1>9 DEF Receives, Passes
  <2> QED
    BY <2>2, <2>3
<1>10. CASE m.kind \in {"appear", "leave"}
  <2>1. Apply(OnLife(rt, m), left, late) /\ m \in Events
    BY <1>10 DEF OnMessage, FromGate, Datagrams, Events
  <2>2. Turn([rt EXCEPT !.mark = 0], up, left, late, udp, Append(evts, m), joined)
    BY <2>1, <1>10, Applied DEF OnLife, Event
  <2> QED
    BY <2>2, <1>10 DEF Receives, Passes
<1> QED
  BY <1>2, <1>3, <1>4, <1>5, <1>7, <1>8, <1>9, <1>10

Says(c) ==
  Turn([rt EXCEPT !.next = rt.next + 1],
       Append(up, [kind |-> "say", id |-> rt.next, sess |-> c.sess]),
       down, dgrams, udp, evts, joined)
Inputs ==
  LET m == [kind |-> "input"] IN
  \/ Turn(rt, Append(up, m), down, dgrams, udp, evts, joined)
  \/ /\ rt.lane.attached
     /\ \/ Turn(rt, up, down, dgrams \cup {m}, udp, evts, joined)
        \/ LaneIsDown(TRUE, Append(up, m), down, dgrams, 0, rt.next)
Obeys(c) ==
  \/ Ends(joined)
  \/ Turn(rt, up, down, dgrams, udp, evts, joined)
  \/ rt.phase = "scene" /\ c.kind = "say" /\ c.sess \in Nat /\ Says(c)
  \/ rt.phase = "scene" /\ Inputs

(* A command of the app. *)
LEMMA Commanded ==
  ASSUME TypeOK, UNCHANGED <<login, token, app>>,
         NEW c \in Commands, c.kind # "quit", Apply(OnCommand(rt, c), down, dgrams)
  PROVE  Obeys(c)
<1>1. rt \in Runtimes /\ rt.next \in Nat /\ rt.lane \in Lanes /\ joined \in BOOLEAN
  BY Typed
<1>2. c.kind = "input" \/ (c.kind = "say" /\ c.sess \in Nat)
  BY DEF Commands
<1>3. CASE rt.phase # "scene"
  BY <1>3, Applied DEF OnCommand, Nothing, Obeys
<1>4. CASE rt.phase = "scene" /\ c.kind = "say" /\ c.sess \in Nat
  <2> DEFINE m == [kind |-> "say", id |-> rt.next, sess |-> c.sess]
             r == [rt EXCEPT !.next = rt.next + 1]
  <2>1. m \in ToGate
    BY <1>1, <1>4 DEF ToGate
  <2>2. Apply(Outcome(r, <<m>>, << >>, << >>, FALSE), down, dgrams)
    BY <1>4 DEF OnCommand, OnRequest, Request
  <2>3. Turn(r, Append(up, m), down, dgrams, udp, evts, joined) \/ Ends(joined)
    <3> HIDE DEF m, r
    <3> QED
      BY <2>1, <2>2, Applied
  <2> QED
    BY <1>4, <2>3 DEF Obeys, Says
<1>5. CASE rt.phase = "scene" /\ c.kind = "input"
  <2> DEFINE m == [kind |-> "input"]
             f == FailLane(rt, TRUE)
  <2>1. m \in ToGate
    BY DEF ToGate
  <2>2. Apply(OnInput(rt), down, dgrams)
    BY <1>5 DEF OnCommand
  <2>3. CASE ~rt.lane.attached
    <3>1. Apply(Outcome(rt, <<m>>, << >>, << >>, FALSE), down, dgrams)
      BY <2>2, <2>3 DEF OnInput, Request
    <3>2. Turn(rt, Append(up, m), down, dgrams, udp, evts, joined) \/ Ends(joined)
      BY <2>1, <3>1, Applied
    <3> QED
      BY <1>5, <3>2 DEF Obeys, Inputs
  <2>4. CASE rt.lane.attached
    <3>1. Apply(Outcome(rt, << >>, <<m>>, << >>, FALSE), down, dgrams)
      BY <2>2, <2>4 DEF OnInput, Datagram
    <3>2. \/ Turn(rt, up, down, dgrams \cup {m}, udp, evts, joined)
          \/ Turn([rt EXCEPT !.lane = f], Append(up, m), down, dgrams, 0, evts, joined)
      BY <3>1, Applied
    <3>3. /\ [rt EXCEPT !.lane = f] = [rt EXCEPT !.lane = f, !.next = rt.next]
          /\ f \in LanesDown /\ (rt.phase = "scene" => f.timer # "none")
      BY <1>1, LaneSteps DEF Runtimes
    <3>4. ASSUME Turn([rt EXCEPT !.lane = f], Append(up, m), down, dgrams, 0, evts, joined)
          PROVE  LaneIsDown(TRUE, Append(up, m), down, dgrams, 0, rt.next)
      BY <3>3, <3>4 DEF LaneIsDown
    <3> QED
      BY <1>5, <2>4, <3>2, <3>4 DEF Obeys, Inputs
  <2> QED
    BY <2>3, <2>4
<1> QED
  BY <1>2, <1>3, <1>4, <1>5

Asks ==
  \E l \in Lanes : /\ l.boot = rt.next /\ l.attach = 0 /\ ~l.attached
                   /\ Asking(l, down, dgrams, evts, joined, rt)

(* A timer of the lane. *)
LEMMA Timed ==
  ASSUME TypeOK, UNCHANGED <<login, token, app>>,
         LaneTimerDue(rt), Apply(OnLaneTimer(rt), down, dgrams)
  PROVE  \/ Ends(joined)
         \/ LaneIsDown(TRUE, up, down, dgrams, udp, rt.next)
         \/ Asks
<1>1. rt \in Runtimes /\ rt.next \in Nat /\ rt.lane \in Lanes /\ joined \in BOOLEAN
  BY Typed
<1>2. CASE rt.lane.timer = "cooldown"
  <2> DEFINE l == [rt.lane EXCEPT !.timer = "retry", !.tries = 0]
             r == [rt EXCEPT !.lane.timer = "retry", !.lane.tries = 0]
  <2>1. Turn(r, up, down, dgrams, udp, evts, joined)
    <3>1. Apply(Outcome(r, << >>, << >>, << >>, FALSE), down, dgrams)
      BY <1>2 DEF OnLaneTimer, Nothing
    <3> HIDE DEF r
    <3> QED
      BY <3>1, Applied
  <2>2. 0 \in 0..LaneTries
    BY LinkAssumption
  <2>3. l \in LanesDown /\ l.timer = "retry"
    BY <1>1, <2>2 DEF LaneTimerDue, Lanes, LanesDown
  <2>4. r = [rt EXCEPT !.lane = l, !.next = rt.next]
    BY <1>1 DEF Runtimes, Lanes
  <2> HIDE DEF l, r
  <2> QED
    BY <2>1, <2>3, <2>4 DEF LaneIsDown
<1>3. CASE rt.lane.timer # "cooldown"
  <2> DEFINE l == Bootstrapping(rt.lane, rt.next)
             t == [kind |-> "ticket", id |-> rt.next]
             r == [rt EXCEPT !.next = rt.next + 1, !.lane = l]
  <2>1. Apply(Outcome(r, <<t>>, << >>, << >>, FALSE), down, dgrams)
    BY <1>3 DEF OnLaneTimer, AskTicket, Request
  <2>2. t \in ToGate
    BY <1>1 DEF ToGate
  <2>3. Turn(r, Append(up, t), down, dgrams, udp, evts, joined) \/ Ends(joined)
    <3> HIDE DEF r, t
    <3> QED
      BY <2>1, <2>2, Applied
  <2>4. l \in Lanes /\ l.boot = rt.next /\ l.attach = 0 /\ ~l.attached
    BY <1>1, LaneSteps
  <2>5. ASSUME Turn(r, Append(up, t), down, dgrams, udp, evts, joined) PROVE Asks
    <3> HIDE DEF l
    <3> QED
      BY <2>4, <2>5 DEF Asks, Asking
  <2> QED
    BY <2>3, <2>5
<1> QED
  BY <1>2, <1>3

Taken(m, left, late) ==
  \/ down # << >> /\ m = Head(down) /\ left = Tail(down) /\ late = dgrams
  \/ udp # 0 /\ m \in dgrams /\ ToClient(m) /\ left = down /\ late = dgrams \ {m}

SessionStep ==
  \/ HandleCommand \/ LaneTimer \/ HandleTcp \/ (\E d \in dgrams : HandleDatagram(d))
  \/ UdpReadFails \/ LoseLink

(* What a step of the session comes to. *)
SessionTurn ==
  \/ /\ cmds # << >> /\ Head(cmds).kind = "quit" /\ Stops /\ UNCHANGED <<login, token, app>>
  \/ /\ cmds # << >> /\ Head(cmds).kind # "quit" /\ cmds' = Tail(cmds)
     /\ Obeys(Head(cmds))
  \/ /\ cmds' = cmds
     /\ \/ Ends(joined)
        \/ LaneTimerDue(rt) /\ LaneIsDown(TRUE, up, down, dgrams, udp, rt.next)
        \/ LaneTimerDue(rt) /\ Asks
        \/ udp # 0 /\ LaneIsDown(TRUE, up, down, dgrams, 0, rt.next)
        \/ \E m \in FromGate \cup {d \in Datagrams : ToClient(d)} :
             \E left \in Seq(FromGate), late \in SUBSET dgrams :
               Taken(m, left, late) /\ Receives(m, left, late)

(* Every action of the session is one of the turns named above. *)
LEMMA SessionSteps ==
  ASSUME TypeOK, SessionStep
  PROVE  InSession /\ SessionTurn
<1>1. /\ rt \in Runtimes /\ cmds \in Seq(Commands) /\ down \in Seq(FromGate)
      /\ dgrams \subseteq Datagrams
  BY DEF TypeOK
<1>2. CASE HandleCommand
  <2>1. Head(cmds) \in Commands
    BY <1>1, <1>2, QueueFacts DEF HandleCommand
  <2>2. CASE Head(cmds).kind = "quit"
    BY <1>2, <2>2 DEF HandleCommand, Took, SessionTurn
  <2>3. CASE Head(cmds).kind # "quit"
    <3>1. /\ cmds' = Tail(cmds) /\ Apply(OnCommand(rt, Head(cmds)), down, dgrams)
          /\ UNCHANGED <<login, token, app>> /\ InSession /\ cmds # << >>
      BY <1>2, <2>3 DEF HandleCommand, Took
    <3>2. Obeys(Head(cmds))
      BY <2>1, <2>3, <3>1, Commanded
    <3> QED
      BY <2>3, <3>1, <3>2 DEF SessionTurn
  <2> QED
    BY <1>2, <2>2, <2>3 DEF HandleCommand
<1>3. CASE LaneTimer
  <2>1. /\ UNCHANGED <<login, token, app>> /\ cmds' = cmds /\ InSession
        /\ LaneTimerDue(rt) /\ Apply(OnLaneTimer(rt), down, dgrams)
    BY <1>3 DEF LaneTimer, Took
  <2> QED
    BY <2>1, Timed DEF SessionTurn
<1>4. ASSUME NEW m \in FromGate \cup {d \in Datagrams : ToClient(d)},
             NEW left \in Seq(FromGate), NEW late \in SUBSET dgrams,
             Taken(m, left, late), Apply(OnMessage(rt, m), left, late),
             UNCHANGED <<login, token, app>>, cmds' = cmds
      PROVE  SessionTurn
  <2>1. Receives(m, left, late)
    BY <1>4, Received
  <2> QED
    BY <1>4, <2>1 DEF SessionTurn
<1>5. CASE HandleTcp
  <2>1. /\ UNCHANGED <<login, token, app>> /\ cmds' = cmds /\ InSession /\ down # << >>
        /\ Apply(OnMessage(rt, Head(down)), Tail(down), dgrams)
    BY <1>5 DEF HandleTcp, Took
  <2>2. Head(down) \in FromGate /\ Tail(down) \in Seq(FromGate) /\ dgrams \in SUBSET dgrams
    BY <1>1, <2>1, QueueFacts
  <2>3. Taken(Head(down), Tail(down), dgrams)
    BY <2>1 DEF Taken
  <2> QED
    BY <1>4, <2>1, <2>2, <2>3
<1>6. ASSUME NEW d \in dgrams, HandleDatagram(d) PROVE InSession /\ SessionTurn
  <2>1. /\ UNCHANGED <<login, token, app>> /\ cmds' = cmds /\ InSession /\ udp # 0
        /\ ToClient(d) /\ Apply(OnMessage(rt, d), down, dgrams \ {d})
    BY <1>6 DEF HandleDatagram, Took
  <2>2. d \in {x \in Datagrams : ToClient(x)} /\ dgrams \ {d} \in SUBSET dgrams
    BY <1>1, <2>1
  <2>3. Taken(d, down, dgrams \ {d})
    BY <2>1 DEF Taken
  <2> QED
    BY <1>1, <1>4, <2>1, <2>2, <2>3
<1>7. CASE UdpReadFails
  <2> DEFINE l == FailLane(rt, TRUE)
  <2>1. l \in LanesDown /\ (rt.phase = "scene" => l.timer # "none")
        /\ [rt EXCEPT !.lane = l] = [rt EXCEPT !.lane = l, !.next = rt.next]
    BY <1>1, LaneSteps DEF Runtimes, TypeOK
  <2>2. LaneFails(rt, TRUE).rt = [rt EXCEPT !.lane = l]
    BY DEF LaneFails, Nothing, Outcome
  <2>3. Turn([rt EXCEPT !.lane = l, !.next = rt.next], up, down, dgrams, 0, evts, joined)
    BY <1>7, <2>1, <2>2 DEF UdpReadFails, Took, Turn, Happens, links
  <2>4. LaneIsDown(TRUE, up, down, dgrams, 0, rt.next)
    BY <2>1, <2>3 DEF LaneIsDown
  <2> QED
    BY <1>7, <2>4 DEF UdpReadFails, SessionTurn
<1>8. CASE LoseLink
  BY <1>8 DEF LoseLink, SessionTurn, Ends, Happens, Took
<1> QED
  BY <1>2, <1>3, <1>5, <1>6, <1>7, <1>8 DEF SessionStep

-----------------------------------------------------------------------------
(* Types. *)
LEMMA TurnTypes ==
  ASSUME TypeOK, NEW r \in Runtimes, NEW u \in Seq(ToGate), NEW d \in Seq(FromGate),
         NEW g \in SUBSET Datagrams, NEW s \in Nat, NEW e \in Seq(Events), NEW j \in BOOLEAN,
         Turn(r, u, d, g, s, e, j), cmds' \in Seq(Commands)
  PROVE  TypeOK'
<1>1. spent' \in Nat
  <2>1. spent' \in {spent, spent + 1}
    BY DEF Turn
  <2>2. spent \in Nat
    BY Typed
  <2> QED
    BY <2>1, <2>2
<1>2. /\ rt' \in Runtimes /\ joined' \in BOOLEAN /\ udp' \in Nat /\ evts' \in Seq(Events)
      /\ up' \in Seq(ToGate) /\ down' \in Seq(FromGate) /\ dgrams' \subseteq Datagrams
  BY DEF Turn
<1>3. UNCHANGED <<login, token, thread, attempt, app, srv>>
  BY DEF Turn
<1> QED
  BY <1>1, <1>2, <1>3 DEF TypeOK

(* A session that ends keeps the types, and its reconnects their budget. *)
LEMMA EndTypes ==
  ASSUME TypeOK, thread # "stopped", NEW b, EndSession(b), cmds' \in Seq(Commands),
         login' = login, token' = token, app' = app, spent' \in Nat
  PROVE  TypeOK'
<1>1. /\ attempt \in Nat /\ attempt <= MaxReconnects /\ MaxReconnects \in Nat \ {0}
      /\ evts \in Seq(Events)
  BY LinkAssumption DEF TypeOK
<1>2. Before(b) \in Nat /\ Before(b) <= MaxReconnects
  BY <1>1 DEF Before
<1>3. attempt' \in 0..MaxReconnects + 1
  BY <1>1, <1>2 DEF EndSession
<1>4. thread' # "stopped" => attempt' <= MaxReconnects
  BY <1>1, <1>2 DEF EndSession
<1>5. thread' \in {"none", "start", "session", "backoff", "login", "stopped"}
  BY DEF EndSession
<1>6. evts' \in Seq(Events)
  <2>1. Disconnected \in Events /\ GaveUp \in Events
    BY DEF Disconnected, GaveUp, Events
  <2>2. Told(b) \in Seq(Events)
    BY <2>1 DEF Told
  <2>3. (IF Before(b) + 1 > MaxReconnects THEN <<GaveUp>> ELSE << >>) \in Seq(Events)
    BY <2>1
  <2> QED
    BY <1>1, <2>2, <2>3 DEF EndSession
<1>7. NewRuntime \in Runtimes
  <2>1. NoLane \in Lanes
    BY LinkAssumption DEF NoLane, Lanes
  <2> QED
    BY <2>1 DEF NewRuntime, Runtimes
<1>8. srv' \in [sess : Nat, scene : BOOLEAN, ticket : Nat, lane : Nat, noTicket : BOOLEAN,
               lost : BOOLEAN, life : BOOLEAN, tick : Nat]
  <2>1. srv.sess \in Nat
    BY DEF TypeOK
  <2> QED
    BY <2>1 DEF NoSession, EndSession
<1>9. /\ joined' \in BOOLEAN /\ udp' \in Nat /\ up' \in Seq(ToGate) /\ down' \in Seq(FromGate)
      /\ dgrams' \subseteq Datagrams
  <2>1. joined' = FALSE /\ udp' = 0 /\ up' = << >> /\ down' = << >> /\ dgrams' = {}
    BY DEF EndSession
  <2>2. up' \in Seq(ToGate) /\ down' \in Seq(FromGate)
    BY <2>1, EmptySeq
  <2> QED
    BY <2>1, <2>2
<1>10. rt' \in Runtimes
  BY <1>7 DEF EndSession
<1> QED
  BY <1>3, <1>4, <1>5, <1>6, <1>8, <1>9, <1>10 DEF TypeOK

(* A lane that went down. *)
LEMMA DownTypes ==
  ASSUME TypeOK, NEW retry \in BOOLEAN, NEW u \in Seq(ToGate), NEW left \in Seq(FromGate),
         NEW late \in SUBSET dgrams, NEW s \in Nat, NEW n \in Nat, cmds' \in Seq(Commands),
         LaneIsDown(retry, u, left, late, s, n)
  PROVE  TypeOK'
<1>1. PICK l \in LanesDown : Turn([rt EXCEPT !.lane = l, !.next = n], u, left, late, s, evts, joined)
  BY DEF LaneIsDown
<1>2. [rt EXCEPT !.lane = l, !.next = n] \in Runtimes
  BY DEF TypeOK, Runtimes, LanesDown
<1>3. evts \in Seq(Events) /\ joined \in BOOLEAN /\ late \in SUBSET Datagrams
  BY DEF TypeOK
<1> QED
  BY <1>1, <1>2, <1>3, TurnTypes

(* A ticket that is asked for. *)
LEMMA AskTypes ==
  ASSUME TypeOK, NEW l \in Lanes, NEW left \in Seq(FromGate), NEW late \in SUBSET dgrams,
         NEW e \in Seq(Events), NEW j \in BOOLEAN, NEW r \in Runtimes, cmds' \in Seq(Commands),
         Asking(l, left, late, e, j, r)
  PROVE  TypeOK'
<1>1. rt.next \in Nat /\ udp \in Nat /\ late \in SUBSET Datagrams
  BY Typed
<1>2. [r EXCEPT !.next = rt.next + 1, !.lane = l] \in Runtimes
  <2>1. rt.next + 1 \in Nat
    BY <1>1
  <2> QED
    BY <2>1 DEF Runtimes
<1>3. Append(up, [kind |-> "ticket", id |-> rt.next]) \in Seq(ToGate)
  BY <1>1 DEF TypeOK, ToGate
<1> QED
  BY <1>1, <1>2, <1>3, TurnTypes DEF Asking

(* A message of the gate. *)
LEMMA ReceivedTypes ==
  ASSUME TypeOK, InSession, NEW m \in FromGate \cup {d \in Datagrams : ToClient(d)},
         NEW left \in Seq(FromGate), NEW late \in SUBSET dgrams, cmds' \in Seq(Commands),
         Receives(m, left, late)
  PROVE  TypeOK'
<1>1. /\ rt \in Runtimes /\ rt.next \in Nat /\ rt.lane \in Lanes /\ joined \in BOOLEAN
      /\ udp \in Nat /\ evts \in Seq(Events) /\ up \in Seq(ToGate) /\ spent \in Nat
      /\ late \in SUBSET Datagrams /\ rt.next + 1 \in Nat
  BY Typed
<1>2. ASSUME NEW b, Ends(b) PROVE TypeOK'
  BY <1>1, <1>2, EndTypes DEF Ends, InSession
<1>3. ASSUME Turn(rt, up, left, late, udp, evts, joined) PROVE TypeOK'
  BY <1>1, <1>3, TurnTypes
<1>4. ASSUME LetsIn(left, late) PROVE TypeOK'
  <2>1. [rt EXCEPT !.phase = "enter", !.enter = rt.next, !.next = rt.next + 1] \in Runtimes
    BY <1>1 DEF Runtimes
  <2>2. Append(up, [kind |-> "enter", id |-> rt.next]) \in Seq(ToGate)
    BY <1>1 DEF ToGate
  <2> QED
    <3> DEFINE r == [rt EXCEPT !.phase = "enter", !.enter = rt.next, !.next = rt.next + 1]
               u == Append(up, [kind |-> "enter", id |-> rt.next])
    <3>1. Turn(r, u, left, late, udp, evts, joined) /\ r \in Runtimes /\ u \in Seq(ToGate)
      BY <1>4, <2>1, <2>2 DEF LetsIn
    <3> HIDE DEF r, u
    <3> QED
      BY <1>1, <3>1, TurnTypes
<1>5. ASSUME Arrives(m, left, late) PROVE TypeOK'
  <2>1. Append(evts, [kind |-> "entered", sess |-> m.sess]) \in Seq(Events)
    BY <1>1, <1>5 DEF Arrives, Events
  <2>2. [rt EXCEPT !.phase = "scene", !.mark = 0] \in Runtimes
    BY <1>1 DEF Runtimes
  <2> QED
    BY <1>5, <2>1, <2>2, AskTypes DEF Arrives
<1>6. ASSUME TicketFails(m, left, late) PROVE TypeOK'
  BY <1>1, <1>6, DownTypes DEF TicketFails
<1>7. ASSUME m.kind = "ticket", Attaches(m, left, late) PROVE TypeOK'
  <2>1. m.id \in Nat
    BY <1>7 DEF FromGate, Datagrams
  <2>2. CASE LaneIsDown(TRUE, up, left, late, 0, rt.next + 1)
    BY <1>1, <2>2, DownTypes
  <2>3. ASSUME NEW l \in Lanes,
               Turn([rt EXCEPT !.next = rt.next + 1, !.lane = l], up, left,
                  late \cup {[kind |-> "attach", id |-> rt.next, ticket |-> m.id]},
                  rt.next, evts, joined)
        PROVE  TypeOK'
    <3>1. [rt EXCEPT !.next = rt.next + 1, !.lane = l] \in Runtimes
      BY <1>1 DEF Runtimes
    <3>2. late \cup {[kind |-> "attach", id |-> rt.next, ticket |-> m.id]} \in SUBSET Datagrams
      BY <1>1, <2>1 DEF Datagrams
    <3> QED
      BY <1>1, <2>3, <3>1, <3>2, TurnTypes
  <2> QED
    BY <1>7, <2>2, <2>3 DEF Attaches
<1>8. ASSUME IsAttached(m, left, late) PROVE TypeOK'
  <2>1. ASSUME NEW l \in Lanes, Turn([rt EXCEPT !.lane = l], up, left, late, udp, evts, joined)
        PROVE  TypeOK'
    <3>1. [rt EXCEPT !.lane = l] \in Runtimes
      BY <1>1 DEF Runtimes
    <3> QED
      BY <1>1, <2>1, <3>1, TurnTypes
  <2> QED
    BY <1>1, <1>8, <2>1, DownTypes DEF IsAttached
<1>9. ASSUME NEW mark \in Nat, m \in Events, Passes(m, left, late, mark) PROVE TypeOK'
  <2>1. [rt EXCEPT !.mark = mark] \in Runtimes
    BY <1>1 DEF Runtimes
  <2>2. Append(evts, m) \in Seq(Events)
    BY <1>1, <1>9
  <2> QED
    BY <1>1, <1>9, <2>1, <2>2, TurnTypes DEF Passes
<1>10. m.kind = "move" => m \in Events /\ m.tick \in Nat
  BY DEF FromGate, Datagrams, Events
<1>11. m.kind \in {"appear", "leave"} => m \in Events
  BY DEF FromGate, Datagrams, Events, ToClient
<1>12. LaneIsDown(TRUE, up, left, late, udp, rt.next) => TypeOK'
  BY <1>1, DownTypes
<1>13. m.kind = "move" /\ Passes(m, left, late, m.tick) => TypeOK'
  BY <1>9, <1>10
<1>14. m.kind \in {"appear", "leave"} /\ Passes(m, left, late, 0) => TypeOK'
  BY <1>9, <1>11
<1> QED
  BY <1>2, <1>3, <1>4, <1>5, <1>6, <1>7, <1>8, <1>12, <1>13, <1>14 DEF Receives

(* A step of the session. *)
LEMMA SessionTypes ==
  ASSUME TypeOK, InSession, SessionTurn
  PROVE  TypeOK'
<1>1. /\ rt \in Runtimes /\ rt.next \in Nat /\ rt.lane \in Lanes /\ joined \in BOOLEAN
      /\ udp \in Nat /\ evts \in Seq(Events) /\ up \in Seq(ToGate) /\ spent \in Nat
      /\ dgrams \in SUBSET Datagrams /\ dgrams \in SUBSET dgrams /\ rt.next + 1 \in Nat
      /\ down \in Seq(FromGate) /\ cmds \in Seq(Commands)
  BY Typed
<1>2. ASSUME NEW b, Ends(b), cmds' \in Seq(Commands) PROVE TypeOK'
  BY <1>1, <1>2, EndTypes DEF Ends, InSession
<1>3. ASSUME Stops, UNCHANGED <<login, token, app>> PROVE TypeOK'
  <2>1. cmds' \in Seq(Commands) /\ thread' = "stopped"
    BY <1>3 DEF Stops
  <2>2. attempt <= MaxReconnects
    BY DEF TypeOK, InSession
  <2> QED
    BY <1>3, <2>1, <2>2 DEF TypeOK, Stops, links
<1>4. ASSUME NEW c, Obeys(c), cmds' \in Seq(Commands) PROVE TypeOK'
  <2>1. [kind |-> "input"] \in ToGate /\ [kind |-> "input"] \in Datagrams
    BY DEF ToGate, Datagrams
  <2>2. Append(up, [kind |-> "input"]) \in Seq(ToGate)
        /\ dgrams \cup {[kind |-> "input"]} \in SUBSET Datagrams
    BY <1>1, <2>1
  <2>3. Turn(rt, up, down, dgrams, udp, evts, joined) => TypeOK'
    BY <1>1, <1>4, TurnTypes
  <2>4. ASSUME c.sess \in Nat, Says(c) PROVE TypeOK'
    <3>1. [rt EXCEPT !.next = rt.next + 1] \in Runtimes
      BY <1>1 DEF Runtimes
    <3>2. Append(up, [kind |-> "say", id |-> rt.next, sess |-> c.sess]) \in Seq(ToGate)
      BY <1>1, <2>4 DEF ToGate
    <3> QED
      BY <1>1, <1>4, <2>4, <3>1, <3>2, TurnTypes DEF Says
  <2>5. ASSUME Inputs PROVE TypeOK'
    <3> DEFINE m == [kind |-> "input"]
    <3>1. Turn(rt, Append(up, m), down, dgrams, udp, evts, joined) => TypeOK'
      BY <1>1, <1>4, <2>2, TurnTypes
    <3>2. Turn(rt, up, down, dgrams \cup {m}, udp, evts, joined) => TypeOK'
      BY <1>1, <1>4, <2>2, TurnTypes
    <3>3. LaneIsDown(TRUE, Append(up, m), down, dgrams, 0, rt.next) => TypeOK'
      BY <1>1, <1>4, <2>2, DownTypes
    <3> QED
      BY <2>5, <3>1, <3>2, <3>3 DEF Inputs
  <2> QED
    BY <1>2, <1>4, <2>3, <2>4, <2>5 DEF Obeys
<1>5. ASSUME cmds # << >> PROVE Tail(cmds) \in Seq(Commands)
  BY <1>1, <1>5, QueueFacts
<1>6. cmds' = cmds /\ Asks => TypeOK'
  BY <1>1, AskTypes DEF Asks
<1>7. \A s \in Nat : cmds' = cmds /\ LaneIsDown(TRUE, up, down, dgrams, s, rt.next) => TypeOK'
  BY <1>1, DownTypes
<1>8. ASSUME cmds' = cmds,
             NEW m \in FromGate \cup {d \in Datagrams : ToClient(d)},
             NEW left \in Seq(FromGate), NEW late \in SUBSET dgrams, Receives(m, left, late)
      PROVE  TypeOK'
  BY <1>1, <1>8, ReceivedTypes
<1> QED
  BY <1>1, <1>2, <1>3, <1>4, <1>5, <1>6, <1>7, <1>8 DEF SessionTurn

(* The thread between two sessions. *)
LEMMA ThreadTypes ==
  ASSUME TypeOK, RefuseEmptyToken \/ StartSession \/ BackOff \/ LogInAgain
  PROVE  TypeOK'
<1>1. /\ evts \in Seq(Events) /\ cmds \in Seq(Commands) /\ spent \in Nat
      /\ attempt \in 0..MaxReconnects + 1 /\ (thread # "stopped" => attempt <= MaxReconnects)
  BY DEF TypeOK
<1>2. CASE RefuseEmptyToken
  <2>1. evts \o <<Disconnected, GaveUp>> \in Seq(Events)
    BY <1>1 DEF Disconnected, GaveUp, Events
  <2> QED
    BY <1>2, <2>1 DEF RefuseEmptyToken, TypeOK, links
<1>3. ASSUME Stops, UNCHANGED <<login, token, app>>, thread # "stopped" PROVE TypeOK'
  BY <1>1, <1>3 DEF Stops, TypeOK, links
<1>4. CASE StartSession
  <2>1. UNCHANGED <<login, token, app>> /\ thread = "start"
    BY <1>4 DEF StartSession
  <2>2. CASE Stops
    BY <1>3, <2>1, <2>2
  <2>3. CASE ~Stops
    <3>1. cmds' = << >> /\ cmds' \in Seq(Commands)
      BY <1>4, <2>3, EmptySeq DEF StartSession, DiscardWaiting
    <3>2. CASE EndSession(FALSE) /\ UNCHANGED spent
      BY <1>1, <2>1, <3>1, <3>2, EndTypes
    <3>3. CASE ~(EndSession(FALSE) /\ UNCHANGED spent)
      <4>1. /\ thread' = "session" /\ up' = <<[kind |-> "auth", token |-> token]>>
            /\ UNCHANGED <<attempt, joined, rt, udp, evts, srv, down, dgrams, spent>>
        BY <1>4, <2>3, <3>3 DEF StartSession
      <4>2. [kind |-> "auth", token |-> token] \in ToGate
        BY DEF TypeOK, ToGate
      <4>3. up' \in Seq(ToGate)
        BY <4>1, <4>2
      <4> QED
        BY <2>1, <3>1, <4>1, <4>3 DEF TypeOK
    <3> QED
      BY <3>2, <3>3
  <2> QED
    BY <2>2, <2>3
<1>5. CASE BackOff
  <2>1. UNCHANGED <<login, token, app>> /\ thread = "backoff"
    BY <1>5 DEF BackOff
  <2>2. CASE Stops
    BY <1>3, <2>1, <2>2
  <2>3. CASE ~Stops
    <3>1. /\ cmds' = << >> /\ thread' = "login" /\ evts' = Append(evts, [kind |-> "reconnecting"])
          /\ UNCHANGED <<attempt, joined, rt, udp, srv, links, spent>>
      BY <1>5, <2>3 DEF BackOff, DiscardWaiting
    <3>2. evts' \in Seq(Events) /\ cmds' \in Seq(Commands)
      BY <1>1, <3>1 DEF Events
    <3>3. up' \in Seq(ToGate) /\ down' \in Seq(FromGate) /\ dgrams' \subseteq Datagrams
      BY <3>1, Typed DEF links
    <3>4. rt' \in Runtimes /\ joined' \in BOOLEAN /\ udp' \in Nat /\ spent' \in Nat
      BY <3>1, Typed
    <3>5. attempt' \in 0..MaxReconnects + 1 /\ attempt' <= MaxReconnects
      BY <1>1, <2>1, <3>1
    <3> QED
      BY <2>1, <3>1, <3>2, <3>3, <3>4, <3>5 DEF TypeOK
  <2> QED
    BY <2>2, <2>3
<1>6. CASE LogInAgain
  <2>1. token' \in {"good", "old", "empty"} /\ spent' \in Nat /\ thread = "login"
    <3>1. token' \in {"good", token} /\ spent' \in {spent, spent + 1} /\ thread = "login"
      BY <1>6 DEF LogInAgain, Happens
    <3>2. token \in {"good", "old", "empty"}
      BY DEF TypeOK
    <3> QED
      BY <1>1, <3>1, <3>2
  <2>2. thread' = "start" /\ UNCHANGED <<login, attempt, joined, rt, udp, cmds, evts, app, srv, links>>
    BY <1>6 DEF LogInAgain
  <2> QED
    BY <2>1, <2>2 DEF TypeOK, links
<1> QED
  BY <1>2, <1>4, <1>5, <1>6

(* The login screen and the app. *)
LEMMA AppTypes ==
  ASSUME TypeOK, AppStarts, Submit \/ AuthWorker \/ PollAuth \/ Poll \/ Command \/ Quit
  PROVE  TypeOK'
<1> DEFINE Apps == [phase : {"login", "connecting", "scene", "reconnecting", "failed", "closed"},
                    sess : Nat, tick : Nat \cup {-1}, rewound : BOOLEAN]
<1>1. /\ evts \in Seq(Events) /\ cmds \in Seq(Commands) /\ spent \in Nat /\ app \in Apps
  <2>1. app \in Apps
    BY DEF TypeOK
  <2> QED
    BY <2>1, Typed
<1>2. CASE Submit
  BY <1>2 DEF Submit, TypeOK, links
<1>3. CASE AuthWorker
  <2>1. /\ login' \in {"granted", "refused", "gone"} /\ token' \in {"good", "empty", token}
        /\ spent' \in {spent, spent + 1}
    BY <1>3 DEF AuthWorker, Happens
  <2>2. UNCHANGED <<thread, attempt, joined, rt, udp, cmds, evts, app, srv, up, down, dgrams>>
    BY <1>3 DEF AuthWorker, links
  <2>3. spent' \in Nat /\ token' \in {"good", "old", "empty"}
    <3>1. token \in {"good", "old", "empty"}
      BY DEF TypeOK
    <3> QED
      BY <1>1, <2>1, <3>1
  <2> QED
    BY <2>1, <2>2, <2>3 DEF TypeOK
<1>4. CASE PollAuth
  <2>1. app' \in Apps /\ thread' = "start"
    BY <1>1, <1>4 DEF PollAuth
  <2>2. UNCHANGED <<login, token, attempt, joined, rt, udp, cmds, evts, srv, links, spent>>
    BY <1>4 DEF PollAuth
  <2>3. attempt <= MaxReconnects
    BY <1>4, LinkAssumption DEF PollAuth, AppStarts
  <2> QED
    BY <2>1, <2>2, <2>3 DEF TypeOK, links
<1>5. CASE Poll
  <2>1. Head(evts) \in Events /\ Tail(evts) \in Seq(Events)
    BY <1>1, <1>5, QueueFacts DEF Poll
  <2>2. \A e \in Events : Show(app, e) \in Apps
    <3> TAKE e \in Events
    <3>1. e.kind \in {"disconnected", "gave_up", "reconnecting", "appear", "leave", "entered", "move"}
      BY DEF Events
    <3>2. CASE e.kind = "move"
      <4>1. e.tick \in Nat
        BY <3>2 DEF Events
      <4>2. (app.rewound \/ (app.tick # -1 /\ e.tick <= app.tick)) \in BOOLEAN
        BY <1>1
      <4> QED
        BY <1>1, <3>2, <4>1, <4>2 DEF Show, ShowMove
    <3>3. CASE e.kind = "entered"
      <4>1. e.sess \in Nat
        BY <3>3 DEF Events
      <4> QED
        BY <1>1, <3>3, <4>1 DEF Show
    <3>4. CASE e.kind \in {"disconnected", "gave_up", "reconnecting", "appear", "leave"}
      BY <1>1, <3>4 DEF Show
    <3> QED
      BY <3>1, <3>2, <3>3, <3>4
  <2>3. /\ app' \in Apps /\ evts' \in Seq(Events)
        /\ UNCHANGED <<login, token, thread, attempt, joined, rt, udp, cmds, srv, links, spent>>
    BY <1>5, <2>1, <2>2 DEF Poll
  <2> QED
    BY <2>3 DEF TypeOK, links
<1>6. CASE Command
  <2>1. /\ spent' \in Nat
        /\ UNCHANGED <<login, token, thread, attempt, joined, rt, udp, evts, app, srv, links>>
    BY <1>1, <1>6 DEF Command, Happens
  <2>2. PICK c \in {[kind |-> "say", sess |-> app.sess], [kind |-> "input"]} : cmds' = Append(cmds, c)
    BY <1>6 DEF Command
  <2>3. c \in Commands
    BY <1>1 DEF Commands
  <2>4. cmds' \in Seq(Commands)
    BY <1>1, <2>2, <2>3
  <2> QED
    BY <2>1, <2>4 DEF TypeOK, links
<1>7. CASE Quit
  <2>1. /\ spent' \in Nat /\ app' \in Apps /\ cmds' = Append(cmds, [kind |-> "quit"])
        /\ UNCHANGED <<login, token, thread, attempt, joined, rt, udp, evts, srv, links>>
    BY <1>1, <1>7 DEF Quit, Happens
  <2>2. cmds' \in Seq(Commands)
    BY <1>1, <2>1 DEF Commands
  <2> QED
    BY <2>1, <2>2 DEF TypeOK, links
<1> QED
  BY <1>2, <1>3, <1>4, <1>5, <1>6, <1>7

Gates == [sess : Nat, scene : BOOLEAN, ticket : Nat, lane : Nat, noTicket : BOOLEAN,
          lost : BOOLEAN, life : BOOLEAN, tick : Nat]

(* What a step of the gate or the network comes to. *)
External ==
  \/ ServeTcp \/ Appear \/ Leave \/ MoveActor \/ Expire
  \/ \E d \in dgrams : ServeDatagram(d) \/ LoseDatagram(d)

(* The gate's answer over TCP. *)
LEMMA ServeTypes ==
  ASSUME TypeOK, ServeTcp
  PROVE  TypeOK'
<1>1. /\ srv \in Gates /\ up \in Seq(ToGate) /\ down \in Seq(FromGate) /\ spent \in Nat
      /\ dgrams \subseteq Datagrams /\ up # << >>
  BY DEF TypeOK, ServeTcp, Gates
<1>2. Head(up) \in ToGate /\ Tail(up) \in Seq(ToGate)
  BY <1>1, QueueFacts
<1>3. PICK m \in ToGate : m = Head(up)
  BY <1>2
<1>4. up' = Tail(up) /\ OnTcp(m) /\ UNCHANGED <<Client, token>>
  BY <1>3 DEF ServeTcp
<1>5. \A x \in FromGate : Append(down, x) \in Seq(FromGate)
  BY <1>1
<1>6. srv' \in Gates /\ down' \in Seq(FromGate) /\ dgrams' = dgrams /\ spent' \in Nat
  <2>1. CASE m.kind = "auth"
    <3>1. /\ down' = Append(down, [kind |-> "auth", ok |-> m.token = "good"])
          /\ UNCHANGED <<srv, dgrams, spent>>
      BY <1>4, <2>1 DEF OnTcp, Reply
    <3>2. [kind |-> "auth", ok |-> m.token = "good"] \in FromGate
      BY DEF FromGate
    <3> QED
      BY <1>1, <1>5, <3>1, <3>2
  <2>2. CASE m.kind = "enter"
    <3>1. m.id \in Nat /\ srv.sess + 1 \in Nat
      BY <1>1, <2>2 DEF ToGate, Gates
    <3>2. CASE srv.sess < MaxSessions
      <4>1. /\ srv' = [srv EXCEPT !.sess = @ + 1, !.scene = TRUE] /\ UNCHANGED <<dgrams, spent>>
            /\ down' = Append(down, [kind |-> "entered", id |-> m.id, ok |-> TRUE, sess |-> srv'.sess])
        BY <1>4, <2>2, <3>2 DEF OnTcp, Reply
      <4>2. srv' \in Gates /\ srv'.sess \in Nat
        BY <1>1, <3>1, <4>1 DEF Gates
      <4>3. [kind |-> "entered", id |-> m.id, ok |-> TRUE, sess |-> srv'.sess] \in FromGate
        BY <3>1, <4>2 DEF FromGate
      <4> QED
        BY <1>1, <1>5, <4>1, <4>2, <4>3
    <3>3. CASE ~(srv.sess < MaxSessions)
      <4>1. /\ UNCHANGED <<srv, dgrams, spent>>
            /\ down' = Append(down, [kind |-> "entered", id |-> m.id, ok |-> FALSE])
        BY <1>4, <2>2, <3>3 DEF OnTcp, Reply
      <4>2. [kind |-> "entered", id |-> m.id, ok |-> FALSE] \in FromGate
        BY <3>1 DEF FromGate
      <4> QED
        BY <1>1, <1>5, <4>1, <4>2
    <3> QED
      BY <3>2, <3>3
  <2>3. CASE m.kind = "ticket"
    <3>1. PICK ok \in BOOLEAN :
            /\ IF ok THEN UNCHANGED spent ELSE Happens("refuse")
            /\ srv' = [srv EXCEPT !.ticket = IF ok THEN m.id ELSE @, !.noTicket = ~ok]
            /\ Reply([kind |-> "ticket", id |-> m.id, ok |-> ok])
      BY <1>4, <2>3 DEF OnTcp
    <3>2. m.id \in Nat
      BY <2>3 DEF ToGate
    <3>3. srv' \in Gates
      BY <1>1, <3>1, <3>2 DEF Gates
    <3>4. [kind |-> "ticket", id |-> m.id, ok |-> ok] \in FromGate
      BY <3>2 DEF FromGate
    <3>5. down' \in Seq(FromGate) /\ dgrams' = dgrams
      BY <1>5, <3>1, <3>4 DEF Reply
    <3>6. spent' \in Nat
      BY <1>1, <3>1 DEF Happens
    <3> QED
      BY <3>3, <3>5, <3>6
  <2>4. CASE m.kind \in {"say", "input"}
    BY <1>1, <1>4, <2>4 DEF OnTcp
  <2> QED
    BY <2>1, <2>2, <2>3, <2>4 DEF ToGate
<1> QED
  BY <1>1, <1>2, <1>4, <1>6 DEF TypeOK, Client, Gates

(* The network and the rest of the gate. *)
LEMMA ExternalTypes ==
  ASSUME TypeOK, External
  PROVE  TypeOK'
<1>1. /\ srv \in Gates /\ up \in Seq(ToGate) /\ down \in Seq(FromGate) /\ spent \in Nat
      /\ dgrams \subseteq Datagrams
  BY DEF TypeOK, Gates
<1>2. ASSUME UNCHANGED <<Client, up>>, token' \in {"good", "old", "empty"}, srv' \in Gates,
             down' \in Seq(FromGate), dgrams' \subseteq Datagrams, spent' \in Nat
      PROVE  TypeOK'
  BY <1>2 DEF TypeOK, Client, Gates
<1>3. token \in {"good", "old", "empty"} /\ srv.tick + 1 \in Nat
  BY <1>1 DEF TypeOK, Gates
<1>4. CASE Appear
  <2>1. /\ srv' = [srv EXCEPT !.life = TRUE, !.tick = 0] /\ spent' = spent + 1
        /\ down' = Append(down, [kind |-> "appear"]) /\ UNCHANGED <<Client, token, up, dgrams>>
    BY <1>4 DEF Appear, Reply, Happens
  <2>2. srv' \in Gates
    BY <1>1, <2>1 DEF Gates
  <2>3. [kind |-> "appear"] \in FromGate
    BY DEF FromGate
  <2> QED
    BY <1>1, <1>2, <1>3, <2>1, <2>2, <2>3
<1>5. CASE Leave
  <2>1. /\ srv' = [srv EXCEPT !.life = FALSE] /\ spent' = spent + 1
        /\ down' = Append(down, [kind |-> "leave"]) /\ UNCHANGED <<Client, token, up, dgrams>>
    BY <1>5 DEF Leave, Reply, Happens
  <2>2. srv' \in Gates
    BY <1>1, <2>1 DEF Gates
  <2>3. [kind |-> "leave"] \in FromGate
    BY DEF FromGate
  <2> QED
    BY <1>1, <1>2, <1>3, <2>1, <2>2, <2>3
<1>6. CASE MoveActor
  <2> DEFINE m == [kind |-> "move", tick |-> srv.tick + 1]
  <2>1. /\ srv' = [srv EXCEPT !.tick = @ + 1] /\ UNCHANGED <<Client, token, up, spent>>
        /\ \/ down' = Append(down, m) /\ dgrams' = dgrams
           \/ down' = down /\ dgrams' = dgrams \cup {m}
    BY <1>6 DEF MoveActor, Reply
  <2>2. srv' \in Gates
    BY <1>1, <1>3, <2>1 DEF Gates
  <2>3. m \in FromGate /\ m \in Datagrams
    BY <1>3 DEF FromGate, Datagrams
  <2>4. down' \in Seq(FromGate) /\ dgrams' \subseteq Datagrams
    <3>1. Append(down, m) \in Seq(FromGate) /\ dgrams \cup {m} \subseteq Datagrams
      BY <1>1, <2>3
    <3> HIDE DEF m
    <3> QED
      BY <1>1, <2>1, <3>1
  <2> QED
    BY <1>1, <1>2, <1>3, <2>1, <2>2, <2>4
<1>7. CASE Expire
  BY <1>1, <1>2, <1>7 DEF Expire, Happens, links
<1>8. ASSUME NEW d \in dgrams, LoseDatagram(d) PROVE TypeOK'
  <2>1. /\ srv' = [srv EXCEPT !.lost = @ \/ d.kind \in {"attach", "attached"}] /\ spent' = spent + 1
        /\ dgrams' = dgrams \ {d} /\ UNCHANGED <<Client, token, up, down>>
    BY <1>8 DEF LoseDatagram, Happens
  <2>2. srv' \in Gates
    <3>1. (srv.lost \/ d.kind \in {"attach", "attached"}) \in BOOLEAN
      OBVIOUS
    <3> QED
      BY <1>1, <2>1, <3>1 DEF Gates
  <2>3. spent' \in Nat /\ dgrams' \subseteq Datagrams
    BY <1>1, <2>1
  <2> QED
    BY <1>1, <1>2, <1>3, <2>1, <2>2, <2>3
<1>9. ASSUME NEW d \in dgrams, ServeDatagram(d) PROVE TypeOK'
  <2> DEFINE F(ok) == ok /\ IF d.kind = "attach" THEN d.ticket = srv.ticket ELSE srv.lane # 0
             A(ok) == IF d.kind = "attach" THEN {[kind |-> "attached", id |-> d.id, ok |-> F(ok)]}
                      ELSE IF F(ok) THEN {} ELSE {[kind |-> "refused"]}
             L(ok) == CASE ~F(ok) /\ d.kind = "input" -> 0
                        [] F(ok) /\ d.kind = "attach" -> d.id
                        [] OTHER -> srv.lane
  <2>1. PICK ok \in BOOLEAN :
          /\ IF ok THEN UNCHANGED spent ELSE Happens("refuse")
          /\ dgrams' = (dgrams \ {d}) \cup A(ok)
          /\ srv' = [srv EXCEPT !.lane = L(ok)]
    BY <1>9 DEF ServeDatagram
  <2>2. spent' \in Nat
    BY <1>1, <2>1 DEF Happens
  <2>3. d.kind = "attach" => d.id \in Nat
    BY <1>1 DEF Datagrams
  <2>4. F(ok) \in BOOLEAN
    OBVIOUS
  <2>5. L(ok) \in Nat
    <3> HIDE DEF F
    <3> QED
      BY <1>1, <2>3, <2>4 DEF Gates
  <2>6. A(ok) \subseteq Datagrams
    <3> HIDE DEF F
    <3> QED
      BY <2>3, <2>4 DEF Datagrams
  <2>7. srv' \in Gates /\ dgrams' \subseteq Datagrams
    <3> HIDE DEF A, L
    <3> QED
      BY <1>1, <2>1, <2>5, <2>6 DEF Gates
  <2> QED
    BY <1>1, <1>2, <1>3, <1>9, <2>2, <2>7 DEF ServeDatagram
<1> QED
  BY <1>4, <1>5, <1>6, <1>7, <1>8, <1>9, ServeTypes DEF External

(* The actions, by who takes them. *)
ThreadStep == RefuseEmptyToken \/ StartSession \/ BackOff \/ LogInAgain
AppStep == Submit \/ AuthWorker \/ PollAuth \/ Poll \/ Command \/ Quit
(* The actions by who takes them. *)
LEMMA Steps == Next => SessionStep \/ ThreadStep \/ AppStep \/ External
BY DEF Next, SessionStep, ThreadStep, AppStep, External

(* The types hold before the user logs in. *)
LEMMA TypesInit == Init => TypeOK
<1>1. NewRuntime \in Runtimes
  <2>1. NoLane \in Lanes
    BY LinkAssumption DEF NoLane, Lanes
  <2> QED
    BY <2>1 DEF NewRuntime, Runtimes
<1>2. 0 \in 0..MaxReconnects + 1 /\ 0 <= MaxReconnects
  BY LinkAssumption
<1>3. << >> \in Seq(Commands) /\ << >> \in Seq(Events) /\ << >> \in Seq(ToGate)
      /\ << >> \in Seq(FromGate)
  BY EmptySeq
<1>4. NoSession \in Gates
  BY DEF NoSession, Gates
<1>5. [phase |-> "login", sess |-> 0, tick |-> -1, rewound |-> FALSE]
        \in [phase : {"login", "connecting", "scene", "reconnecting", "failed", "closed"},
             sess : Nat, tick : Nat \cup {-1}, rewound : BOOLEAN]
  BY SMT
<1> SUFFICES ASSUME Init PROVE TypeOK
  OBVIOUS
<1>6. /\ login \in {"idle", "asking", "granted", "refused", "gone"}
      /\ token \in {"good", "old", "empty"} /\ joined \in BOOLEAN /\ udp \in Nat
      /\ thread \in {"none", "start", "session", "backoff", "login", "stopped"}
      /\ spent \in Nat /\ dgrams \subseteq Datagrams
  BY DEF Init
<1>7. /\ attempt \in 0..MaxReconnects + 1 /\ (thread # "stopped" => attempt <= MaxReconnects)
      /\ rt \in Runtimes
  BY <1>1, <1>2 DEF Init
<1>8. cmds \in Seq(Commands) /\ evts \in Seq(Events) /\ up \in Seq(ToGate) /\ down \in Seq(FromGate)
  BY <1>3 DEF Init
<1> QED
  BY <1>4, <1>5, <1>6, <1>7, <1>8 DEF Init, TypeOK, Gates

(* The thread starts when the login screen is left. *)
LEMMA StartsStep ==
  ASSUME TypeOK, AppStarts, [Next]_vars
  PROVE  AppStarts'
<1>1. CASE SessionStep
  <2>1. InSession /\ SessionTurn
    BY <1>1, SessionSteps
  <2>2. app' = app /\ thread' # "none"
    <3>1. \A b : Ends(b) => app' = app /\ thread' # "none"
      BY DEF Ends, EndSession
    <3>2. \A r, u, d, g, s, e, j : Turn(r, u, d, g, s, e, j) => app' = app /\ thread' # "none"
      BY <2>1 DEF Turn, InSession
    <3>3. \A retry, u, d, g, s, n : LaneIsDown(retry, u, d, g, s, n) => app' = app /\ thread' # "none"
      BY <3>2 DEF LaneIsDown
    <3>4. \A c : Obeys(c) => app' = app /\ thread' # "none"
      BY <3>1, <3>2, <3>3 DEF Obeys, Says, Inputs
    <3>5. Asks => app' = app /\ thread' # "none"
      BY <3>2 DEF Asks, Asking
    <3>6. \A m, d, g : Receives(m, d, g) => app' = app /\ thread' # "none"
      <4> DEFINE P == app' = app /\ thread' # "none"
      <4> TAKE m, d, g
      <4>1. LetsIn(d, g) => P
        BY <3>2 DEF LetsIn
      <4>2. Arrives(m, d, g) => P
        BY <3>2 DEF Arrives, Asking
      <4>3. TicketFails(m, d, g) \/ Attaches(m, d, g) => P
        BY <3>2, <3>3 DEF TicketFails, Attaches
      <4>4. IsAttached(m, d, g) => P
        BY <3>2, <3>3 DEF IsAttached
      <4>5. \A t : Passes(m, d, g, t) => P
        BY <3>2 DEF Passes
      <4> QED
        BY <3>1, <3>2, <3>3, <4>1, <4>2, <4>3, <4>4, <4>5 DEF Receives
    <3> QED
      BY <2>1, <3>1, <3>3, <3>4, <3>5, <3>6 DEF SessionTurn, Stops
  <2> QED
    BY <2>1, <2>2 DEF AppStarts, InSession
<1>2. CASE ThreadStep
  BY <1>2 DEF ThreadStep, RefuseEmptyToken, StartSession, BackOff, LogInAgain, Stops, EndSession,
              AppStarts
<1>3. CASE AppStep
  <2>1. CASE Submit \/ AuthWorker \/ Command
    BY <2>1 DEF Submit, AuthWorker, Command, AppStarts
  <2>2. CASE PollAuth
    BY <2>2 DEF PollAuth, AppStarts, TypeOK
  <2>3. CASE Quit
    BY <2>3 DEF Quit, AppStarts, TypeOK
  <2>4. CASE Poll
    <3>1. /\ Head(evts).kind \in {"disconnected", "gave_up", "reconnecting", "appear", "leave",
                               "entered", "move"}
      BY <2>4, QueueFacts DEF Poll, TypeOK, Events
    <3>2. app.phase # "login" /\ app' = Show(app, Head(evts)) /\ UNCHANGED <<thread, attempt>>
      BY <2>4 DEF Poll
    <3>3. app'.phase # "login"
      BY <3>1, <3>2 DEF Show, ShowMove, TypeOK
    <3> QED
      BY <3>2, <3>3 DEF AppStarts
  <2> QED
    BY <1>3, <2>1, <2>2, <2>3, <2>4 DEF AppStep
<1>4. CASE External
  BY <1>4 DEF External, ServeTcp, Appear, Leave, MoveActor, Expire, ServeDatagram, LoseDatagram,
              Client, AppStarts
<1>5. CASE UNCHANGED vars
  BY <1>5 DEF vars, AppStarts
<1> QED
  BY <1>1, <1>2, <1>3, <1>4, <1>5, Steps

(* Every step keeps the types and the budgets. *)
LEMMA TypesStep == TypeOK /\ AppStarts /\ [Next]_vars => TypeOK'
<1> SUFFICES ASSUME TypeOK, AppStarts, [Next]_vars PROVE TypeOK'
  OBVIOUS
<1>1. CASE SessionStep
  BY <1>1, SessionSteps, SessionTypes
<1>2. CASE ThreadStep
  BY <1>2, ThreadTypes DEF ThreadStep
<1>3. CASE AppStep
  BY <1>3, AppTypes DEF AppStep
<1>4. CASE External
  BY <1>4, ExternalTypes
<1>5. CASE UNCHANGED vars
  BY <1>5 DEF vars, links, TypeOK
<1> QED
  BY <1>1, <1>2, <1>3, <1>4, <1>5, Steps

-----------------------------------------------------------------------------
(* The handshake. *)

(* The message that is taken fits the phase. *)
LEMMA MessageFits ==
  ASSUME TypeOK, Handshake, NEW m, NEW left \in Seq(FromGate), NEW late \in SUBSET dgrams,
         Taken(m, left, late)
  PROVE  /\ rt.phase = "auth" => m.kind = "auth" /\ up = << >> /\ left = << >>
         /\ rt.phase = "enter" => /\ m.kind = "entered" /\ m.id = rt.enter /\ up = << >>
                                  /\ (m.ok => m.sess = srv.sess) /\ Kinded(left, OfLife)
         /\ rt.phase = "scene" => /\ m.kind \in {"ticket", "attached", "refused"} \cup OfLife
                                  /\ Kinded(left, {"ticket"} \cup OfLife)
         /\ rt.phase # "scene" => late = {} /\ udp = 0 /\ m = Head(down) /\ left = Tail(down)
<1>1. /\ up \in Seq(ToGate) /\ down \in Seq(FromGate) /\ Len(up) \in Nat /\ Len(down) \in Nat
      /\ (up = << >> <=> Len(up) = 0) /\ (down = << >> <=> Len(down) = 0)
      /\ left \in Seq(FromGate) /\ Len(left) \in Nat /\ (left = << >> <=> Len(left) = 0)
  BY NoMessages DEF TypeOK
<1>2. down # << >> => Len(Tail(down)) = Len(down) - 1 /\ Head(down) = down[1]
  BY <1>1, QueueFacts
<1>3. rt.phase # "scene" =>
        late = {} /\ udp = 0 /\ down # << >> /\ m = Head(down) /\ left = Tail(down)
  BY DEF Handshake, Taken
<1>4. CASE rt.phase = "auth"
  <2>1. InAuth
    BY <1>4 DEF Handshake
  <2>2. m.kind = "auth"
    BY <1>1, <1>3, <1>4, <2>1, KindedQueues DEF InAuth
  <2>3. up = << >> /\ left = << >>
    BY <1>1, <1>2, <1>3, <1>4, <2>1 DEF InAuth
  <2> QED
    BY <1>3, <1>4, <2>2, <2>3
<1>5. CASE rt.phase = "enter"
  <2>1. Entering
    BY <1>5 DEF Handshake
  <2> QED
    BY <1>2, <1>3, <1>5, <2>1 DEF Entering
<1>6. CASE rt.phase = "scene"
  <2>1. InScene
    BY <1>6 DEF Handshake
  <2>2. CASE down # << >> /\ m = Head(down) /\ left = Tail(down)
    BY <1>1, <1>6, <2>1, <2>2, KindedQueues DEF InScene
  <2>3. CASE ToClient(m) /\ left = down
    BY <1>6, <2>1, <2>3 DEF InScene, ToClient, OfLife
  <2> QED
    BY <1>6, <2>2, <2>3 DEF Taken
<1> QED
  BY <1>3, <1>4, <1>5, <1>6 DEF TypeOK, Runtimes

(* A session that is in its scene stays in it. *)
LEMMA SceneStays ==
  ASSUME Handshake, rt.phase = "scene", rt'.phase = "scene", joined' = joined,
         srv'.life => srv'.scene,
         Kinded(up', {"ticket", "say", "input"}), Kinded(down', {"ticket"} \cup OfLife)
  PROVE  Handshake'
BY DEF Handshake, InScene

(* A session that ended. *)
LEMMA EndIsNew ==
  ASSUME NEW b, EndSession(b)
  PROVE  Handshake' /\ Unused'
<1>1. /\ joined' = FALSE /\ rt' = NewRuntime /\ udp' = 0
      /\ srv' = [NoSession EXCEPT !.sess = srv.sess]
      /\ up' = << >> /\ down' = << >> /\ dgrams' = {}
  BY DEF EndSession
<1>2. rt'.phase = "auth" /\ rt'.lane = NoLane
  BY <1>1 DEF NewRuntime
<1>3. /\ srv'.ticket = 0 /\ srv'.lane = 0 /\ srv'.noTicket = FALSE /\ srv'.life = FALSE
      /\ srv'.scene = FALSE /\ srv'.sess = srv.sess
  BY <1>1 DEF NoSession
<1>4. InAuth'
  BY <1>1, <1>3 DEF InAuth, Kinded
<1> QED
  BY <1>1, <1>2, <1>3, <1>4 DEF Handshake, Unused

(* A lane that goes down in a scene. *)
LEMMA DownStays ==
  ASSUME TypeOK, Handshake, rt.phase = "scene", NEW retry, NEW u \in Seq(ToGate), NEW left, NEW late,
         NEW s, NEW n, Kinded(u, {"ticket", "say", "input"}), Kinded(left, {"ticket"} \cup OfLife),
         LaneIsDown(retry, u, left, late, s, n)
  PROVE  Handshake'
<1>1. PICK l \in LanesDown : Turn([rt EXCEPT !.lane = l, !.next = n], u, left, late, s, evts, joined)
  BY DEF LaneIsDown
<1>2. rt'.phase = "scene" /\ joined' = joined /\ srv' = srv /\ up' = u /\ down' = left
  BY <1>1 DEF Turn, TypeOK, Runtimes
<1> QED
  BY <1>2, SceneStays DEF Handshake

(* The handshake is where it was when the connection is. *)
LEMMA HandshakeKept ==
  ASSUME TypeOK, Handshake, UNCHANGED <<joined, rt, udp, srv, links>>
  PROVE  Handshake'
<1>1. up' = up /\ down' = down /\ dgrams' = dgrams
  BY DEF links
<1>2. InAuth => InAuth'
  BY <1>1 DEF InAuth, Kinded
<1>3. Entering => Entering'
  BY <1>1 DEF Entering, Kinded
<1>4. InScene => InScene'
  BY <1>1 DEF InScene, Kinded
<1>5. CASE rt.phase = "auth"
  BY <1>1, <1>2, <1>5 DEF Handshake
<1>6. CASE rt.phase = "enter"
  BY <1>1, <1>3, <1>6 DEF Handshake
<1>7. CASE rt.phase = "scene"
  BY <1>1, <1>4, <1>7 DEF Handshake
<1> QED
  BY <1>5, <1>6, <1>7 DEF TypeOK, Runtimes

(* A message of the gate is answered by the next one of the handshake. *)
LEMMA HandshakeReceives ==
  ASSUME TypeOK, Handshake, NEW m \in FromGate \cup {d \in Datagrams : ToClient(d)},
         NEW left \in Seq(FromGate), NEW late \in SUBSET dgrams,
         Taken(m, left, late), Receives(m, left, late)
  PROVE  Handshake'
<1>1. /\ rt \in Runtimes /\ rt.phase \in {"auth", "enter", "scene"} /\ up \in Seq(ToGate)
      /\ joined \in BOOLEAN /\ rt.next \in Nat
  BY Typed
<1>2. \A b : Ends(b) => Handshake'
  BY EndIsNew DEF Ends
<1>3. CASE rt.phase = "auth"
  <2>1. m.kind = "auth" /\ up = << >> /\ left = << >> /\ late = {}
    BY <1>3, MessageFits
  <2>2. CASE LetsIn(left, late)
    <3> DEFINE e == [kind |-> "enter", id |-> rt.next]
    <3>1. /\ rt' = [rt EXCEPT !.phase = "enter", !.enter = rt.next, !.next = rt.next + 1]
          /\ up' = Append(up, e) /\ down' = left /\ dgrams' = late /\ udp' = udp
          /\ joined' = joined /\ srv' = srv
      BY <2>2 DEF LetsIn, Turn
    <3>2. rt'.phase = "enter" /\ rt'.enter = rt.next /\ rt'.lane = rt.lane
      BY <1>1, <3>1 DEF Runtimes
    <3>3. up' = <<e>> /\ Len(up') = 1 /\ up'[1] = e
      BY <2>1, <3>1
    <3>4. Entering'
      BY <1>3, <2>1, <3>1, <3>2, <3>3 DEF Entering, Handshake, InAuth
    <3> QED
      BY <1>3, <2>1, <3>1, <3>2, <3>4 DEF Handshake
  <2> QED
    BY <1>2, <2>1, <2>2 DEF Receives, Ignores
<1>4. CASE rt.phase = "enter"
  <2>1. m.kind = "entered" /\ m.id = rt.enter /\ up = << >> /\ Kinded(left, OfLife)
    BY <1>4, MessageFits
  <2>2. CASE Arrives(m, left, late)
    <3> DEFINE t == [kind |-> "ticket", id |-> rt.next]
    <3>1. PICK l \in Lanes :
            Asking(l, left, late, Append(evts, [kind |-> "entered", sess |-> m.sess]),
                   TRUE, [rt EXCEPT !.phase = "scene", !.mark = 0])
      BY <2>2 DEF Arrives
    <3>2. /\ rt' = [[rt EXCEPT !.phase = "scene", !.mark = 0] EXCEPT !.next = rt.next + 1, !.lane = l]
          /\ up' = Append(up, t) /\ down' = left /\ joined' = TRUE /\ srv' = srv
      BY <3>1 DEF Asking, Turn
    <3>3. rt'.phase = "scene"
      BY <1>1, <3>2 DEF Runtimes
    <3>4. up' = <<t>> /\ Kinded(up', {"ticket", "say", "input"})
      BY <2>1, <3>2 DEF Kinded
    <3>5. Kinded(down', {"ticket"} \cup OfLife)
      BY <2>1, <3>2 DEF Kinded
    <3> QED
      BY <3>2, <3>3, <3>4, <3>5 DEF Handshake, InScene
  <2> QED
    BY <1>2, <2>1, <2>2 DEF Receives, Ignores
<1>5. CASE rt.phase = "scene"
  <2>1. /\ m.kind \in {"ticket", "attached", "refused"} \cup OfLife
        /\ Kinded(left, {"ticket"} \cup OfLife) /\ Kinded(up, {"ticket", "say", "input"})
    BY <1>5, MessageFits DEF Handshake, InScene
  <2>2. \A r, g, s, e : r.phase = "scene" /\ Turn(r, up, left, g, s, e, joined) => Handshake'
    BY <1>5, <2>1, SceneStays DEF Turn, Handshake
  <2>3. \A retry, s, n : LaneIsDown(retry, up, left, late, s, n) => Handshake'
    BY <1>1, <1>5, <2>1, DownStays
  <2>4. Attaches(m, left, late) => Handshake'
    <3>1. \A l : [rt EXCEPT !.next = rt.next + 1, !.lane = l].phase = "scene"
      BY <1>1, <1>5 DEF Runtimes
    <3> QED
      BY <2>2, <2>3, <3>1 DEF Attaches
  <2>5. IsAttached(m, left, late) => Handshake'
    <3>1. \A l : [rt EXCEPT !.lane = l].phase = "scene"
      BY <1>1, <1>5 DEF Runtimes
    <3> QED
      BY <2>2, <2>3, <3>1 DEF IsAttached
  <2>6. \A t : Passes(m, left, late, t) => Handshake'
    <3>1. \A t : [rt EXCEPT !.mark = t].phase = "scene"
      BY <1>1, <1>5 DEF Runtimes
    <3> QED
      BY <2>2, <3>1 DEF Passes
  <2> QED
    BY <1>2, <1>5, <2>1, <2>2, <2>3, <2>4, <2>5, <2>6 DEF Receives, TicketFails, OfLife
<1> QED
  BY <1>1, <1>3, <1>4, <1>5

(* A turn of the session goes on with the handshake, or ends it. *)
LEMMA HandshakeSession ==
  ASSUME TypeOK, Handshake, InSession, SessionTurn
  PROVE  Handshake'
<1>1. /\ rt \in Runtimes /\ rt.phase \in {"auth", "enter", "scene"} /\ up \in Seq(ToGate)
      /\ joined \in BOOLEAN /\ rt.next \in Nat
  BY Typed
<1>2. \A b : Ends(b) => Handshake'
  BY EndIsNew DEF Ends
<1>3. Stops => Handshake'
  BY HandshakeKept DEF Stops
<1>4. Turn(rt, up, down, dgrams, udp, evts, joined) => Handshake'
  BY HandshakeKept DEF Turn, links
<1>5. ASSUME rt.phase = "scene"
      PROVE  /\ \A c : c.sess \in Nat /\ Says(c) => Handshake'
             /\ Inputs => Handshake'
             /\ Asks => Handshake'
             /\ \A s, n : LaneIsDown(TRUE, up, down, dgrams, s, n) => Handshake'
  <2>1. Kinded(up, {"ticket", "say", "input"}) /\ Kinded(down, {"ticket"} \cup OfLife)
    BY <1>5 DEF Handshake, InScene
  <2>2. \A e \in ToGate : e.kind \in {"ticket", "say", "input"} =>
          Kinded(Append(up, e), {"ticket", "say", "input"}) /\ Append(up, e) \in Seq(ToGate)
    BY <1>1, <2>1, KindedQueues
  <2>3. [kind |-> "input"] \in ToGate /\ [kind |-> "ticket", id |-> rt.next] \in ToGate
        /\ \A x \in Nat : [kind |-> "say", id |-> rt.next, sess |-> x] \in ToGate
    BY <1>1 DEF ToGate
  <2>4. \A r, g, s, e : \A u \in Seq(ToGate) :
          /\ Kinded(u, {"ticket", "say", "input"}) /\ r.phase = "scene"
          /\ Turn(r, u, down, g, s, e, joined)
          => Handshake'
    BY <1>5, <2>1, SceneStays DEF Turn, Handshake
  <2>5. \A s, n : \A u \in Seq(ToGate) : /\ Kinded(u, {"ticket", "say", "input"})
                                     /\ LaneIsDown(TRUE, u, down, dgrams, s, n)
                                     => Handshake'
    BY <1>5, <2>1, DownStays
  <2>6. ASSUME NEW c, c.sess \in Nat, Says(c) PROVE Handshake'
    <3> DEFINE x == [kind |-> "say", id |-> rt.next, sess |-> c.sess]
               r == [rt EXCEPT !.next = rt.next + 1]
    <3>1. x \in ToGate /\ x.kind = "say" /\ r.phase = "scene"
      BY <1>1, <1>5, <2>3, <2>6 DEF Runtimes
    <3>2. Turn(r, Append(up, x), down, dgrams, udp, evts, joined)
      BY <2>6 DEF Says
    <3> HIDE DEF x, r
    <3> QED
      BY <2>2, <2>4, <3>1, <3>2
  <2>7. ASSUME Inputs PROVE Handshake'
    <3> DEFINE x == [kind |-> "input"]
    <3>1. Kinded(Append(up, x), {"ticket", "say", "input"}) /\ Append(up, x) \in Seq(ToGate)
      BY <2>2, <2>3
    <3>2. \/ Turn(rt, Append(up, x), down, dgrams, udp, evts, joined)
          \/ Turn(rt, up, down, dgrams \cup {x}, udp, evts, joined)
          \/ LaneIsDown(TRUE, Append(up, x), down, dgrams, 0, rt.next)
      BY <2>7 DEF Inputs
    <3> HIDE DEF x
    <3> QED
      BY <1>1, <1>5, <2>1, <2>4, <2>5, <3>1, <3>2
  <2>8. ASSUME Asks PROVE Handshake'
    <3> DEFINE x == [kind |-> "ticket", id |-> rt.next]
    <3>1. Kinded(Append(up, x), {"ticket", "say", "input"}) /\ Append(up, x) \in Seq(ToGate)
      BY <2>2, <2>3
    <3>2. PICK l \in Lanes : Turn([rt EXCEPT !.next = rt.next + 1, !.lane = l],
                                  Append(up, x), down, dgrams, udp, evts, joined)
      BY <2>8 DEF Asks, Asking
    <3>3. [rt EXCEPT !.next = rt.next + 1, !.lane = l].phase = "scene"
      BY <1>1, <1>5 DEF Runtimes
    <3> HIDE DEF x
    <3> QED
      BY <2>4, <3>1, <3>2, <3>3
  <2>9. \A s, n : LaneIsDown(TRUE, up, down, dgrams, s, n) => Handshake'
    BY <1>1, <2>1, <2>5
  <2> QED
    BY <2>6, <2>7, <2>8, <2>9
<1>6. rt.phase # "scene" => udp = 0
  BY DEF Handshake
<1>7. \A c : Obeys(c) => Handshake'
  BY <1>2, <1>4, <1>5 DEF Obeys
<1>8. LaneTimerDue(rt) => rt.phase = "scene"
  BY DEF LaneTimerDue
<1> QED
  BY <1>2, <1>3, <1>5, <1>6, <1>7, <1>8, HandshakeReceives DEF SessionTurn

(* Outside a session the handshake has not begun. *)
LEMMA HandshakeThread ==
  ASSUME TypeOK, Unused, Handshake, ThreadStep
  PROVE  Handshake'
<1>1. CASE StartSession /\ up' = <<[kind |-> "auth", token |-> token]>>
           /\ UNCHANGED <<attempt, joined, rt, udp, evts, srv, down, dgrams, spent>>
  <2>1. thread = "start"
    BY <1>1 DEF StartSession
  <2>2. /\ rt = NewRuntime /\ ~joined /\ udp = 0 /\ down = << >> /\ dgrams = {}
        /\ srv = [NoSession EXCEPT !.sess = srv.sess]
    BY <2>1 DEF Unused
  <2>3. rt.phase = "auth" /\ rt.lane = NoLane
    BY <2>2 DEF NewRuntime
  <2>4. /\ srv.ticket = 0 /\ srv.lane = 0 /\ srv.noTicket = FALSE /\ srv.life = FALSE
        /\ srv.scene = FALSE
    BY <2>2 DEF NoSession
  <2>5. InAuth'
    BY <1>1, <2>2, <2>4 DEF InAuth, Kinded
  <2> QED
    BY <1>1, <2>2, <2>3, <2>4, <2>5 DEF Handshake
<1>2. CASE EndSession(FALSE)
  BY <1>2, EndIsNew
<1>3. CASE UNCHANGED <<joined, rt, udp, srv, links>>
  BY <1>3, HandshakeKept
<1> QED
  BY <1>1, <1>2, <1>3 DEF ThreadStep, RefuseEmptyToken, StartSession, BackOff, LogInAgain, Stops

(* The gate answers one message of the handshake. *)
LEMMA HandshakeServes ==
  ASSUME TypeOK, Handshake, ServeTcp
  PROVE  Handshake'
<1>1. /\ up \in Seq(ToGate) /\ down \in Seq(FromGate) /\ up # << >>
      /\ rt.phase \in {"auth", "enter", "scene"}
      /\ srv.sess \in Nat
      /\ srv \in [sess : Nat, scene : BOOLEAN, ticket : Nat, lane : Nat, noTicket : BOOLEAN,
                  lost : BOOLEAN, life : BOOLEAN, tick : Nat]
  BY DEF TypeOK, Runtimes, ServeTcp
<1>2. /\ Len(up) \in Nat \ {0} /\ Len(down) \in Nat /\ (down = << >> <=> Len(down) = 0)
      /\ Head(up) = up[1] /\ Head(up) \in ToGate /\ Tail(up) \in Seq(ToGate)
      /\ Len(Tail(up)) = Len(up) - 1 /\ (Tail(up) = << >> <=> Len(Tail(up)) = 0)
  BY <1>1, QueueFacts, NoMessages
<1>3. PICK m \in ToGate : m = Head(up)
  BY <1>2
<1>4. up' = Tail(up) /\ OnTcp(m) /\ UNCHANGED <<joined, rt, udp>>
  BY <1>3 DEF ServeTcp, Client
<1>5. CASE rt.phase = "auth"
  <2>1. InAuth
    BY <1>5 DEF Handshake
  <2>2. down = << >> /\ Tail(up) = << >> /\ ~srv.scene
    BY <1>2, <2>1 DEF InAuth
  <2>3. m.kind = "auth"
    BY <1>1, <1>3, <2>1, KindedQueues DEF InAuth
  <2>4. /\ down' = Append(down, [kind |-> "auth", ok |-> m.token = "good"])
        /\ UNCHANGED <<srv, dgrams>>
    BY <1>4, <2>3 DEF OnTcp, Reply
  <2>5. down' = <<[kind |-> "auth", ok |-> m.token = "good"]>> /\ up' = << >>
    BY <1>4, <2>2, <2>4
  <2>6. InAuth'
    BY <2>2, <2>4, <2>5 DEF InAuth, Kinded
  <2> QED
    BY <1>4, <1>5, <2>4, <2>6 DEF Handshake
<1>6. CASE rt.phase = "enter"
  <2>1. Len(up) = 1 /\ up[1].kind = "enter" /\ up[1].id = rt.enter /\ down = << >> /\ ~srv.scene
    BY <1>1, <1>6 DEF Handshake, Entering
  <2>2. m.kind = "enter" /\ m.id = rt.enter /\ Tail(up) = << >>
    BY <1>2, <1>3, <2>1
  <2>3. \E x : /\ down' = Append(down, x) /\ dgrams' = dgrams
               /\ x.kind = "entered" /\ x.id = m.id /\ (x.ok => x.sess = srv'.sess)
               /\ srv'.ticket = srv.ticket /\ srv'.lane = srv.lane /\ srv'.noTicket = srv.noTicket
               /\ srv'.life = srv.life
    <3>1. CASE srv.sess < MaxSessions
      <4> DEFINE x == [kind |-> "entered", id |-> m.id, ok |-> TRUE, sess |-> srv'.sess]
      <4>1. /\ srv' = [srv EXCEPT !.sess = @ + 1, !.scene = TRUE]
            /\ down' = Append(down, x) /\ dgrams' = dgrams
        BY <1>4, <2>2, <3>1 DEF OnTcp, Reply
      <4>2. x.kind = "entered" /\ x.id = m.id /\ (x.ok => x.sess = srv'.sess)
        OBVIOUS
      <4>3. /\ srv'.ticket = srv.ticket /\ srv'.lane = srv.lane /\ srv'.noTicket = srv.noTicket
            /\ srv'.life = srv.life
        BY <1>1, <4>1
      <4> HIDE DEF x
      <4> QED
        BY <4>1, <4>2, <4>3
    <3>2. CASE ~(srv.sess < MaxSessions)
      <4> DEFINE x == [kind |-> "entered", id |-> m.id, ok |-> FALSE]
      <4>1. srv' = srv /\ down' = Append(down, x) /\ dgrams' = dgrams
        BY <1>4, <2>2, <3>2 DEF OnTcp, Reply
      <4>2. x.kind = "entered" /\ x.id = m.id /\ ~x.ok
        OBVIOUS
      <4> HIDE DEF x
      <4> QED
        BY <4>1, <4>2
    <3> QED
      BY <3>1, <3>2
  <2>4. PICK x : /\ down' = Append(down, x) /\ dgrams' = dgrams
                 /\ x.kind = "entered" /\ x.id = m.id /\ (x.ok => x.sess = srv'.sess)
                 /\ srv'.ticket = srv.ticket /\ srv'.lane = srv.lane /\ srv'.noTicket = srv.noTicket
                 /\ srv'.life = srv.life
    BY <2>3
  <2>5. down' = <<x>> /\ up' = << >>
    BY <1>4, <2>1, <2>2, <2>4
  <2>6. down'[1] = x /\ down' # << >> /\ Tail(down') = << >>
    BY <2>5
  <2>7. Entering'
    BY <1>4, <2>2, <2>4, <2>5, <2>6 DEF Entering, Kinded
  <2>8. ~srv.life
    BY <2>1 DEF Handshake
  <2> QED
    BY <1>4, <1>6, <2>4, <2>7, <2>8 DEF Handshake
<1>7. CASE rt.phase = "scene"
  <2>1. Kinded(up, {"ticket", "say", "input"}) /\ Kinded(down, {"ticket"} \cup OfLife)
    BY <1>7 DEF Handshake, InScene
  <2>2. m.kind \in {"ticket", "say", "input"} /\ Kinded(up', {"ticket", "say", "input"})
    BY <1>1, <1>3, <1>4, <2>1, KindedQueues
  <2>3. srv'.life = srv.life /\ srv'.scene = srv.scene /\ Kinded(down', {"ticket"} \cup OfLife)
    <3>1. CASE m.kind = "ticket"
      <4>1. PICK ok \in BOOLEAN :
              /\ srv' = [srv EXCEPT !.ticket = IF ok THEN m.id ELSE @, !.noTicket = ~ok]
              /\ down' = Append(down, [kind |-> "ticket", id |-> m.id, ok |-> ok])
        BY <1>4, <3>1 DEF OnTcp, Reply
      <4>2. [kind |-> "ticket", id |-> m.id, ok |-> ok] \in FromGate
        BY <3>1 DEF ToGate, FromGate
      <4>3. Kinded(Append(down, [kind |-> "ticket", id |-> m.id, ok |-> ok]), {"ticket"} \cup OfLife)
        BY <1>1, <2>1, <4>2, KindedQueues
      <4> QED
        BY <1>1, <4>1, <4>3
    <3>2. CASE m.kind \in {"say", "input"}
      <4>1. srv' = srv /\ down' = down
        BY <1>4, <3>2 DEF OnTcp
      <4> QED
        BY <2>1, <4>1
    <3> QED
      BY <2>2, <3>1, <3>2
  <2> QED
    BY <1>4, <1>7, <2>2, <2>3, SceneStays DEF Handshake
<1> QED
  BY <1>1, <1>5, <1>6, <1>7

(* The life of the actor goes over TCP behind the answer that let the session   *)
(* in.                                                                         *)
LEMMA HandshakeLife ==
  ASSUME TypeOK, Handshake, srv.scene, NEW x \in FromGate, x.kind \in OfLife,
         UNCHANGED <<joined, rt, udp, up>>, srv'.scene, srv'.sess = srv.sess,
         srv'.ticket = srv.ticket, srv'.lane = srv.lane, srv'.noTicket = srv.noTicket,
         \/ down' = Append(down, x) /\ dgrams' = dgrams
         \/ srv.lane # 0 /\ down' = down
  PROVE  Handshake'
<1>1. /\ down \in Seq(FromGate) /\ rt.phase \in {"auth", "enter", "scene"}
      /\ Len(down) \in Nat /\ (down = << >> <=> Len(down) = 0)
  BY NoMessages DEF TypeOK, Runtimes
<1>2. rt.phase # "auth"
  BY DEF Handshake, InAuth
<1>3. CASE rt.phase = "enter"
  <2>1. /\ up = << >> /\ down # << >>
        /\ down[1].kind = "entered" /\ down[1].id = rt.enter
        /\ (down[1].ok => down[1].sess = srv.sess)
        /\ Kinded(Tail(down), OfLife)
    BY <1>3 DEF Handshake, Entering
  <2>2. down' = Append(down, x) /\ dgrams' = dgrams
    BY <1>3 DEF Handshake
  <2>3. Tail(down) \in Seq(FromGate) /\ Tail(Append(down, x)) = Append(Tail(down), x)
        /\ Append(down, x)[1] = down[1] /\ Append(down, x) # << >>
    BY <1>1, <2>1
  <2>4. Kinded(Append(Tail(down), x), OfLife)
    BY <2>1, <2>3, KindedQueues
  <2>5. Entering'
    BY <2>1, <2>2, <2>3, <2>4 DEF Entering
  <2> QED
    BY <1>3, <2>2, <2>5 DEF Handshake
<1>4. CASE rt.phase = "scene"
  <2>1. Kinded(up, {"ticket", "say", "input"}) /\ Kinded(down, {"ticket"} \cup OfLife)
    BY <1>4 DEF Handshake, InScene
  <2>2. Kinded(Append(down, x), {"ticket"} \cup OfLife)
    BY <1>1, <2>1, KindedQueues
  <2>3. Kinded(down', {"ticket"} \cup OfLife) /\ Kinded(up', {"ticket", "say", "input"})
    BY <2>1, <2>2
  <2> QED
    BY <1>4, <2>3, SceneStays
<1> QED
  BY <1>1, <1>2, <1>3, <1>4

(* The gate answers one message of the handshake with one. *)
LEMMA HandshakeExternal ==
  ASSUME TypeOK, Handshake, External
  PROVE  Handshake'
<1> DEFINE Frame == UNCHANGED <<joined, rt, udp, up>>
<1>1. srv \in Gates /\ dgrams \subseteq Datagrams
  BY DEF TypeOK, Gates
<1>2. CASE Appear
  <2>1. /\ srv' = [srv EXCEPT !.life = TRUE, !.tick = 0] /\ Frame /\ srv.scene
        /\ down' = Append(down, [kind |-> "appear"]) /\ dgrams' = dgrams
    BY <1>2 DEF Appear, Reply, Client
  <2>2. [kind |-> "appear"] \in FromGate /\ [kind |-> "appear"].kind \in OfLife
    BY DEF FromGate, OfLife
  <2>3. /\ srv'.scene /\ srv'.sess = srv.sess
        /\ srv'.ticket = srv.ticket /\ srv'.lane = srv.lane /\ srv'.noTicket = srv.noTicket
    BY <1>1, <2>1 DEF Gates
  <2> QED
    BY <2>1, <2>2, <2>3, HandshakeLife
<1>3. CASE Leave
  <2>1. /\ srv' = [srv EXCEPT !.life = FALSE] /\ Frame /\ srv.life
        /\ down' = Append(down, [kind |-> "leave"]) /\ dgrams' = dgrams
    BY <1>3 DEF Leave, Reply, Client
  <2>2. [kind |-> "leave"] \in FromGate /\ [kind |-> "leave"].kind \in OfLife
    BY DEF FromGate, OfLife
  <2>3. srv.scene
    BY <2>1 DEF Handshake
  <2>4. /\ srv'.scene /\ srv'.sess = srv.sess
        /\ srv'.ticket = srv.ticket /\ srv'.lane = srv.lane /\ srv'.noTicket = srv.noTicket
    BY <1>1, <2>1, <2>3 DEF Gates
  <2> QED
    BY <2>1, <2>2, <2>3, <2>4, HandshakeLife
<1>4. CASE MoveActor
  <2> DEFINE x == [kind |-> "move", tick |-> srv.tick + 1]
  <2>1. /\ srv' = [srv EXCEPT !.tick = @ + 1] /\ Frame /\ srv.life
        /\ \/ down' = Append(down, x) /\ dgrams' = dgrams
           \/ srv.lane # 0 /\ down' = down
    BY <1>4 DEF MoveActor, Reply, Client
  <2>2. srv.tick + 1 \in Nat
    BY <1>1 DEF Gates
  <2>3. x \in FromGate /\ x.kind \in OfLife
    BY <2>2 DEF FromGate, OfLife
  <2>4. srv.scene
    BY <2>1 DEF Handshake
  <2>5. /\ srv'.scene /\ srv'.sess = srv.sess
        /\ srv'.ticket = srv.ticket /\ srv'.lane = srv.lane /\ srv'.noTicket = srv.noTicket
    BY <1>1, <2>1, <2>4 DEF Gates
  <2> HIDE DEF x
  <2> QED
    BY <2>1, <2>3, <2>4, <2>5, HandshakeLife
<1>5. ASSUME NEW d \in dgrams, Frame, down' = down, srv'.life = srv.life, srv'.scene = srv.scene
      PROVE  Handshake'
  <2>1. rt.phase = "scene"
    BY DEF Handshake
  <2>2. Kinded(up', {"ticket", "say", "input"}) /\ Kinded(down', {"ticket"} \cup OfLife)
    BY <1>5, <2>1 DEF Handshake, InScene
  <2> QED
    BY <1>5, <2>1, <2>2, SceneStays DEF Handshake
<1>6. ASSUME NEW d \in dgrams, ServeDatagram(d) PROVE Handshake'
  <2>1. PICK l : srv' = [srv EXCEPT !.lane = l] /\ Frame /\ down' = down
    BY <1>6 DEF ServeDatagram, Client
  <2>2. srv'.life = srv.life /\ srv'.scene = srv.scene
    BY <1>1, <2>1 DEF Gates
  <2> QED
    BY <1>5, <2>1, <2>2
<1>7. ASSUME NEW d \in dgrams, LoseDatagram(d) PROVE Handshake'
  <2>1. PICK l : srv' = [srv EXCEPT !.lost = l] /\ Frame /\ down' = down
    BY <1>7 DEF LoseDatagram, Client
  <2>2. srv'.life = srv.life /\ srv'.scene = srv.scene
    BY <1>1, <2>1 DEF Gates
  <2> QED
    BY <1>5, <2>1, <2>2
<1>8. CASE Expire
  BY <1>8, HandshakeKept DEF Expire, Client
<1> QED
  BY <1>2, <1>3, <1>4, <1>6, <1>7, <1>8, HandshakeServes DEF External

(* Every step keeps to the handshake. *)
LEMMA HandshakeStep ==
  ASSUME TypeOK, Unused, Handshake, [Next]_vars
  PROVE  Handshake'
<1>1. CASE SessionStep
  BY <1>1, SessionSteps, HandshakeSession
<1>2. CASE ThreadStep
  BY <1>2, HandshakeThread
<1>3. CASE AppStep
  BY <1>3, HandshakeKept DEF AppStep, Submit, AuthWorker, PollAuth, Poll, Command, Quit
<1>4. CASE External
  BY <1>4, HandshakeExternal
<1>5. CASE UNCHANGED vars
  BY <1>5, HandshakeKept DEF vars
<1> QED
  BY <1>1, <1>2, <1>3, <1>4, <1>5, Steps

(* Outside a session there is nothing to receive or to serve. *)
LEMMA UnusedStep ==
  ASSUME TypeOK, AppStarts, Unused, [Next]_vars
  PROVE  Unused'
<1>1. CASE SessionStep
  <2>1. InSession /\ SessionTurn
    BY <1>1, SessionSteps
  <2> DEFINE P == thread' \in {"session", "stopped"} \/ Unused'
  <2>2. \A b : Ends(b) => P
    BY EndIsNew DEF Ends
  <2>3. \A r, u, d, g, s, e, j : Turn(r, u, d, g, s, e, j) => P
    BY <2>1 DEF Turn, InSession
  <2>4. \A retry, u, d, g, s, n : LaneIsDown(retry, u, d, g, s, n) => P
    BY <2>3 DEF LaneIsDown
  <2>5. \A c : Obeys(c) => P
    BY <2>2, <2>3, <2>4 DEF Obeys, Says, Inputs
  <2>6. Asks => P
    BY <2>3 DEF Asks, Asking
  <2>7. Stops => P
    BY DEF Stops
  <2>8. \A m, d, g : Receives(m, d, g) => P
    <3> TAKE m, d, g
    <3>1. LetsIn(d, g) => P
      BY <2>3 DEF LetsIn
    <3>2. Arrives(m, d, g) => P
      BY <2>3 DEF Arrives, Asking
    <3>3. TicketFails(m, d, g) \/ Attaches(m, d, g) => P
      BY <2>3, <2>4 DEF TicketFails, Attaches
    <3>4. IsAttached(m, d, g) => P
      BY <2>3, <2>4 DEF IsAttached
    <3>5. \A t : Passes(m, d, g, t) => P
      BY <2>3 DEF Passes
    <3> HIDE DEF P
    <3> QED
      BY <2>2, <2>3, <2>4, <3>1, <3>2, <3>3, <3>4, <3>5 DEF Receives
  <2>9. P
    <3> HIDE DEF P
    <3> QED
      BY <2>1, <2>2, <2>4, <2>5, <2>6, <2>7, <2>8 DEF SessionTurn
  <2> QED
    BY <2>9 DEF Unused
<1>2. CASE ThreadStep
  <2>1. CASE EndSession(FALSE)
    BY <2>1, EndIsNew
  <2>2. CASE thread' \in {"session", "stopped"}
    BY <2>2 DEF Unused
  <2>3. CASE thread \notin {"session", "stopped"} /\ UNCHANGED <<joined, rt, udp, srv, links>>
    BY <2>3 DEF Unused, links
  <2> QED
    BY <1>2, <2>1, <2>2, <2>3
       DEF ThreadStep, RefuseEmptyToken, StartSession, BackOff, LogInAgain, Stops
<1>3. CASE AppStep
  <2>1. /\ UNCHANGED <<joined, rt, udp, srv, links>>
        /\ thread' = thread \/ (thread = "none" /\ thread' = "start")
    BY <1>3 DEF AppStep, Submit, AuthWorker, PollAuth, Poll, Command, Quit, AppStarts
  <2> QED
    BY <2>1 DEF Unused, links
<1>4. CASE External
  <2>1. thread' = thread
    BY <1>4 DEF External, ServeTcp, Appear, Leave, MoveActor, Expire, ServeDatagram, LoseDatagram, Client
  <2>2. CASE thread \in {"session", "stopped"}
    BY <2>1, <2>2 DEF Unused
  <2>3. CASE thread \notin {"session", "stopped"}
    <3>1. /\ up = << >> /\ dgrams = {} /\ srv = [NoSession EXCEPT !.sess = srv.sess]
      BY <2>3 DEF Unused
    <3>2. ~srv.scene /\ ~srv.life
      BY <3>1 DEF NoSession
    <3>3. Expire
      BY <1>4, <3>1, <3>2 DEF External, ServeTcp, Appear, Leave, MoveActor
    <3> QED
      BY <3>3 DEF Expire, Client, links, Unused
  <2> QED
    BY <2>2, <2>3
<1>5. CASE UNCHANGED vars
  BY <1>5 DEF vars, links, Unused
<1> QED
  BY <1>1, <1>2, <1>3, <1>4, <1>5, Steps

-----------------------------------------------------------------------------
(* What the app sees of a step of the session. *)
Kept == UNCHANGED <<thread, attempt, srv, app, token>>
Steady == evts' = evts /\ rt'.phase = rt.phase /\ rt'.mark = rt.mark /\ joined' = joined
LetIn == rt.phase = "auth" /\ rt'.phase = "enter" /\ evts' = evts /\ joined' = joined
Arrival ==
  /\ rt.phase = "enter" /\ rt'.phase = "scene" /\ rt'.mark = 0 /\ joined' = TRUE
  /\ evts' = Append(evts, [kind |-> "entered", sess |-> srv.sess])
Passed(m) ==
  /\ rt.phase = "scene" /\ rt'.phase = "scene" /\ m.kind \in OfLife
  /\ m.kind = "move" => rt.mark < m.tick /\ rt'.mark = m.tick
  /\ m.kind # "move" => rt'.mark = 0
  /\ evts' = Append(evts, m) /\ joined' = joined
Seen == Kept /\ (Steady \/ LetIn \/ Arrival \/ \E m \in Events : Passed(m))
Ending == \E b \in BOOLEAN : (joined => b) /\ Ends(b)
CommandTaken == cmds # << >> /\ Head(cmds).kind # "quit" /\ cmds' = Tail(cmds)

(* A turn that leaves the phase, the mark and the events. *)
LEMMA SteadyTurns ==
  ASSUME TypeOK
  PROVE  /\ \A u, d, g, s : \A r \in Runtimes :
              /\ r.phase = rt.phase /\ r.mark = rt.mark
              /\ Turn(r, u, d, g, s, evts, joined)
              => Kept /\ Steady
         /\ \A retry, u, d, g, s : \A n \in Nat :
              LaneIsDown(retry, u, d, g, s, n) => Kept /\ Steady
<1>1. ASSUME NEW u, NEW d, NEW g, NEW s, NEW r \in Runtimes,
             r.phase = rt.phase, r.mark = rt.mark, Turn(r, u, d, g, s, evts, joined)
      PROVE  Kept /\ Steady
  BY <1>1 DEF Turn, Kept, Steady
<1>2. ASSUME NEW retry, NEW u, NEW d, NEW g, NEW s, NEW n \in Nat,
             LaneIsDown(retry, u, d, g, s, n)
      PROVE  Kept /\ Steady
  <2>1. PICK l \in LanesDown : Turn([rt EXCEPT !.lane = l, !.next = n], u, d, g, s, evts, joined)
    BY <1>2 DEF LaneIsDown
  <2>2. LET r == [rt EXCEPT !.lane = l, !.next = n] IN
          r \in Runtimes /\ r.phase = rt.phase /\ r.mark = rt.mark
    BY DEF TypeOK, Runtimes, LanesDown
  <2> QED
    BY <1>1, <2>1, <2>2
<1> QED
  BY <1>1, <1>2

(* What the app will see of a message of the gate. *)
LEMMA SeenMessages ==
  ASSUME TypeOK, Handshake, InSession, NEW m \in FromGate \cup {d \in Datagrams : ToClient(d)},
         NEW left \in Seq(FromGate), NEW late \in SUBSET dgrams,
         Taken(m, left, late), Receives(m, left, late)
  PROVE  Ending \/ Seen
<1>1. /\ rt \in Runtimes /\ rt.next \in Nat /\ rt.next + 1 \in Nat /\ joined \in BOOLEAN
      /\ evts \in Seq(Events) /\ srv.sess \in Nat /\ rt.phase \in {"auth", "enter", "scene"}
  BY Typed
<1>2. Ends(joined) => Ending
  BY <1>1 DEF Ending
<1>3. Ends(TRUE) => Ending
  BY DEF Ending
<1>4. Turn(rt, up, left, late, udp, evts, joined) => Seen
  BY <1>1, SteadyTurns DEF Seen
<1>5. \A retry, s : \A n \in Nat : LaneIsDown(retry, up, left, late, s, n) => Seen
  BY SteadyTurns DEF Seen
<1>6. ASSUME m.kind = "auth", LetsIn(left, late) PROVE Seen
  <2>1. rt.phase = "auth"
    BY <1>1, <1>6, MessageFits DEF OfLife
  <2>2. rt'.phase = "enter" /\ evts' = evts /\ joined' = joined /\ Kept
    BY <1>1, <1>6 DEF LetsIn, Turn, Kept, Runtimes
  <2> QED
    BY <2>1, <2>2 DEF Seen, LetIn
<1>7. ASSUME m.kind = "entered", Arrives(m, left, late) PROVE Seen
  <2>1. rt.phase = "enter"
    BY <1>1, <1>7, MessageFits DEF OfLife
  <2>2. m.sess = srv.sess
    BY <1>7, <2>1, MessageFits DEF Arrives
  <2>3. PICK l \in Lanes :
          Asking(l, left, late, Append(evts, [kind |-> "entered", sess |-> m.sess]),
                 TRUE, [rt EXCEPT !.phase = "scene", !.mark = 0])
    BY <1>7 DEF Arrives
  <2>4. /\ rt' = [[rt EXCEPT !.phase = "scene", !.mark = 0] EXCEPT !.next = rt.next + 1, !.lane = l]
        /\ joined' = TRUE /\ evts' = Append(evts, [kind |-> "entered", sess |-> m.sess]) /\ Kept
    BY <2>3 DEF Asking, Turn, Kept
  <2>5. rt'.phase = "scene" /\ rt'.mark = 0
    BY <1>1, <2>4 DEF Runtimes
  <2> QED
    BY <2>1, <2>2, <2>4, <2>5 DEF Seen, Arrival
<1>8. ASSUME Attaches(m, left, late) PROVE Seen
  <2>1. ASSUME NEW l \in Lanes, NEW g,
               Turn([rt EXCEPT !.next = rt.next + 1, !.lane = l], up, left, g, rt.next, evts, joined)
        PROVE  Seen
    <3>1. LET r == [rt EXCEPT !.next = rt.next + 1, !.lane = l] IN
            r \in Runtimes /\ r.phase = rt.phase /\ r.mark = rt.mark
      BY <1>1 DEF Runtimes
    <3> QED
      BY <2>1, <3>1, SteadyTurns DEF Seen
  <2> QED
    BY <1>1, <1>5, <1>8, <2>1 DEF Attaches
<1>9. ASSUME IsAttached(m, left, late) PROVE Seen
  <2>1. ASSUME NEW l \in Lanes, Turn([rt EXCEPT !.lane = l], up, left, late, udp, evts, joined)
        PROVE  Seen
    <3>1. LET r == [rt EXCEPT !.lane = l] IN
            r \in Runtimes /\ r.phase = rt.phase /\ r.mark = rt.mark
      BY <1>1 DEF Runtimes
    <3> QED
      BY <2>1, <3>1, SteadyTurns DEF Seen
  <2> QED
    BY <1>1, <1>5, <1>9, <2>1 DEF IsAttached
<1>10. ASSUME NEW t \in Nat, m \in Events, m.kind \in OfLife, Passes(m, left, late, t),
              m.kind = "move" => rt.mark < m.tick /\ t = m.tick,
              m.kind # "move" => t = 0
       PROVE  Seen
  <2>1. rt.phase = "scene"
    BY <1>1, <1>10, MessageFits DEF OfLife
  <2>2. /\ rt' = [rt EXCEPT !.mark = t] /\ evts' = Append(evts, m) /\ joined' = joined /\ Kept
    BY <1>10 DEF Passes, Turn, Kept
  <2>3. rt'.phase = "scene" /\ rt'.mark = t
    BY <1>1, <2>1, <2>2 DEF Runtimes
  <2>4. Passed(m)
    BY <1>10, <2>1, <2>2, <2>3 DEF Passed
  <2> QED
    BY <1>10, <2>2, <2>4 DEF Seen
<1>11. m.kind = "move" => m \in Events /\ m.tick \in Nat
  BY DEF FromGate, Datagrams, Events
<1>12. m.kind \in {"appear", "leave"} => m \in Events
  BY DEF FromGate, Datagrams, Events, ToClient
<1>13. m.kind = "move" /\ IsNewMove(rt, m) /\ Passes(m, left, late, m.tick) => Seen
  BY <1>10, <1>11 DEF IsNewMove, OfLife
<1>14. m.kind \in {"appear", "leave"} /\ Passes(m, left, late, 0) => Seen
  BY <1>10, <1>12 DEF OfLife
<1> QED
  BY <1>1, <1>2, <1>3, <1>4, <1>5, <1>6, <1>7, <1>8, <1>9, <1>13, <1>14 DEF Receives, TicketFails

(* What the app will see of a turn of the session. *)
LEMMA SeenSession ==
  ASSUME TypeOK, Handshake, InSession, SessionTurn
  PROVE  \/ cmds # << >> /\ Head(cmds).kind = "quit" /\ Stops /\ app' = app
         \/ (cmds' = cmds \/ CommandTaken) /\ (Ending \/ Seen)
<1>1. /\ rt \in Runtimes /\ rt.next \in Nat /\ rt.next + 1 \in Nat /\ joined \in BOOLEAN
  BY Typed
<1>2. Ends(joined) => Ending
  BY <1>1 DEF Ending
<1>3. \A u, d, g, s : Turn(rt, u, d, g, s, evts, joined) => Seen
  BY <1>1, SteadyTurns DEF Seen
<1>4. \A u, d, g, s : LaneIsDown(TRUE, u, d, g, s, rt.next) => Seen
  BY <1>1, SteadyTurns DEF Seen
<1>5. Asks => Seen
  <2>1. ASSUME NEW l \in Lanes, Asking(l, down, dgrams, evts, joined, rt) PROVE Seen
    <3>1. LET r == [rt EXCEPT !.next = rt.next + 1, !.lane = l] IN
            r \in Runtimes /\ r.phase = rt.phase /\ r.mark = rt.mark
      BY <1>1 DEF Runtimes
    <3> QED
      BY <2>1, <3>1, SteadyTurns DEF Seen, Asking
  <2> QED
    BY <2>1 DEF Asks
<1>6. ASSUME NEW c, Says(c) PROVE Seen
  <2>1. LET r == [rt EXCEPT !.next = rt.next + 1] IN
          r \in Runtimes /\ r.phase = rt.phase /\ r.mark = rt.mark
    BY <1>1 DEF Runtimes
  <2> QED
    BY <1>6, <2>1, SteadyTurns DEF Seen, Says
<1>7. \A c : Obeys(c) => Ending \/ Seen
  BY <1>2, <1>3, <1>4, <1>6 DEF Obeys, Inputs
<1> QED
  BY <1>2, <1>4, <1>5, <1>7, SeenMessages DEF SessionTurn, CommandTaken

(* What the end of a session adds to the events. *)
LEMMA EndEvents ==
  ASSUME TypeOK, NEW b \in BOOLEAN, joined => b, EndSession(b)
  PROVE  \E q \in Seq(Events) :
           /\ \/ (b \/ attempt = 0) /\ q = Append(evts, Disconnected)
              \/ ~b /\ ~joined /\ attempt > 0 /\ q = evts
           /\ \/ thread' = "stopped" /\ evts' = Append(q, GaveUp)
              \/ thread' = "backoff" /\ evts' = q
<1>1. evts \in Seq(Events) /\ Disconnected \in Events /\ GaveUp \in Events /\ attempt \in Nat
  BY LinkAssumption DEF TypeOK, Events, Disconnected, GaveUp
<1> DEFINE q == evts \o Told(b)
<1>2. /\ q \in Seq(Events)
      /\ \/ (b \/ attempt = 0) /\ q = Append(evts, Disconnected)
         \/ ~b /\ ~joined /\ attempt > 0 /\ q = evts
  <2>1. CASE b \/ attempt = 0
    <3>1. Told(b) = <<Disconnected>>
      BY <2>1 DEF Told
    <3>2. evts \o <<Disconnected>> = Append(evts, Disconnected) /\ Append(evts, Disconnected) \in Seq(Events)
      BY <1>1
    <3> QED
      BY <2>1, <3>1, <3>2
  <2>2. CASE ~(b \/ attempt = 0)
    <3>1. Told(b) = << >> /\ evts \o << >> = evts
      BY <1>1, <2>2 DEF Told
    <3> QED
      BY <1>1, <2>2, <3>1
  <2> QED
    BY <2>1, <2>2
<1>3. \/ thread' = "stopped" /\ evts' = evts \o Told(b) \o <<GaveUp>>
      \/ thread' = "backoff" /\ evts' = evts \o Told(b) \o << >>
  BY DEF EndSession
<1>4. q \o <<GaveUp>> = Append(q, GaveUp) /\ q \o << >> = q
  <2> HIDE DEF q
  <2> QED
    BY <1>1, <1>2
<1>5. \/ thread' = "stopped" /\ evts' = Append(q, GaveUp)
      \/ thread' = "backoff" /\ evts' = q
  BY <1>3, <1>4
<1> HIDE DEF q
<1> QED
  BY <1>2, <1>5

-----------------------------------------------------------------------------
(* The app's phase. *)

(* One more event: what it tells, or what was told before. *)
LEMMA ShowAppend ==
  ASSUME NEW q \in Seq(Events), NEW e \in Events, NEW now, NEW S
  PROVE  /\ Tells(e) /\ ToldBy(e) \in S => WillShow(Append(q, e), now, S)
         /\ ~Tells(e) /\ WillShow(q, now, S) => WillShow(Append(q, e), now, S)
<1> DEFINE r == Append(q, e)
<1>1. /\ Len(r) = Len(q) + 1 /\ Len(q) \in Nat /\ \A i \in 1..Len(q) : r[i] = q[i]
      /\ r[Len(q) + 1] = e
  BY AppendFacts
<1> HIDE DEF r
<1>2. \A i \in 1..Len(r) : i \in 1..Len(q) \/ i = Len(q) + 1
  BY <1>1
<1>3. Len(q) + 1 \in 1..Len(r) /\ \A i \in 1..Len(q) : i \in 1..Len(r) /\ i < Len(q) + 1
  BY <1>1
<1>4. ASSUME Tells(e), ToldBy(e) \in S PROVE WillShow(r, now, S)
  <2>1. ASSUME NEW i \in 1..Len(r), LastTelling(r, i) PROVE ToldBy(r[i]) \in S
    <3>1. i = Len(q) + 1
      BY <1>1, <1>2, <1>3, <1>4, <2>1 DEF LastTelling
    <3> QED
      BY <1>1, <1>4, <3>1
  <2>2. ~\A i \in 1..Len(r) : ~Tells(r[i])
    BY <1>1, <1>3, <1>4
  <2> QED
    BY <2>1, <2>2 DEF WillShow
<1>5. ASSUME ~Tells(e), WillShow(q, now, S) PROVE WillShow(r, now, S)
  <2>1. ASSUME NEW i \in 1..Len(r), LastTelling(r, i) PROVE ToldBy(r[i]) \in S
    <3>1. i \in 1..Len(q) /\ r[i] = q[i]
      BY <1>1, <1>2, <1>5, <2>1 DEF LastTelling
    <3>2. LastTelling(q, i)
      BY <1>1, <1>3, <2>1, <3>1 DEF LastTelling
    <3> QED
      BY <1>5, <3>1, <3>2 DEF WillShow
  <2>2. (\A i \in 1..Len(r) : ~Tells(r[i])) => \A i \in 1..Len(q) : ~Tells(q[i])
    BY <1>1, <1>3
  <2> QED
    BY <1>5, <2>1, <2>2 DEF WillShow
<1> QED
  BY <1>4, <1>5 DEF r

(* The app takes the first event. *)
LEMMA ShowTail ==
  ASSUME NEW q \in Seq(Events), q # << >>, NEW now, NEW S, WillShow(q, now, S)
  PROVE  WillShow(Tail(q), IF Tells(Head(q)) THEN ToldBy(Head(q)) ELSE now, S)
<1> DEFINE r == Tail(q)
<1>1. /\ Len(q) \in Nat \ {0} /\ Head(q) = q[1] /\ Len(r) = Len(q) - 1
      /\ \A i \in 1..Len(r) : r[i] = q[i + 1]
  BY QueueFacts
<1> HIDE DEF r
<1>2. 1 \in 1..Len(q) /\ \A i \in 1..Len(r) : i + 1 \in 1..Len(q)
  BY <1>1
<1>3. \A j \in 1..Len(q) : j = 1 \/ (j - 1 \in 1..Len(r) /\ r[j - 1] = q[j])
  <2> TAKE j \in 1..Len(q)
  <2>1. j # 1 => j - 1 \in 1..Len(r) /\ (j - 1) + 1 = j
    BY <1>1
  <2> QED
    BY <1>1, <2>1
<1>4. ASSUME NEW i \in 1..Len(r), LastTelling(r, i) PROVE ToldBy(r[i]) \in S
  <2>1. ASSUME NEW j \in 1..Len(q), i + 1 < j PROVE ~Tells(q[j])
    <3>1. j # 1 /\ i < j - 1
      BY <2>1
    <3> QED
      BY <1>3, <1>4, <3>1 DEF LastTelling
  <2>2. LastTelling(q, i + 1)
    BY <1>1, <1>2, <1>4, <2>1 DEF LastTelling
  <2> QED
    BY <1>1, <1>2, <2>2 DEF WillShow
<1>5. ASSUME \A i \in 1..Len(r) : ~Tells(r[i])
      PROVE  (IF Tells(Head(q)) THEN ToldBy(Head(q)) ELSE now) \in S
  <2>1. \A j \in 1..Len(q) : 1 < j => ~Tells(q[j])
    BY <1>3, <1>5
  <2>2. CASE Tells(Head(q))
    <3>1. LastTelling(q, 1)
      BY <1>1, <2>1, <2>2 DEF LastTelling
    <3> QED
      BY <1>1, <1>2, <2>2, <3>1 DEF WillShow
  <2>3. CASE ~Tells(Head(q))
    <3>1. \A j \in 1..Len(q) : ~Tells(q[j])
      BY <1>1, <1>3, <1>5, <2>3
    <3> QED
      BY <2>3, <3>1 DEF WillShow
  <2> QED
    BY <2>2, <2>3
<1> QED
  BY <1>4, <1>5 DEF WillShow, r

(* More may be shown, and nothing else is. *)
LEMMA ShowWiden ==
  ASSUME NEW q, NEW now, NEW S, NEW T, WillShow(q, now, S), S \subseteq T
  PROVE  WillShow(q, now, T)
BY DEF WillShow

(* What the thread's state says of the app, case by case. *)
LEMMA Outlooks ==
  /\ thread = "none" => Outlook = {[phase |-> "login", sess |-> 0]}
  /\ thread = "stopped" => Outlook = {[phase |-> "failed", sess |-> 0]}
  /\ InSession /\ rt.phase = "scene" => Outlook = {[phase |-> "scene", sess |-> srv.sess]}
  /\ thread \in {"start", "backoff", "login"} \/ (InSession /\ rt.phase # "scene") =>
       /\ [phase |-> "reconnecting", sess |-> 0] \in Outlook
       /\ thread \in {"backoff", "login"} \/ attempt > 0 =>
            Outlook = {[phase |-> "reconnecting", sess |-> 0]}
       /\ ~(thread \in {"backoff", "login"} \/ attempt > 0) =>
            Outlook = {[phase |-> p, sess |-> 0] : p \in {"connecting", "reconnecting"}}
<1>1. CASE thread = "none"
  BY <1>1 DEF Outlook, InSession
<1>2. CASE thread = "stopped"
  BY <1>2 DEF Outlook, InSession
<1>3. CASE InSession /\ rt.phase = "scene"
  BY <1>3 DEF Outlook, InSession
<1>4. CASE thread \in {"start", "backoff", "login"} \/ (InSession /\ rt.phase # "scene")
  <2> DEFINE P == {"reconnecting"} \cup
                  (IF thread \in {"backoff", "login"} \/ attempt > 0 THEN {} ELSE {"connecting"})
  <2>1. Outlook = {[phase |-> p, sess |-> 0] : p \in P}
    BY <1>4 DEF Outlook, InSession
  <2>2. "reconnecting" \in P
    OBVIOUS
  <2>3. thread \in {"backoff", "login"} \/ attempt > 0 => P = {"reconnecting"}
    OBVIOUS
  <2>4. ~(thread \in {"backoff", "login"} \/ attempt > 0) => P = {"connecting", "reconnecting"}
    OBVIOUS
  <2> HIDE DEF P
  <2>5. [phase |-> "reconnecting", sess |-> 0] \in Outlook
    BY <2>1, <2>2
  <2>6. P = {"reconnecting"} => Outlook = {[phase |-> "reconnecting", sess |-> 0]}
    BY <2>1
  <2> QED
    BY <1>4, <2>1, <2>3, <2>4, <2>5, <2>6 DEF InSession
<1> QED
  BY <1>1, <1>2, <1>3, <1>4 DEF InSession

(* An end of a session is told. *)
LEMMA AheadEnds ==
  ASSUME TypeOK, Handshake, Unused, AppAhead, thread \in {"start", "session"},
         NEW b \in BOOLEAN, joined => b, EndSession(b), app' = app
  PROVE  AppAhead'
<1> SUFFICES ASSUME app.phase # "closed" PROVE WillShow(evts', Shown, Outlook')
  BY DEF AppAhead, Shown
<1>1. evts \in Seq(Events) /\ Disconnected \in Events /\ GaveUp \in Events
  BY DEF TypeOK, Events, Disconnected, GaveUp
<1>2. /\ Tells(Disconnected) /\ ToldBy(Disconnected) = [phase |-> "reconnecting", sess |-> 0]
      /\ Tells(GaveUp) /\ ToldBy(GaveUp) = [phase |-> "failed", sess |-> 0]
  BY DEF Tells, ToldBy, Disconnected, GaveUp
<1>3. PICK q \in Seq(Events) :
         /\ \/ (b \/ attempt = 0) /\ q = Append(evts, Disconnected)
            \/ ~b /\ ~joined /\ attempt > 0 /\ q = evts
         /\ \/ thread' = "stopped" /\ evts' = Append(q, GaveUp)
            \/ thread' = "backoff" /\ evts' = q
  BY EndEvents
<1>4. WillShow(q, Shown, {[phase |-> "reconnecting", sess |-> 0]})
  <2>1. CASE q = Append(evts, Disconnected)
    BY <1>1, <1>2, <2>1, ShowAppend
  <2>2. CASE ~b /\ ~joined /\ attempt > 0 /\ q = evts
    <3>1. rt.phase # "scene"
      BY <2>2 DEF Handshake
    <3>2. Outlook = {[phase |-> "reconnecting", sess |-> 0]}
      BY <2>2, <3>1, Outlooks DEF InSession
    <3> QED
      BY <2>2, <3>2 DEF AppAhead
  <2> QED
    BY <1>3, <2>1, <2>2
<1>5. CASE thread' = "stopped" /\ evts' = Append(q, GaveUp)
  <2>1. Outlook' = {[phase |-> "failed", sess |-> 0]}
    BY <1>5 DEF Outlook, InSession
  <2> QED
    BY <1>1, <1>2, <1>5, <2>1, ShowAppend
<1>6. CASE thread' = "backoff" /\ evts' = q
  <2>1. Outlook' = {[phase |-> p, sess |-> 0] : p \in {"reconnecting"} \cup {}}
    BY <1>6 DEF Outlook, InSession
  <2>2. Outlook' = {[phase |-> "reconnecting", sess |-> 0]}
    BY <2>1
  <2> QED
    BY <1>4, <1>6, <2>2
<1> QED
  BY <1>3, <1>5, <1>6

(* What a turn of the session tells the app is where the thread is then. *)
LEMMA AheadSession ==
  ASSUME TypeOK, Handshake, Unused, AppAhead, QuitIsClosed, InSession, SessionTurn
  PROVE  AppAhead'
<1>1. /\ cmds \in Seq(Commands) /\ evts \in Seq(Events) /\ srv.sess \in Nat
      /\ rt.phase \in {"auth", "enter", "scene"}
  BY Typed
<1>2. CASE cmds # << >> /\ Head(cmds).kind = "quit" /\ Stops /\ app' = app
  <2>1. app.phase = "closed"
    <3>1. 1 \in 1..Len(cmds) /\ cmds[1].kind = "quit"
      BY <1>1, <1>2, QueueFacts
    <3> QED
      BY <3>1 DEF QuitIsClosed
  <2> QED
    BY <1>2, <2>1 DEF AppAhead
<1>3. CASE Ending
  <2>1. PICK b \in BOOLEAN : (joined => b) /\ Ends(b)
    BY <1>3 DEF Ending
  <2> QED
    BY <2>1, AheadEnds DEF Ends, InSession
<1>4. ASSUME Seen, app.phase # "closed" PROVE WillShow(evts', Shown, Outlook')
  <2>1. /\ thread' = "session" /\ attempt' = attempt /\ srv' = srv
        /\ WillShow(evts, Shown, Outlook)
    BY <1>4 DEF Seen, Kept, InSession, AppAhead
  <2>2. (rt'.phase = "scene" <=> rt.phase = "scene") => Outlook' = Outlook
    BY <2>1 DEF Outlook, InSession
  <2>3. CASE Steady
    BY <2>1, <2>2, <2>3 DEF Steady
  <2>4. CASE LetIn
    BY <2>1, <2>2, <2>4 DEF LetIn
  <2>5. CASE Arrival
    <3> DEFINE e == [kind |-> "entered", sess |-> srv.sess]
    <3>1. e \in Events /\ Tells(e) /\ ToldBy(e) = [phase |-> "scene", sess |-> srv.sess]
      BY <1>1 DEF Events, Tells, ToldBy
    <3>2. Outlook' = {[phase |-> "scene", sess |-> srv.sess]}
      BY <2>1, <2>5 DEF Outlook, InSession, Arrival
    <3>3. evts' = Append(evts, e)
      BY <2>5 DEF Arrival
    <3> HIDE DEF e
    <3> QED
      BY <1>1, <3>1, <3>2, <3>3, ShowAppend
  <2>6. ASSUME NEW m \in Events, Passed(m) PROVE WillShow(evts', Shown, Outlook')
    <3>1. ~Tells(m) /\ evts' = Append(evts, m) /\ Outlook' = Outlook
      BY <2>2, <2>6 DEF Passed, Tells, OfLife
    <3> QED
      BY <1>1, <2>1, <3>1, ShowAppend
  <2> QED
    BY <1>4, <2>3, <2>4, <2>5, <2>6 DEF Seen
<1>5. Seen => AppAhead'
  BY <1>4 DEF AppAhead, Seen, Kept, Shown
<1> QED
  BY <1>2, <1>3, <1>5, SeenSession

(* So is what the thread tells it between two sessions. *)
LEMMA AheadThread ==
  ASSUME TypeOK, Handshake, Unused, AppAhead, QuitIsClosed, ThreadStep
  PROVE  AppAhead'
<1>1. evts \in Seq(Events)
  BY DEF TypeOK
<1>2. ASSUME Stops, Quits(cmds), app' = app PROVE AppAhead'
  <2>1. app.phase = "closed"
    <3>1. DOMAIN cmds = 1..Len(cmds)
      BY DEF TypeOK
    <3> QED
      BY <1>2, <3>1 DEF QuitIsClosed, Quits
  <2> QED
    BY <1>2, <2>1 DEF AppAhead
<1>3. CASE RefuseEmptyToken
  <2>1. /\ evts' = evts \o <<Disconnected, GaveUp>> /\ thread' = "stopped" /\ app' = app
    BY <1>3 DEF RefuseEmptyToken
  <2>2. Disconnected \in Events /\ GaveUp \in Events
    BY DEF Events, Disconnected, GaveUp
  <2>3. /\ evts' = Append(Append(evts, Disconnected), GaveUp)
        /\ Append(evts, Disconnected) \in Seq(Events)
    BY <1>1, <2>1, <2>2
  <2>4. Tells(GaveUp) /\ ToldBy(GaveUp) = [phase |-> "failed", sess |-> 0]
    BY DEF Tells, ToldBy, GaveUp
  <2>5. Outlook' = {[phase |-> "failed", sess |-> 0]}
    BY <2>1 DEF Outlook, InSession
  <2>6. WillShow(evts', Shown, Outlook')
    BY <2>2, <2>3, <2>4, <2>5, ShowAppend
  <2> QED
    BY <2>1, <2>6 DEF AppAhead, Shown
<1>4. CASE StartSession
  <2>1. thread = "start" /\ app' = app
    BY <1>4 DEF StartSession
  <2>2. CASE EndSession(FALSE)
    BY <2>1, <2>2, AheadEnds DEF Unused
  <2>3. CASE Quits(cmds) /\ Stops
    BY <1>2, <2>1, <2>3
  <2>4. CASE thread' = "session" /\ UNCHANGED <<attempt, joined, rt, udp, evts, srv, down, dgrams, spent>>
    <3>1. rt.phase # "scene"
      BY <2>1 DEF Unused, NewRuntime
    <3>2. Outlook' = Outlook
      BY <2>1, <2>4, <3>1 DEF Outlook, InSession
    <3> QED
      BY <2>1, <2>4, <3>2 DEF AppAhead, Shown
  <2> QED
    BY <1>4, <2>2, <2>3, <2>4 DEF StartSession
<1>5. CASE BackOff
  <2>1. thread = "backoff" /\ app' = app
    BY <1>5 DEF BackOff
  <2>2. CASE Quits(cmds) /\ Stops
    BY <1>2, <2>1, <2>2
  <2>3. CASE thread' = "login" /\ evts' = Append(evts, [kind |-> "reconnecting"])
    <3> DEFINE e == [kind |-> "reconnecting"]
    <3>1. e \in Events /\ Tells(e) /\ ToldBy(e) = [phase |-> "reconnecting", sess |-> 0]
      BY DEF Events, Tells, ToldBy
    <3>2. Outlook' = {[phase |-> p, sess |-> 0] : p \in {"reconnecting"} \cup {}}
      BY <2>3 DEF Outlook, InSession
    <3>3. [phase |-> "reconnecting", sess |-> 0] \in Outlook'
      BY <3>2
    <3> HIDE DEF e
    <3>4. WillShow(Append(evts, e), Shown, Outlook')
      BY <1>1, <3>1, <3>3, ShowAppend
    <3>5. evts' = Append(evts, e)
      BY <2>3 DEF e
    <3> QED
      BY <2>1, <3>4, <3>5 DEF AppAhead, Shown
  <2> QED
    BY <1>5, <2>2, <2>3 DEF BackOff
<1>6. CASE LogInAgain
  <2>1. /\ thread = "login" /\ thread' = "start"
        /\ UNCHANGED <<attempt, evts, app, srv, rt>>
    BY <1>6 DEF LogInAgain
  <2>2. Outlook = {[phase |-> "reconnecting", sess |-> 0]}
    BY <2>1, Outlooks
  <2>3. Outlook' = {[phase |-> p, sess |-> 0] : p \in {"reconnecting"} \cup
                      (IF attempt > 0 THEN {} ELSE {"connecting"})}
    BY <2>1 DEF Outlook, InSession
  <2>4. Outlook \subseteq Outlook'
    BY <2>2, <2>3
  <2>5. WillShow(evts, Shown, Outlook) => WillShow(evts, Shown, Outlook')
    BY <2>4, ShowWiden
  <2> QED
    BY <2>1, <2>5 DEF AppAhead, Shown
<1> QED
  BY <1>3, <1>4, <1>5, <1>6 DEF ThreadStep

(* The app takes an event, starts, or quits. *)
LEMMA AheadApp ==
  ASSUME TypeOK, AppStarts, AppAhead, AppStep
  PROVE  AppAhead'
<1>1. /\ evts \in Seq(Events)
      /\ app \in [phase : {"login", "connecting", "scene", "reconnecting", "failed", "closed"},
                  sess : Nat, tick : Nat \cup {-1}, rewound : BOOLEAN]
  BY DEF TypeOK
<1>2. UNCHANGED <<thread, attempt, rt, srv>> => Outlook' = Outlook
  BY DEF Outlook, InSession
<1>3. CASE Submit \/ AuthWorker \/ Command
  BY <1>2, <1>3 DEF Submit, AuthWorker, Command, AppAhead, Shown
<1>4. CASE Quit
  BY <1>1, <1>4 DEF Quit, AppAhead
<1>5. CASE PollAuth
  <2>1. /\ app.phase = "login" /\ app' = [app EXCEPT !.phase = "connecting"]
        /\ thread' = "start" /\ attempt' = attempt /\ evts' = evts
    BY <1>5 DEF PollAuth
  <2>2. attempt = 0 /\ evts = << >>
    BY <2>1 DEF AppStarts
  <2>3. Shown' = [phase |-> "connecting", sess |-> 0]
    BY <1>1, <2>1 DEF Shown
  <2>4. Outlook' = {[phase |-> p, sess |-> 0] : p \in {"connecting", "reconnecting"}}
    <3>1. Outlook' = {[phase |-> p, sess |-> 0] : p \in {"reconnecting"} \cup {"connecting"}}
      BY <2>1, <2>2 DEF Outlook, InSession
    <3>2. {"reconnecting"} \cup {"connecting"} = {"connecting", "reconnecting"}
      OBVIOUS
    <3> QED
      BY <3>1, <3>2
  <2>5. Shown' \in Outlook' /\ Len(evts') = 0
    BY <2>1, <2>2, <2>3, <2>4
  <2> QED
    BY <2>5 DEF AppAhead, WillShow
<1>6. CASE Poll
  <2> DEFINE e == Head(evts)
  <2>1. /\ app.phase # "closed" /\ evts # << >> /\ app' = Show(app, e) /\ evts' = Tail(evts)
        /\ UNCHANGED <<thread, attempt, rt, srv>>
    BY <1>6 DEF Poll
  <2>2. e \in Events
    BY <1>1, <2>1, QueueFacts
  <2>3. Shown' = IF Tells(e) THEN ToldBy(e) ELSE Shown
    <3> HIDE DEF e
    <3>1. CASE e.kind = "entered"
      <4>1. app'.phase = "scene" /\ app'.sess = e.sess
        BY <1>1, <2>1, <3>1 DEF Show
      <4> QED
        BY <3>1, <4>1 DEF Tells, ToldBy, Shown
    <3>2. CASE e.kind \in {"disconnected", "reconnecting"}
      <4>1. app'.phase = "reconnecting"
        BY <1>1, <2>1, <3>2 DEF Show
      <4> QED
        BY <3>2, <4>1 DEF Tells, ToldBy, Shown
    <3>3. CASE e.kind = "gave_up"
      <4>1. app'.phase = "failed"
        BY <1>1, <2>1, <3>3 DEF Show
      <4> QED
        BY <3>3, <4>1 DEF Tells, ToldBy, Shown
    <3>4. CASE e.kind \in OfLife
      <4>1. app'.phase = app.phase /\ app'.sess = app.sess
        BY <1>1, <2>1, <3>4 DEF Show, ShowMove, OfLife
      <4> QED
        BY <3>4, <4>1 DEF Tells, OfLife, Shown
    <3> QED
      BY <2>2, <3>1, <3>2, <3>3, <3>4 DEF Events, OfLife
  <2>4. WillShow(evts, Shown, Outlook)
    BY <2>1 DEF AppAhead
  <2>5. WillShow(Tail(evts), IF Tells(e) THEN ToldBy(e) ELSE Shown, Outlook)
    BY <1>1, <2>1, <2>4, ShowTail
  <2>6. WillShow(evts', Shown', Outlook')
    BY <1>2, <2>1, <2>3, <2>5
  <2> QED
    BY <2>6 DEF AppAhead
<1> QED
  BY <1>3, <1>4, <1>5, <1>6 DEF AppStep

(* A new session begins only while the client waits for it to enter. *)
LEMMA SessionKept ==
  ASSUME TypeOK, Handshake, External
  PROVE  srv'.sess = srv.sess \/ rt.phase = "enter" \/ srv' = srv
<1>1. srv \in Gates /\ up \in Seq(ToGate)
  BY DEF TypeOK, Gates
<1>2. CASE ServeTcp
  <2>1. Head(up) \in ToGate /\ OnTcp(Head(up)) /\ Len(up) \in Nat \ {0} /\ Head(up) = up[1]
    BY <1>1, <1>2, QueueFacts DEF ServeTcp
  <2>2. CASE Head(up).kind = "enter"
    <3>1. 1 \in 1..Len(up)
      BY <2>1
    <3>2. rt.phase # "auth" /\ rt.phase # "scene"
      BY <2>1, <2>2, <3>1 DEF Handshake, InAuth, InScene, Kinded
    <3> QED
      BY <3>2 DEF TypeOK, Runtimes
  <2>3. CASE Head(up).kind = "ticket"
    BY <1>1, <2>1, <2>3 DEF OnTcp, Gates
  <2>4. CASE Head(up).kind \notin {"enter", "ticket"}
    BY <2>1, <2>4 DEF OnTcp
  <2> QED
    BY <2>2, <2>3, <2>4
<1>3. CASE \E d \in dgrams : ServeDatagram(d) \/ LoseDatagram(d)
  BY <1>1, <1>3 DEF ServeDatagram, LoseDatagram, Gates
<1>4. CASE Appear \/ Leave \/ MoveActor
  BY <1>1, <1>4 DEF Appear, Leave, MoveActor, Gates
<1>5. CASE Expire
  BY <1>5 DEF Expire
<1> QED
  BY <1>2, <1>3, <1>4, <1>5 DEF External

(* The app learns of everything that happens to the session. *)
LEMMA AheadStep ==
  ASSUME TypeOK, AppStarts, Unused, Handshake, AppAhead, QuitIsClosed, [Next]_vars
  PROVE  AppAhead'
<1>1. CASE SessionStep
  BY <1>1, SessionSteps, AheadSession
<1>2. CASE ThreadStep
  BY <1>2, AheadThread
<1>3. CASE AppStep
  BY <1>3, AheadApp
<1>4. CASE External
  <2>1. UNCHANGED <<thread, attempt, rt, evts, app>>
    BY <1>4 DEF External, ServeTcp, Appear, Leave, MoveActor, Expire, ServeDatagram, LoseDatagram, Client
  <2>2. rt.phase = "scene" => srv'.sess = srv.sess
    BY <1>4, SessionKept
  <2>3. Outlook' = Outlook
    BY <2>1, <2>2 DEF Outlook, InSession
  <2> QED
    BY <2>1, <2>3 DEF AppAhead, Shown
<1>5. CASE UNCHANGED vars
  BY <1>5 DEF vars, AppAhead, Shown, Outlook, InSession
<1> QED
  BY <1>1, <1>2, <1>3, <1>4, <1>5, Steps

(* The phase the app shows is the thread's once the events have been taken. *)
LEMMA Follows == AppAhead => AppFollows
<1> SUFFICES ASSUME AppAhead, evts = << >>, app.phase # "closed"
             PROVE  CASE thread = "none" -> app.phase = "login"
                      [] thread = "stopped" -> app.phase = "failed"
                      [] InSession /\ rt.phase = "scene" -> app.phase = "scene" /\ app.sess = srv.sess
                      [] thread \in {"backoff", "login"} -> app.phase = "reconnecting"
                      [] OTHER -> app.phase \in {"connecting", "reconnecting"}
  BY DEF AppFollows
<1>1. Shown \in Outlook
  BY DEF AppAhead, WillShow
<1>2. CASE thread = "none"
  BY <1>1, <1>2, Outlooks DEF Shown, InSession
<1>3. CASE thread = "stopped"
  BY <1>1, <1>3, Outlooks DEF Shown, InSession
<1>4. CASE InSession /\ rt.phase = "scene"
  <2>1. Shown = [phase |-> "scene", sess |-> srv.sess]
    BY <1>1, <1>4, Outlooks
  <2>2. app.phase = "scene"
    BY <2>1 DEF Shown
  <2>3. app.sess = srv.sess
    BY <2>1, <2>2 DEF Shown
  <2> QED
    BY <1>4, <2>2, <2>3 DEF InSession
<1>5. CASE thread \in {"backoff", "login"}
  <2>1. Shown = [phase |-> "reconnecting", sess |-> 0]
    BY <1>1, <1>5, Outlooks
  <2> QED
    BY <1>5, <2>1 DEF Shown, InSession
<1>6. CASE thread \notin {"none", "stopped", "backoff", "login"} /\ ~(InSession /\ rt.phase = "scene")
  <2>1. Outlook = {[phase |-> p, sess |-> 0] : p \in {"reconnecting"} \cup
                      (IF attempt > 0 THEN {} ELSE {"connecting"})}
    BY <1>6 DEF Outlook
  <2>2. PICK p \in {"reconnecting", "connecting"} : Shown = [phase |-> p, sess |-> 0]
    BY <1>1, <2>1
  <2>3. app.phase \in {"connecting", "reconnecting"}
    BY <2>2 DEF Shown
  <2> QED
    BY <1>6, <2>3
<1> QED
  BY <1>2, <1>3, <1>4, <1>5, <1>6

-----------------------------------------------------------------------------
(* Commands. *)

(* A closed app has told the thread to stop. *)
LEMMA QuitStep ==
  ASSUME TypeOK, AppStarts, Handshake, QuitIsClosed, [Next]_vars
  PROVE  QuitIsClosed'
<1>1. /\ cmds \in Seq(Commands) /\ evts \in Seq(Events) /\ DOMAIN cmds = 1..Len(cmds)
      /\ app \in [phase : {"login", "connecting", "scene", "reconnecting", "failed", "closed"},
                  sess : Nat, tick : Nat \cup {-1}, rewound : BOOLEAN]
  BY DEF TypeOK
<1>2. Quits(cmds) <=> \E i \in 1..Len(cmds) : cmds[i].kind = "quit"
  BY <1>1 DEF Quits
<1>3. cmds' = << >> /\ (app'.phase = "closed" => thread' = "stopped") => QuitIsClosed'
  BY DEF QuitIsClosed
<1>4. app' = app /\ cmds' = cmds /\ (thread = "stopped" => thread' = "stopped") => QuitIsClosed'
  BY DEF QuitIsClosed, Quits
<1>5. ASSUME CommandTaken, app' = app, thread # "stopped" PROVE QuitIsClosed'
  <2>1. /\ Len(cmds) \in Nat \ {0} /\ Head(cmds) = cmds[1] /\ Len(cmds') = Len(cmds) - 1
        /\ \A i \in 1..Len(cmds') : cmds'[i] = cmds[i + 1]
        /\ DOMAIN cmds' = 1..Len(cmds') /\ Head(cmds).kind # "quit"
    BY <1>1, <1>5, QueueFacts DEF CommandTaken
  <2>2. \A i \in 1..Len(cmds') : i + 1 \in 1..Len(cmds)
    BY <2>1
  <2>3. \A i \in 1..Len(cmds') : cmds'[i].kind = "quit" => app'.phase = "closed"
    BY <1>5, <2>1, <2>2 DEF QuitIsClosed
  <2>4. ASSUME app'.phase = "closed" PROVE Quits(cmds')
    <3>1. PICK i \in 1..Len(cmds) : cmds[i].kind = "quit"
      BY <1>2, <1>5, <2>4 DEF QuitIsClosed
    <3>2. i - 1 \in 1..Len(cmds') /\ (i - 1) + 1 = i
      BY <2>1, <3>1
    <3>3. cmds'[i - 1].kind = "quit"
      BY <2>1, <3>1, <3>2
    <3> QED
      BY <2>1, <3>2, <3>3 DEF Quits
  <2>5. Quits(cmds)' <=> Quits(cmds')
    BY DEF Quits
  <2> QED
    BY <2>3, <2>4, <2>5 DEF QuitIsClosed
<1>6. CASE SessionStep
  <2>1. InSession /\ SessionTurn /\ thread # "stopped"
    BY <1>6, SessionSteps DEF InSession
  <2>2. Ending \/ Seen => app' = app
    BY DEF Ending, Ends, Seen, Kept
  <2>3. CASE Stops
    BY <1>3, <2>3 DEF Stops
  <2>4. CASE (cmds' = cmds \/ CommandTaken) /\ app' = app
    BY <1>4, <1>5, <2>1, <2>4
  <2> QED
    BY <2>1, <2>2, <2>3, <2>4, SeenSession
<1>7. CASE ThreadStep
  <2>1. app' = app /\ thread # "stopped"
    BY <1>7 DEF ThreadStep, RefuseEmptyToken, StartSession, BackOff, LogInAgain
  <2>2. CASE cmds' = cmds
    BY <1>4, <2>1, <2>2
  <2>3. CASE Stops
    BY <1>3, <2>3 DEF Stops
  <2>4. CASE ~Quits(cmds) /\ cmds' = << >>
    <3>1. app.phase # "closed"
      BY <2>1, <2>4 DEF QuitIsClosed
    <3> QED
      BY <1>3, <2>1, <2>4, <3>1
  <2> QED
    BY <1>7, <2>2, <2>3, <2>4 DEF ThreadStep, RefuseEmptyToken, StartSession, BackOff, LogInAgain,
                                  DiscardWaiting
<1>8. CASE AppStep
  <2>1. CASE Submit \/ AuthWorker
    BY <1>4, <2>1 DEF Submit, AuthWorker
  <2>2. CASE PollAuth \/ Poll
    <3>1. app.phase # "closed" /\ cmds' = cmds
      BY <2>2 DEF PollAuth, Poll
    <3>2. app'.phase # "closed"
      <4>1. CASE PollAuth
        BY <1>1, <4>1 DEF PollAuth
      <4>2. CASE Poll
        <5>1. Head(evts) \in Events /\ app' = Show(app, Head(evts))
          BY <1>1, <4>2, QueueFacts DEF Poll
        <5> QED
          BY <1>1, <3>1, <5>1 DEF Show, ShowMove, Events
      <4> QED
        BY <2>2, <4>1, <4>2
    <3> QED
      BY <3>1, <3>2 DEF QuitIsClosed
  <2>3. CASE Command \/ Quit
    <3>1. PICK c \in Commands : cmds' = Append(cmds, c) /\ (c.kind = "quit" <=> Quit)
      <4>1. CASE Quit
        BY <4>1 DEF Quit, Commands
      <4>2. CASE Command
        <5>1. [kind |-> "say", sess |-> app.sess] \in Commands /\ [kind |-> "input"] \in Commands
          BY <1>1 DEF Commands
        <5>2. app.phase = "scene" /\ app' = app
          BY <4>2 DEF Command
        <5>3. ~Quit
          BY <1>1, <5>2 DEF Quit
        <5>4. PICK c \in {[kind |-> "say", sess |-> app.sess], [kind |-> "input"]} :
                cmds' = Append(cmds, c)
          BY <4>2 DEF Command
        <5> QED
          BY <5>1, <5>3, <5>4
      <4> QED
        BY <2>3, <4>1, <4>2
    <3>2. /\ Len(cmds') = Len(cmds) + 1 /\ Len(cmds) \in Nat /\ cmds'[Len(cmds) + 1] = c
          /\ \A i \in 1..Len(cmds) : cmds'[i] = cmds[i]
      BY <1>1, <3>1, AppendFacts
    <3>3. \A i \in 1..Len(cmds') : i \in 1..Len(cmds) \/ i = Len(cmds) + 1
      BY <3>2
    <3>4. CASE Quit
      <4>1. app'.phase = "closed" /\ Len(cmds) + 1 \in DOMAIN cmds'
        <5>1. cmds' \in Seq(Commands) /\ DOMAIN cmds' = 1..Len(cmds')
          BY <1>1, <3>1, AppendFacts
        <5>2. app'.phase = "closed"
          BY <1>1, <3>4 DEF Quit
        <5> QED
          BY <3>2, <5>1, <5>2
      <4>2. cmds'[Len(cmds) + 1].kind = "quit"
        BY <3>1, <3>2, <3>4
      <4>3. Quits(cmds)'
        BY <4>1, <4>2 DEF Quits
      <4> QED
        BY <4>1, <4>3 DEF QuitIsClosed
    <3>5. CASE ~Quit
      <4>1. app.phase = "scene" /\ app' = app
        BY <2>3, <3>5 DEF Command
      <4>2. \A i \in 1..Len(cmds) : cmds[i].kind # "quit"
        BY <4>1 DEF QuitIsClosed
      <4>3. \A i \in 1..Len(cmds') : cmds'[i].kind # "quit"
        BY <3>1, <3>2, <3>3, <3>5, <4>2
      <4> QED
        BY <4>1, <4>3 DEF QuitIsClosed
    <3> QED
      BY <3>4, <3>5
  <2> QED
    BY <1>8, <2>1, <2>2, <2>3 DEF AppStep
<1>9. CASE External
  BY <1>4, <1>9 DEF External, ServeTcp, Appear, Leave, MoveActor, Expire, ServeDatagram,
                    LoseDatagram, Client
<1>10. CASE UNCHANGED vars
  BY <1>4, <1>10 DEF vars
<1> QED
  BY <1>6, <1>7, <1>8, <1>9, <1>10, Steps

(* The entries of one kind are of the session x, and there are none unless j. *)
OfOne(q, K, j, x) == \A i \in 1..Len(q) : q[i].kind = K => j /\ q[i].sess = x

(* One more of them, or one less. *)
LEMMA OneAfter ==
  ASSUME NEW S, NEW q \in Seq(S), NEW K, NEW j, NEW x
  PROVE  /\ \A e \in S : OfOne(q, K, j, x) /\ (e.kind = K => j /\ e.sess = x)
              => OfOne(Append(q, e), K, j, x)
         /\ q # << >> /\ OfOne(q, K, j, x)
              => OfOne(Tail(q), K, j, x) /\ (Head(q).kind = K => j /\ Head(q).sess = x)
         /\ OfOne(<< >>, K, j, x)
<1>1. ASSUME NEW e \in S, OfOne(q, K, j, x), e.kind = K => j /\ e.sess = x
      PROVE  OfOne(Append(q, e), K, j, x)
  <2>1. /\ Len(Append(q, e)) = Len(q) + 1 /\ Len(q) \in Nat /\ Append(q, e)[Len(q) + 1] = e
        /\ \A i \in 1..Len(q) : Append(q, e)[i] = q[i]
    BY AppendFacts
  <2>2. \A i \in 1..Len(Append(q, e)) : i \in 1..Len(q) \/ i = Len(q) + 1
    BY <2>1
  <2> QED
    BY <1>1, <2>1, <2>2 DEF OfOne
<1>2. ASSUME q # << >>, OfOne(q, K, j, x)
      PROVE  OfOne(Tail(q), K, j, x) /\ (Head(q).kind = K => j /\ Head(q).sess = x)
  <2>1. /\ Len(q) \in Nat \ {0} /\ Head(q) = q[1] /\ Len(Tail(q)) = Len(q) - 1
        /\ \A i \in 1..Len(Tail(q)) : Tail(q)[i] = q[i + 1]
    BY <1>2, QueueFacts
  <2>2. 1 \in 1..Len(q) /\ \A i \in 1..Len(Tail(q)) : i + 1 \in 1..Len(q)
    BY <2>1
  <2> QED
    BY <1>2, <2>1, <2>2 DEF OfOne
<1> QED
  BY <1>1, <1>2 DEF OfOne

(* The scene the app is in, or will be, and its commands, by session. *)
Fits(j, x) ==
  /\ app.phase = "scene" => j /\ app.sess = x
  /\ OfOne(evts, "entered", j, x) /\ OfOne(cmds, "say", j, x)

(* A step of the session. *)
LEMMA FitsSession ==
  ASSUME TypeOK, Handshake, CommandsFit, InSession, SessionTurn
  PROVE  CommandsFit'
<1>1. /\ cmds \in Seq(Commands) /\ evts \in Seq(Events) /\ joined \in BOOLEAN /\ srv.sess \in Nat
  BY DEF TypeOK
<1>2. CommandsFit' <=> (Fresh' => Fits(joined, srv.sess)')
  BY DEF CommandsFit, Fits, OfOne
<1>3. Fits(joined, srv.sess)
  BY DEF CommandsFit, Fits, OfOne, Fresh, InSession
<1>4. Stops \/ Ending => ~Fresh'
  BY DEF Stops, Ending, Ends, EndSession, Fresh
<1>5. ASSUME cmds' = cmds \/ CommandTaken, Seen PROVE Fits(joined, srv.sess)'
  <2>1. (joined => joined') /\ srv' = srv /\ app' = app
    BY <1>5 DEF Seen, Kept, Steady, LetIn, Arrival, Passed
  <2>2. OfOne(evts, "entered", joined', srv.sess) /\ OfOne(cmds, "say", joined', srv.sess)
    BY <1>3, <2>1 DEF Fits, OfOne
  <2>3. OfOne(cmds', "say", joined', srv.sess)
    <3>1. CASE cmds' = cmds
      BY <2>2, <3>1
    <3>2. CASE CommandTaken
      <4>1. cmds # << >> /\ cmds' = Tail(cmds)
        BY <3>2 DEF CommandTaken
      <4>2. OfOne(Tail(cmds), "say", joined', srv.sess)
        BY <1>1, <2>2, <4>1, OneAfter
      <4> QED
        BY <4>1, <4>2
    <3> QED
      BY <1>5, <3>1, <3>2
  <2>4. CASE evts' = evts
    BY <1>3, <2>1, <2>2, <2>3, <2>4 DEF Fits, OfOne
  <2>5. ASSUME NEW e \in Events, evts' = Append(evts, e), e.kind = "entered" => joined' /\ e.sess = srv.sess
        PROVE  Fits(joined, srv.sess)'
    <3>1. OfOne(evts', "entered", joined', srv.sess)
      BY <1>1, <2>2, <2>5, OneAfter
    <3> QED
      BY <1>3, <2>1, <2>3, <3>1 DEF Fits, OfOne
  <2>6. CASE Arrival
    <3> DEFINE e == [kind |-> "entered", sess |-> srv.sess]
    <3>1. e \in Events /\ e.sess = srv.sess
      BY <1>1 DEF Events
    <3>2. evts' = Append(evts, e) /\ joined'
      BY <2>6 DEF Arrival
    <3> HIDE DEF e
    <3> QED
      BY <2>5, <3>1, <3>2
  <2>7. ASSUME NEW m \in Events, Passed(m) PROVE Fits(joined, srv.sess)'
    <3>1. evts' = Append(evts, m) /\ m.kind # "entered"
      BY <2>7 DEF Passed, OfLife
    <3> QED
      BY <2>5, <3>1
  <2> QED
    BY <1>5, <2>4, <2>6, <2>7 DEF Seen, Steady, LetIn
<1> QED
  BY <1>2, <1>4, <1>5, SeenSession

(* A step of the thread outside a session.  When the backoff ends the app has   *)
(* taken the end of the session, and what it said before is discarded.          *)
LEMMA FitsThread ==
  ASSUME TypeOK, AppAhead, QuitIsClosed, CommandsFit, ThreadStep
  PROVE  CommandsFit'
<1>1. /\ cmds \in Seq(Commands) /\ evts \in Seq(Events)
  BY DEF TypeOK
<1>2. CommandsFit' <=> (Fresh' => Fits(joined, srv.sess)')
  BY DEF CommandsFit, Fits, OfOne
<1>3. Fresh => Fits(joined, srv.sess)
  BY DEF CommandsFit, Fits, OfOne
<1>4. Stops \/ EndSession(FALSE) \/ RefuseEmptyToken => ~Fresh'
  BY DEF Stops, EndSession, RefuseEmptyToken, Fresh
<1>5. OfOne(<< >>, "say", joined, srv.sess)
  BY <1>1, OneAfter
<1>6. CASE StartSession /\ cmds' = << >> /\ UNCHANGED <<joined, evts, srv, app>>
  BY <1>2, <1>3, <1>5, <1>6 DEF StartSession, Fits, OfOne, Fresh
<1>7. CASE LogInAgain
  BY <1>2, <1>3, <1>7 DEF LogInAgain, Fits, OfOne, Fresh
<1>8. CASE BackOff /\ ~Quits(cmds)
  <2> DEFINE e == [kind |-> "reconnecting"]
  <2>1. /\ thread = "backoff" /\ cmds' = << >> /\ evts' = Append(evts, e) /\ app' = app
        /\ joined' = joined /\ srv' = srv /\ (evts = << >> \/ app.phase = "closed")
    BY <1>8 DEF BackOff, DiscardWaiting
  <2>2. app.phase # "closed"
    BY <1>8, <2>1 DEF QuitIsClosed
  <2>3. evts = << >> /\ Len(evts) = 0
    BY <2>1, <2>2
  <2>4. Shown \in Outlook
    BY <2>2, <2>3 DEF AppAhead, WillShow
  <2>5. Shown = [phase |-> "reconnecting", sess |-> 0]
    BY <2>1, <2>4, Outlooks
  <2>6. app.phase = "reconnecting"
    BY <2>5 DEF Shown
  <2>7. e \in Events /\ e.kind # "entered"
    BY DEF Events
  <2>8. OfOne(evts, "entered", joined, srv.sess)
    BY <2>3 DEF OfOne
  <2> HIDE DEF e
  <2>9. OfOne(Append(evts, e), "entered", joined, srv.sess)
    BY <1>1, <2>7, <2>8, OneAfter
  <2> QED
    BY <1>2, <1>5, <2>1, <2>6, <2>9 DEF Fits, OfOne
<1> QED
  BY <1>4, <1>2, <1>6, <1>7, <1>8 DEF ThreadStep, StartSession, BackOff, DiscardWaiting

(* A step of the app. *)
LEMMA FitsApp ==
  ASSUME TypeOK, AppStarts, CommandsFit, AppStep
  PROVE  CommandsFit'
<1>1. /\ cmds \in Seq(Commands) /\ evts \in Seq(Events) /\ srv.sess \in Nat
      /\ app \in [phase : {"login", "connecting", "scene", "reconnecting", "failed", "closed"},
                  sess : Nat, tick : Nat \cup {-1}, rewound : BOOLEAN]
  BY DEF TypeOK
<1>2. CommandsFit' <=> (Fresh' => Fits(joined, srv.sess)')
  BY DEF CommandsFit, Fits, OfOne
<1>3. Fresh => Fits(joined, srv.sess)
  BY DEF CommandsFit, Fits, OfOne
<1>4. UNCHANGED <<joined, srv>> /\ (Fresh' => Fresh)
  <2>1. PollAuth => thread = "none"
    BY DEF PollAuth, AppStarts
  <2> QED
    BY <2>1 DEF AppStep, Submit, AuthWorker, PollAuth, Poll, Command, Quit, Fresh
<1>5. CASE Submit \/ AuthWorker
  BY <1>2, <1>3, <1>4, <1>5 DEF Submit, AuthWorker, Fits, OfOne
<1>6. CASE PollAuth
  BY <1>1, <1>2, <1>3, <1>4, <1>6 DEF PollAuth, Fits, OfOne, Fresh
<1>7. CASE Quit
  <2> DEFINE c == [kind |-> "quit"]
  <2>1. c \in Commands /\ c.kind # "say"
    BY DEF Commands
  <2>2. cmds' = Append(cmds, c) /\ app'.phase = "closed" /\ evts' = evts
    BY <1>1, <1>7 DEF Quit
  <2> HIDE DEF c
  <2>3. Fresh => OfOne(Append(cmds, c), "say", joined, srv.sess)
    BY <1>1, <1>3, <2>1, OneAfter DEF Fits
  <2> QED
    BY <1>2, <1>3, <1>4, <2>2, <2>3 DEF Fits, OfOne
<1>8. CASE Command
  <2>1. app.phase = "scene" /\ app' = app /\ evts' = evts
    BY <1>8 DEF Command
  <2>2. [kind |-> "say", sess |-> app.sess] \in Commands /\ [kind |-> "input"] \in Commands
    BY <1>1 DEF Commands
  <2>3. PICK c \in Commands : cmds' = Append(cmds, c) /\ (c.kind = "say" => c.sess = app.sess)
    BY <1>8, <2>2 DEF Command
  <2>4. Fresh => OfOne(Append(cmds, c), "say", joined, srv.sess)
    BY <1>1, <1>3, <2>1, <2>3, OneAfter DEF Fits
  <2> QED
    BY <1>2, <1>3, <1>4, <2>1, <2>3, <2>4 DEF Fits, OfOne
<1>9. CASE Poll
  <2>1. evts # << >> /\ app' = Show(app, Head(evts)) /\ evts' = Tail(evts) /\ cmds' = cmds
    BY <1>9 DEF Poll
  <2>2. Head(evts) \in Events
    BY <1>1, <2>1, QueueFacts
  <2>3. Fresh => /\ OfOne(Tail(evts), "entered", joined, srv.sess)
                 /\ Head(evts).kind = "entered" => joined /\ Head(evts).sess = srv.sess
    BY <1>1, <1>3, <2>1, OneAfter DEF Fits
  <2>4. Fresh => (app'.phase = "scene" => joined /\ app'.sess = srv.sess)
    <3>1. CASE Head(evts).kind = "entered"
      BY <1>1, <2>1, <2>3, <3>1 DEF Show
    <3>2. CASE Head(evts).kind \in OfLife
      BY <1>1, <1>3, <2>1, <3>2 DEF Show, ShowMove, OfLife, Fits
    <3>3. CASE Head(evts).kind \in {"disconnected", "reconnecting", "gave_up"}
      BY <1>1, <2>1, <3>3 DEF Show
    <3> QED
      BY <2>2, <3>1, <3>2, <3>3 DEF Events, OfLife
  <2> QED
    BY <1>2, <1>3, <1>4, <2>1, <2>3, <2>4 DEF Fits, OfOne
<1> QED
  BY <1>5, <1>6, <1>7, <1>8, <1>9 DEF AppStep

(* What the app says is meant for the session it is in. *)
LEMMA FitsStep ==
  ASSUME TypeOK, AppStarts, Handshake, AppAhead, QuitIsClosed, CommandsFit, [Next]_vars
  PROVE  CommandsFit'
<1>1. CASE SessionStep
  BY <1>1, SessionSteps, FitsSession
<1>2. CASE ThreadStep
  BY <1>2, FitsThread
<1>3. CASE AppStep
  BY <1>3, FitsApp
<1>4. CASE External
  <2>1. UNCHANGED <<thread, joined, cmds, evts, app>>
    BY <1>4 DEF External, ServeTcp, Appear, Leave, MoveActor, Expire, ServeDatagram, LoseDatagram, Client
  <2>2. joined => srv'.sess = srv.sess
    BY <1>4, SessionKept DEF Handshake
  <2> QED
    BY <2>1, <2>2 DEF CommandsFit, Fresh
<1>5. CASE UNCHANGED vars
  BY <1>5 DEF vars, CommandsFit, Fresh
<1> QED
  BY <1>1, <1>2, <1>3, <1>4, <1>5, Steps

-----------------------------------------------------------------------------
(* Tickets. *)

(* The tickets in a queue after one more, or one less. *)
LEMMA TicketsAfter ==
  ASSUME NEW S, NEW q \in Seq(S)
  PROVE  /\ \A e \in S : e.kind # "ticket" =>
              Tickets(Append(q, e)) = Tickets(q) /\ (Rise(q) => Rise(Append(q, e)))
         /\ \A e \in S : e.kind = "ticket" =>
              /\ Tickets(Append(q, e)) = Tickets(q) \cup {e}
              /\ Rise(q) /\ (\A t \in Tickets(q) : t.id < e.id) => Rise(Append(q, e))
         /\ q # << >> =>
              /\ Tickets(Tail(q)) \subseteq Tickets(q)
              /\ \A t \in Tickets(q) : t \in Tickets(Tail(q)) \/ t = Head(q)
              /\ Head(q).kind = "ticket" => Head(q) \in Tickets(q)
              /\ Rise(q) => Rise(Tail(q))
              /\ Rise(q) /\ Head(q).kind = "ticket" => \A t \in Tickets(Tail(q)) : Head(q).id < t.id
<1>1. ASSUME NEW e \in S
      PROVE  /\ e.kind # "ticket" =>
                  Tickets(Append(q, e)) = Tickets(q) /\ (Rise(q) => Rise(Append(q, e)))
             /\ e.kind = "ticket" =>
                  /\ Tickets(Append(q, e)) = Tickets(q) \cup {e}
                  /\ Rise(q) /\ (\A t \in Tickets(q) : t.id < e.id) => Rise(Append(q, e))
  <2> DEFINE r == Append(q, e)
  <2>1. /\ Len(r) = Len(q) + 1 /\ Len(q) \in Nat /\ r[Len(q) + 1] = e
        /\ \A i \in 1..Len(q) : r[i] = q[i]
    BY AppendFacts
  <2> HIDE DEF r
  <2>2. /\ \A i \in 1..Len(r) : i \in 1..Len(q) \/ i = Len(q) + 1
        /\ \A i \in 1..Len(q) : i \in 1..Len(r) /\ i < Len(q) + 1
        /\ Len(q) + 1 \in 1..Len(r)
    BY <2>1
  <2>3. \A x : x \in Tickets(r) <=> x \in Tickets(q) \/ (x = e /\ e.kind = "ticket")
    BY <2>1, <2>2 DEF Tickets
  <2>4. e.kind # "ticket" => Tickets(r) = Tickets(q)
    BY <2>3
  <2>5. e.kind = "ticket" => Tickets(r) = Tickets(q) \cup {e}
    BY <2>3
  <2>6. ASSUME Rise(q), e.kind = "ticket" => \A t \in Tickets(q) : t.id < e.id PROVE Rise(r)
    <3> SUFFICES ASSUME NEW i \in 1..Len(r), NEW j \in 1..Len(r), i < j,
                        r[i].kind = "ticket", r[j].kind = "ticket"
                 PROVE  r[i].id < r[j].id
      BY DEF Rise
    <3>1. i \in 1..Len(q) /\ r[i] = q[i] /\ q[i] \in Tickets(q)
      BY <2>1, <2>2 DEF Tickets
    <3>2. CASE j \in 1..Len(q)
      BY <2>1, <2>6, <3>1, <3>2 DEF Rise
    <3>3. CASE j = Len(q) + 1
      BY <2>1, <2>6, <3>1, <3>3
    <3> QED
      BY <2>2, <3>2, <3>3
  <2> QED
    BY <2>4, <2>5, <2>6 DEF r
<1>2. ASSUME q # << >>
      PROVE  /\ Tickets(Tail(q)) \subseteq Tickets(q)
             /\ \A t \in Tickets(q) : t \in Tickets(Tail(q)) \/ t = Head(q)
             /\ Head(q).kind = "ticket" => Head(q) \in Tickets(q)
             /\ Rise(q) => Rise(Tail(q))
             /\ Rise(q) /\ Head(q).kind = "ticket" => \A t \in Tickets(Tail(q)) : Head(q).id < t.id
  <2> DEFINE r == Tail(q)
  <2>1. /\ Len(q) \in Nat \ {0} /\ Head(q) = q[1] /\ Len(r) = Len(q) - 1
        /\ \A i \in 1..Len(r) : r[i] = q[i + 1]
    BY <1>2, QueueFacts
  <2> HIDE DEF r
  <2>2. /\ 1 \in 1..Len(q)
        /\ \A i \in 1..Len(r) : i + 1 \in 1..Len(q) /\ 1 < i + 1
    BY <2>1
  <2>3. \A j \in 1..Len(q) : j = 1 \/ (j - 1 \in 1..Len(r) /\ r[j - 1] = q[j])
    <3> TAKE j \in 1..Len(q)
    <3>1. j # 1 => j - 1 \in 1..Len(r) /\ (j - 1) + 1 = j
      BY <2>1
    <3> QED
      BY <2>1, <3>1
  <2>4. Tickets(r) \subseteq Tickets(q)
    BY <2>1, <2>2 DEF Tickets
  <2>5. \A t \in Tickets(q) : t \in Tickets(r) \/ t = Head(q)
    BY <2>1, <2>3 DEF Tickets
  <2>6. Head(q).kind = "ticket" => Head(q) \in Tickets(q)
    BY <2>1, <2>2 DEF Tickets
  <2>7. ASSUME Rise(q) PROVE Rise(r)
    <3> SUFFICES ASSUME NEW i \in 1..Len(r), NEW j \in 1..Len(r), i < j,
                        r[i].kind = "ticket", r[j].kind = "ticket"
                 PROVE  r[i].id < r[j].id
      BY DEF Rise
    <3>1. i + 1 < j + 1
      BY <2>1
    <3> QED
      BY <2>1, <2>2, <2>7, <3>1 DEF Rise
  <2>8. ASSUME Rise(q), Head(q).kind = "ticket", NEW t \in Tickets(r) PROVE Head(q).id < t.id
    <3>1. PICK i \in 1..Len(r) : t = r[i] /\ r[i].kind = "ticket"
      BY DEF Tickets
    <3> QED
      BY <2>1, <2>2, <2>8, <3>1 DEF Rise
  <2> QED
    BY <2>4, <2>5, <2>6, <2>7, <2>8 DEF r
<1> QED
  BY <1>1, <1>2

(* A queue without tickets. *)
LEMMA NoTickets ==
  ASSUME NEW q, NEW K, Kinded(q, K), "ticket" \notin K
  PROVE  Tickets(q) = {} /\ Rise(q)
BY DEF Kinded, Tickets, Rise

(* The types of tickets and attaches. *)
LEMMA TicketTypes ==
  ASSUME TypeOK
  PROVE  /\ \A t \in Tickets(up) : t.id \in Nat
         /\ \A m \in Tickets(down) : m.id \in Nat /\ m.ok \in BOOLEAN
         /\ \A d \in dgrams : d.kind \in {"attach", "attached"} => d.id \in Nat
         /\ \A d \in dgrams : d.kind = "attach" => d.ticket \in Nat
         /\ rt.next \in Nat /\ rt.lane \in Lanes /\ srv.ticket \in Nat
         /\ rt.lane.boot \in Nat /\ rt.lane.attach \in Nat
<1>1. \A t \in Tickets(up) : t.id \in Nat
  <2>1. \A i \in 1..Len(up) : up[i] \in ToGate
    BY DEF TypeOK
  <2>2. \A t \in ToGate : t.kind = "ticket" => t.id \in Nat
    BY DEF ToGate
  <2> QED
    BY <2>1, <2>2 DEF Tickets
<1>2. \A m \in Tickets(down) : m.id \in Nat /\ m.ok \in BOOLEAN
  <2>1. \A i \in 1..Len(down) : down[i] \in FromGate
    BY DEF TypeOK
  <2>2. \A m \in FromGate : m.kind = "ticket" => m.id \in Nat /\ m.ok \in BOOLEAN
    BY DEF FromGate
  <2> QED
    BY <2>1, <2>2 DEF Tickets
<1>3. \A d \in Datagrams : /\ d.kind \in {"attach", "attached"} => d.id \in Nat
                           /\ d.kind = "attach" => d.ticket \in Nat
  BY DEF Datagrams
<1>4. dgrams \subseteq Datagrams
  BY DEF TypeOK
<1>5. rt.next \in Nat /\ rt.lane \in Lanes /\ srv.ticket \in Nat
  BY Typed
<1>6. rt.lane.boot \in Nat /\ rt.lane.attach \in Nat
  BY <1>5 DEF Lanes
<1> QED
  BY <1>1, <1>2, <1>3, <1>4, <1>5, <1>6

(* What a turn of the session comes to for its lane. *)
Watched == {"attach", "attached"}
NothingNew ==
  /\ srv' = srv /\ rt'.next \in Nat /\ rt.next <= rt'.next
  /\ Tickets(down') \subseteq Tickets(down)
  /\ \A d \in dgrams' : d.kind \in Watched => d \in dgrams
NoneAsked == Tickets(up') = Tickets(up) /\ (Rise(up) => Rise(up'))
GoesOn ==
  /\ rt.phase = "scene" /\ rt'.lane = rt.lane /\ udp' = udp /\ NothingNew /\ NoneAsked
  /\ \A m \in Tickets(down) : m \in Tickets(down') \/ m.id # rt.lane.boot
  /\ \A d \in dgrams : d.kind \in Watched => d \in dgrams' \/ d.id # rt.lane.attach
GoesDown ==
  /\ rt'.lane \in LanesDown /\ NothingNew /\ NoneAsked
  /\ rt'.lane.timer = "none" => srv.noTicket /\ Tickets(up) = {}
AsksAnew ==
  /\ NothingNew /\ rt'.next = rt.next + 1
  /\ rt'.lane.boot = rt.next /\ rt'.lane.attach = 0 /\ ~rt'.lane.attached
  /\ LET t == [kind |-> "ticket", id |-> rt.next] IN
       /\ Tickets(up') = Tickets(up) \cup {t}
       /\ Rise(up) /\ (\A s \in Tickets(up) : s.id < t.id) => Rise(up')
AttachesWith(m) ==
  /\ m \in Tickets(down) /\ m.ok /\ m.id = rt.lane.boot
  /\ rt'.lane.boot = 0 /\ rt'.lane.attach = rt.next /\ ~rt'.lane.attached
  /\ srv' = srv /\ rt'.next = rt.next + 1 /\ udp' = rt.next /\ NoneAsked
  /\ Tickets(down') \subseteq Tickets(down)
  /\ LET a == [kind |-> "attach", id |-> rt.next, ticket |-> m.id] IN
       a \in dgrams' /\ \A d \in dgrams' : d.kind \in Watched => d \in dgrams \/ d = a
IsUp(m) ==
  /\ m \in dgrams /\ m.kind = "attached" /\ m.ok /\ m.id = rt.lane.attach
  /\ rt'.lane.boot = 0 /\ rt'.lane.attach = 0 /\ rt'.lane.attached
  /\ udp' = udp /\ NothingNew /\ NoneAsked

(* Ids stay in order while nothing but a ticket is asked for. *)
LEMMA OrderKept ==
  ASSUME TypeOK, TicketsInOrder, NothingNew, NoneAsked
  PROVE  TicketsInOrder'
<1>1. \A x \in Nat : x < rt.next => x < rt'.next
  BY TicketTypes DEF NothingNew
<1>2. Rise(up)' /\ Tickets(up)' = Tickets(up) /\ Tickets(down)' = Tickets(down')
  BY DEF TicketsInOrder, NoneAsked, Rise, Tickets
<1>3. srv'.ticket = srv.ticket
  BY DEF NothingNew
<1>4. \A t \in Tickets(up)' : srv'.ticket < t.id /\ t.id < rt'.next
  BY <1>1, <1>2, <1>3, TicketTypes DEF TicketsInOrder
<1>5. \A t \in Tickets(up)', m \in Tickets(down)' : m.id < t.id
  BY <1>2 DEF TicketsInOrder, NothingNew
<1>6. \A m \in Tickets(down)' : 0 < m.id /\ m.id < rt'.next /\ (m.ok => m.id <= srv'.ticket)
  BY <1>1, <1>2, <1>3, TicketTypes DEF TicketsInOrder, NothingNew
<1>7. srv'.ticket < rt'.next /\ 1 < rt'.next
  BY <1>1, <1>3, TicketTypes DEF TicketsInOrder
<1>8. \A d \in dgrams' : /\ d.kind \in {"attach", "attached"} => 0 < d.id /\ d.id < rt'.next
                         /\ d.kind = "attach" => d.ticket < rt'.next
  BY <1>1, TicketTypes DEF TicketsInOrder, NothingNew, Watched
<1> QED
  BY <1>2, <1>4, <1>5, <1>6, <1>7, <1>8 DEF TicketsInOrder

(* The lane stays as it is. *)
LEMMA LaneGoesOn ==
  ASSUME TypeOK, LaneInv, GoesOn
  PROVE  LaneInv'
<1>1. /\ rt'.lane = rt.lane /\ udp' = udp /\ srv' = srv /\ Tickets(up') = Tickets(up)
      /\ Tickets(down') \subseteq Tickets(down)
      /\ \A d \in dgrams' : d.kind \in {"attach", "attached"} => d \in dgrams
      /\ NothingNew /\ NoneAsked /\ rt.phase = "scene"
  BY DEF GoesOn, NothingNew, NoneAsked, Watched
<1>2. Tickets(up)' = Tickets(up') /\ Tickets(down)' = Tickets(down')
  BY DEF Tickets
<1>3. TicketsInOrder'
  BY <1>1, OrderKept DEF LaneInv
<1>4. LaneFits'
  <2>1. \A x \in Nat : x < rt.next => x < rt'.next
    BY <1>1, TicketTypes DEF NothingNew
  <2> QED
    BY <1>1, <2>1, TicketTypes DEF LaneInv, LaneFits
<1>5. BootIsNewest'
  BY <1>1, <1>2 DEF LaneInv, BootIsNewest
<1>6. AttachIsNewest'
  BY <1>1, <1>2 DEF LaneInv, AttachIsNewest
<1>7. LaneWaits'
  <2>1. LaneWaits
    BY DEF LaneInv
  <2>2. rt.lane.boot # 0 => \E m \in Tickets(up') \cup Tickets(down') : m.id = rt.lane.boot
    BY <1>1, <2>1 DEF LaneWaits, GoesOn
  <2>3. rt.lane.attach # 0 =>
          \/ srv.lost
          \/ \E d \in dgrams' : d.kind \in {"attach", "attached"} /\ d.id = rt.lane.attach
    BY <1>1, <2>1 DEF LaneWaits, GoesOn, Watched
  <2> QED
    BY <1>1, <1>2, <2>1, <2>2, <2>3 DEF LaneWaits
<1> QED
  BY <1>3, <1>4, <1>5, <1>6, <1>7 DEF LaneInv

(* The lane goes down. *)
LEMMA LaneGoesDown ==
  ASSUME TypeOK, LaneInv, GoesDown
  PROVE  LaneInv'
<1>1. /\ rt'.lane.boot = 0 /\ rt'.lane.attach = 0 /\ ~rt'.lane.attached /\ srv' = srv
      /\ Tickets(up') = Tickets(up) /\ NothingNew /\ NoneAsked
  BY DEF GoesDown, LanesDown, NothingNew, NoneAsked
<1>2. Tickets(up)' = Tickets(up')
  BY DEF Tickets
<1>3. TicketsInOrder'
  BY <1>1, OrderKept DEF LaneInv
<1>4. 0 < rt'.next
  BY <1>3, <1>1 DEF TicketsInOrder, NothingNew
<1>5. LaneFits' /\ BootIsNewest' /\ AttachIsNewest'
  BY <1>1, <1>4 DEF LaneFits, BootIsNewest, AttachIsNewest
<1>6. LaneWaits'
  BY <1>1, <1>2 DEF LaneWaits, GoesDown
<1> QED
  BY <1>3, <1>5, <1>6 DEF LaneInv

(* The lane asks for a ticket. *)
LEMMA LaneAsks ==
  ASSUME TypeOK, LaneInv, AsksAnew
  PROVE  LaneInv'
<1> DEFINE t == [kind |-> "ticket", id |-> rt.next]
<1>1. /\ srv' = srv /\ rt'.next = rt.next + 1 /\ rt'.lane.boot = rt.next /\ rt'.lane.attach = 0
      /\ ~rt'.lane.attached /\ Tickets(up') = Tickets(up) \cup {t} /\ t.id = rt.next
      /\ Tickets(down') \subseteq Tickets(down)
      /\ \A d \in dgrams' : d.kind \in {"attach", "attached"} => d \in dgrams
  BY DEF AsksAnew, NothingNew, Watched
<1>2. Tickets(up)' = Tickets(up') /\ Tickets(down)' = Tickets(down') /\ Rise(up)' = Rise(up')
  BY DEF Tickets, Rise
<1>3. /\ TicketsInOrder /\ rt.next \in Nat /\ rt.lane.boot \in Nat /\ srv.ticket \in Nat
      /\ \A s \in Tickets(up) : s.id \in Nat
      /\ \A m \in Tickets(down) : m.id \in Nat /\ m.id < rt.next
  BY TicketTypes DEF LaneInv, TicketsInOrder
<1>4. Rise(up)'
  <2>1. \A s \in Tickets(up) : s.id < t.id
    BY <1>1, <1>3 DEF TicketsInOrder
  <2> QED
    BY <1>2, <1>3, <2>1 DEF AsksAnew, TicketsInOrder
<1> HIDE DEF t
<1>5. TicketsInOrder'
  <2>1. \A s \in Tickets(up)' : srv'.ticket < s.id /\ s.id < rt'.next
    BY <1>1, <1>2, <1>3 DEF TicketsInOrder
  <2>2. \A s \in Tickets(up)', m \in Tickets(down)' : m.id < s.id
    BY <1>1, <1>2, <1>3 DEF TicketsInOrder
  <2>3. \A m \in Tickets(down)' : 0 < m.id /\ m.id < rt'.next /\ (m.ok => m.id <= srv'.ticket)
    BY <1>1, <1>2, <1>3 DEF TicketsInOrder
  <2>4. srv'.ticket < rt'.next /\ 1 < rt'.next
    BY <1>1, <1>3 DEF TicketsInOrder
  <2>5. \A d \in dgrams' : /\ d.kind \in {"attach", "attached"} => 0 < d.id /\ d.id < rt'.next
                           /\ d.kind = "attach" => d.ticket < rt'.next
    BY <1>1, <1>3, TicketTypes DEF TicketsInOrder
  <2> QED
    BY <1>4, <2>1, <2>2, <2>3, <2>4, <2>5 DEF TicketsInOrder
<1>6. LaneFits'
  BY <1>1, <1>3 DEF LaneFits
<1>7. BootIsNewest'
  <2>1. srv'.ticket <= rt.next /\ \A s \in Tickets(up)' : s.id <= rt.next
    BY <1>1, <1>2, <1>3 DEF TicketsInOrder
  <2>2. \A d \in dgrams' : d.kind = "attach" => d.ticket < rt.next
    BY <1>1, <1>3 DEF TicketsInOrder
  <2> QED
    BY <1>1, <2>1, <2>2 DEF BootIsNewest
<1>8. AttachIsNewest'
  BY <1>1 DEF AttachIsNewest
<1>9. LaneWaits'
  <2>1. \A m \in Tickets(down)' : m.id # rt.next
    BY <1>1, <1>2, <1>3
  <2>2. 0 < rt.next /\ t \in Tickets(up)'
    BY <1>1, <1>2, <1>3 DEF TicketsInOrder
  <2> QED
    BY <1>1, <2>1, <2>2 DEF LaneWaits
<1> QED
  BY <1>5, <1>6, <1>7, <1>8, <1>9 DEF LaneInv

(* The lane attaches with the ticket it waited for: the newest, which no other  *)
(* attach presents.                                                             *)
LEMMA LaneAttaches ==
  ASSUME TypeOK, LaneInv, NEW m, AttachesWith(m)
  PROVE  LaneInv'
<1> DEFINE a == [kind |-> "attach", id |-> rt.next, ticket |-> m.id]
<1>1. /\ m \in Tickets(down) /\ m.ok /\ m.id = rt.lane.boot
      /\ srv' = srv /\ rt'.next = rt.next + 1 /\ rt'.lane.boot = 0 /\ rt'.lane.attach = rt.next
      /\ ~rt'.lane.attached /\ Tickets(up') = Tickets(up) /\ udp' = rt.next
      /\ Tickets(down') \subseteq Tickets(down)
      /\ a \in dgrams' /\ \A d \in dgrams' : d.kind \in {"attach", "attached"} => d \in dgrams \/ d = a
      /\ a.kind = "attach" /\ a.id = rt.next /\ a.ticket = m.id
  BY DEF AttachesWith, NoneAsked, Watched
<1> HIDE DEF a
<1>2. Tickets(up)' = Tickets(up') /\ Tickets(down)' = Tickets(down') /\ Rise(up)' = Rise(up')
  BY DEF Tickets, Rise
<1>3. /\ TicketsInOrder /\ BootIsNewest /\ rt.next \in Nat /\ srv.ticket \in Nat
      /\ \A s \in Tickets(up) : s.id \in Nat
      /\ \A s \in Tickets(down) : s.id \in Nat /\ s.id < rt.next
      /\ m.id \in Nat /\ 0 < m.id
  BY <1>1, TicketTypes DEF LaneInv, TicketsInOrder
<1>4. Tickets(up) = {}
  <2>1. \A s \in Tickets(up) : s.id <= m.id /\ m.id < s.id
    BY <1>1, <1>3 DEF TicketsInOrder, BootIsNewest
  <2> QED
    BY <1>3, <2>1
<1>5. TicketsInOrder'
  <2>1. Rise(up)'
    BY <1>2, <1>3 DEF AttachesWith, NoneAsked, TicketsInOrder
  <2>2. Tickets(up)' = {}
    BY <1>1, <1>2, <1>4
  <2>3. \A s \in Tickets(down)' : 0 < s.id /\ s.id < rt'.next /\ (s.ok => s.id <= srv'.ticket)
    BY <1>1, <1>2, <1>3 DEF TicketsInOrder
  <2>4. srv'.ticket < rt'.next /\ 1 < rt'.next
    BY <1>1, <1>3 DEF TicketsInOrder
  <2>5. \A d \in dgrams' : /\ d.kind \in {"attach", "attached"} => 0 < d.id /\ d.id < rt'.next
                           /\ d.kind = "attach" => d.ticket < rt'.next
    <3> TAKE d \in dgrams'
    <3>1. CASE d = a
      BY <1>1, <1>3, <3>1 DEF TicketsInOrder
    <3>2. CASE d \in dgrams
      BY <1>1, <1>3, <3>2, TicketTypes DEF TicketsInOrder
    <3> QED
      BY <1>1, <3>1, <3>2
  <2> QED
    BY <2>1, <2>2, <2>3, <2>4, <2>5 DEF TicketsInOrder
<1>6. 0 < rt.next /\ LaneFits' /\ BootIsNewest'
  BY <1>1, <1>3 DEF LaneFits, BootIsNewest, TicketsInOrder
<1>7. AttachIsNewest'
  <2>1. srv.ticket = m.id
    BY <1>1, <1>3 DEF TicketsInOrder, BootIsNewest
  <2>2. \A d \in dgrams' : d.kind = "attach" /\ d.id # rt.next => d.ticket # srv.ticket
    <3> SUFFICES ASSUME NEW d \in dgrams', d.kind = "attach", d.id # rt.next
                 PROVE  d.ticket # srv.ticket
      OBVIOUS
    <3>1. d \in dgrams
      BY <1>1
    <3>2. d.ticket < m.id /\ d.ticket \in Nat
      BY <1>1, <1>3, <3>1, TicketTypes DEF BootIsNewest
    <3> QED
      BY <1>3, <2>1, <3>2
  <2>3. ~\E d \in dgrams' : d.kind = "attached" /\ d.id = rt.next
    <3> SUFFICES ASSUME NEW d \in dgrams', d.kind = "attached", d.id = rt.next PROVE FALSE
      OBVIOUS
    <3>1. d \in dgrams
      BY <1>1
    <3>2. d.id < rt.next
      BY <1>3, <3>1 DEF TicketsInOrder
    <3> QED
      BY <1>3, <3>2
  <2> QED
    BY <1>1, <1>2, <1>4, <1>6, <2>2, <2>3 DEF AttachIsNewest
<1>8. LaneWaits'
  BY <1>1, <1>6 DEF LaneWaits
<1> QED
  BY <1>5, <1>6, <1>7, <1>8 DEF LaneInv

(* The lane is up. *)
LEMMA LaneIsUp ==
  ASSUME TypeOK, LaneInv, NEW m, IsUp(m)
  PROVE  LaneInv'
<1>1. /\ m \in dgrams /\ m.kind = "attached" /\ m.ok /\ m.id = rt.lane.attach /\ srv' = srv
      /\ rt'.lane.boot = 0 /\ rt'.lane.attach = 0 /\ rt'.lane.attached /\ udp' = udp
      /\ NothingNew /\ NoneAsked /\ Tickets(up') = Tickets(up)
      /\ \A d \in dgrams' : d.kind = "attach" => d \in dgrams
  BY DEF IsUp, NothingNew, NoneAsked, Watched
<1>2. Tickets(up)' = Tickets(up')
  BY DEF Tickets
<1>3. TicketsInOrder'
  BY <1>1, OrderKept DEF LaneInv
<1>4. 0 < rt'.next
  BY <1>3, <1>1 DEF TicketsInOrder, NothingNew
<1>5. rt.lane.attach # 0
  <2>1. 0 < m.id /\ m.id \in Nat
    BY <1>1, TicketTypes DEF LaneInv, TicketsInOrder
  <2> QED
    BY <1>1, <2>1
<1>6. AttachIsNewest'
  BY <1>1, <1>2, <1>5 DEF LaneInv, AttachIsNewest
<1>7. LaneFits' /\ BootIsNewest' /\ LaneWaits'
  BY <1>1, <1>4 DEF LaneFits, BootIsNewest, LaneWaits
<1> QED
  BY <1>3, <1>6, <1>7 DEF LaneInv

(* Outside a scene there is no lane. *)
LEMMA LaneIsNot ==
  ASSUME TypeOK', Handshake', rt'.phase # "scene", 1 < rt'.next
  PROVE  LaneInv'
<1>1. /\ rt'.lane = NoLane /\ udp' = 0 /\ dgrams' = {} /\ srv'.ticket = 0
      /\ rt'.phase \in {"auth", "enter"} /\ rt'.next \in Nat
  BY DEF Handshake, TypeOK, Runtimes
<1>2. rt'.lane.boot = 0 /\ rt'.lane.attach = 0 /\ ~rt'.lane.attached
  BY <1>1 DEF NoLane
<1>3. Tickets(up)' = Tickets(up') /\ Tickets(down)' = Tickets(down') /\ Rise(up)' = Rise(up')
  BY DEF Tickets, Rise
<1>4. Tickets(up)' = {} /\ Tickets(down)' = {} /\ Rise(up)'
  <2>1. CASE rt'.phase = "auth"
    <3>1. Kinded(up', {"auth"}) /\ Kinded(down', {"auth"})
      BY <2>1 DEF Handshake, InAuth, Kinded
    <3> QED
      BY <1>3, <3>1, NoTickets
  <2>2. CASE rt'.phase = "enter"
    <3>1. Entering'
      BY <2>2 DEF Handshake
    <3>2. CASE Len(up') = 1 /\ up'[1].kind = "enter" /\ down' = << >>
      <4>1. Kinded(up', {"enter"}) /\ Kinded(down', {"enter"})
        BY <3>2 DEF Kinded
      <4> QED
        BY <1>3, <4>1, NoTickets
    <3>3. CASE up' = << >> /\ down' # << >> /\ down'[1].kind = "entered" /\ Kinded(Tail(down'), OfLife)
      <4>1. Kinded(up', {"enter"})
        BY <3>3 DEF Kinded
      <4>2. /\ Len(down') \in Nat \ {0} /\ Len(Tail(down')) = Len(down') - 1
            /\ \A i \in 1..Len(Tail(down')) : Tail(down')[i] = down'[i + 1]
        BY <3>3, QueueFacts DEF TypeOK
      <4>3. ASSUME NEW i \in 1..Len(down') PROVE down'[i].kind \in {"entered"} \cup OfLife
        <5>1. CASE i = 1
          BY <3>3, <5>1
        <5>2. CASE i # 1
          <6>1. i - 1 \in 1..Len(Tail(down')) /\ (i - 1) + 1 = i
            BY <4>2, <5>2
          <6> QED
            BY <3>3, <4>2, <6>1 DEF Kinded
        <5> QED
          BY <5>1, <5>2
      <4>4. Kinded(down', {"entered"} \cup OfLife) /\ "ticket" \notin {"entered"} \cup OfLife
        BY <4>3 DEF Kinded, OfLife
      <4> QED
        BY <1>3, <4>1, <4>4, NoTickets
    <3> QED
      BY <3>1, <3>2, <3>3 DEF Entering, Kinded
  <2> QED
    BY <1>1, <2>1, <2>2
<1>5. 0 < rt'.next
  BY <1>1
<1>6. TicketsInOrder' /\ LaneFits' /\ BootIsNewest' /\ AttachIsNewest' /\ LaneWaits'
  BY <1>1, <1>2, <1>4, <1>5 DEF TicketsInOrder, LaneFits, BootIsNewest, AttachIsNewest, LaneWaits
<1> QED
  BY <1>6 DEF LaneInv

(* What is left once a message has been taken. *)
LEMMA TakenLeaves ==
  ASSUME TypeOK, NEW m \in FromGate \cup {d \in Datagrams : ToClient(d)}, NEW left, NEW late,
         Taken(m, left, late)
  PROVE  /\ Tickets(left) \subseteq Tickets(down)
         /\ \A t \in Tickets(down) : t \in Tickets(left) \/ t = m
         /\ m.kind = "ticket" => m \in Tickets(down)
         /\ late \subseteq dgrams /\ \A d \in dgrams : d \in late \/ d = m
         /\ m.kind = "attached" => m \in dgrams
<1>1. down \in Seq(FromGate)
  BY DEF TypeOK
<1>2. CASE down # << >> /\ m = Head(down) /\ left = Tail(down) /\ late = dgrams
  <2>1. /\ Tickets(left) \subseteq Tickets(down)
        /\ \A t \in Tickets(down) : t \in Tickets(left) \/ t = m
        /\ m.kind = "ticket" => m \in Tickets(down)
    BY <1>1, <1>2, TicketsAfter
  <2>2. m \in FromGate
    BY <1>1, <1>2, QueueFacts
  <2>3. m.kind # "attached"
    BY <2>2 DEF FromGate
  <2> QED
    BY <1>2, <2>1, <2>3
<1>3. CASE m \in dgrams /\ ToClient(m) /\ left = down /\ late = dgrams \ {m}
  BY <1>3 DEF ToClient
<1> QED
  BY <1>2, <1>3 DEF Taken

(* A turn in which the lane goes down. *)
LEMMA TurnsDown ==
  ASSUME TypeOK, rt.phase = "scene", NEW retry, NEW u, NEW left, NEW late, NEW s, NEW n \in Nat,
         LaneIsDown(retry, u, left, late, s, n), rt.next <= n,
         Tickets(u) = Tickets(up), Rise(up) => Rise(u),
         Tickets(left) \subseteq Tickets(down), late \subseteq dgrams,
         ~retry => srv.noTicket /\ Tickets(up) = {}
  PROVE  GoesDown
<1>1. PICK l \in LanesDown :
        /\ retry => l.timer # "none"
        /\ Turn([rt EXCEPT !.lane = l, !.next = n], u, left, late, s, evts, joined)
  BY DEF LaneIsDown
<1>2. /\ rt' = [rt EXCEPT !.lane = l, !.next = n] /\ up' = u /\ down' = left /\ dgrams' = late
      /\ srv' = srv
  BY <1>1 DEF Turn
<1>3. rt'.lane = l /\ rt'.next = n
  BY <1>2 DEF TypeOK, Runtimes
<1>4. NothingNew /\ NoneAsked
  BY <1>2, <1>3 DEF NothingNew, NoneAsked
<1> QED
  BY <1>1, <1>3, <1>4 DEF GoesDown

(* A turn in which the lane stays as it is. *)
LEMMA TurnsOn ==
  ASSUME TypeOK, rt.phase = "scene", NEW r \in Runtimes, NEW u, NEW left, NEW g, NEW e, NEW j,
         Turn(r, u, left, g, udp, e, j), r.lane = rt.lane, rt.next <= r.next,
         Tickets(u) = Tickets(up), Rise(up) => Rise(u),
         Tickets(left) \subseteq Tickets(down),
         \A t \in Tickets(down) : t \in Tickets(left) \/ t.id # rt.lane.boot,
         \A d \in g : d.kind \in Watched => d \in dgrams,
         \A d \in dgrams : d.kind \in Watched => d \in g \/ d.id # rt.lane.attach
  PROVE  GoesOn
<1>1. rt' = r /\ up' = u /\ down' = left /\ dgrams' = g /\ srv' = srv /\ udp' = udp
  BY DEF Turn
<1>2. NothingNew /\ NoneAsked
  BY <1>1 DEF NothingNew, NoneAsked, Runtimes
<1> QED
  BY <1>1, <1>2 DEF GoesOn

(* A turn in which the lane asks. *)
LEMMA TurnsAsk ==
  ASSUME TypeOK, NEW l \in Lanes, l.boot = rt.next, l.attach = 0, ~l.attached,
         NEW left, NEW late, NEW e, NEW j, NEW r \in Runtimes, Asking(l, left, late, e, j, r),
         Tickets(left) \subseteq Tickets(down), late \subseteq dgrams
  PROVE  AsksAnew
<1> DEFINE t == [kind |-> "ticket", id |-> rt.next]
<1>1. /\ rt' = [r EXCEPT !.next = rt.next + 1, !.lane = l] /\ up' = Append(up, t)
      /\ down' = left /\ dgrams' = late /\ srv' = srv
  BY DEF Asking, Turn
<1>2. rt.next \in Nat /\ rt.next + 1 \in Nat /\ rt.next <= rt.next + 1 /\ up \in Seq(ToGate)
  BY Typed
<1>3. rt'.lane = l /\ rt'.next = rt.next + 1
  BY <1>1 DEF Runtimes
<1>4. NothingNew
  BY <1>1, <1>2, <1>3 DEF NothingNew
<1>5. t \in ToGate /\ t.kind = "ticket"
  BY <1>2 DEF ToGate
<1>6. /\ Tickets(up') = Tickets(up) \cup {t}
      /\ Rise(up) /\ (\A s \in Tickets(up) : s.id < t.id) => Rise(up')
  <2> HIDE DEF t
  <2> QED
    BY <1>1, <1>2, <1>5, TicketsAfter
<1> QED
  BY <1>3, <1>4, <1>6 DEF AsksAnew

(* A message the runtime takes in its scene. *)
LEMMA LaneReceives ==
  ASSUME TypeOK, Handshake, LaneInv, rt.phase = "scene",
         NEW m \in FromGate \cup {d \in Datagrams : ToClient(d)},
         NEW left \in Seq(FromGate), NEW late \in SUBSET dgrams,
         Taken(m, left, late), Receives(m, left, late)
  PROVE  LaneInv' \/ Ends(joined)
<1>1. /\ rt \in Runtimes /\ rt.next \in Nat /\ rt.next + 1 \in Nat /\ rt.next <= rt.next + 1
      /\ rt.next <= rt.next
  BY Typed
<1>2. /\ Tickets(left) \subseteq Tickets(down)
      /\ \A t \in Tickets(down) : t \in Tickets(left) \/ t = m
      /\ m.kind = "ticket" => m \in Tickets(down)
      /\ late \subseteq dgrams /\ \A d \in dgrams : d \in late \/ d = m
      /\ m.kind = "attached" => m \in dgrams
  BY TakenLeaves
<1>3. m.kind \in {"ticket", "attached", "refused"} \cup OfLife
  BY MessageFits
<1>4. ASSUME NEW r \in Runtimes, NEW e, NEW j, Turn(r, up, left, late, udp, e, j),
             r.lane = rt.lane, r.next = rt.next,
             m.kind = "ticket" => m.id # rt.lane.boot,
             m.kind = "attached" => m.id # rt.lane.attach
      PROVE  LaneInv'
  <2>1. \A t \in Tickets(down) : t \in Tickets(left) \/ t.id # rt.lane.boot
    <3>1. \A t \in Tickets(down) : t.kind = "ticket"
      BY DEF Tickets
    <3> QED
      BY <1>2, <1>4, <3>1
  <2>2. \A d \in dgrams : d.kind \in Watched => d \in late \/ d.id # rt.lane.attach
    BY <1>2, <1>3, <1>4 DEF Watched, OfLife
  <2>3. rt.next <= r.next
    BY <1>1, <1>4
  <2>4. GoesOn
    BY <1>2, <1>4, <2>1, <2>2, <2>3, TurnsOn
  <2> QED
    BY <2>4, LaneGoesOn
<1>5. ASSUME NEW s, NEW n \in Nat, rt.next <= n, LaneIsDown(TRUE, up, left, late, s, n)
      PROVE  LaneInv'
  <2>1. GoesDown
    BY <1>2, <1>5, TurnsDown
  <2> QED
    BY <2>1, LaneGoesDown
<1>7. ASSUME m.kind = "ticket", TicketFails(m, left, late) PROVE LaneInv'
  <2>1. m.id = rt.lane.boot /\ ~m.ok /\ m \in Tickets(down) /\ m.id \in Nat /\ 0 < m.id
    BY <1>2, <1>7, TicketTypes DEF TicketFails, LaneInv, TicketsInOrder
  <2>2. srv.noTicket
    BY <2>1 DEF LaneInv, LaneWaits
  <2>3. \A t \in Tickets(up) : t.id \in Nat /\ m.id < t.id /\ t.id <= m.id
    BY <2>1, TicketTypes DEF LaneInv, TicketsInOrder, BootIsNewest
  <2>4. Tickets(up) = {}
    BY <2>1, <2>3
  <2>5. LaneIsDown(FALSE, up, left, late, udp, rt.next)
    BY <1>7 DEF TicketFails
  <2>6. GoesDown
    BY <1>1, <1>2, <2>2, <2>4, <2>5, TurnsDown
  <2> QED
    BY <2>6, LaneGoesDown
<1>8. ASSUME m.kind = "ticket", Attaches(m, left, late) PROVE LaneInv'
  <2> DEFINE a == [kind |-> "attach", id |-> rt.next, ticket |-> m.id]
  <2>1. ASSUME NEW l \in Lanes, l.boot = 0, l.attach = rt.next, ~l.attached,
               Turn([rt EXCEPT !.next = rt.next + 1, !.lane = l], up, left,
                    late \cup {a}, rt.next, evts, joined)
        PROVE  LaneInv'
    <3>1. /\ rt' = [rt EXCEPT !.next = rt.next + 1, !.lane = l] /\ up' = up /\ down' = left
          /\ dgrams' = late \cup {a} /\ udp' = rt.next /\ srv' = srv
      BY <2>1 DEF Turn
    <3>2. rt'.lane = l /\ rt'.next = rt.next + 1
      BY <1>1, <3>1 DEF Runtimes
    <3>3. a \in dgrams' /\ \A d \in dgrams' : d.kind \in Watched => d \in dgrams \/ d = a
      BY <1>2, <3>1
    <3>4. m.ok /\ m.id = rt.lane.boot /\ m \in Tickets(down)
      BY <1>2, <1>8 DEF Attaches
    <3>5. AttachesWith(m)
      BY <1>2, <2>1, <3>1, <3>2, <3>3, <3>4 DEF AttachesWith, NoneAsked
    <3> QED
      BY <3>5, LaneAttaches
  <2>2. CASE LaneIsDown(TRUE, up, left, late, 0, rt.next + 1)
    BY <1>1, <1>5, <2>2
  <2> QED
    BY <1>8, <2>1, <2>2 DEF Attaches
<1>9. ASSUME m.kind = "attached", IsAttached(m, left, late) PROVE LaneInv'
  <2>1. ASSUME m.ok, NEW l \in Lanes, l.boot = 0, l.attach = 0, l.attached,
               Turn([rt EXCEPT !.lane = l], up, left, late, udp, evts, joined)
        PROVE  LaneInv'
    <3>1. /\ rt' = [rt EXCEPT !.lane = l] /\ up' = up /\ down' = left
          /\ dgrams' = late /\ udp' = udp /\ srv' = srv
      BY <2>1 DEF Turn
    <3>2. rt'.lane = l /\ rt'.next = rt.next
      BY <1>1, <3>1 DEF Runtimes
    <3>3. NothingNew /\ NoneAsked
      BY <1>1, <1>2, <3>1, <3>2 DEF NothingNew, NoneAsked
    <3>4. IsUp(m)
      BY <1>2, <1>9, <2>1, <3>1, <3>2, <3>3 DEF IsUp, IsAttached
    <3> QED
      BY <3>4, LaneIsUp
  <2>2. CASE LaneIsDown(TRUE, up, left, late, udp, rt.next)
    BY <1>1, <1>5, <2>2
  <2> QED
    BY <1>9, <2>1, <2>2 DEF IsAttached
<1>10. ASSUME NEW t \in Nat, m.kind \in OfLife, Passes(m, left, late, t) PROVE LaneInv'
  <2>1. LET r == [rt EXCEPT !.mark = t] IN r \in Runtimes /\ r.lane = rt.lane /\ r.next = rt.next
    BY <1>1 DEF Runtimes
  <2> QED
    BY <1>4, <1>10, <2>1 DEF Passes, OfLife
<1>11. ASSUME Ignores(m), Turn(rt, up, left, late, udp, evts, joined) PROVE LaneInv'
  BY <1>1, <1>4, <1>11 DEF Ignores
<1>12. m.kind = "move" /\ Passes(m, left, late, m.tick) => LaneInv'
  <2>1. m.kind = "move" => m.tick \in Nat
    BY DEF FromGate, Datagrams
  <2> QED
    BY <1>10, <2>1 DEF OfLife
<1>13. m.kind \in {"appear", "leave"} /\ Passes(m, left, late, 0) => LaneInv'
  BY <1>10 DEF OfLife
<1>14. m.kind = "refused" /\ LaneIsDown(TRUE, up, left, late, udp, rt.next) => LaneInv'
  BY <1>1, <1>5
<1> QED
  BY <1>3, <1>7, <1>8, <1>9, <1>11, <1>12, <1>13, <1>14 DEF Receives, OfLife

(* Nothing of the lane changes. *)
LEMMA LaneKept ==
  ASSUME LaneInv, UNCHANGED <<rt, udp, srv, links>>
  PROVE  LaneInv'
<1>1. UNCHANGED <<rt, udp, srv, up, down, dgrams>>
  BY DEF links
<1>2. Tickets(up)' = Tickets(up) /\ Tickets(down)' = Tickets(down) /\ Rise(up)' = Rise(up)
  BY <1>1 DEF Tickets, Rise
<1>3. TicketsInOrder'
  BY <1>1, <1>2 DEF LaneInv, TicketsInOrder
<1>4. LaneFits' /\ BootIsNewest' /\ AttachIsNewest'
  BY <1>1, <1>2 DEF LaneInv, LaneFits, BootIsNewest, AttachIsNewest
<1>5. LaneWaits'
  BY <1>1, <1>2 DEF LaneInv, LaneWaits
<1> QED
  BY <1>3, <1>4, <1>5 DEF LaneInv

OffScene == rt'.phase # "scene" /\ 1 < rt'.next

(* A step of the session. *)
LEMMA LaneSession ==
  ASSUME TypeOK, Handshake, LaneInv, InSession, SessionTurn
  PROVE  LaneInv' \/ OffScene
<1>1. /\ rt \in Runtimes /\ rt.next \in Nat /\ rt.next + 1 \in Nat /\ rt.next <= rt.next + 1
      /\ rt.next <= rt.next /\ rt.lane \in Lanes /\ 1 < rt.next /\ 1 < rt.next + 1
      /\ up \in Seq(ToGate) /\ dgrams \subseteq dgrams
  <2>1. 1 < rt.next
    BY DEF LaneInv, TicketsInOrder
  <2> QED
    BY <2>1, Typed
<1>2. ASSUME NEW b, Ends(b) PROVE OffScene
  <2>1. NewRuntime.phase = "auth" /\ NewRuntime.next = 2
    BY DEF NewRuntime
  <2> QED
    BY <1>2, <2>1 DEF Ends, EndSession, OffScene
<1>3. Stops => LaneInv'
  BY LaneKept DEF Stops
<1>4. Turn(rt, up, down, dgrams, udp, evts, joined) => LaneInv'
  BY LaneKept DEF Turn, links
<1>5. ASSUME NEW x \in ToGate, x.kind # "ticket"
      PROVE  Tickets(Append(up, x)) = Tickets(up) /\ (Rise(up) => Rise(Append(up, x)))
  BY <1>1, <1>5, TicketsAfter
<1>6. ASSUME NEW s, NEW u, rt.phase = "scene", LaneIsDown(TRUE, u, down, dgrams, s, rt.next),
             Tickets(u) = Tickets(up), Rise(up) => Rise(u)
      PROVE  LaneInv'
  <2>1. GoesDown
    BY <1>1, <1>6, TurnsDown
  <2> QED
    BY <2>1, LaneGoesDown
<1>7. ASSUME rt.phase = "scene", NEW r \in Runtimes, NEW u, NEW g,
             Turn(r, u, down, g, udp, evts, joined), r.lane = rt.lane, rt.next <= r.next,
             Tickets(u) = Tickets(up), Rise(up) => Rise(u),
             \A d : d.kind \in Watched => (d \in g <=> d \in dgrams)
      PROVE  LaneInv'
  <2>1. GoesOn
    BY <1>7, TurnsOn
  <2> QED
    BY <2>1, LaneGoesOn
<1>8. ASSUME rt.phase = "scene", NEW c, c.sess \in Nat, Says(c) PROVE LaneInv'
  <2> DEFINE x == [kind |-> "say", id |-> rt.next, sess |-> c.sess]
             r == [rt EXCEPT !.next = rt.next + 1]
  <2>1. x \in ToGate /\ x.kind # "ticket"
    BY <1>1, <1>8 DEF ToGate
  <2>2. r \in Runtimes /\ r.lane = rt.lane /\ r.next = rt.next + 1
    BY <1>1 DEF Runtimes
  <2>3. Turn(r, Append(up, x), down, dgrams, udp, evts, joined)
    BY <1>8 DEF Says
  <2> HIDE DEF x, r
  <2> QED
    BY <1>1, <1>5, <1>7, <1>8, <2>1, <2>2, <2>3
<1>9. ASSUME rt.phase = "scene", Inputs PROVE LaneInv'
  <2> DEFINE x == [kind |-> "input"]
  <2>1. x \in ToGate /\ x.kind # "ticket" /\ x.kind \notin Watched
    BY DEF ToGate, Watched
  <2>2. \/ Turn(rt, Append(up, x), down, dgrams, udp, evts, joined)
        \/ Turn(rt, up, down, dgrams \cup {x}, udp, evts, joined)
        \/ LaneIsDown(TRUE, Append(up, x), down, dgrams, 0, rt.next)
    BY <1>9 DEF Inputs
  <2> HIDE DEF x
  <2>3. \A d : d.kind \in Watched => (d \in dgrams \cup {x} <=> d \in dgrams)
    BY <2>1
  <2>4. Tickets(Append(up, x)) = Tickets(up) /\ (Rise(up) => Rise(Append(up, x)))
    BY <1>5, <2>1
  <2>5. CASE Turn(rt, Append(up, x), down, dgrams, udp, evts, joined)
    BY <1>1, <1>7, <1>9, <2>4, <2>5
  <2>6. CASE Turn(rt, up, down, dgrams \cup {x}, udp, evts, joined)
    BY <1>1, <1>7, <1>9, <2>3, <2>6
  <2>7. CASE LaneIsDown(TRUE, Append(up, x), down, dgrams, 0, rt.next)
    BY <1>6, <1>9, <2>4, <2>7
  <2> QED
    BY <2>2, <2>5, <2>6, <2>7
<1>10. \A c : Obeys(c) => LaneInv' \/ OffScene
  BY <1>2, <1>4, <1>8, <1>9 DEF Obeys
<1>11. Asks => LaneInv'
  <2> SUFFICES ASSUME Asks PROVE LaneInv'
    OBVIOUS
  <2>1. PICK l \in Lanes : /\ l.boot = rt.next /\ l.attach = 0 /\ ~l.attached
                           /\ Asking(l, down, dgrams, evts, joined, rt)
    BY DEF Asks
  <2>2. AsksAnew
    BY <1>1, <2>1, TurnsAsk
  <2> QED
    BY <2>2, LaneAsks
<1>12. LaneTimerDue(rt) \/ udp # 0 => rt.phase = "scene"
  BY DEF LaneTimerDue, Handshake
<1>13. ASSUME NEW m \in FromGate \cup {d \in Datagrams : ToClient(d)},
              NEW left \in Seq(FromGate), NEW late \in SUBSET dgrams,
              Taken(m, left, late), Receives(m, left, late)
       PROVE  LaneInv' \/ OffScene
  <2>1. CASE rt.phase = "scene"
    BY <1>2, <1>13, <2>1, LaneReceives
  <2>2. CASE rt.phase # "scene"
    <3>1. m.kind \in {"auth", "entered"}
      BY <1>1, <1>13, <2>2, MessageFits DEF Runtimes
    <3>2. Turn(rt, up, left, late, udp, evts, joined) => OffScene
      BY <1>1, <2>2 DEF Turn, OffScene
    <3>3. ASSUME LetsIn(left, late) PROVE OffScene
      <4>1. rt'.phase = "enter" /\ rt'.next = rt.next + 1
        BY <1>1, <3>3 DEF LetsIn, Turn, Runtimes
      <4> QED
        BY <1>1, <4>1 DEF OffScene
    <3>4. ASSUME Arrives(m, left, late) PROVE LaneInv'
      <4> DEFINE r == [rt EXCEPT !.phase = "scene", !.mark = 0]
      <4>1. PICK l \in Lanes :
              /\ l.boot = rt.next /\ l.attach = 0 /\ ~l.attached
              /\ Asking(l, left, late, Append(evts, [kind |-> "entered", sess |-> m.sess]), TRUE, r)
        BY <3>4 DEF Arrives
      <4>2. r \in Runtimes
        BY <1>1 DEF Runtimes
      <4>3. Tickets(left) \subseteq Tickets(down) /\ late \subseteq dgrams
        BY <1>13, TakenLeaves
      <4> HIDE DEF r
      <4>4. AsksAnew
        BY <4>1, <4>2, <4>3, TurnsAsk
      <4> QED
        BY <4>4, LaneAsks
    <3> QED
      BY <1>2, <1>13, <3>1, <3>2, <3>3, <3>4 DEF Receives
  <2> QED
    BY <2>1, <2>2
<1>14. ASSUME rt.phase = "scene", NEW s, LaneIsDown(TRUE, up, down, dgrams, s, rt.next) PROVE LaneInv'
  BY <1>6, <1>14
<1> QED
  BY <1>2, <1>3, <1>10, <1>11, <1>12, <1>13, <1>14 DEF SessionTurn

(* The gate answers over TCP. *)
LEMMA LaneServes ==
  ASSUME TypeOK, Handshake, LaneInv, ServeTcp
  PROVE  LaneInv' \/ OffScene
<1>1. /\ up \in Seq(ToGate) /\ down \in Seq(FromGate) /\ up # << >> /\ srv \in Gates
      /\ rt.next \in Nat /\ 1 < rt.next /\ UNCHANGED <<rt, udp>> /\ up' = Tail(up)
      /\ OnTcp(Head(up))
  BY DEF TypeOK, Runtimes, Gates, LaneInv, TicketsInOrder, ServeTcp, Client
<1>2. Head(up) \in ToGate
  BY <1>1, QueueFacts
<1>3. CASE rt.phase # "scene"
  BY <1>1, <1>3 DEF OffScene
<1>4. CASE rt.phase = "scene"
  <2>1. Head(up).kind \in {"ticket", "say", "input"}
    BY <1>1, <1>4, KindedQueues DEF Handshake, InScene
  <2>2. CASE Head(up).kind \in {"say", "input"}
    <3>1. UNCHANGED <<srv, down, dgrams>>
      BY <1>1, <2>2 DEF OnTcp
    <3>2. /\ Tickets(up') \subseteq Tickets(up) /\ (Rise(up) => Rise(up'))
          /\ \A t \in Tickets(up) : t \in Tickets(up')
      <4>1. \A t \in Tickets(up) : t.kind = "ticket"
        BY DEF Tickets
      <4> QED
        BY <1>1, <2>2, <4>1, TicketsAfter
    <3>3. Tickets(up') = Tickets(up)
      BY <3>2
    <3>4. Tickets(up)' = Tickets(up) /\ Tickets(down)' = Tickets(down) /\ Rise(up)' = Rise(up')
      BY <3>1, <3>3 DEF Tickets, Rise
    <3> QED
      BY <1>1, <3>1, <3>2, <3>4 DEF LaneInv, TicketsInOrder, LaneFits, BootIsNewest, AttachIsNewest, LaneWaits
  <2>3. CASE Head(up).kind = "ticket"
    <3> DEFINE t == Head(up)
    <3>1. PICK ok \in BOOLEAN :
            /\ srv' = [srv EXCEPT !.ticket = IF ok THEN t.id ELSE srv.ticket, !.noTicket = ~ok]
            /\ down' = Append(down, [kind |-> "ticket", id |-> t.id, ok |-> ok])
            /\ dgrams' = dgrams
      BY <1>1, <2>3 DEF OnTcp, Reply
    <3> DEFINE a == [kind |-> "ticket", id |-> t.id, ok |-> ok]
    <3>2. /\ srv'.ticket = (IF ok THEN t.id ELSE srv.ticket) /\ srv'.noTicket = ~ok
          /\ srv'.lost = srv.lost /\ srv'.lane = srv.lane
      BY <1>1, <3>1 DEF Gates
    <3>3. /\ t \in Tickets(up) /\ Tickets(up') \subseteq Tickets(up)
          /\ \A s \in Tickets(up) : s \in Tickets(up') \/ s = t
          /\ Rise(up') /\ \A s \in Tickets(up') : t.id < s.id
      BY <1>1, <2>3, TicketsAfter DEF LaneInv, TicketsInOrder
    <3>4. t.id \in Nat /\ a \in FromGate /\ a.kind = "ticket" /\ a.id = t.id /\ a.ok = ok
      BY <3>3, TicketTypes DEF FromGate
    <3>5. Tickets(down') = Tickets(down) \cup {a}
      <4>1. down' = Append(down, a)
        BY <3>1
      <4> HIDE DEF a
      <4> QED
        BY <1>1, <3>4, <4>1, TicketsAfter
    <3>6. Tickets(up)' = Tickets(up') /\ Tickets(down)' = Tickets(down') /\ Rise(up)' = Rise(up')
      BY DEF Tickets, Rise
    <3> HIDE DEF a, t
    <3>7. /\ TicketsInOrder /\ LaneFits /\ BootIsNewest /\ AttachIsNewest /\ LaneWaits
          /\ rt' = rt /\ udp' = udp /\ dgrams' = dgrams
          /\ srv.ticket \in Nat /\ srv.ticket < t.id /\ t.id < rt.next
          /\ \A s \in Tickets(up) : s.id \in Nat
          /\ \A m \in Tickets(down) : m.id \in Nat /\ m.id < t.id
      BY <1>1, <3>1, <3>3, TicketTypes DEF LaneInv, TicketsInOrder
    <3>8. TicketsInOrder'
      <4>1. \A s \in Tickets(up)' : srv'.ticket < s.id /\ s.id < rt'.next
        BY <3>2, <3>3, <3>6, <3>7 DEF TicketsInOrder
      <4>2. \A s \in Tickets(up)', m \in Tickets(down)' : m.id < s.id
        BY <3>3, <3>4, <3>5, <3>6, <3>7 DEF TicketsInOrder
      <4>3. \A m \in Tickets(down)' : 0 < m.id /\ m.id < rt'.next /\ (m.ok => m.id <= srv'.ticket)
        <5>1. \A m \in Tickets(down) : 0 < m.id /\ m.id < rt'.next /\ (m.ok => m.id <= srv'.ticket)
          BY <3>2, <3>4, <3>7 DEF TicketsInOrder
        <5>2. 0 < a.id /\ a.id < rt'.next /\ (a.ok => a.id <= srv'.ticket)
          BY <3>2, <3>4, <3>7
        <5> QED
          BY <3>5, <3>6, <5>1, <5>2
      <4>4. srv'.ticket < rt'.next /\ 1 < rt'.next
        BY <1>1, <3>2, <3>4, <3>7
      <4> QED
        BY <3>3, <3>6, <3>7, <4>1, <4>2, <4>3, <4>4 DEF TicketsInOrder
    <3>9. LaneFits'
      BY <3>7 DEF LaneFits
    <3>10. BootIsNewest'
      BY <3>2, <3>3, <3>6, <3>7 DEF BootIsNewest
    <3>11. rt.lane.attach = 0 /\ ~rt.lane.attached
      BY <3>3, <3>7 DEF AttachIsNewest
    <3>12. AttachIsNewest'
      BY <3>7, <3>11 DEF AttachIsNewest
    <3>13. LaneWaits'
      <4>2. rt.lane.boot # 0 => \E m \in Tickets(up)' \cup Tickets(down)' : m.id = rt.lane.boot
        BY <1>4, <3>3, <3>4, <3>5, <3>6, <3>7 DEF LaneWaits
      <4>3. rt.lane.boot # 0 =>
              \A m \in Tickets(down)' : m.id = rt.lane.boot /\ ~m.ok => srv'.noTicket
        <5> SUFFICES ASSUME rt.lane.boot # 0, NEW m \in Tickets(down)', m.id = rt.lane.boot, ~m.ok
                     PROVE  srv'.noTicket
          OBVIOUS
        <5>1. t.id <= rt.lane.boot
          BY <3>3, <3>7 DEF BootIsNewest
        <5>2. CASE m \in Tickets(down)
          BY <3>4, <3>7, <5>1, <5>2
        <5>3. CASE m = a
          BY <3>2, <3>4, <5>3
        <5> QED
          BY <3>5, <3>6, <5>2, <5>3
      <4>4. rt.lane.boot = 0 /\ rt.lane.attach = 0 /\ ~rt.lane.attached => rt.lane.timer # "none"
        BY <1>4, <3>3, <3>7 DEF LaneWaits
      <4> QED
        BY <3>7, <3>11, <4>2, <4>3, <4>4 DEF LaneWaits
    <3> QED
      BY <3>8, <3>9, <3>10, <3>12, <3>13 DEF LaneInv
  <2> QED
    BY <2>1, <2>2, <2>3
<1> QED
  BY <1>3, <1>4

(* The gate takes a datagram, or it is lost. *)
LEMMA LaneDatagrams ==
  ASSUME TypeOK, Handshake, LaneInv, NEW d \in dgrams, ServeDatagram(d) \/ LoseDatagram(d)
  PROVE  LaneInv'
<1>1. /\ UNCHANGED <<rt, udp, up, down>> /\ srv \in Gates /\ dgrams \subseteq Datagrams
      /\ rt.phase = "scene"
  BY DEF ServeDatagram, LoseDatagram, Client, TypeOK, Gates, Handshake
<1>2. Tickets(up)' = Tickets(up) /\ Tickets(down)' = Tickets(down) /\ Rise(up)' = Rise(up)
  BY <1>1 DEF Tickets, Rise
<1>3. TicketsInOrder /\ LaneFits /\ BootIsNewest /\ AttachIsNewest /\ LaneWaits
  BY DEF LaneInv
<1>5. CASE LoseDatagram(d)
  <2>1. dgrams' = dgrams \ {d} /\ srv' = [srv EXCEPT !.lost = srv.lost \/ d.kind \in {"attach", "attached"}]
    BY <1>5 DEF LoseDatagram
  <2>2. /\ srv'.ticket = srv.ticket /\ srv'.noTicket = srv.noTicket /\ srv'.lane = srv.lane
        /\ srv'.lost = (srv.lost \/ d.kind \in {"attach", "attached"})
    BY <1>1, <2>1 DEF Gates
  <2>4. AttachIsNewest'
    BY <1>1, <1>2, <1>3, <2>1, <2>2 DEF AttachIsNewest
  <2>5. TicketsInOrder' /\ LaneFits' /\ BootIsNewest'
    BY <1>1, <1>2, <1>3, <2>1, <2>2 DEF TicketsInOrder, LaneFits, BootIsNewest
  <2>6. LaneWaits'
    BY <1>1, <1>2, <1>3, <2>1, <2>2 DEF LaneWaits
  <2> QED
    BY <2>4, <2>5, <2>6 DEF LaneInv
<1>6. CASE ServeDatagram(d)
  <2>1. PICK ok \in BOOLEAN :
          LET fits == ok /\ IF d.kind = "attach" THEN d.ticket = srv.ticket ELSE srv.lane # 0
              answer == IF d.kind = "attach" THEN {[kind |-> "attached", id |-> d.id, ok |-> fits]}
                        ELSE IF fits THEN {} ELSE {[kind |-> "refused"]}
          IN  /\ dgrams' = (dgrams \ {d}) \cup answer
              /\ srv' = [srv EXCEPT !.lane = CASE ~fits /\ d.kind = "input" -> 0
                                               [] fits /\ d.kind = "attach" -> d.id
                                               [] OTHER -> srv.lane]
    BY <1>6 DEF ServeDatagram
  <2>2. d.kind \in {"attach", "input"} /\ d \in Datagrams
    BY <1>1, <1>6 DEF ServeDatagram, ToClient, Datagrams
  <2>3. CASE d.kind = "input"
    <3>1. /\ \/ dgrams' = dgrams \ {d}
             \/ dgrams' = (dgrams \ {d}) \cup {[kind |-> "refused"]}
          /\ \E x : srv' = [srv EXCEPT !.lane = x] /\ x \in {srv.lane, 0}
      BY <2>1, <2>3
    <3>2. /\ srv'.ticket = srv.ticket /\ srv'.noTicket = srv.noTicket
          /\ srv'.lost = srv.lost /\ srv'.lane \in {srv.lane, 0}
      BY <1>1, <3>1 DEF Gates
    <3>3. \A x : x.kind \in {"attach", "attached"} => (x \in dgrams' <=> x \in dgrams)
      BY <2>3, <3>1
    <3>4. AttachIsNewest'
      BY <1>1, <1>2, <1>3, <3>2, <3>3 DEF AttachIsNewest
    <3>5. TicketsInOrder' /\ LaneFits' /\ BootIsNewest'
      BY <1>1, <1>2, <1>3, <3>2, <3>3 DEF TicketsInOrder, LaneFits, BootIsNewest
    <3>6. LaneWaits'
      BY <1>1, <1>2, <1>3, <3>2, <3>3 DEF LaneWaits
    <3> QED
      BY <3>4, <3>5, <3>6 DEF LaneInv
  <2>4. CASE d.kind = "attach"
    <3> DEFINE fits == ok /\ d.ticket = srv.ticket
               a == [kind |-> "attached", id |-> d.id, ok |-> fits]
    <3>1. /\ dgrams' = (dgrams \ {d}) \cup {a}
          /\ srv' = [srv EXCEPT !.lane = IF fits THEN d.id ELSE srv.lane]
      BY <2>1, <2>4
    <3>2. a.kind = "attached" /\ a.id = d.id /\ a.ok = fits
      OBVIOUS
    <3> HIDE DEF a
    <3>3. /\ srv'.ticket = srv.ticket /\ srv'.noTicket = srv.noTicket /\ srv'.lost = srv.lost
          /\ srv'.lane = (IF fits THEN d.id ELSE srv.lane)
      BY <1>1, <3>1 DEF Gates
    <3>4. TicketsInOrder'
      <4>1. \A x \in dgrams' : /\ x.kind \in {"attach", "attached"} => 0 < x.id /\ x.id < rt'.next
                               /\ x.kind = "attach" => x.ticket < rt'.next
        BY <1>1, <1>3, <2>4, <3>1, <3>2 DEF TicketsInOrder
      <4> QED
        BY <1>1, <1>2, <1>3, <3>3, <4>1 DEF TicketsInOrder
    <3>5. \A x \in dgrams' : x.kind = "attach" => x \in dgrams
      BY <3>1, <3>2
    <3>6. LaneFits' /\ BootIsNewest'
      BY <1>1, <1>2, <1>3, <3>3, <3>5 DEF LaneFits, BootIsNewest
    <3>7. AttachIsNewest'
      <4> SUFFICES ASSUME rt.lane.attach # 0 \/ rt.lane.attached
                   PROVE  /\ udp # 0 /\ (rt.lane.attach # 0 => udp = rt.lane.attach)
                          /\ Tickets(up) = {}
                          /\ \A x \in dgrams' : x.kind = "attach" /\ x.id # udp => x.ticket # srv'.ticket
                          /\ rt.lane.attached \/ (\E x \in dgrams' : x.kind = "attached" /\ x.id = udp /\ x.ok)
                               => srv'.lane \in {udp, 0}
        BY <1>1, <1>2 DEF AttachIsNewest
      <4>1. /\ udp # 0 /\ (rt.lane.attach # 0 => udp = rt.lane.attach) /\ Tickets(up) = {}
            /\ \A x \in dgrams' : x.kind = "attach" /\ x.id # udp => x.ticket # srv'.ticket
        BY <1>3, <3>3, <3>5 DEF AttachIsNewest
      <4>2. fits => d.id = udp
        BY <1>3, <2>4 DEF AttachIsNewest
      <4>3. ~fits => \A x \in dgrams' : x.kind = "attached" /\ x.ok => x \in dgrams
        BY <3>1, <3>2
      <4>4. rt.lane.attached \/ (\E x \in dgrams : x.kind = "attached" /\ x.id = udp /\ x.ok)
              => srv.lane \in {udp, 0}
        BY <1>3 DEF AttachIsNewest
      <4> HIDE DEF fits
      <4> QED
        BY <3>3, <4>1, <4>2, <4>3, <4>4
    <3>8. LaneWaits'
      <4>1. rt.lane.attach # 0 =>
              \/ srv'.lost
              \/ \E x \in dgrams' : x.kind \in {"attach", "attached"} /\ x.id = rt.lane.attach
        BY <1>1, <1>3, <3>1, <3>2, <3>3 DEF LaneWaits
      <4> QED
        BY <1>1, <1>2, <1>3, <3>3, <4>1 DEF LaneWaits
    <3> QED
      BY <3>4, <3>6, <3>7, <3>8 DEF LaneInv
  <2> QED
    BY <2>2, <2>3, <2>4
<1> QED
  BY <1>5, <1>6

(* The life of the actor. *)
LEMMA LaneLife ==
  ASSUME TypeOK, LaneInv, Appear \/ Leave \/ MoveActor
  PROVE  LaneInv'
<1>1. /\ UNCHANGED <<rt, udp, up>> /\ srv \in Gates /\ down \in Seq(FromGate) /\ srv.tick + 1 \in Nat
  <2>1. srv \in Gates /\ down \in Seq(FromGate)
    BY DEF TypeOK, Gates
  <2>2. UNCHANGED <<rt, udp, up>>
    BY DEF Appear, Leave, MoveActor, Client
  <2> QED
    BY <2>1, <2>2 DEF Gates
<1>2. /\ srv'.ticket = srv.ticket /\ srv'.noTicket = srv.noTicket /\ srv'.lane = srv.lane
      /\ srv'.lost = srv.lost
  BY <1>1 DEF Appear, Leave, MoveActor, Gates
<1>3. \E x \in FromGate :
        /\ x.kind \in OfLife
        /\ \/ down' = Append(down, x) /\ dgrams' = dgrams
           \/ down' = down /\ dgrams' = dgrams \cup {x}
  <2>1. /\ [kind |-> "appear"] \in FromGate /\ [kind |-> "leave"] \in FromGate
        /\ [kind |-> "move", tick |-> srv.tick + 1] \in FromGate
    BY <1>1 DEF FromGate
  <2>2. CASE Appear
    BY <2>1, <2>2 DEF Appear, Reply, OfLife
  <2>3. CASE Leave
    BY <2>1, <2>3 DEF Leave, Reply, OfLife
  <2>4. CASE MoveActor
    BY <2>1, <2>4 DEF MoveActor, Reply, OfLife
  <2> QED
    BY <2>2, <2>3, <2>4
<1>4. Tickets(down') = Tickets(down)
  <2>1. PICK x \in FromGate : x.kind # "ticket" /\ (down' = down \/ down' = Append(down, x))
    BY <1>3 DEF OfLife
  <2>2. Tickets(Append(down, x)) = Tickets(down)
    BY <1>1, <2>1, TicketsAfter
  <2> QED
    BY <2>1, <2>2
<1>5. \A d : d.kind \in {"attach", "attached"} => (d \in dgrams' <=> d \in dgrams)
  BY <1>3 DEF OfLife
<1>6. Tickets(up)' = Tickets(up) /\ Tickets(down)' = Tickets(down) /\ Rise(up)' = Rise(up)
  BY <1>1, <1>4 DEF Tickets, Rise
<1>7. TicketsInOrder'
  BY <1>1, <1>2, <1>5, <1>6 DEF LaneInv, TicketsInOrder
<1>8. LaneFits' /\ BootIsNewest' /\ AttachIsNewest'
  BY <1>1, <1>2, <1>5, <1>6 DEF LaneInv, LaneFits, BootIsNewest, AttachIsNewest
<1>9. LaneWaits'
  BY <1>1, <1>2, <1>5, <1>6 DEF LaneInv, LaneWaits
<1> QED
  BY <1>7, <1>8, <1>9 DEF LaneInv

(* Every step keeps the lane's ids in order and what it waits for under way. *)
LEMMA LaneStep ==
  ASSUME TypeOK, TypeOK', Unused, Handshake, Handshake', LaneInv, [Next]_vars
  PROVE  LaneInv'
<1>1. OffScene => LaneInv'
  BY LaneIsNot DEF OffScene
<1>2. CASE SessionStep
  BY <1>1, <1>2, SessionSteps, LaneSession
<1>3. CASE ThreadStep
  <2>1. CASE UNCHANGED <<rt, udp, srv, links>>
    BY <2>1, LaneKept
  <2>2. CASE EndSession(FALSE)
    <3>1. NewRuntime.phase = "auth" /\ NewRuntime.next = 2
      BY DEF NewRuntime
    <3> QED
      BY <1>1, <2>2, <3>1 DEF EndSession, OffScene
  <2>3. CASE StartSession /\ rt' = rt
    <3>1. rt' = NewRuntime
      BY <2>3 DEF StartSession, Unused
    <3>2. NewRuntime.phase = "auth" /\ NewRuntime.next = 2
      BY DEF NewRuntime
    <3> QED
      BY <1>1, <3>1, <3>2 DEF OffScene
  <2> QED
    BY <1>3, <2>1, <2>2, <2>3
       DEF ThreadStep, RefuseEmptyToken, StartSession, BackOff, LogInAgain, Stops, links
<1>4. CASE AppStep
  BY <1>4, LaneKept DEF AppStep, Submit, AuthWorker, PollAuth, Poll, Command, Quit
<1>5. CASE External
  <2>1. CASE ServeTcp
    BY <1>1, <2>1, LaneServes
  <2>2. CASE Expire
    BY <2>2, LaneKept DEF Expire, Client
  <2> QED
    BY <1>5, <2>1, <2>2, LaneDatagrams, LaneLife DEF External
<1>6. CASE UNCHANGED vars
  BY <1>6, LaneKept DEF vars
<1> QED
  BY <1>2, <1>3, <1>4, <1>5, <1>6, Steps

(* A lane that is down in a scene is on its way up. *)
LEMMA LaneDriven ==
  ASSUME TypeOK, LaneInv
  PROVE  LaneIsDriven
<1> SUFFICES ASSUME rt.phase = "scene", ~rt.lane.attached
             PROVE  \/ LaneTimerDue(rt)
                    \/ rt.lane.boot # 0 /\ AnyOf(ToSet(up) \cup ToSet(down), rt.lane.boot)
                    \/ rt.lane.attach # 0 /\ (AnyOf(dgrams, rt.lane.attach) \/ srv.lost)
                    \/ srv.noTicket
  BY DEF LaneIsDriven
<1>1. CASE rt.lane.boot # 0
  <2>1. PICK m \in Tickets(up) \cup Tickets(down) : m.id = rt.lane.boot
    BY <1>1 DEF LaneInv, LaneWaits
  <2>2. DOMAIN up = 1..Len(up) /\ DOMAIN down = 1..Len(down)
    BY DEF TypeOK
  <2>3. m \in ToSet(up) \cup ToSet(down) /\ m.kind = "ticket"
    BY <2>2 DEF Tickets, ToSet
  <2> QED
    BY <1>1, <2>1, <2>3 DEF AnyOf
<1>2. CASE rt.lane.attach # 0
  BY <1>2 DEF LaneInv, LaneWaits, AnyOf
<1>3. CASE rt.lane.boot = 0 /\ rt.lane.attach = 0
  BY <1>3 DEF LaneInv, LaneWaits, LaneTimerDue
<1> QED
  BY <1>1, <1>2, <1>3

-----------------------------------------------------------------------------
(* What is said. *)

(* What a step of the session sends: a command only for the session it is in. *)
LEMMA SaidSession ==
  ASSUME TypeOK, CommandsFit, InSession, SessionTurn
  PROVE  \/ up' = << >>
         \/ /\ srv' = srv
            /\ up' = up \/ \E x \in ToGate : up' = Append(up, x) /\ (x.kind = "say" => x.sess = srv.sess)
<1> DEFINE Carries(u) == u = up \/ \E x \in ToGate : u = Append(up, x) /\ (x.kind = "say" => x.sess = srv.sess)
           P == up' = << >> \/ (srv' = srv /\ Carries(up'))
<1>1. rt.next \in Nat /\ cmds \in Seq(Commands) /\ srv.sess \in Nat
  BY Typed
<1>2. /\ [kind |-> "ticket", id |-> rt.next] \in ToGate /\ [kind |-> "enter", id |-> rt.next] \in ToGate
      /\ [kind |-> "input"] \in ToGate
      /\ [kind |-> "say", id |-> rt.next, sess |-> srv.sess] \in ToGate
  BY <1>1 DEF ToGate
<1>3. /\ Carries(up) /\ Carries(Append(up, [kind |-> "ticket", id |-> rt.next]))
      /\ Carries(Append(up, [kind |-> "enter", id |-> rt.next])) /\ Carries(Append(up, [kind |-> "input"]))
  BY <1>2
<1>4. \A r, u, d, g, s, e, j : Carries(u) /\ Turn(r, u, d, g, s, e, j) => P
  BY DEF Turn
<1>5. \A retry, u, d, g, s, n : Carries(u) /\ LaneIsDown(retry, u, d, g, s, n) => P
  BY <1>4 DEF LaneIsDown
<1>6. \A b : Ends(b) => P
  BY DEF Ends, EndSession
<1>7. Stops => P
  BY DEF Stops, links
<1>8. ASSUME cmds # << >>, Head(cmds).kind = "say", Says(Head(cmds)) PROVE P
  <2>1. 1 \in 1..Len(cmds) /\ Head(cmds) = cmds[1]
    BY <1>1, <1>8, QueueFacts
  <2>2. Head(cmds).sess = srv.sess
    BY <1>8, <2>1 DEF CommandsFit, Fresh, InSession
  <2> DEFINE x == [kind |-> "say", id |-> rt.next, sess |-> srv.sess]
  <2>3. x \in ToGate /\ x.sess = srv.sess /\ up' = Append(up, x) /\ srv' = srv
    BY <1>2, <1>8, <2>2 DEF Says, Turn
  <2> HIDE DEF x
  <2> QED
    BY <2>3
<1> HIDE DEF Carries, P
<1>9. Inputs => P
  BY <1>3, <1>4, <1>5 DEF Inputs
<1>10. cmds # << >> /\ Obeys(Head(cmds)) => P
  BY <1>3, <1>4, <1>6, <1>8, <1>9 DEF Obeys
<1>11. \A l, d, g, e, j, r : Asking(l, d, g, e, j, r) => P
  BY <1>3, <1>4 DEF Asking
<1>12. Asks => P
  BY <1>11 DEF Asks
<1>13. ASSUME NEW m, NEW d, NEW g, Receives(m, d, g) PROVE P
  <2>1. LetsIn(d, g) => P
    BY <1>3, <1>4 DEF LetsIn
  <2>2. Arrives(m, d, g) => P
    BY <1>11 DEF Arrives
  <2>3. TicketFails(m, d, g) \/ Attaches(m, d, g) => P
    BY <1>3, <1>4, <1>5 DEF TicketFails, Attaches
  <2>4. IsAttached(m, d, g) => P
    BY <1>3, <1>4, <1>5 DEF IsAttached
  <2>5. \A t : Passes(m, d, g, t) => P
    BY <1>3, <1>4 DEF Passes
  <2> QED
    BY <1>3, <1>4, <1>5, <1>6, <1>13, <2>1, <2>2, <2>3, <2>4, <2>5 DEF Receives
<1>14. P
  BY <1>3, <1>5, <1>6, <1>7, <1>10, <1>12, <1>13 DEF SessionTurn
<1> QED
  BY <1>14 DEF P, Carries

(* What is under way to the gate was said in its session. *)
LEMMA SaidStep ==
  ASSUME TypeOK, TypeOK', Handshake, CommandsFit, SaidHere, [Next]_vars
  PROVE  SaidHere'
<1>1. up \in Seq(ToGate) /\ DOMAIN up = 1..Len(up) /\ DOMAIN up' = 1..Len(up')
  BY DEF TypeOK
<1>2. SaidHere' <=> OfOne(up', "say", TRUE, srv'.sess)
  BY <1>1 DEF SaidHere, OfOne
<1>3. OfOne(up, "say", TRUE, srv.sess)
  BY <1>1 DEF SaidHere, OfOne
<1>4. srv'.sess = srv.sess /\ up' = up => SaidHere'
  BY <1>2, <1>3
<1>5. up' = << >> => SaidHere'
  BY <1>2 DEF OfOne
<1>6. CASE SessionStep
  <2>1. CASE up' = << >>
    BY <1>5, <2>1
  <2>2. ASSUME NEW x \in ToGate, srv' = srv, up' = Append(up, x), x.kind = "say" => x.sess = srv.sess
        PROVE  SaidHere'
    <3>1. OfOne(Append(up, x), "say", TRUE, srv.sess)
      BY <1>1, <1>3, <2>2, OneAfter
    <3> QED
      BY <1>2, <2>2, <3>1
  <2> QED
    BY <1>4, <1>6, <2>1, <2>2, SessionSteps, SaidSession
<1>7. CASE ThreadStep
  <2>1. CASE up' = <<[kind |-> "auth", token |-> token]>>
    BY <1>2, <2>1 DEF OfOne
  <2>2. EndSession(FALSE) => up' = << >>
    BY DEF EndSession
  <2> QED
    BY <1>4, <1>5, <1>7, <2>1, <2>2
       DEF ThreadStep, RefuseEmptyToken, StartSession, BackOff, LogInAgain, Stops, links
<1>8. CASE AppStep
  BY <1>4, <1>8 DEF AppStep, Submit, AuthWorker, PollAuth, Poll, Command, Quit, links
<1>9. CASE External
  <2>1. CASE ServeTcp
    <3>1. up # << >> /\ up' = Tail(up) /\ OnTcp(Head(up)) /\ srv \in Gates
      BY <2>1 DEF ServeTcp, TypeOK, Gates
    <3>2. OfOne(up', "say", TRUE, srv.sess)
      BY <1>1, <1>3, <3>1, OneAfter
    <3>3. CASE srv'.sess = srv.sess
      BY <1>2, <3>2, <3>3
    <3>4. CASE rt.phase = "enter"
      <4>1. Len(up) = 1
        BY <3>1, <3>4 DEF Handshake, Entering
      <4>2. Len(up') = 0
        BY <1>1, <3>1, <4>1, QueueFacts
      <4> QED
        BY <1>2, <4>2 DEF OfOne
    <3> QED
      BY <1>9, <3>3, <3>4, SessionKept
  <2>2. CASE Appear \/ Leave \/ MoveActor \/ Expire \/ \E d \in dgrams : ServeDatagram(d) \/ LoseDatagram(d)
    <3>1. up' = up /\ UNCHANGED rt
      BY <2>2 DEF Appear, Leave, MoveActor, Expire, ServeDatagram, LoseDatagram, Client, links
    <3>2. srv'.sess = srv.sess
      <4>1. srv \in Gates
        BY DEF TypeOK, Gates
      <4>2. CASE Appear \/ Leave \/ MoveActor \/ Expire
        BY <4>1, <4>2 DEF Appear, Leave, MoveActor, Expire, Gates
      <4>3. CASE \E d \in dgrams : ServeDatagram(d) \/ LoseDatagram(d)
        BY <4>1, <4>3 DEF ServeDatagram, LoseDatagram, Gates
      <4> QED
        BY <2>2, <4>2, <4>3
    <3> QED
      BY <1>4, <3>1, <3>2
  <2> QED
    BY <1>9, <2>1, <2>2 DEF External
<1>10. CASE UNCHANGED vars
  BY <1>4, <1>10 DEF vars, links
<1> QED
  BY <1>6, <1>7, <1>8, <1>9, <1>10, Steps

-----------------------------------------------------------------------------
(* The ticks of the remote actor. *)

(* Ticks are numbers. *)
LEMMA TickTypes ==
  ASSUME NEW e \in Events
  PROVE  /\ TickOf(e) \in Int /\ (e.kind = "move" => e.tick \in Nat /\ TickOf(e) = e.tick)
         /\ e.kind = "appear" => TickOf(e) = 0
         /\ e.kind \notin {"move", "appear"} => TickOf(e) = -1
BY DEF Events, TickOf

(* One more event: a move is later than what will be on screen. *)
LEMMA TickAppend ==
  ASSUME NEW q \in Seq(Events), NEW e \in Events, NEW now \in Int, NEW b \in Int, Rising(q, now)
  PROVE  /\ e.kind = "move" /\ WillTick(q, now, b) /\ b < e.tick => Rising(Append(q, e), now)
         /\ e.kind # "move" => Rising(Append(q, e), now)
         /\ \A c \in Int : Ticks(e) /\ TickOf(e) <= c => WillTick(Append(q, e), now, c)
         /\ ~Ticks(e) /\ WillTick(q, now, b) => WillTick(Append(q, e), now, b)
<1> DEFINE r == Append(q, e)
<1>1. /\ Len(r) = Len(q) + 1 /\ Len(q) \in Nat /\ \A i \in 1..Len(q) : r[i] = q[i]
      /\ r[Len(q) + 1] = e
  BY AppendFacts
<1> HIDE DEF r
<1>2. /\ \A i \in 1..Len(r) : i \in 1..Len(q) \/ i = Len(q) + 1
      /\ Len(q) + 1 \in 1..Len(r) /\ \A i \in 1..Len(q) : i \in 1..Len(r) /\ i < Len(q) + 1
  BY <1>1
<1>3. \A i \in 1..Len(q) : q[i] \in Events
  OBVIOUS
<1>4. ASSUME NEW j \in 1..Len(q), q[j].kind = "move"
      PROVE  /\ \A i \in 1..Len(r) : NextTick(r, i, j) => TickOf(r[i]) < q[j].tick
             /\ (\A i \in 1..Len(r) : i < j => ~Ticks(r[i])) => now < q[j].tick
  <2>1. ASSUME NEW i \in 1..Len(r), NextTick(r, i, j) PROVE TickOf(r[i]) < q[j].tick
    <3>1. i < j
      BY <2>1 DEF NextTick
    <3>2. i \in 1..Len(q)
      BY <1>1, <2>1, <3>1
    <3>3. NextTick(q, i, j)
      BY <1>1, <1>2, <2>1, <3>2 DEF NextTick
    <3> QED
      BY <1>1, <1>4, <3>2, <3>3 DEF Rising
  <2>2. (\A i \in 1..Len(r) : i < j => ~Ticks(r[i])) => \A i \in 1..Len(q) : i < j => ~Ticks(q[i])
    BY <1>1, <1>2
  <2> QED
    BY <1>4, <2>1, <2>2 DEF Rising
<1>5. e.kind # "move" => Rising(r, now)
  BY <1>1, <1>2, <1>4 DEF Rising
<1>6. ASSUME e.kind = "move", WillTick(q, now, b), b < e.tick PROVE Rising(r, now)
  <2>1. e.tick \in Nat
    BY <1>6, TickTypes
  <2>2. ASSUME NEW i \in 1..Len(r), NextTick(r, i, Len(q) + 1) PROVE TickOf(r[i]) < e.tick
    <3>1. i \in 1..Len(q) /\ Ticks(q[i])
      BY <1>1, <1>2, <2>2 DEF NextTick
    <3>2. \A k \in 1..Len(q) : i < k => ~Ticks(q[k])
      BY <1>1, <1>2, <2>2 DEF NextTick
    <3>3. TickOf(q[i]) <= b /\ TickOf(q[i]) \in Int
      BY <1>3, <1>6, <3>1, <3>2, TickTypes DEF WillTick, LastTick
    <3>4. TickOf(q[i]) < e.tick
      BY <1>6, <2>1, <3>3
    <3> QED
      BY <1>1, <3>1, <3>4
  <2>3. ASSUME \A i \in 1..Len(r) : i < Len(q) + 1 => ~Ticks(r[i]) PROVE now < e.tick
    <3>1. \A i \in 1..Len(q) : ~Ticks(q[i])
      BY <1>1, <1>2, <2>3
    <3> QED
      BY <1>6, <2>1, <3>1 DEF WillTick
  <2>4. ASSUME NEW j \in 1..Len(r), r[j].kind = "move"
        PROVE  /\ \A i \in 1..Len(r) : NextTick(r, i, j) => TickOf(r[i]) < r[j].tick
               /\ (\A i \in 1..Len(r) : i < j => ~Ticks(r[i])) => now < r[j].tick
    <3>1. CASE j \in 1..Len(q)
      BY <1>1, <1>4, <2>4, <3>1
    <3>2. CASE j = Len(q) + 1
      BY <1>1, <2>2, <2>3, <3>2
    <3> QED
      BY <1>2, <3>1, <3>2
  <2> QED
    BY <2>4 DEF Rising
<1>7. ASSUME NEW c \in Int, Ticks(e), TickOf(e) <= c PROVE WillTick(r, now, c)
  <2>1. ASSUME NEW i \in 1..Len(r), LastTick(r, i) PROVE TickOf(r[i]) <= c
    <3>1. i = Len(q) + 1
      BY <1>1, <1>2, <1>7, <2>1 DEF LastTick
    <3> QED
      BY <1>1, <1>7, <3>1
  <2>2. ~\A i \in 1..Len(r) : ~Ticks(r[i])
    BY <1>1, <1>2, <1>7
  <2> QED
    BY <2>1, <2>2 DEF WillTick
<1>8. ASSUME ~Ticks(e), WillTick(q, now, b) PROVE WillTick(r, now, b)
  <2>1. ASSUME NEW i \in 1..Len(r), LastTick(r, i) PROVE TickOf(r[i]) <= b
    <3>1. i \in 1..Len(q)
      BY <1>1, <1>2, <1>8, <2>1 DEF LastTick
    <3>2. LastTick(q, i)
      BY <1>1, <1>2, <2>1, <3>1 DEF LastTick
    <3> QED
      BY <1>1, <1>8, <3>1, <3>2 DEF WillTick
  <2>2. (\A i \in 1..Len(r) : ~Ticks(r[i])) => \A i \in 1..Len(q) : ~Ticks(q[i])
    BY <1>1, <1>2
  <2> QED
    BY <1>8, <2>1, <2>2 DEF WillTick
<1> QED
  BY <1>5, <1>6, <1>7, <1>8 DEF r

(* The app takes the first event: a move is later than what is on screen. *)
LEMMA TickTail ==
  ASSUME NEW q \in Seq(Events), q # << >>, NEW now \in Int, NEW b \in Int, Rising(q, now)
  PROVE  LET then == IF Ticks(Head(q)) THEN TickOf(Head(q)) ELSE now IN
         /\ Rising(Tail(q), then)
         /\ WillTick(q, now, b) => WillTick(Tail(q), then, b)
         /\ Head(q).kind = "move" => now < Head(q).tick
<1> DEFINE r == Tail(q)
           then == IF Ticks(Head(q)) THEN TickOf(Head(q)) ELSE now
<1>1. /\ Len(q) \in Nat \ {0} /\ Head(q) = q[1] /\ Len(r) = Len(q) - 1
      /\ \A i \in 1..Len(r) : r[i] = q[i + 1]
  BY QueueFacts
<1> HIDE DEF r
<1>2. 1 \in 1..Len(q) /\ \A i \in 1..Len(r) : i + 1 \in 1..Len(q) /\ 1 < i + 1
  BY <1>1
<1>3. \A j \in 1..Len(q) : j = 1 \/ (j - 1 \in 1..Len(r) /\ r[j - 1] = q[j] /\ (j - 1) + 1 = j)
  <2> TAKE j \in 1..Len(q)
  <2>1. j # 1 => j - 1 \in 1..Len(r) /\ (j - 1) + 1 = j
    BY <1>1
  <2> QED
    BY <1>1, <2>1
<1>4. ASSUME NEW j \in 1..Len(r), r[j].kind = "move"
      PROVE  /\ \A i \in 1..Len(r) : NextTick(r, i, j) => TickOf(r[i]) < r[j].tick
             /\ (\A i \in 1..Len(r) : i < j => ~Ticks(r[i])) => then < r[j].tick
  <2>1. q[j + 1] = r[j] /\ j + 1 \in 1..Len(q)
    BY <1>1, <1>2
  <2>2. ASSUME NEW i \in 1..Len(r), NextTick(r, i, j) PROVE TickOf(r[i]) < r[j].tick
    <3>1. ASSUME NEW k \in 1..Len(q), i + 1 < k, k < j + 1 PROVE ~Ticks(q[k])
      <4>1. k # 1
        BY <3>1
      <4>2. k - 1 \in 1..Len(r) /\ r[k - 1] = q[k] /\ i < k - 1 /\ k - 1 < j
        BY <1>3, <3>1, <4>1
      <4> QED
        BY <2>2, <4>2 DEF NextTick
    <3>2. i + 1 < j + 1 /\ Ticks(q[i + 1]) /\ i + 1 \in 1..Len(q) /\ r[i] = q[i + 1]
      BY <1>1, <1>2, <2>2 DEF NextTick
    <3>3. NextTick(q, i + 1, j + 1)
      BY <3>1, <3>2 DEF NextTick
    <3> QED
      BY <1>4, <2>1, <3>2, <3>3 DEF Rising
  <2>3. ASSUME \A i \in 1..Len(r) : i < j => ~Ticks(r[i]) PROVE then < r[j].tick
    <3>1. ASSUME NEW k \in 1..Len(q), 1 < k, k < j + 1 PROVE ~Ticks(q[k])
      <4>1. k - 1 \in 1..Len(r) /\ r[k - 1] = q[k] /\ k - 1 < j
        BY <1>3, <3>1
      <4> QED
        BY <2>3, <4>1
    <3>2. CASE Ticks(Head(q))
      <4>1. NextTick(q, 1, j + 1)
        BY <1>1, <1>2, <3>1, <3>2 DEF NextTick
      <4> QED
        BY <1>1, <1>2, <1>4, <2>1, <3>2, <4>1 DEF Rising
    <3>3. CASE ~Ticks(Head(q))
      <4>1. \A k \in 1..Len(q) : k < j + 1 => ~Ticks(q[k])
        BY <1>1, <1>3, <3>1, <3>3
      <4> QED
        BY <1>4, <2>1, <3>3, <4>1 DEF Rising
    <3> QED
      BY <3>2, <3>3
  <2> QED
    BY <2>2, <2>3
<1>5. Rising(r, then)
  BY <1>4 DEF Rising
<1>6. ASSUME WillTick(q, now, b) PROVE WillTick(r, then, b)
  <2>1. ASSUME NEW i \in 1..Len(r), LastTick(r, i) PROVE TickOf(r[i]) <= b
    <3>1. ASSUME NEW j \in 1..Len(q), i + 1 < j PROVE ~Ticks(q[j])
      <4>1. j - 1 \in 1..Len(r) /\ r[j - 1] = q[j] /\ i < j - 1
        BY <1>3, <3>1
      <4> QED
        BY <2>1, <4>1 DEF LastTick
    <3>2. LastTick(q, i + 1)
      BY <1>1, <1>2, <2>1, <3>1 DEF LastTick
    <3> QED
      BY <1>1, <1>2, <1>6, <3>2 DEF WillTick
  <2>2. ASSUME \A i \in 1..Len(r) : ~Ticks(r[i]) PROVE then <= b
    <3>1. \A j \in 1..Len(q) : 1 < j => ~Ticks(q[j])
      BY <1>3, <2>2
    <3>2. CASE Ticks(Head(q))
      <4>1. LastTick(q, 1)
        BY <1>1, <3>1, <3>2 DEF LastTick
      <4> QED
        BY <1>1, <1>2, <1>6, <3>2, <4>1 DEF WillTick
    <3>3. CASE ~Ticks(Head(q))
      <4>1. \A j \in 1..Len(q) : ~Ticks(q[j])
        BY <1>1, <1>3, <2>2, <3>3
      <4> QED
        BY <1>6, <3>3, <4>1 DEF WillTick
    <3> QED
      BY <3>2, <3>3
  <2> QED
    BY <2>1, <2>2 DEF WillTick
<1>7. Head(q).kind = "move" => now < Head(q).tick
  <2>1. \A i \in 1..Len(q) : i < 1 => ~Ticks(q[i])
    OBVIOUS
  <2> QED
    BY <1>1, <1>2, <2>1 DEF Rising
<1> QED
  BY <1>5, <1>6, <1>7 DEF r

(* Nothing of the ticks changes. *)
LEMMA TicksKept ==
  ASSUME TicksRise, UNCHANGED <<evts, rt>>, app'.tick = app.tick, app'.rewound = app.rewound,
         thread = "stopped" => thread' = "stopped"
  PROVE  TicksRise'
BY DEF TicksRise, NoRewind, Rising, NextTick, WillTick, LastTick, Mark

(* A session that ends sets the ticks back, if it was in a scene. *)
LEMMA TicksEnd ==
  ASSUME TypeOK, Handshake, TicksRise, thread # "stopped",
         NEW b \in BOOLEAN, joined => b, EndSession(b), app' = app
  PROVE  TicksRise'
<1>1. /\ evts \in Seq(Events) /\ app.tick \in Int /\ Disconnected \in Events /\ GaveUp \in Events
      /\ rt.mark \in Int /\ Mark \in Int
  <2>1. Disconnected \in Events /\ GaveUp \in Events
    BY DEF Events, Disconnected, GaveUp
  <2> QED
    BY <2>1, Typed DEF Mark
<1>2. PICK q \in Seq(Events) :
        /\ \/ (b \/ attempt = 0) /\ q = Append(evts, Disconnected)
           \/ ~b /\ ~joined /\ attempt > 0 /\ q = evts
        /\ \/ thread' = "stopped" /\ evts' = Append(q, GaveUp)
           \/ thread' = "backoff" /\ evts' = q
  BY EndEvents
<1>3. /\ Ticks(Disconnected) /\ TickOf(Disconnected) = -1 /\ Disconnected.kind # "move"
      /\ ~Ticks(GaveUp) /\ GaveUp.kind # "move"
  BY DEF Ticks, TickOf, Disconnected, GaveUp, OfLife
<1>4. Rising(evts, app.tick) /\ WillTick(evts, app.tick, Mark) /\ NoRewind
  BY DEF TicksRise
<1>5. -1 \in Int /\ -1 <= -1
  OBVIOUS
<1>6. Rising(q, app.tick) /\ WillTick(q, app.tick, -1)
  <2>1. CASE q = Append(evts, Disconnected)
    BY <1>1, <1>3, <1>4, <1>5, <2>1, TickAppend
  <2>2. CASE ~joined /\ q = evts
    <3>1. Mark = -1
      BY <2>2 DEF Handshake, Mark
    <3> QED
      BY <1>4, <2>2, <3>1
  <2> QED
    BY <1>2, <2>1, <2>2
<1>7. Rising(Append(q, GaveUp), app.tick)
  BY <1>1, <1>3, <1>5, <1>6, TickAppend
<1>8. Mark' = -1
  BY DEF EndSession, NewRuntime, Mark
<1>9. Rising(evts, app.tick)' /\ NoRewind'
  <2>1. Rising(evts', app.tick)
    BY <1>2, <1>6, <1>7
  <2> QED
    BY <1>4, <2>1 DEF NoRewind, Rising, NextTick
<1>10. thread' # "stopped" => WillTick(evts, app.tick, Mark)'
  <2>1. thread' # "stopped" => WillTick(evts', app.tick, -1)
    BY <1>2, <1>6
  <2> QED
    BY <1>8, <2>1 DEF WillTick, LastTick
<1> QED
  BY <1>9, <1>10 DEF TicksRise

(* A step of the session: a move is passed on only if it is newer than the mark. *)
LEMMA TicksSession ==
  ASSUME TypeOK, Handshake, TicksRise, InSession, SessionTurn
  PROVE  TicksRise'
<1>1. /\ evts \in Seq(Events) /\ app.tick \in Int /\ rt.mark \in Int /\ Mark \in Int /\ srv.sess \in Nat
  BY Typed DEF Mark
<1>2. CASE Stops /\ app' = app
  BY <1>2, TicksKept DEF Stops
<1>3. CASE Ending
  <2>1. PICK b \in BOOLEAN : (joined => b) /\ Ends(b)
    BY <1>3 DEF Ending
  <2> QED
    BY <2>1, TicksEnd DEF Ends, InSession
<1>4. CASE Seen
  <2>1. /\ thread' = thread /\ app' = app /\ thread # "stopped" /\ NoRewind
        /\ Rising(evts, app.tick) /\ WillTick(evts, app.tick, Mark)
    BY <1>4 DEF Seen, Kept, InSession, TicksRise
  <2>2. ASSUME Rising(evts', app.tick), WillTick(evts', app.tick, Mark') PROVE TicksRise'
    BY <2>1, <2>2 DEF TicksRise, NoRewind, Rising, NextTick, WillTick, LastTick
  <2>3. CASE Steady \/ LetIn
    <3>1. evts' = evts /\ Mark' = Mark
      BY <2>3 DEF Steady, LetIn, Mark
    <3> QED
      BY <2>1, <2>2, <3>1
  <2>4. CASE Arrival
    <3> DEFINE e == [kind |-> "entered", sess |-> srv.sess]
    <3>1. e \in Events /\ Ticks(e) /\ TickOf(e) = -1 /\ e.kind # "move"
      BY <1>1 DEF Events, Ticks, TickOf
    <3>2. evts' = Append(evts, e) /\ Mark' = 0 /\ -1 <= 0 /\ 0 \in Int
      BY <2>4 DEF Arrival, Mark
    <3> HIDE DEF e
    <3>3. Rising(Append(evts, e), app.tick)
      BY <1>1, <2>1, <3>1, TickAppend
    <3>4. WillTick(Append(evts, e), app.tick, 0)
      BY <1>1, <2>1, <3>1, <3>2, TickAppend
    <3> QED
      BY <2>2, <3>2, <3>3, <3>4
  <2>5. ASSUME NEW m \in Events, Passed(m) PROVE TicksRise'
    <3>1. /\ evts' = Append(evts, m) /\ rt.phase = "scene" /\ rt'.phase = "scene" /\ m.kind \in OfLife
          /\ Ticks(m) /\ Mark = rt.mark /\ Mark' = rt'.mark
      BY <2>5 DEF Passed, Ticks, Mark
    <3>2. CASE m.kind = "move"
      <4>1. rt.mark < m.tick /\ rt'.mark = m.tick /\ m.tick \in Nat /\ TickOf(m) = m.tick
        BY <2>5, <3>2, TickTypes DEF Passed
      <4>2. m.tick <= m.tick /\ m.tick \in Int
        BY <4>1
      <4>3. Rising(Append(evts, m), app.tick)
        BY <1>1, <2>1, <3>1, <3>2, <4>1, TickAppend
      <4>4. WillTick(Append(evts, m), app.tick, m.tick)
        BY <1>1, <2>1, <3>1, <4>1, <4>2, TickAppend
      <4> QED
        BY <2>2, <3>1, <4>1, <4>3, <4>4
    <3>3. CASE m.kind # "move"
      <4>1. rt'.mark = 0 /\ TickOf(m) <= 0 /\ 0 \in Int
        BY <2>5, <3>3, TickTypes DEF Passed
      <4>2. Rising(Append(evts, m), app.tick)
        BY <1>1, <2>1, <3>3, TickAppend
      <4>3. WillTick(Append(evts, m), app.tick, 0)
        BY <1>1, <2>1, <3>1, <4>1, TickAppend
      <4> QED
        BY <2>2, <3>1, <4>1, <4>2, <4>3
    <3> QED
      BY <3>2, <3>3
  <2> QED
    BY <1>4, <2>3, <2>4, <2>5 DEF Seen
<1> QED
  BY <1>2, <1>3, <1>4, SeenSession

(* A step of the thread outside a session. *)
LEMMA TicksThread ==
  ASSUME TypeOK, Unused, Handshake, TicksRise, ThreadStep
  PROVE  TicksRise'
<1>1. /\ evts \in Seq(Events) /\ app.tick \in Int /\ Mark \in Int /\ app' = app /\ thread # "stopped"
  <2>1. evts \in Seq(Events) /\ app.tick \in Int /\ Mark \in Int
    BY Typed DEF Mark
  <2>2. app' = app /\ thread # "stopped"
    BY DEF ThreadStep, RefuseEmptyToken, StartSession, BackOff, LogInAgain
  <2> QED
    BY <2>1, <2>2
<1>2. Rising(evts, app.tick) /\ WillTick(evts, app.tick, Mark) /\ NoRewind
  BY <1>1 DEF TicksRise
<1>3. CASE RefuseEmptyToken
  <2>1. Disconnected \in Events /\ GaveUp \in Events /\ Disconnected.kind # "move" /\ GaveUp.kind # "move"
    BY DEF Disconnected, GaveUp, Events
  <2>2. evts' = Append(Append(evts, Disconnected), GaveUp) /\ Append(evts, Disconnected) \in Seq(Events)
    BY <1>1, <1>3, <2>1 DEF RefuseEmptyToken
  <2>3. Rising(Append(evts, Disconnected), app.tick)
    BY <1>1, <1>2, <2>1, TickAppend
  <2>4. Rising(evts', app.tick)
    BY <1>1, <2>1, <2>2, <2>3, TickAppend
  <2> QED
    BY <1>1, <1>2, <1>3, <2>4 DEF RefuseEmptyToken, TicksRise, NoRewind, Rising, NextTick
<1>4. CASE StartSession
  <2>1. CASE EndSession(FALSE)
    <3>1. ~joined
      BY <1>4 DEF StartSession, Unused
    <3> QED
      BY <1>1, <2>1, <3>1, TicksEnd
  <2>2. CASE UNCHANGED <<rt, evts>>
    BY <1>1, <2>2, TicksKept
  <2> QED
    BY <1>4, <2>1, <2>2 DEF StartSession, Stops
<1>5. CASE BackOff
  <2>1. CASE UNCHANGED <<rt, evts>>
    BY <1>1, <2>1, TicksKept
  <2>2. CASE rt' = rt /\ evts' = Append(evts, [kind |-> "reconnecting"])
    <3> DEFINE e == [kind |-> "reconnecting"]
    <3>1. e \in Events /\ ~Ticks(e) /\ e.kind # "move"
      BY DEF Events, Ticks, OfLife
    <3>2. evts' = Append(evts, e) /\ Mark' = Mark
      BY <2>2 DEF Mark
    <3> HIDE DEF e
    <3>3. Rising(Append(evts, e), app.tick)
      BY <1>1, <1>2, <3>1, TickAppend
    <3>4. WillTick(Append(evts, e), app.tick, Mark)
      BY <1>1, <1>2, <3>1, TickAppend
    <3>5. Rising(evts', app.tick) /\ WillTick(evts', app.tick, Mark')
      BY <3>2, <3>3, <3>4
    <3> QED
      BY <1>1, <1>2, <3>5 DEF TicksRise, NoRewind, Rising, NextTick, WillTick, LastTick
  <2> QED
    BY <1>5, <2>1, <2>2 DEF BackOff, Stops
<1>6. CASE LogInAgain
  BY <1>1, <1>6, TicksKept DEF LogInAgain
<1> QED
  BY <1>3, <1>4, <1>5, <1>6 DEF ThreadStep

(* The app shows the next event. *)
LEMMA TicksPoll ==
  ASSUME TypeOK, TicksRise, Poll
  PROVE  TicksRise'
<1> DEFINE e == Head(evts)
           then == IF Ticks(e) THEN TickOf(e) ELSE app.tick
<1>1. /\ evts \in Seq(Events) /\ app.tick \in Int /\ Mark \in Int /\ app.rewound \in BOOLEAN
      /\ app \in [phase : {"login", "connecting", "scene", "reconnecting", "failed", "closed"},
                  sess : Nat, tick : Nat \cup {-1}, rewound : BOOLEAN]
  <2>1. app \in [phase : {"login", "connecting", "scene", "reconnecting", "failed", "closed"},
                sess : Nat, tick : Nat \cup {-1}, rewound : BOOLEAN]
    BY DEF TypeOK
  <2> QED
    BY <2>1, Typed DEF Mark
<1>2. /\ evts # << >> /\ app' = Show(app, e) /\ evts' = Tail(evts) /\ UNCHANGED <<thread, rt>>
  BY DEF Poll
<1>3. e \in Events
  BY <1>1, <1>2, QueueFacts
<1>4. Rising(evts, app.tick) /\ ~app.rewound /\ (thread # "stopped" => WillTick(evts, app.tick, Mark))
  BY DEF TicksRise, NoRewind
<1>5. /\ Rising(Tail(evts), then)
      /\ WillTick(evts, app.tick, Mark) => WillTick(Tail(evts), then, Mark)
      /\ e.kind = "move" => app.tick < e.tick
  BY <1>1, <1>2, <1>4, TickTail
<1> HIDE DEF e
<1>6. app'.tick = then /\ app'.rewound = FALSE
  <2>1. CASE e.kind = "move"
    <3>1. e.tick \in Nat /\ app.tick < e.tick /\ Ticks(e) /\ TickOf(e) = e.tick
      BY <1>3, <1>5, <2>1, TickTypes DEF Ticks, OfLife
    <3>2. ~(app.tick # -1 /\ e.tick <= app.tick)
      BY <1>1, <3>1
    <3>3. app' = ShowMove(app, e.tick)
      BY <1>2, <2>1 DEF Show
    <3> QED
      BY <1>1, <1>4, <3>1, <3>2, <3>3 DEF ShowMove
  <2>2. CASE e.kind = "appear"
    BY <1>1, <1>2, <1>4, <2>2 DEF Show, Ticks, TickOf, OfLife
  <2>3. CASE e.kind \in {"entered", "disconnected", "leave"}
    BY <1>1, <1>2, <1>4, <2>3 DEF Show, Ticks, TickOf, OfLife
  <2>4. CASE e.kind \in {"reconnecting", "gave_up"}
    BY <1>1, <1>2, <1>4, <2>4 DEF Show, Ticks, OfLife
  <2> QED
    BY <1>3, <2>1, <2>2, <2>3, <2>4 DEF Events
<1> HIDE DEF then
<1>7. Rising(evts, app.tick)'
  <2>1. Rising(evts', app'.tick)
    BY <1>2, <1>5, <1>6
  <2> QED
    BY <2>1 DEF Rising, NextTick
<1>8. thread' # "stopped" => WillTick(evts, app.tick, Mark)'
  <2>1. Mark' = Mark
    BY <1>2 DEF Mark
  <2>2. thread' # "stopped" => WillTick(evts', app'.tick, Mark')
    BY <1>2, <1>4, <1>5, <1>6, <2>1
  <2> QED
    BY <2>2 DEF WillTick, LastTick
<1> QED
  BY <1>6, <1>7, <1>8 DEF TicksRise, NoRewind

(* What is on screen, and what will be, only rises. *)
LEMMA TicksStep ==
  ASSUME TypeOK, AppStarts, Unused, Handshake, TicksRise, [Next]_vars
  PROVE  TicksRise'
<1>1. CASE SessionStep
  BY <1>1, SessionSteps, TicksSession
<1>2. CASE ThreadStep
  BY <1>2, TicksThread
<1>3. CASE AppStep
  <2>1. CASE Submit \/ AuthWorker \/ Command
    BY <2>1, TicksKept DEF Submit, AuthWorker, Command
  <2>2. CASE PollAuth \/ Quit
    <3>1. app'.tick = app.tick /\ app'.rewound = app.rewound /\ UNCHANGED <<evts, rt>>
      BY <2>2 DEF PollAuth, Quit, TypeOK
    <3>2. thread = "stopped" => thread' = "stopped"
      BY <2>2 DEF PollAuth, Quit, AppStarts
    <3> QED
      BY <3>1, <3>2, TicksKept
  <2>3. CASE Poll
    BY <2>3, TicksPoll
  <2> QED
    BY <1>3, <2>1, <2>2, <2>3 DEF AppStep
<1>4. CASE External
  BY <1>4, TicksKept DEF External, ServeTcp, Appear, Leave, MoveActor, Expire, ServeDatagram,
                         LoseDatagram, Client
<1>5. CASE UNCHANGED vars
  BY <1>5, TicksKept DEF vars
<1> QED
  BY <1>1, <1>2, <1>3, <1>4, <1>5, Steps

-----------------------------------------------------------------------------
(* The invariant and what follows from it. *)

(* Every part of the invariant holds before the user logs in. *)
LEMMA InitLink == Init => LinkInv
<1> SUFFICES ASSUME Init PROVE LinkInv
  OBVIOUS
<1>1. TypeOK
  BY TypesInit
<1>2. /\ thread = "none" /\ attempt = 0 /\ joined = FALSE /\ rt = NewRuntime /\ udp = 0
      /\ cmds = << >> /\ evts = << >> /\ srv = NoSession
      /\ app = [phase |-> "login", sess |-> 0, tick |-> -1, rewound |-> FALSE]
      /\ up = << >> /\ down = << >> /\ dgrams = {}
  BY DEF Init
<1>3. /\ rt.phase = "auth" /\ rt.next = 2 /\ rt.lane = NoLane
      /\ srv.sess = 0 /\ srv.scene = FALSE /\ srv.life = FALSE /\ srv.ticket = 0
      /\ srv.lane = 0 /\ srv.noTicket = FALSE
      /\ app.phase = "login" /\ app.tick = -1 /\ app.rewound = FALSE
      /\ rt.lane.boot = 0 /\ rt.lane.attach = 0 /\ rt.lane.attached = FALSE
  BY <1>2 DEF NewRuntime, NoSession, NoLane
<1>4. Len(up) = 0 /\ Len(down) = 0 /\ Len(evts) = 0 /\ Len(cmds) = 0
  BY <1>2
<1>5. AppStarts
  BY <1>2, <1>3 DEF AppStarts
<1>6. Unused
  BY <1>2, <1>3 DEF Unused, NoSession
<1>7. Handshake
  <2>1. InAuth
    BY <1>3, <1>4 DEF InAuth, Kinded
  <2> QED
    BY <1>2, <1>3, <2>1 DEF Handshake
<1>8. QuitIsClosed
  BY <1>3, <1>4 DEF QuitIsClosed
<1>9. AppAhead
  <2>1. Shown = [phase |-> "login", sess |-> 0] /\ Outlook = {[phase |-> "login", sess |-> 0]}
    BY <1>2, <1>3 DEF Shown, Outlook
  <2> QED
    BY <1>4, <2>1 DEF AppAhead, WillShow
<1>10. CommandsFit
  BY <1>3, <1>4 DEF CommandsFit
<1>11. SaidHere
  BY <1>2 DEF SaidHere
<1>12. TicksRise
  <2>1. Mark = -1 /\ app.tick <= -1
    BY <1>3 DEF Mark
  <2> QED
    BY <1>3, <1>4, <2>1 DEF TicksRise, NoRewind, Rising, WillTick
<1>13. LaneInv
  <2>1. Tickets(up) = {} /\ Tickets(down) = {}
    BY <1>4 DEF Tickets
  <2>2. TicketsInOrder
    BY <1>2, <1>3, <1>4, <2>1 DEF TicketsInOrder, Rise
  <2>3. LaneFits /\ BootIsNewest /\ AttachIsNewest /\ LaneWaits
    BY <1>3 DEF LaneFits, BootIsNewest, AttachIsNewest, LaneWaits
  <2> QED
    BY <2>2, <2>3 DEF LaneInv
<1> QED
  BY <1>1, <1>5, <1>6, <1>7, <1>8, <1>9, <1>10, <1>11, <1>12, <1>13 DEF LinkInv

(* Every step keeps every part of the invariant. *)
LEMMA StepLink == LinkInv /\ [Next]_vars => LinkInv'
<1> SUFFICES ASSUME LinkInv, [Next]_vars PROVE LinkInv'
  OBVIOUS
<1>1. /\ TypeOK /\ AppStarts /\ Unused /\ Handshake /\ QuitIsClosed /\ AppAhead /\ CommandsFit
      /\ SaidHere /\ TicksRise /\ LaneInv
  BY DEF LinkInv
<1>2. TypeOK'
  BY <1>1, TypesStep
<1>3. AppStarts' /\ Unused' /\ Handshake'
  BY <1>1, StartsStep, UnusedStep, HandshakeStep
<1>4. QuitIsClosed'
  BY <1>1, QuitStep
<1>5. AppAhead'
  BY <1>1, AheadStep
<1>6. CommandsFit'
  BY <1>1, FitsStep
<1>7. SaidHere'
  BY <1>1, <1>2, SaidStep
<1>8. TicksRise'
  BY <1>1, TicksStep
<1>9. LaneInv'
  BY <1>1, <1>2, <1>3, LaneStep
<1> QED
  BY <1>2, <1>3, <1>4, <1>5, <1>6, <1>7, <1>8, <1>9 DEF LinkInv

(* The invariant holds in every state of the link. *)
THEOREM LinkInvariantHolds == Spec => []LinkInv
BY InitLink, StepLink, PTL DEF Spec

(* The types and budgets of the link; what the user said in one session is sent *)
(* in no other (run_session and sleep_with_shutdown discard what waits); a      *)
(* remote actor on screen never goes back in time (last_remote_move_ticks); and *)
(* a lane is attached only by the answer to the attach its socket was made for  *)
(* (handle_fast_lane_attached).                                                 *)
THEOREM LinkIsSafe == Spec => []LinkOK
<1>1. LinkInv => LinkOK
  <2> SUFFICES ASSUME LinkInv PROVE LinkOK
    OBVIOUS
  <2>1. TypeOK /\ SaidHere /\ NoRewind
    BY DEF LinkInv, TicksRise
  <2>2. AttachedIsMutual
    BY DEF LinkInv, LaneInv, AttachIsNewest, AttachedIsMutual
  <2> QED
    BY <2>1, <2>2 DEF LinkOK
<1> QED
  BY <1>1, LinkInvariantHolds, PTL

(* With no event under way the app's phase is that of the thread: the user      *)
(* never looks at a scene that was dropped, or waits for a reconnect that was   *)
(* given up (net/plugin.rs, session/mod.rs).                                    *)
THEOREM AppFollowsThread == Spec => []AppFollows
<1>1. LinkInv => AppFollows
  BY Follows DEF LinkInv
<1> QED
  BY <1>1, LinkInvariantHolds, PTL

(* A lane that is down in a scene waits for a timer, a ticket or an attach that *)
(* is still under way, unless the gate refused the ticket or the attach was     *)
(* lost (poll_fast_lane_retry, mark_fast_lane_failed).                          *)
THEOREM LaneComesBack == Spec => []LaneIsDriven
<1>1. LinkInv => LaneIsDriven
  BY LaneDriven DEF LinkInv
<1> QED
  BY <1>1, LinkInvariantHolds, PTL
=====
