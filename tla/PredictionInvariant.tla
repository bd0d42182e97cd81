------------------------- MODULE PredictionInvariant -------------------------
(* The inductive invariant of Prediction.                                       *)
EXTENDS Prediction

Counts == Nat \ {0}
Frames == [seq : Counts, tick : Counts, dir : Dirs]
States == [seq : Nat, tick : Nat, pos : Int, vel : Int]
Runtimes ==
  [seq : Counts, tick : Counts, cur : States, ih : Seq(Frames), ph : Seq(States),
   ack : [seq : Nat, tick : Nat], soft : BaseSoft..MaxSoft]
Reasons == {"none", "push", "drift", "teleport", "status"}

(* Inputs and states of a runtime's past. *)
Sent(seq, tick) == {f \in Frames : f.seq < seq /\ f.tick < tick}
Known(tick) == {s \in States : s.tick < tick}
(* The histories have their bounds, and nothing in them is of the future. *)
RuntimeOK(r) ==
  /\ r \in Runtimes /\ r.cur \in Known(r.tick)
  /\ r.ih \in Seq(Sent(r.seq, r.tick)) /\ Len(r.ih) <= InputCap
  /\ r.ph \in Seq(Known(r.tick)) /\ Len(r.ph) \in 1..StateCap

PredictionTypes ==
  /\ RuntimeOK(c)
  /\ app \in [dir : Dirs, stop : BOOLEAN, vel : Int]
  /\ inputs \in Seq(Frames) /\ srv \in States /\ unheard \in BOOLEAN /\ spent \in Nat
  /\ acks \subseteq [state : States, kind : Reasons]

(* The inputs under way are of numbers the server has not seen. *)
InputsOK ==
  /\ srv.seq < c.seq
  /\ \A i \in DOMAIN inputs : srv.seq < inputs[i].seq /\ inputs[i].seq < c.seq
  /\ \A i, j \in DOMAIN inputs : i < j => inputs[i].seq < inputs[j].seq

(* A later number was said at a later tick. *)
Rises(s, t) == s.seq < t.seq => s.tick < t.tick
AcksOK ==
  /\ c.ack.seq <= srv.seq /\ c.ack.tick <= srv.tick
  /\ \A a \in acks : /\ a.state.tick \in 1..srv.tick /\ a.state.seq <= srv.seq
                     /\ a.state.tick = srv.tick => a.state = srv
                     /\ Rises(c.ack, a.state)
  /\ \A a, b \in acks : Rises(a.state, b.state)

(* What is pending ends with the last input, and the clock follows it or the    *)
(* last ack.                                                                    *)
PendingOK(r) ==
  r.ih # << >> => /\ Last(r.ih).seq = r.seq - 1
                  /\ (r.tick <= Last(r.ih).tick + 1 \/ r.tick <= r.ack.tick + 1)
(* Nothing is pending and the prediction is ahead of the last ack: it was the   *)
(* answer to the last input.                                                    *)
AheadOK(r) ==
  \/ r.ih # << >> \/ r.cur.tick <= r.ack.tick
  \/ r.ack.seq = r.seq - 1 /\ r.ack.seq > 0
(* Ahead of the last ack, the prediction is that of the newest state, or the    *)
(* ack was the newest and is no match for any other.                            *)
TipOK(r) ==
  LET tip == Last(r.ph)
  IN  \/ r.cur.tick <= tip.tick \/ r.cur.tick <= r.ack.tick
      \/ r.ih = << >> /\ tip.seq = r.ack.seq /\ tip.tick = r.ack.tick

(* The server's last word is lost, or on its way and will count, or was heard.  *)
Settled == c.seq = srv.seq + 1 /\ c.cur.tick <= srv.tick => c.cur.pos = srv.pos /\ c.cur.vel = srv.vel
Heard ==
  \/ unheard
  \/ \E a \in acks : a.state = srv /\ ~Stale(c, a.state)
  \/ Settled /\ \A a \in acks : Stale(c, a.state)

ToldOK == (told = {} /\ app.vel = c.cur.vel) \/ told = {c.cur.vel}

PredictionInv ==
  /\ PredictionTypes /\ InputsOK /\ AcksOK
  /\ PendingOK(c) /\ AheadOK(c) /\ TipOK(c)
  /\ Heard /\ ToldOK
==============================================================================
