----------------------------- MODULE Prediction -----------------------------
(* The local player of the client (src/clients/bevy_client): the keys become    *)
(* movement samples (movement/plugin.rs), a sample is predicted at once and     *)
(* sent (world/local_player.rs, sim/history.rs), each authoritative ack is      *)
(* reconciled with what was predicted (net/runtime.rs, sim/reconcile.rs,        *)
(* sim/governance.rs).                                                          *)
(*                                                                              *)
(* A position is a number on a line.  The integrator and the server are         *)
(* external: a move goes two units, a brake takes one unit of speed a step; the *)
(* server applies at most one input a tick, idles otherwise if it ticks at all, *)
(* and tells why where it disagrees.                                            *)
EXTENDS Integers, SequencesExt

CONSTANTS
  InputCap, StateCap,       \* capacities of InputHistory and PredictedHistory
  MaxReplay, MaxPending,    \* max_replay_frames, max_pending_inputs
  BaseSoft, MaxSoft, Hard,  \* soft_position_error from base to max, hard_snap_distance
  Still,                    \* FINAL_STOP_SYNC_SPEED_EPSILON
  Dirs,                     \* directions the keys can give
  MaxSeq, MaxTick,          \* bounds: inputs sent, ticks of the server
  MaxEvents, Kinds          \* bound: events of the kinds below together

ASSUME PredictionAssumption ==
  /\ {InputCap, StateCap, MaxReplay, MaxPending, MaxSeq, MaxTick} \subseteq Nat \ {0}
  /\ {BaseSoft, MaxSoft, Hard, Still, MaxEvents} \subseteq Nat
  /\ BaseSoft <= MaxSoft /\ MaxSoft < Hard
  /\ 0 \in Dirs /\ Dirs \subseteq -1..1
  /\ Kinds \subseteq {"push", "drift", "teleport", "status", "lose", "rejoin", "rtt"}

VARIABLES
  c,       \* LocalPredictionRuntime, and the last ack applied
  app,     \* MovementIntent, stop_sent, and the velocity last told
  told,    \* the last LocalPosition on its way to the app
  inputs,  \* inputs under way to the server, in order
  acks,    \* acks under way to the client, in any order
  srv,     \* the server: last input and tick, position and velocity
  unheard, \* the last thing the server said is lost
  spent    \* events so far

vars == <<c, app, told, inputs, acks, srv, unheard, spent>>
Happens(kind) == kind \in Kinds /\ spent < MaxEvents /\ spent' = spent + 1

(* FoldLeft as a function of the position: TLC evaluates it in linear time. *)
Fold(op(_, _), base, s) ==
  LET f[i \in 0..Len(s)] == IF i = 0 THEN base ELSE op(f[i - 1], s[i]) IN f[Len(s)]

Abs(n) == IF n < 0 THEN -n ELSE n
Gap(s, t) == Abs(s.pos - t.pos)

(* External: movement_core::integrator::step. *)
Slower(v) == CASE v > 0 -> v - 1 [] v < 0 -> v + 1 [] OTHER -> 0
Step(s, f) ==
  LET v == IF f.dir = 0 THEN Slower(s.vel) ELSE 2 * f.dir
  IN  [seq |-> f.seq, tick |-> f.tick, pos |-> s.pos + v, vel |-> v]

Idle(pos) == [seq |-> 0, tick |-> 0, pos |-> pos, vel |-> 0]

------------------------------------------------------------------------------
(* sim/history.rs: bounded rings, the oldest falls out. *)
Push(ring, x, cap) == Append(IF Len(ring) = cap THEN Tail(ring) ELSE ring, x)
RetainRecent(ring, n) == IF Len(ring) > n THEN SubSeq(ring, Len(ring) - n + 1, Len(ring)) ELSE ring
(* Acks that carry no input seq are matched by tick. *)
Outlasts(f, ack) == IF ack.seq > 0 THEN f.seq > ack.seq ELSE f.tick > ack.tick
StillPending(frames, ack) ==
  LET left == {i \in DOMAIN frames : Outlasts(frames[i], ack)}
  IN  IF left = {} THEN << >> ELSE SubSeq(frames, Min(left), Len(frames))
UpTo(ring, kept) == IF kept = {} THEN << >> ELSE SubSeq(ring, 1, Max(kept))
TruncateAfterSeq(ring, seq) == UpTo(ring, {i \in DOMAIN ring : ring[i].seq <= seq})
TruncateAfterTick(ring, tick) == UpTo(ring, {i \in DOMAIN ring : ring[i].tick <= tick})
(* The states an ack is compared with: of its tick, or else of its input.       *)
Matches(ring, ack) ==
  LET byTick == {i \in DOMAIN ring : ring[i].tick = ack.tick}
      bySeq == {i \in DOMAIN ring : ring[i].seq = ack.seq /\ ack.seq # 0}
  IN  IF byTick # {} THEN byTick ELSE bySeq

------------------------------------------------------------------------------
(* world/local_player.rs: reset_with_seq and its inputs from then on. *)
FromOne(seq) == 1  \* Mutant: the numbers start over
FirstSeq(seq) == IF seq < 1 THEN 1 ELSE seq
NewRuntime(pos, seq) ==
  [seq |-> FirstSeq(seq), tick |-> 1, cur |-> Idle(pos), ih |-> << >>,
   ph |-> <<Idle(pos)>>, ack |-> [seq |-> 0, tick |-> 0], soft |-> BaseSoft]

Frame(r, dir) == [seq |-> r.seq, tick |-> r.tick, dir |-> dir]
ApplyInput(r, f) ==
  LET next == Step(r.cur, f)
  IN  [r EXCEPT !.seq = @ + 1, !.tick = @ + 1, !.cur = next,
                !.ih = Push(@, f, InputCap), !.ph = Push(@, next, StateCap)]

(* extend_prediction_through: the server idled meanwhile, so does the client. *)
Idled(r, tick) ==
  LET next == Step(r.cur, [seq |-> 0, tick |-> tick, dir |-> 0])
  IN  [r EXCEPT !.cur = next, !.ph = Push(@, next, StateCap)]
IdledThrough(r, ticks) == Fold(Idled, r, ticks)
Extend(r, tick) ==
  IF tick <= r.cur.tick THEN r
  ELSE IdledThrough(r, [i \in 1..tick - r.cur.tick |-> r.cur.tick + i])

(* The pending inputs, the newest of them if there are too many, on top of what *)
(* the server says.                                                             *)
Trimmed(frames) == Len(frames) > MaxReplay
Replayed(r, f) ==
  LET next == Step(r.cur, f) IN [r EXCEPT !.cur = next, !.ph = Push(@, next, StateCap)]
ReplayedAll(r, frames) == Fold(Replayed, r, frames)
ReplayOn(r, ring, auth, frames) ==
  LET ready == [r EXCEPT !.cur = auth, !.ph = ring,
                         !.ih = IF Trimmed(frames) THEN RetainRecent(@, MaxPending) ELSE @]
  IN  ReplayedAll(ready, RetainRecent(frames, MaxReplay))

------------------------------------------------------------------------------
(* sim/reconcile.rs.  The client takes the server's word and forgets the rest;  *)
Snap(r, auth) == [r EXCEPT !.cur = auth, !.ih = << >>, !.ph = <<auth>>]
(* takes it, and leaves what is pending where it is, unreplayed;                *)
Override(r, auth) ==
  LET kept == IF auth.seq > 0 THEN TruncateAfterSeq(r.ph, auth.seq)
              ELSE TruncateAfterTick(r.ph, auth.tick)
  IN  [r EXCEPT !.cur = auth, !.ph = Push(kept, auth, StateCap)]
(* keeps its prediction, a newer word of the server aside;                      *)
Accept(r, auth) ==
  IF r.ph = << >> \/ auth.tick >= Last(r.ph).tick
  THEN [r EXCEPT !.cur = auth, !.ph = Push(@, auth, StateCap)]
  ELSE [r EXCEPT !.cur = Last(r.ph)]
(* or rewinds to the match and replays.                                         *)
Rewind(r, match, auth) ==
  LET kept == IF match.seq > 0 THEN TruncateAfterSeq(r.ph, match.seq)
              ELSE TruncateAfterTick(r.ph, match.tick)
  IN  ReplayOn(r, kept, auth, StillPending(r.ih, auth))
(* Nothing to compare with: by distance from the newest prediction. *)
WithoutMatch(r, auth) ==
  LET pending == StillPending(r.ih, auth)
      ring == Push(r.ph, auth, StateCap)
  IN  IF r.ph = << >> \/ Gap(Last(r.ph), auth) >= Hard THEN Snap(r, auth)
      ELSE IF pending = << >> THEN [r EXCEPT !.cur = Last(r.ph), !.ph = ring]
      ELSE ReplayOn(r, ring, auth, pending)
Compare(r, match, auth, kind) ==
  IF Gap(match, auth) <= r.soft /\ kind # "push" THEN Accept(r, auth)
  ELSE IF Gap(match, auth) >= Hard THEN Snap(r, auth)
  ELSE Rewind(r, match, auth)
Reconcile(before, ack) ==
  LET auth == ack.state
      r == [before EXCEPT !.ih = StillPending(@, auth)]
      matches == Matches(r.ph, auth)
  IN  IF ack.kind = "teleport" THEN Snap(r, auth)
      ELSE IF ack.kind = "status" THEN Override(r, auth)
      ELSE IF matches = {} THEN WithoutMatch(r, auth)
      ELSE Compare(r, r.ph[Min(matches)], auth, ack.kind)  \* the oldest

ApplyAck(r, ack) ==
  LET extended == Extend(r, ack.state.tick)
      ahead == [extended EXCEPT !.tick = IF @ > ack.state.tick THEN @ ELSE ack.state.tick + 1]
  IN  Reconcile(ahead, ack)

(* net/runtime.rs: acks come over TCP and UDP; an older one is ignored. *)
SameSeqStale(r, s) == s.seq <= r.ack.seq  \* Mutant: the tick does not count
Stale(r, s) == s.seq < r.ack.seq \/ (s.seq = r.ack.seq /\ s.tick <= r.ack.tick)

------------------------------------------------------------------------------
(* movement/plugin.rs *)
ShouldSend(a) == a.dir # 0 \/ ~a.stop \/ Abs(a.vel) > Still
(* LocalPosition: a frame of the app takes all there are, the last one counts. *)
TellMoves(r) == IF r.cur.pos = c.cur.pos THEN told ELSE {r.cur.vel}  \* Mutant: only of moves
Tell(r) == {r.cur.vel}

Init ==
  /\ c = NewRuntime(0, 1)
  /\ app = [dir |-> 0, stop |-> TRUE, vel |-> 0]
  /\ told = {} /\ inputs = << >> /\ acks = {}
  /\ srv = Idle(0) /\ unheard = FALSE
  /\ spent = 0

(* sample_movement_input: keys, a timed move that runs out, or the chat box. *)
SampleInput(dir) ==
  /\ dir # app.dir /\ app' = [app EXCEPT !.dir = dir]
  /\ UNCHANGED <<c, told, inputs, acks, srv, unheard, spent>>

(* movement_sender, and the sample in the runtime. *)
SendMove ==
  /\ ShouldSend(app) /\ c.seq <= MaxSeq
  /\ LET f == Frame(c, app.dir) IN
     /\ c' = ApplyInput(c, f)
     /\ inputs' = Append(inputs, f)
  /\ told' = Tell(c')
  /\ app' = [app EXCEPT !.stop = app.dir = 0 /\ Abs(app.vel) <= Still]
  /\ UNCHANGED <<acks, srv, unheard, spent>>

HandleAck(a) ==
  /\ a \in acks /\ acks' = acks \ {a}
  /\ IF Stale(c, a.state) THEN UNCHANGED <<c, told>>
     ELSE /\ c' = [ApplyAck(c, a) EXCEPT !.ack = [seq |-> a.state.seq, tick |-> a.state.tick]]
          /\ told' = Tell(c')
  /\ UNCHANGED <<app, inputs, srv, unheard, spent>>

(* LocalPosition in poll_network_events. *)
PollPosition ==
  /\ \E vel \in told : app' = [app EXCEPT !.vel = vel]
  /\ told' = {}
  /\ UNCHANGED <<c, inputs, acks, srv, unheard, spent>>

(* observe_rtt: jitter raises the soft distance at once, and lets it fall. *)
ObserveRtt ==
  /\ Happens("rtt")
  /\ \E target \in BaseSoft..MaxSoft :
       \E soft \in IF target >= c.soft THEN {target} ELSE target..c.soft :
         c' = [c EXCEPT !.soft = soft]
  /\ UNCHANGED <<app, told, inputs, acks, srv, unheard>>

(* A session ends and the next one enters the scene: a new runtime, aligned     *)
(* with the input the server expects, and an app that starts from there.        *)
Rejoin ==
  /\ Happens("rejoin")
  /\ inputs' = << >> /\ acks' = {} /\ told' = {} /\ unheard' = FALSE
  /\ srv' = [srv EXCEPT !.vel = 0, !.tick = 0]
  /\ c' = NewRuntime(srv.pos, srv.seq + 1)
  /\ app' = [app EXCEPT !.stop = TRUE, !.vel = 0]

------------------------------------------------------------------------------
(* External: the server and the network. *)
Says(state, kind) == acks' = acks \cup {[state |-> state, kind |-> kind]}
Moved(kind, state) ==
  CASE kind = "none" -> state
    [] kind = "push" -> [state EXCEPT !.pos = srv.pos, !.vel = 0]
    [] kind = "drift" -> [state EXCEPT !.pos = @ + 3]
    [] kind = "teleport" -> [state EXCEPT !.pos = @ + Hard + 3, !.vel = 0]
    [] kind = "status" -> [state EXCEPT !.pos = srv.pos, !.vel = 0]
Tick(stepped) ==
  \E kind \in {"none", "push", "drift", "teleport", "status"} :
    /\ IF kind = "none" THEN UNCHANGED spent ELSE Happens(kind)
    /\ srv' = Moved(kind, stepped)
    /\ Says(srv', kind) /\ unheard' = FALSE
    /\ UNCHANGED <<c, app, told>>
ServerInput ==
  /\ inputs # << >> /\ srv.tick < MaxTick
  /\ inputs' = Tail(inputs)
  /\ Tick(Step(srv, [Head(inputs) EXCEPT !.tick = srv.tick + 1]))
ServerIdle ==
  /\ inputs = << >> /\ srv.tick < MaxTick
  /\ UNCHANGED inputs
  /\ Tick(Step(srv, [seq |-> srv.seq, tick |-> srv.tick + 1, dir |-> 0]))
Lose ==
  /\ Happens("lose")
  /\ \/ \E i \in DOMAIN inputs : inputs' = RemoveAt(inputs, i) /\ UNCHANGED <<acks, unheard>>
     \/ \E a \in acks : /\ acks' = acks \ {a} /\ UNCHANGED inputs
                         /\ unheard' = (unheard \/ a.state.tick = srv.tick)
  /\ UNCHANGED <<c, app, told, srv>>

Next ==
  \/ \E dir \in Dirs : SampleInput(dir)
  \/ SendMove
  \/ \E a \in acks : HandleAck(a)
  \/ PollPosition \/ ObserveRtt \/ Rejoin
  \/ ServerInput \/ ServerIdle \/ Lose

Spec == Init /\ [][Next]_vars

------------------------------------------------------------------------------
(* Types; the histories stay within their capacities. *)
TypeOK ==
  /\ c.seq \in Nat \ {0} /\ c.tick \in Nat \ {0} /\ c.soft \in BaseSoft..MaxSoft
  /\ Len(c.ih) <= InputCap /\ Len(c.ph) \in 1..StateCap
  /\ app.dir \in Dirs /\ app.stop \in BOOLEAN

(* All that was sent is done, the last of it not lost, and the answers applied; *)
(* and the server's clock has not fallen behind the ticks of the prediction.     *)
Quiet ==
  /\ inputs = << >> /\ acks = {} /\ told = {} /\ ~unheard
  /\ c.seq = srv.seq + 1 /\ c.cur.tick <= srv.tick

(* When the last answer is in, the prediction is where the server is and goes   *)
(* as fast, though a gap that counts as noise was let pass before: no order,    *)
(* loss or kind of correction leaves it off.                                    *)
SettlesTogether == Quiet => c.cur.pos = srv.pos /\ c.cur.vel = srv.vel

(* And once the player has let go and nothing more is sent, the server has come *)
(* to rest: the last brake frame is not the one before the last                 *)
(* (should_send_stop_sync: "keep emitting zero-input brake frames").            *)
StopsTogether == Quiet /\ app.dir = 0 /\ app.stop /\ Abs(app.vel) <= Still => Abs(srv.vel) <= Still

(* The server finds the inputs of a session in the order of their numbers,      *)
(* starting from the one it expects; only a lost one leaves a gap.              *)
InOrder ==
  /\ \A i \in DOMAIN inputs : inputs[i].seq > srv.seq
  /\ \A i \in 1..Len(inputs) - 1 : inputs[i].seq < inputs[i + 1].seq
(* The histories have their bounds and the inputs their order. *)
BufferOK == TypeOK /\ InOrder
=============================================================================
