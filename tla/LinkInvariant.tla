---------------------------- MODULE LinkInvariant ----------------------------
(* The inductive invariant of GateLink, in the order its parts are proved: how  *)
(* far a session has come, what the app will make of the events under way,      *)
(* which session the commands are for, which attach the gate can accept, and    *)
(* what the lane waits for.                                                     *)
EXTENDS GateLink

Kinded(q, K) == \A i \in 1..Len(q) : q[i].kind \in K
OfLife == {"move", "appear", "leave"}

(* The thread starts when the login screen is left. *)
AppStarts ==
  /\ thread = "none" <=> app.phase = "login"
  /\ thread = "none" => attempt = 0 /\ evts = << >>

(* Outside a session nothing of the last one is left. *)
Unused ==
  thread \notin {"session", "stopped"} =>
    /\ rt = NewRuntime /\ ~joined /\ udp = 0
    /\ up = << >> /\ down = << >> /\ dgrams = {}
    /\ srv = [NoSession EXCEPT !.sess = srv.sess]

(* The handshake: one message at a time until the gate has put the session in   *)
(* its scene, whose life may follow the answer.                                 *)
InAuth ==
  /\ Kinded(up, {"auth"}) /\ Kinded(down, {"auth"}) /\ Len(up) + Len(down) <= 1
  /\ ~srv.scene
Entering ==
  \/ /\ Len(up) = 1 /\ up[1].kind = "enter" /\ up[1].id = rt.enter
     /\ down = << >> /\ ~srv.scene
  \/ /\ up = << >> /\ down # << >>
     /\ down[1].kind = "entered" /\ down[1].id = rt.enter
     /\ down[1].ok => down[1].sess = srv.sess
     /\ Kinded(Tail(down), OfLife)
InScene ==
  Kinded(up, {"ticket", "say", "input"}) /\ Kinded(down, {"ticket"} \cup OfLife)
Handshake ==
  /\ joined <=> rt.phase = "scene"
  /\ srv.life => srv.scene
  /\ rt.phase # "scene" =>
       /\ rt.lane = NoLane /\ udp = 0 /\ dgrams = {}
       /\ srv.ticket = 0 /\ srv.lane = 0 /\ ~srv.noTicket
  /\ CASE rt.phase = "auth" -> InAuth
       [] rt.phase = "enter" -> Entering
       [] rt.phase = "scene" -> InScene

(* What the app shows once it has taken the events under way: what the last of  *)
(* them that tells makes of it, or what it shows now.                           *)
Tells(e) == e.kind \in {"entered", "disconnected", "reconnecting", "gave_up"}
ToldBy(e) ==
  CASE e.kind = "entered" -> [phase |-> "scene", sess |-> e.sess]
    [] e.kind = "gave_up" -> [phase |-> "failed", sess |-> 0]
    [] OTHER -> [phase |-> "reconnecting", sess |-> 0]
Shown == [phase |-> app.phase, sess |-> IF app.phase = "scene" THEN app.sess ELSE 0]
LastTelling(q, i) == Tells(q[i]) /\ \A j \in 1..Len(q) : i < j => ~Tells(q[j])
WillShow(q, now, S) ==
  /\ \A i \in 1..Len(q) : LastTelling(q, i) => ToldBy(q[i]) \in S
  /\ (\A i \in 1..Len(q) : ~Tells(q[i])) => now \in S

Outlook ==
  CASE thread = "none" -> {[phase |-> "login", sess |-> 0]}
    [] thread = "stopped" -> {[phase |-> "failed", sess |-> 0]}
    [] InSession /\ rt.phase = "scene" -> {[phase |-> "scene", sess |-> srv.sess]}
    [] OTHER ->
         {[phase |-> p, sess |-> 0] :
            p \in {"reconnecting"} \cup
                  (IF thread \in {"backoff", "login"} \/ attempt > 0 THEN {} ELSE {"connecting"})}
AppAhead == app.phase # "closed" => WillShow(evts, Shown, Outlook)

(* The actor's tick on screen only rises between the events that set it back,   *)
(* and what will be on screen is no newer than the runtime's mark.              *)
Ticks(e) == e.kind \in {"entered", "disconnected"} \cup OfLife
TickOf(e) == CASE e.kind = "move" -> e.tick [] e.kind = "appear" -> 0 [] OTHER -> -1
LastTick(q, i) == Ticks(q[i]) /\ \A j \in 1..Len(q) : i < j => ~Ticks(q[j])
WillTick(q, now, b) ==
  /\ \A i \in 1..Len(q) : LastTick(q, i) => TickOf(q[i]) <= b
  /\ (\A i \in 1..Len(q) : ~Ticks(q[i])) => now <= b
NextTick(q, i, j) ==
  i < j /\ Ticks(q[i]) /\ \A k \in 1..Len(q) : i < k /\ k < j => ~Ticks(q[k])
Rising(q, now) ==
  \A j \in 1..Len(q) : q[j].kind = "move" =>
    /\ \A i \in 1..Len(q) : NextTick(q, i, j) => TickOf(q[i]) < q[j].tick
    /\ (\A i \in 1..Len(q) : i < j => ~Ticks(q[i])) => now < q[j].tick
Mark == IF rt.phase = "scene" THEN rt.mark ELSE -1
TicksRise ==
  /\ NoRewind /\ Rising(evts, app.tick)
  /\ thread # "stopped" => WillTick(evts, app.tick, Mark)

(* The app is in a scene, or will be, only of the present session, until the    *)
(* end of that session has been told; and so are the commands it gives.         *)
Fresh == thread \in {"none", "start", "session", "login"}
CommandsFit ==
  Fresh =>
    /\ app.phase = "scene" => joined /\ app.sess = srv.sess
    /\ \A i \in 1..Len(evts) : evts[i].kind = "entered" => joined /\ evts[i].sess = srv.sess
    /\ \A i \in 1..Len(cmds) : cmds[i].kind = "say" => joined /\ cmds[i].sess = srv.sess
QuitIsClosed ==
  /\ \A i \in 1..Len(cmds) : cmds[i].kind = "quit" => app.phase = "closed"
  /\ app.phase = "closed" => thread = "stopped" \/ Quits(cmds)

(* Ids rise: of two tickets the later request has the greater one, the gate has *)
(* the newest it granted, and an attach presents one that is older than it.     *)
Tickets(q) == {q[i] : i \in {j \in 1..Len(q) : q[j].kind = "ticket"}}
Rise(q) ==
  \A i, j \in 1..Len(q) :
    i < j /\ q[i].kind = "ticket" /\ q[j].kind = "ticket" => q[i].id < q[j].id
TicketsInOrder ==
  /\ Rise(up)
  /\ \A t \in Tickets(up) : srv.ticket < t.id /\ t.id < rt.next
  /\ \A t \in Tickets(up), m \in Tickets(down) : m.id < t.id
  /\ \A m \in Tickets(down) : 0 < m.id /\ m.id < rt.next /\ (m.ok => m.id <= srv.ticket)
  /\ srv.ticket < rt.next /\ 1 < rt.next
  /\ \A d \in dgrams : d.kind \in {"attach", "attached"} => 0 < d.id /\ d.id < rt.next
  /\ \A d \in dgrams : d.kind = "attach" => d.ticket < rt.next

(* A lane waits for one thing at a time. *)
LaneFits ==
  LET lane == rt.lane IN
  /\ lane.boot # 0 => lane.attach = 0 /\ ~lane.attached
  /\ lane.attach # 0 => ~lane.attached
  /\ lane.boot < rt.next /\ lane.attach < rt.next

(* While the lane waits for a ticket it is the newest, and no attach presents   *)
(* it.                                                                          *)
BootIsNewest ==
  rt.lane.boot # 0 =>
    /\ srv.ticket <= rt.lane.boot
    /\ \A t \in Tickets(up) : t.id <= rt.lane.boot
    /\ \A d \in dgrams : d.kind = "attach" => d.ticket < rt.lane.boot

(* While it waits for its attach, or has it, no other attach presents the       *)
(* ticket the gate has.                                                         *)
AttachIsNewest ==
  rt.lane.attach # 0 \/ rt.lane.attached =>
    /\ udp # 0 /\ (rt.lane.attach # 0 => udp = rt.lane.attach)
    /\ Tickets(up) = {}
    /\ \A d \in dgrams : d.kind = "attach" /\ d.id # udp => d.ticket # srv.ticket
    /\ rt.lane.attached \/ (\E d \in dgrams : d.kind = "attached" /\ d.id = udp /\ d.ok)
         => srv.lane \in {udp, 0}

(* What the lane waits for is under way; it waits for nothing once the gate     *)
(* has refused its ticket.                                                      *)
LaneWaits ==
  rt.phase = "scene" =>
    /\ rt.lane.boot # 0 =>
         /\ \E m \in Tickets(up) \cup Tickets(down) : m.id = rt.lane.boot
         /\ \A m \in Tickets(down) : m.id = rt.lane.boot /\ ~m.ok => srv.noTicket
    /\ rt.lane.attach # 0 =>
         \/ srv.lost
         \/ \E d \in dgrams : d.kind \in {"attach", "attached"} /\ d.id = rt.lane.attach
    /\ rt.lane.boot = 0 /\ rt.lane.attach = 0 /\ ~rt.lane.attached /\ rt.lane.timer = "none" =>
         srv.noTicket /\ Tickets(up) = {}

LaneInv == TicketsInOrder /\ LaneFits /\ BootIsNewest /\ AttachIsNewest /\ LaneWaits

LinkInv ==
  /\ TypeOK /\ AppStarts /\ Unused /\ Handshake /\ QuitIsClosed /\ AppAhead /\ CommandsFit
  /\ SaidHere /\ TicksRise /\ LaneInv
=============================================================================
