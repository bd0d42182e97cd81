------------------------------ MODULE GateLink ------------------------------
(* The connection of the client to its gate (src/clients/bevy_client): the      *)
(* login screen (login.rs), the network thread that connects, serves a session  *)
(* and reconnects with a budget (net/thread.rs), the protocol runtime with its  *)
(* phases, its UDP fast lane and its order of remote moves (net/runtime.rs,     *)
(* net/fastlane.rs) and what the app makes of the events (net/plugin.rs).       *)
(*                                                                              *)
(* The gate is external.  TCP keeps order and loses only its end; datagrams are *)
(* lost, delayed and reordered.  There is one remote actor.  Backoffs, retries  *)
(* and cooldowns end when they end: time is left out.                           *)
EXTENDS Integers, SequencesExt

CONSTANTS
  MaxReconnects,  \* MAX_RECONNECT_ATTEMPTS
  LaneTries,      \* MAX_FAST_LANE_REBOOTSTRAP_ATTEMPTS
  MaxSessions,    \* bound: sessions that enter a scene
  MaxTick,        \* bound: moves of the remote actor in one life
  MaxEvents,      \* bound: events of the kinds below together
  Kinds           \* bound: which of them happen

ASSUME LinkAssumption ==
  /\ {MaxReconnects, LaneTries, MaxSessions, MaxTick} \subseteq Nat \ {0}
  /\ MaxEvents \in Nat
  /\ Kinds \subseteq {"say", "fault", "life", "quit", "expire", "refuse"}

VARIABLES
  login,    \* login screen: idle, asking, granted, refused, gone (a panicked worker)
  token,    \* credentials: good, old or empty
  thread,   \* network thread: none, start, session, backoff, login, stopped
  attempt,  \* failed reconnects in a row
  joined,   \* this session has entered its scene (entered_scene)
  rt,       \* ClientRuntime of the session
  udp,      \* the attach request the open UDP socket was made for, 0: no socket
  cmds,     \* commands of the app to the thread
  evts,     \* events of the thread to the app
  app,      \* what the app shows: phase, session, tick of the actor (-1: none)
  srv,      \* the gate: the session, its fast lane and the life of the actor
  up, down, \* TCP both ways
  dgrams,   \* datagrams under way, both ways
  spent     \* events so far

links == <<up, down, dgrams>>
vars == <<login, token, thread, attempt, joined, rt, udp, cmds, evts, app, srv, links, spent>>
Happens(kind) == kind \in Kinds /\ spent < MaxEvents /\ spent' = spent + 1

------------------------------------------------------------------------------
(* fastlane.rs: what is asked for, what is attached, and what it waits for. *)
NoLane == [boot |-> 0, attach |-> 0, attached |-> FALSE, tries |-> 0, timer |-> "none"]
Bootstrapping(lane, id) == [NoLane EXCEPT !.boot = id, !.tries = lane.tries]
Attaching(lane, id) == [NoLane EXCEPT !.attach = id, !.tries = lane.tries]
Attached(lane) == [NoLane EXCEPT !.attached = TRUE]
Failed(lane) == [NoLane EXCEPT !.tries = lane.tries]

NewRuntime == [phase |-> "auth", next |-> 2, enter |-> 0, lane |-> NoLane, mark |-> 0]

(* Mutant: no cooldown once the retries are used up. *)
FailLaneForGood(r, retry) ==
  LET lane == Failed(r.lane) IN
  IF retry /\ r.phase = "scene" /\ lane.tries < LaneTries
  THEN [lane EXCEPT !.tries = @ + 1, !.timer = "retry"] ELSE lane
(* mark_fast_lane_failed.  A cooldown that still runs goes on; the retries are  *)
(* used up as long as it does.                                                  *)
FailLane(r, retry) ==
  LET lane == Failed(r.lane) IN
  IF ~retry \/ r.phase # "scene" THEN lane
  ELSE IF r.lane.timer # "cooldown" /\ lane.tries < LaneTries
  THEN [lane EXCEPT !.tries = @ + 1, !.timer = "retry"]
  ELSE [lane EXCEPT !.timer = "cooldown"]

(* The gate between two sessions. *)
NoSession == [sess |-> 0, scene |-> FALSE, ticket |-> 0, lane |-> 0, noTicket |-> FALSE,
              lost |-> FALSE, life |-> FALSE, tick |-> 0]

(* What a handler of the runtime leaves: RuntimeOutcome and the new runtime. *)
Outcome(r, tcp, dgs, events, drop) ==
  [rt |-> r, tcp |-> tcp, udp |-> dgs, events |-> events, drop |-> drop]
Nothing(r) == Outcome(r, << >>, << >>, << >>, FALSE)
Request(r, m) == Outcome(r, <<m>>, << >>, << >>, FALSE)
Datagram(r, d) == Outcome(r, << >>, <<d>>, << >>, FALSE)
Event(r, e) == Outcome(r, << >>, << >>, <<e>>, FALSE)
Drop(r) == Outcome(r, << >>, << >>, << >>, TRUE)
LaneFails(r, retry) == Nothing([r EXCEPT !.lane = FailLane(r, retry)])
AskTicket(r) ==
  Request([r EXCEPT !.next = @ + 1, !.lane = Bootstrapping(r.lane, r.next)],
          [kind |-> "ticket", id |-> r.next])

(* handle_command: outside a scene it refuses everything.  A request (a chat    *)
(* line, a cast, a subscription, an edit) goes over TCP under the next id, an   *)
(* input over the fast lane while it is attached.                               *)
OnRequest(r, cmd) ==
  Request([r EXCEPT !.next = @ + 1], [kind |-> "say", id |-> r.next, sess |-> cmd.sess])
OnInput(r) ==
  IF r.lane.attached THEN Datagram(r, [kind |-> "input"]) ELSE Request(r, [kind |-> "input"])
OnCommand(r, cmd) ==
  IF r.phase # "scene" THEN Nothing(r)
  ELSE IF cmd.kind = "say" THEN OnRequest(r, cmd) ELSE OnInput(r)

OnAuth(r, ok) ==
  IF ok THEN Request([r EXCEPT !.phase = "enter", !.enter = r.next, !.next = @ + 1],
                     [kind |-> "enter", id |-> r.next])
  ELSE Drop(r)
OnEntered(r, m) ==
  LET asked == AskTicket([r EXCEPT !.phase = "scene", !.mark = 0]) IN
  IF m.id # r.enter THEN Nothing(r)
  ELSE IF ~m.ok THEN Drop(r)
  ELSE Outcome(asked.rt, asked.tcp, << >>, <<[kind |-> "entered", sess |-> m.sess]>>, FALSE)
OnTicket(r, m) ==
  IF m.id # r.lane.boot THEN Nothing(r)
  ELSE IF ~m.ok THEN LaneFails(r, FALSE)
  ELSE Datagram([r EXCEPT !.next = @ + 1, !.lane = Attaching(@, r.next)],
                [kind |-> "attach", id |-> r.next, ticket |-> m.id])
OnAttached(r, m) ==
  IF m.id # r.lane.attach THEN Nothing(r)
  ELSE IF ~m.ok THEN LaneFails(r, TRUE)
  ELSE Nothing([r EXCEPT !.lane = Attached(@)])
IsAnyMove(r, m) == TRUE  \* Mutant: moves are shown in the order they arrive
IsNewMove(r, m) == m.tick > r.mark
OnMove(r, m) ==
  IF IsNewMove(r, m) THEN Event([r EXCEPT !.mark = m.tick], m) ELSE Nothing(r)
(* A new life, or none, of the actor: its ticks start again. *)
OnLife(r, m) == Event([r EXCEPT !.mark = 0], m)

(* handle_server_message *)
OnMessage(r, m) ==
  CASE m.kind = "auth" -> OnAuth(r, m.ok)
    [] m.kind = "entered" -> OnEntered(r, m)
    [] m.kind = "ticket" -> OnTicket(r, m)
    [] m.kind = "attached" -> OnAttached(r, m)
    [] m.kind = "refused" -> LaneFails(r, TRUE)
    [] m.kind = "move" -> OnMove(r, m)
    [] m.kind \in {"appear", "leave"} -> OnLife(r, m)

(* poll_fast_lane_retry once its timer is due. *)
OnLaneTimer(r) ==
  IF r.lane.timer = "cooldown"
  THEN Nothing([r EXCEPT !.lane.timer = "retry", !.lane.tries = 0])
  ELSE AskTicket(r)
LaneTimerDue(r) ==
  r.phase = "scene" /\ ~r.lane.attached /\ r.lane.boot = 0 /\ r.lane.attach = 0
  /\ r.lane.timer # "none"

------------------------------------------------------------------------------
(* The session ends: the thread tells the app of the first failure, or of the   *)
(* loss of a scene, and backs off unless its budget is used up.                 *)
Disconnected == [kind |-> "disconnected"]
GaveUp == [kind |-> "gave_up"]
(* Mutant: any session that ends gives the whole budget back. *)
BeforeNone(wasJoined) == 0
Before(wasJoined) == IF wasJoined THEN 0 ELSE attempt
(* Mutant: only the first failure is reported. *)
ToldFirst(wasJoined) == IF attempt = 0 THEN <<Disconnected>> ELSE << >>
Told(wasJoined) == IF wasJoined \/ attempt = 0 THEN <<Disconnected>> ELSE << >>
EndSession(wasJoined) ==
  LET n == Before(wasJoined) + 1
      over == n > MaxReconnects
  IN  /\ attempt' = n
      /\ thread' = IF over THEN "stopped" ELSE "backoff"
      /\ evts' = evts \o Told(wasJoined) \o (IF over THEN <<GaveUp>> ELSE << >>)
      /\ joined' = FALSE /\ rt' = NewRuntime /\ udp' = 0
      /\ srv' = [NoSession EXCEPT !.sess = srv.sess]
      /\ up' = << >> /\ down' = << >> /\ dgrams' = {}

(* apply_runtime_outcome, with what is left to receive: every send succeeds, *)
Entered(o) == \E i \in DOMAIN o.events : o.events[i].kind = "entered"
Sent(o, left, late) ==
  /\ up' = up \o o.tcp
  /\ down' = left /\ dgrams' = late \cup ToSet(o.udp)
  /\ udp' = IF \E d \in ToSet(o.udp) : d.kind = "attach" THEN o.rt.lane.attach ELSE udp
  /\ rt' = o.rt
  /\ evts' = evts \o o.events
  /\ joined' = (joined \/ Entered(o))
  /\ UNCHANGED <<thread, attempt, srv, spent>>
(* or a TCP send fails: the events of the outcome are lost with the session,    *)
TcpFails(o) ==
  /\ o.tcp # << >> /\ Happens("fault")
  /\ EndSession(joined \/ Entered(o))
(* or a datagram cannot be sent, or its socket not be opened: the lane fails,   *)
(* and an input goes over TCP.                                                  *)
UdpFails(o, left, late) ==
  /\ o.udp # << >> /\ Happens("fault")
  /\ rt' = [o.rt EXCEPT !.lane = FailLane(o.rt, TRUE)]
  /\ udp' = 0
  /\ up' = up \o (IF o.udp = <<[kind |-> "input"]>> THEN o.udp ELSE << >>)
  /\ down' = left /\ dgrams' = late
  /\ UNCHANGED <<evts, joined, thread, attempt, srv>>
Apply(o, left, late) ==
  \/ o.drop /\ EndSession(joined) /\ UNCHANGED spent
  \/ ~o.drop /\ Sent(o, left, late)
  \/ TcpFails(o)
  \/ UdpFails(o, left, late)

------------------------------------------------------------------------------
Init ==
  /\ login = "idle" /\ token = "good"
  /\ thread = "none" /\ attempt = 0 /\ joined = FALSE /\ rt = NewRuntime /\ udp = 0
  /\ cmds = << >> /\ evts = << >>
  /\ app = [phase |-> "login", sess |-> 0, tick |-> -1, rewound |-> FALSE]
  /\ srv = NoSession
  /\ up = << >> /\ down = << >> /\ dgrams = {} /\ spent = 0

(* The login screen: one request at a time; the worker asks the auth server. *)
Submit ==
  /\ app.phase = "login" /\ login \in {"idle", "refused", "gone"}
  /\ login' = "asking"
  /\ UNCHANGED <<token, thread, attempt, joined, rt, udp, cmds, evts, app, srv, links, spent>>
AuthWorker ==
  /\ login = "asking"
  /\ \/ /\ login' = "granted" /\ token' \in {"good", "empty"} /\ UNCHANGED spent
     \/ /\ Happens("fault") /\ login' \in {"refused", "gone"} /\ UNCHANGED token
  /\ UNCHANGED <<thread, attempt, joined, rt, udp, cmds, evts, app, srv, links>>
(* poll_pending_auth_system, and enter_game_setup on the way into the game. *)
PollAuth ==
  /\ app.phase = "login" /\ login = "granted"
  /\ app' = [app EXCEPT !.phase = "connecting"]
  /\ thread' = "start"
  /\ UNCHANGED <<login, token, attempt, joined, rt, udp, cmds, evts, srv, links, spent>>

(* network_loop before its first session. *)
RefuseEmptyToken ==
  /\ thread = "start" /\ token = "empty"
  /\ thread' = "stopped"
  /\ evts' = evts \o <<Disconnected, GaveUp>>
  /\ UNCHANGED <<login, token, attempt, joined, rt, udp, cmds, app, srv, links, spent>>

(* What waits when a session starts, or during a backoff, was meant for the     *)
(* session before; Shutdown is not.                                             *)
QuitsFirst(cs) == cs # << >> /\ Head(cs).kind = "quit"  \* Mutant: looks at one command
Quits(cs) == \E i \in DOMAIN cs : cs[i].kind = "quit"
DiscardWaiting(cs) == << >>
Stops == thread' = "stopped" /\ cmds' = << >>
  /\ UNCHANGED <<attempt, joined, rt, udp, evts, srv, links, spent>>

(* run_session up to the handshake. *)
StartSession ==
  /\ thread = "start" /\ token # "empty"
  /\ \/ Quits(cmds) /\ Stops
     \/ /\ ~Quits(cmds) /\ cmds' = DiscardWaiting(cmds)
        /\ \/ /\ thread' = "session"
              /\ up' = <<[kind |-> "auth", token |-> token]>>
              /\ UNCHANGED <<attempt, joined, rt, udp, evts, srv, down, dgrams, spent>>
           \/ EndSession(FALSE) /\ UNCHANGED spent
  /\ UNCHANGED <<login, token, app>>

(* sleep_with_shutdown.  A backoff, half a second and more, is longer than a    *)
(* frame of the app: the events before it have been polled when it ends.        *)
BackOff ==
  /\ thread = "backoff"
  /\ \/ Quits(cmds) /\ Stops
     \/ /\ ~Quits(cmds) /\ (evts = << >> \/ app.phase = "closed")
        /\ cmds' = DiscardWaiting(cmds)
        /\ thread' = "login"
        /\ evts' = Append(evts, [kind |-> "reconnecting"])
        /\ UNCHANGED <<attempt, joined, rt, udp, srv, links, spent>>
  /\ UNCHANGED <<login, token, app>>
(* A fresh token, or the old one again. *)
LogInAgain ==
  /\ thread = "login"
  /\ thread' = "start"
  /\ \/ token' = "good" /\ UNCHANGED spent
     \/ Happens("fault") /\ UNCHANGED token
  /\ UNCHANGED <<login, attempt, joined, rt, udp, cmds, evts, app, srv, links>>

(* The loop of a session takes commands, timers, TCP and UDP in turn; what      *)
(* arrives in between is taken by the next turn.                                *)
InSession == thread = "session"
Took == UNCHANGED <<login, token, app>>
HandleCommand ==
  /\ InSession /\ cmds # << >>
  /\ \/ Head(cmds).kind = "quit" /\ Stops
     \/ /\ Head(cmds).kind # "quit" /\ cmds' = Tail(cmds)
        /\ Apply(OnCommand(rt, Head(cmds)), down, dgrams)
  /\ Took
LaneTimer ==
  /\ InSession /\ LaneTimerDue(rt)
  /\ Apply(OnLaneTimer(rt), down, dgrams)
  /\ UNCHANGED cmds /\ Took
HandleTcp ==
  /\ InSession /\ down # << >>
  /\ Apply(OnMessage(rt, Head(down)), Tail(down), dgrams)
  /\ UNCHANGED cmds /\ Took
ToClient(d) == d.kind \in {"attached", "refused", "move"}
HandleDatagram(d) ==
  /\ InSession /\ udp # 0 /\ d \in dgrams /\ ToClient(d)
  /\ Apply(OnMessage(rt, d), down, dgrams \ {d})
  /\ UNCHANGED cmds /\ Took
UdpReadFails ==
  /\ InSession /\ udp # 0 /\ Happens("fault")
  /\ udp' = 0 /\ rt' = LaneFails(rt, TRUE).rt
  /\ UNCHANGED <<thread, attempt, joined, cmds, evts, srv, links>> /\ Took
(* The gate closes the connection, or a read or a heartbeat fails. *)
LoseLink ==
  /\ InSession /\ Happens("fault")
  /\ EndSession(joined)
  /\ UNCHANGED cmds /\ Took

------------------------------------------------------------------------------
(* poll_network_events: what the app makes of one event. *)
ShowMove(a, tick) ==
  [a EXCEPT !.tick = tick, !.rewound = @ \/ (a.tick # -1 /\ tick <= a.tick)]
Show(a, e) ==
  CASE e.kind = "entered" -> [a EXCEPT !.phase = "scene", !.sess = e.sess, !.tick = -1]
    [] e.kind = "disconnected" -> [a EXCEPT !.phase = "reconnecting", !.tick = -1]
    [] e.kind = "reconnecting" -> [a EXCEPT !.phase = "reconnecting"]
    [] e.kind = "gave_up" -> [a EXCEPT !.phase = "failed"]
    [] e.kind = "appear" -> [a EXCEPT !.tick = 0]
    [] e.kind = "leave" -> [a EXCEPT !.tick = -1]
    [] e.kind = "move" -> ShowMove(a, e.tick)
Poll ==
  /\ app.phase \notin {"login", "closed"} /\ evts # << >>
  /\ app' = Show(app, Head(evts)) /\ evts' = Tail(evts)
  /\ UNCHANGED <<login, token, thread, attempt, joined, rt, udp, cmds, srv, links, spent>>

(* In-world systems send only while the app is in its scene. *)
Command ==
  /\ app.phase = "scene" /\ Happens("say")
  /\ \E c \in {[kind |-> "say", sess |-> app.sess], [kind |-> "input"]} : cmds' = Append(cmds, c)
  /\ UNCHANGED <<login, token, thread, attempt, joined, rt, udp, evts, app, srv, links>>
Quit ==
  /\ app.phase \notin {"login", "closed"} /\ Happens("quit")
  /\ cmds' = Append(cmds, [kind |-> "quit"]) /\ app' = [app EXCEPT !.phase = "closed"]
  /\ UNCHANGED <<login, token, thread, attempt, joined, rt, udp, evts, srv, links>>

------------------------------------------------------------------------------
(* External: the gate and the network. *)
Client == <<login, thread, attempt, joined, rt, udp, cmds, evts, app>>
Reply(m) == down' = Append(down, m) /\ UNCHANGED dgrams
OnTcp(m) ==
  CASE m.kind = "auth" -> Reply([kind |-> "auth", ok |-> m.token = "good"]) /\ UNCHANGED <<srv, spent>>
    [] m.kind = "enter" ->
         IF srv.sess < MaxSessions
         THEN /\ srv' = [srv EXCEPT !.sess = @ + 1, !.scene = TRUE]
              /\ Reply([kind |-> "entered", id |-> m.id, ok |-> TRUE, sess |-> srv'.sess])
              /\ UNCHANGED spent
         ELSE Reply([kind |-> "entered", id |-> m.id, ok |-> FALSE]) /\ UNCHANGED <<srv, spent>>
    [] m.kind = "ticket" ->
         \E ok \in BOOLEAN :
           /\ IF ok THEN UNCHANGED spent ELSE Happens("refuse")
           /\ srv' = [srv EXCEPT !.ticket = IF ok THEN m.id ELSE @, !.noTicket = ~ok]
           /\ Reply([kind |-> "ticket", id |-> m.id, ok |-> ok])
    [] OTHER -> UNCHANGED <<srv, down, dgrams, spent>>
ServeTcp ==
  /\ up # << >>
  /\ up' = Tail(up) /\ OnTcp(Head(up))
  /\ UNCHANGED <<Client, token>>
(* A ticket opens the lane once it is presented; a newer ticket replaces it. *)
ServeDatagram(d) ==
  /\ d \in dgrams /\ ~ToClient(d)
  /\ UNCHANGED <<Client, token, up, down>>
  /\ \E ok \in BOOLEAN :
       /\ IF ok THEN UNCHANGED spent ELSE Happens("refuse")
       /\ LET fits == ok /\ IF d.kind = "attach" THEN d.ticket = srv.ticket ELSE srv.lane # 0
              answer == IF d.kind = "attach" THEN {[kind |-> "attached", id |-> d.id, ok |-> fits]}
                        ELSE IF fits THEN {} ELSE {[kind |-> "refused"]}
          IN  /\ dgrams' = (dgrams \ {d}) \cup answer
              /\ srv' = [srv EXCEPT !.lane = CASE ~fits /\ d.kind = "input" -> 0
                                               [] fits /\ d.kind = "attach" -> d.id
                                               [] OTHER -> @]
LoseDatagram(d) ==
  /\ d \in dgrams /\ Happens("fault")
  /\ dgrams' = dgrams \ {d}
  /\ srv' = [srv EXCEPT !.lost = @ \/ d.kind \in {"attach", "attached"}]
  /\ UNCHANGED <<Client, token, up, down>>

Appear ==
  /\ srv.scene /\ ~srv.life /\ Happens("life")
  /\ srv' = [srv EXCEPT !.life = TRUE, !.tick = 0]
  /\ Reply([kind |-> "appear"]) /\ UNCHANGED <<Client, token, up>>
Leave ==
  /\ srv.life /\ Happens("life")
  /\ srv' = [srv EXCEPT !.life = FALSE]
  /\ Reply([kind |-> "leave"]) /\ UNCHANGED <<Client, token, up>>
MoveActor ==
  /\ srv.life /\ srv.tick < MaxTick
  /\ srv' = [srv EXCEPT !.tick = @ + 1]
  /\ LET m == [kind |-> "move", tick |-> srv.tick + 1] IN
     IF srv.lane = 0 THEN Reply(m) ELSE dgrams' = dgrams \cup {m} /\ UNCHANGED down
  /\ UNCHANGED <<Client, token, up, spent>>
Expire ==
  /\ token = "good" /\ thread # "none" /\ Happens("expire")
  /\ token' = "old"
  /\ UNCHANGED <<Client, srv, links>>

Next ==
  \/ Submit \/ AuthWorker \/ PollAuth
  \/ RefuseEmptyToken \/ StartSession \/ BackOff \/ LogInAgain
  \/ HandleCommand \/ LaneTimer \/ HandleTcp \/ UdpReadFails \/ LoseLink
  \/ \E d \in dgrams : HandleDatagram(d) \/ ServeDatagram(d) \/ LoseDatagram(d)
  \/ Poll \/ Command \/ Quit
  \/ ServeTcp \/ Appear \/ Leave \/ MoveActor \/ Expire

Spec == Init /\ [][Next]_vars

(* The thread and the app keep running and the gate answers; a session need not *)
(* be lost, a token not expire, and nobody has to use the login screen.         *)
FairSpec ==
  /\ Spec
  /\ WF_vars(StartSession) /\ WF_vars(BackOff) /\ WF_vars(LogInAgain) /\ WF_vars(RefuseEmptyToken)
  /\ WF_vars(HandleCommand) /\ WF_vars(HandleTcp) /\ WF_vars(ServeTcp) /\ WF_vars(Poll)

------------------------------------------------------------------------------
(* Messages over TCP, datagrams, events of the thread, commands of the app. *)
ToGate == [kind : {"auth"}, token : {"good", "old", "empty"}]
            \cup [kind : {"enter", "ticket"}, id : Nat]
            \cup [kind : {"say"}, id : Nat, sess : Nat] \cup [kind : {"input"}]
FromGate == [kind : {"auth"}, ok : BOOLEAN] \cup [kind : {"ticket"}, id : Nat, ok : BOOLEAN]
              \cup [kind : {"entered"}, id : Nat, ok : {TRUE}, sess : Nat]
              \cup [kind : {"entered"}, id : Nat, ok : {FALSE}]
              \cup [kind : {"move"}, tick : Nat] \cup [kind : {"appear", "leave"}]
Datagrams == [kind : {"input", "refused"}] \cup [kind : {"attach"}, id : Nat, ticket : Nat]
               \cup [kind : {"attached"}, id : Nat, ok : BOOLEAN] \cup [kind : {"move"}, tick : Nat]
Events == [kind : {"disconnected", "gave_up", "reconnecting", "appear", "leave"}]
            \cup [kind : {"entered"}, sess : Nat] \cup [kind : {"move"}, tick : Nat]
Commands == [kind : {"say"}, sess : Nat] \cup [kind : {"input", "quit"}]

Lanes == [boot : Nat, attach : Nat, attached : BOOLEAN, tries : 0..LaneTries,
          timer : {"none", "retry", "cooldown"}]
Runtimes == [phase : {"auth", "enter", "scene"}, next : Nat, enter : Nat, lane : Lanes, mark : Nat]

(* Types; the retries of the lane and the reconnects stay within their budgets. *)
TypeOK ==
  /\ login \in {"idle", "asking", "granted", "refused", "gone"}
  /\ token \in {"good", "old", "empty"}
  /\ thread \in {"none", "start", "session", "backoff", "login", "stopped"}
  /\ attempt \in 0..MaxReconnects + 1 /\ (thread # "stopped" => attempt <= MaxReconnects)
  /\ joined \in BOOLEAN /\ rt \in Runtimes /\ udp \in Nat
  /\ cmds \in Seq(Commands) /\ evts \in Seq(Events)
  /\ app \in [phase : {"login", "connecting", "scene", "reconnecting", "failed", "closed"},
               sess : Nat, tick : Nat \cup {-1}, rewound : BOOLEAN]
  /\ srv \in [sess : Nat, scene : BOOLEAN, ticket : Nat, lane : Nat, noTicket : BOOLEAN,
               lost : BOOLEAN, life : BOOLEAN, tick : Nat]
  /\ up \in Seq(ToGate) /\ down \in Seq(FromGate) /\ dgrams \subseteq Datagrams
  /\ spent \in Nat

(* With no event under way the app's phase is the thread's: what the user sees  *)
(* never stays behind a session that joined, dropped, is retried or was given   *)
(* up (net/plugin.rs, session/mod.rs: phase is the single source of truth).     *)
AppFollows ==
  evts = << >> /\ app.phase # "closed" =>
    CASE thread = "none" -> app.phase = "login"
      [] thread = "stopped" -> app.phase = "failed"
      [] InSession /\ rt.phase = "scene" -> app.phase = "scene" /\ app.sess = srv.sess
      [] thread \in {"backoff", "login"} -> app.phase = "reconnecting"
      [] OTHER -> app.phase \in {"connecting", "reconnecting"}

(* What the user did in one session is never done in another: commands that     *)
(* waited through a drop are not sent (run_session, sleep_with_shutdown).       *)
SaidHere == \A i \in DOMAIN up : up[i].kind = "say" => up[i].sess = srv.sess

(* A remote actor on screen never goes back in time, though its moves come over *)
(* TCP and UDP in any order (last_remote_move_ticks).                           *)
NoRewind == ~app.rewound

(* A client that sends over UDP has a socket, made for the very attach the gate *)
(* accepted, unless the gate has dropped it since: answers to earlier attempts  *)
(* never attach a later one.                                                    *)
AttachedIsMutual == rt.lane.attached => udp # 0 /\ srv.lane \in {udp, 0}

(* A lane that is down in a scene is on its way up: a ticket is asked for, an   *)
(* attach under way, or a timer set.  It stays down for good only where the     *)
(* gate refused a ticket or the attach was lost, which nothing repeats.         *)
AnyOf(S, id) == \E m \in S : m.kind \in {"ticket", "attach", "attached"} /\ m.id = id
LaneIsDriven ==
  InSession /\ rt.phase = "scene" /\ ~rt.lane.attached =>
    \/ LaneTimerDue(rt)
    \/ rt.lane.boot # 0 /\ AnyOf(ToSet(up) \cup ToSet(down), rt.lane.boot)
    \/ rt.lane.attach # 0 /\ (AnyOf(dgrams, rt.lane.attach) \/ srv.lost)
    \/ srv.noTicket

(* The client ends up in a session that lasts or gives up: a gate that refuses  *)
(* every session is not asked for ever (network_loop: "a persistently-failing   *)
(* server escalates to ReconnectFailed").                                       *)
ServesOrGivesUp ==
  thread # "none" ~> (thread = "stopped" \/ [](InSession /\ rt.phase = "scene"))

(* Shutdown stops the thread, whatever it is doing. *)
QuitStops == app.phase = "closed" ~> thread = "stopped"
(* What holds of the link in every state, the app's phase and the lane's way up *)
(* apart.                                                                      *)
LinkOK == TypeOK /\ SaidHere /\ NoRewind /\ AttachedIsMutual
=============================================================================
