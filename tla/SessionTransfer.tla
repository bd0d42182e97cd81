--------------------------- MODULE SessionTransfer ---------------------------
(***************************************************************************)
(* The sessions of one character: who owns it, and how it moves between    *)
(* Scenes.  The registry (WorldServer.Session) orders claims and hand-     *)
(* overs; each Scene (SceneServer.Movement.Scene) keeps its members; a     *)
(* Player (SceneServer.Movement.Player) owns the body and writes it to     *)
(* PostgreSQL (DataService.BodyStore) under its session epoch; a Gate      *)
(* connection (GateServer.Session.QuicConnection) serves the client; the   *)
(* World exchanges heat with the Player registered as the contact.         *)
(*                                                                         *)
(* Registry, Scene and Player are called synchronously: a process that     *)
(* waits for a reply takes no other request.  Between two nested calls     *)
(* every other process may step.                                           *)
(***************************************************************************)
EXTENDS Integers, Sequences, FiniteSets

CONSTANTS
  Gates,         \* connections, each of which may claim the character once
  Scenes,
  MaxCrossings,  \* bound: hand-overs requested
  MaxHeats,      \* bound: heat exchanges
  MaxEffects,    \* bound: effects answered
  MaxFaults      \* bound: killed connections, timeouts, failing Players and Scenes

ASSUME SessionAssumption ==
  /\ IsFiniteSet(Gates) /\ Gates \cap {0, "none", "registry"} = {} /\ 0 \notin Scenes
  /\ {MaxCrossings, MaxHeats, MaxEffects, MaxFaults} \subseteq Nat

VARIABLES
  (* the registry *)
  nextEpoch, owner, job, calls,
  (* the connections and their mailboxes *)
  conn, mail,
  (* the Scenes and their Players *)
  scene, player,
  (* the World: the registered contact, messages from and to the Players *)
  contact, toWorld, fromWorld,
  (* PostgreSQL: character_bodies *)
  db,
  (* history and bounds *)
  acked,     \* effects whose sender got a receipt
  emitted,   \* heat the World has sent
  reopened,  \* sessions that became the contact after the World answered their detach
  crossings, faults

registry == <<nextEpoch, owner, job, calls>>
gateVars == <<conn, mail>>
world == <<contact, toWorld, fromWorld>>
history == <<acked, emitted, reopened, crossings, faults>>
vars == <<registry, gateVars, scene, player, world, db, history>>

None == 0
Epochs == 1..(Cardinality(Gates) + MaxCrossings)

(* What a body absorbs: the effect on session "to" (n = 0), or heat n sent  *)
(* to it; late when it became the contact after its detach was answered.   *)
Item == [n : 0..MaxHeats, to : Epochs, late : BOOLEAN]
EffectOn(e) == [n |-> 0, to |-> e, late |-> FALSE]

(* The answer of the World to a detach, in a mailbox among the heat. *)
Detached == [n |-> 0, to |-> None, late |-> FALSE]

NoOwner == [gate |-> None, id |-> None, scene |-> None]
NoCall == [type |-> "none", gate |-> None, id |-> None, fresh |-> None,
           scene |-> None, body |-> {}]
NoJob == [call |-> NoCall, stage |-> "idle", epoch |-> None]

NoPlayer == [st |-> "none", scene |-> None, gate |-> None, body |-> {},
             owned |-> FALSE, anchored |-> FALSE, ready |-> FALSE,
             fence |-> "none", sealer |-> FALSE, watch |-> FALSE, failed |-> FALSE]

Alive(e) == player[e].st \in {"live", "requested", "stopping", "sealed", "prepared"}

Idle(s) == scene[s].st # "down" /\ scene[s].drop = None

Close(e) == [type |-> "close", id |-> e, target |-> None]
Post(m, g, message) ==
  IF g # None /\ conn[g].st # "dead" THEN [m EXCEPT ![g] = @ \cup {message}] ELSE m

-----------------------------------------------------------------------------
(* The stored body (BodyStore.save/4, Player.persist_body/1). *)

(* Mutant: save without the epoch condition. *)
AlwaysCurrent(e) == TRUE

(* UPDATE ... WHERE owner_epoch = e. *)
SaveAccepted(e) == db.epoch = e

Crashed(p) == [p EXCEPT !.st = "crashed"]

(* A Player without the right to write, or sealed, does not save. *)
Persists(p) == p.owned /\ p.st # "sealed"

(* Player e becomes p and saves; a refused save kills it.  mailbox is what  *)
(* the World has sent it and it has not taken.                             *)
PersistBody(e, p, mailbox) ==
  IF ~Persists(p)
  THEN /\ player' = [player EXCEPT ![e] = p] /\ db' = db
       /\ fromWorld' = [fromWorld EXCEPT ![e] = mailbox]
  ELSE IF SaveAccepted(e)
  THEN /\ player' = [player EXCEPT ![e] = p] /\ db' = [db EXCEPT !.body = p.body]
       /\ fromWorld' = [fromWorld EXCEPT ![e] = mailbox]
  ELSE /\ player' = [player EXCEPT ![e] = Crashed(p)] /\ db' = db
       /\ fromWorld' = [fromWorld EXCEPT ![e] = <<>>]

-----------------------------------------------------------------------------
(* Scenes: dropping a member, and a crash of the Scene process. *)

(* The connection goes on after one leave of its terminate callback. *)
LeaveDone(c) ==
  IF c.pending # None THEN [c EXCEPT !.pending = None] ELSE [c EXCEPT !.st = "dead"]

(* The reply of a leave: the registry tells the previous connection and     *)
(* goes on to join; a connection goes on leaving.                          *)
Answer(caller, m) ==
  /\ mail' = IF caller = "registry" THEN Post(m, owner.gate, Close(owner.id)) ELSE m
  /\ job' = IF caller = "registry" THEN [job EXCEPT !.stage = "join"] ELSE job
  /\ conn' = IF caller \in Gates /\ conn[caller].st = "leaving"
             THEN [conn EXCEPT ![caller] = LeaveDone(@)] ELSE conn

Told(m, e) == Post(m, player[e].gate, Close(e))

(* drop: tell the connection, then wait for the Player to stop.  e is None  *)
(* when the identity is not a member: the reply is immediate.              *)
Drop(s, e, status, caller) ==
  LET m == IF e = None THEN mail ELSE Told(mail, e) IN
  IF e # None /\ Alive(e)
  THEN /\ scene' = [scene EXCEPT ![s].st = status, ![s].drop = e, ![s].caller = caller]
       /\ mail' = m /\ UNCHANGED <<job, conn>>
  ELSE /\ scene' = [scene EXCEPT ![s].st = status,
                                 ![s].member = IF e = None THEN @ ELSE None]
       /\ Answer(caller, m)

(* The identity, if it is the member. *)
MemberOr(s, e) == IF scene[s].member = e THEN e ELSE None

(* The Player replied to stop. *)
SceneDropped(s) ==
  /\ scene[s].drop # None /\ player[scene[s].drop].st = "gone"
  /\ scene' = [scene EXCEPT ![s].member = None, ![s].drop = None, ![s].caller = "none"]
  /\ Answer(scene[s].caller, mail)
  /\ UNCHANGED <<nextEpoch, owner, calls, player, world, db, history>>

(* The Scene whose reply the registry waits for. *)
JobScene ==
  CASE job.stage \in {"leave", "endpoint", "detach"} -> owner.scene
    [] job.stage \in {"join", "prepare"} -> job.call.scene
    [] job.stage = "activate" -> player[job.call.fresh].scene
    [] job.stage = "idle" -> None

Waiting(g) == conn[g].st \in {"claiming", "preparing", "committing"}

(* The registry exits and restarts without owners; so do its callers, which *)
(* run their terminate callback.  A clock that never steps back gives the   *)
(* new registry a larger first epoch.                                      *)
RegistryExits(c) ==
  /\ owner' = NoOwner /\ job' = NoJob /\ calls' = {}
  /\ conn' = [g \in Gates |-> IF Waiting(g) THEN [c[g] EXCEPT !.st = "leaving"] ELSE c[g]]

(* The Scene exits, its linked Players with it; whoever waits for its       *)
(* reply exits too.                                                        *)
SceneExits(s) ==
  LET killed == {e \in Epochs : player[e].scene = s /\ Alive(e)}
      c == [g \in Gates |-> IF scene[s].caller = g /\ conn[g].st = "leaving"
                            THEN [conn[g] EXCEPT !.st = "dead"] ELSE conn[g]]
  IN
  /\ scene' = [scene EXCEPT ![s] = [st |-> "down", member |-> None, drop |-> None,
                                    caller |-> "none"]]
  /\ player' = [e \in Epochs |-> IF e \in killed THEN Crashed(player[e]) ELSE player[e]]
  /\ fromWorld' = [e \in Epochs |-> IF e \in killed THEN <<>> ELSE fromWorld[e]]
  /\ IF JobScene = s THEN RegistryExits(c) ELSE conn' = c /\ UNCHANGED <<owner, job, calls>>
  /\ UNCHANGED <<nextEpoch, mail, contact, toWorld, db, acked, emitted, reopened, crossings>>

(* A Player that crashes in stop exits the Scene: stop/1 catches only a     *)
(* Player that was already gone or stops normally.                         *)
SceneStopExits(s) ==
  /\ scene[s].drop # None /\ player[scene[s].drop].st = "crashed"
  /\ SceneExits(s) /\ UNCHANGED faults

SceneRestarts(s) ==
  /\ scene[s].st = "down"
  /\ scene' = [scene EXCEPT ![s].st = "up"]
  /\ UNCHANGED <<registry, gateVars, player, world, db, history>>

(* DOWN of the member, or its player_failed. *)
SceneSeesPlayer(s) ==
  /\ Idle(s) /\ scene[s].member # None
  /\ ~Alive(scene[s].member) \/ player[scene[s].member].failed
  /\ Drop(s, scene[s].member, scene[s].st, "none")
  /\ UNCHANGED <<nextEpoch, owner, calls, player, world, db, history>>

(* fail_source: the collision source is lost, every member is dropped. *)
SceneFails(s) ==
  /\ faults < MaxFaults /\ faults' = faults + 1
  /\ Idle(s) /\ scene[s].st = "up"
  /\ Drop(s, scene[s].member, "failed", "none")
  /\ UNCHANGED <<nextEpoch, owner, calls, player, world, db, acked, emitted, reopened, crossings>>

-----------------------------------------------------------------------------
(* The registry takes one call at a time. *)

(* A reply, unless the connection died or gave up waiting. *)
ReplyTo(g, st, c) == IF conn[g].st = st THEN [conn EXCEPT ![g] = c] ELSE conn
Refuse(g, st) == ReplyTo(g, st, [conn[g] EXCEPT !.st = "open", !.closing = TRUE])
ReplyState(type) == CASE type = "claim" -> "claiming" [] type = "prepare" -> "preparing"
                      [] type = "commit" -> "committing"

IsOwner(c) == owner.gate = c.gate /\ owner.id = c.id

FirstStage(c) ==
  CASE c.type = "claim" -> IF owner.id = None THEN "join" ELSE "leave"
    [] c.type = "prepare" -> "endpoint"
    [] c.type = "commit" -> "detach"

RegistryTakes(c) ==
  /\ job = NoJob /\ c \in calls /\ calls' = calls \ {c}
  /\ IF c.type = "claim" \/ IsOwner(c)
     THEN /\ nextEpoch' = IF c.type = "commit" THEN nextEpoch ELSE nextEpoch + 1
          /\ job' = [call |-> c, stage |-> FirstStage(c), epoch |-> nextEpoch]
          /\ UNCHANGED conn
     ELSE /\ conn' = Refuse(c.gate, ReplyState(c.type))
          /\ UNCHANGED <<nextEpoch, job>>
  /\ UNCHANGED <<owner, mail, scene, player, world, db, history>>

(* claim: the Scene of the previous owner drops it. *)
ClaimLeaves ==
  /\ job.stage = "leave" /\ Idle(owner.scene)
  /\ Drop(owner.scene, MemberOr(owner.scene, owner.id), scene[owner.scene].st, "registry")
  /\ UNCHANGED <<nextEpoch, owner, calls, player, world, db, history>>

(* restore_body: claim the stored body for epoch e and read it. *)
StoredBody == db.body

(* claim: join.  The connection becomes the owner even when it is refused.  *)
ClaimJoins ==
  LET e == job.epoch
      g == job.call.gate
      s == job.call.scene
      admitted == scene[s].st = "up" /\ scene[s].member = None
  IN
  /\ job.stage = "join" /\ Idle(s)
  /\ owner' = [gate |-> g, id |-> e, scene |-> s]
  /\ job' = NoJob
  /\ conn' = ReplyTo(g, "claiming", [conn[g] EXCEPT !.st = "open", !.id = e])
  /\ IF admitted
     THEN /\ player' = [player EXCEPT ![e] =
               [NoPlayer EXCEPT !.st = "live", !.scene = s, !.gate = g, !.owned = TRUE,
                                !.body = StoredBody, !.watch = TRUE]]
          /\ db' = [db EXCEPT !.epoch = e]
          /\ scene' = [scene EXCEPT ![s].member = e]
          /\ mail' = mail
     ELSE mail' = Post(mail, g, Close(e)) /\ UNCHANGED <<player, db, scene>>
  /\ UNCHANGED <<nextEpoch, calls, world, history>>

(* prepare_transfer: both Scenes describe themselves. *)
PrepareEndpoint ==
  /\ job.stage = "endpoint" /\ Idle(owner.scene)
  /\ IF scene[owner.scene].st = "up"
     THEN job' = [job EXCEPT !.stage = "prepare"] /\ conn' = conn
     ELSE job' = NoJob /\ conn' = Refuse(job.call.gate, "preparing")
  /\ UNCHANGED <<nextEpoch, owner, calls, mail, scene, player, world, db, history>>

(* The target Scene starts a prepared Player from the cut, or refuses: it    *)
(* has failed, holds the character, or has retired the cut's collision tail. *)
PrepareImports ==
  LET e == job.epoch
      g == job.call.gate
      s == job.call.scene
  IN
  /\ job.stage = "prepare" /\ Idle(s)
  /\ job' = NoJob
  /\ \/ /\ scene[s].st = "up" /\ scene[s].member = None
        /\ player' = [player EXCEPT ![e] =
             [NoPlayer EXCEPT !.st = "prepared", !.scene = s, !.gate = g, !.anchored = TRUE,
                              !.ready = TRUE, !.body = job.call.body, !.watch = TRUE]]
        /\ scene' = [scene EXCEPT ![s].member = e]
        /\ conn' = ReplyTo(g, "preparing", [conn[g] EXCEPT !.st = "open", !.pending = e])
     \/ conn' = Refuse(g, "preparing") /\ UNCHANGED <<player, scene>>
  /\ UNCHANGED <<nextEpoch, owner, calls, mail, world, db, history>>

(* commit_transfer: the source Scene ends the sealed Player.  A child that   *)
(* is already gone fails the match on terminate_child.                      *)
CommitDetaches ==
  LET old == job.call.id
      s == owner.scene
  IN
  /\ job.stage = "detach" /\ Idle(s)
  /\ IF scene[s].member = old /\ ~Alive(old)
     THEN SceneExits(s) /\ UNCHANGED faults
     ELSE /\ IF scene[s].member = old
             THEN /\ scene' = [scene EXCEPT ![s].member = None]
                  /\ player' = [player EXCEPT ![old].st = "gone"]
                  /\ job' = [job EXCEPT !.stage = "activate"] /\ conn' = conn
             ELSE /\ job' = NoJob /\ conn' = Refuse(job.call.gate, "committing")
                  /\ UNCHANGED <<scene, player>>
          /\ UNCHANGED <<nextEpoch, owner, calls, mail, world, db, history>>

(* Mutant: the activated Player does not take the right to write. *)
EpochUnclaimed(e) == db.epoch

ClaimedBy(e) == e

(* Mutant: the registry keeps the identity it had. *)
OwnerInScene(e, s) == [owner EXCEPT !.scene = s]

OwnerAfter(e, s) == [owner EXCEPT !.id = e, !.scene = s]

(* The target Scene activates the prepared Player, which takes the right to  *)
(* write, saves and registers with the World.  A Player that is gone exits   *)
(* the Scene.                                                               *)
CommitActivates ==
  LET e == job.call.fresh
      s == player[e].scene
      g == job.call.gate
  IN
  /\ job.stage = "activate" /\ Idle(s)
  /\ IF scene[s].member = e /\ ~Alive(e)
     THEN SceneExits(s) /\ UNCHANGED faults
     ELSE /\ job' = NoJob
          /\ IF scene[s].member = e
             THEN /\ player' = [player EXCEPT ![e].st = "live", ![e].owned = TRUE]
                  /\ db' = [epoch |-> ClaimedBy(e), body |-> player[e].body]
                  /\ toWorld' = [toWorld EXCEPT ![e] = Append(@, "contact")]
                  /\ owner' = OwnerAfter(e, s)
                  /\ conn' = ReplyTo(g, "committing",
                               [conn[g] EXCEPT !.st = "open", !.id = e, !.pending = None])
             ELSE /\ conn' = Refuse(g, "committing")
                  /\ UNCHANGED <<player, db, toWorld, owner>>
          /\ UNCHANGED <<nextEpoch, calls, mail, scene, contact, fromWorld, history>>

(* A call to a Scene that is down exits the registry. *)
RegistryCallExits ==
  /\ job # NoJob /\ scene[JobScene].st = "down"
  /\ RegistryExits(conn)
  /\ UNCHANGED <<nextEpoch, mail, scene, player, world, db, history>>

(* DOWN of the owning connection, after every call it had sent. *)
RegistryDown ==
  /\ job = NoJob /\ owner.gate # None /\ conn[owner.gate].st = "dead"
  /\ \A c \in calls : c.gate # owner.gate
  /\ owner' = NoOwner
  /\ UNCHANGED <<nextEpoch, job, calls, gateVars, scene, player, world, db, history>>

Registry ==
  \/ \E c \in calls : RegistryTakes(c)
  \/ ClaimLeaves \/ ClaimJoins \/ PrepareEndpoint \/ PrepareImports
  \/ CommitDetaches \/ CommitActivates \/ RegistryCallExits \/ RegistryDown

-----------------------------------------------------------------------------
(* The Player. *)

PlayerFrame == UNCHANGED <<registry, gateVars, scene>>

(* A prepared or sealed Player has no contact to give up. *)
EndsAtOnce(p) == p.st \in {"prepared", "sealed"}

(* begin_body_detach(:stop): a fence under way is upgraded, a Player without *)
(* contact ends at once, any other asks the World to detach it.             *)
BeginStop(e, p) ==
  IF p.fence # "none"
  THEN player' = [player EXCEPT ![e] = [p EXCEPT !.fence = "stop"]] /\ UNCHANGED toWorld
  ELSE IF EndsAtOnce(p)
  THEN player' = [player EXCEPT ![e] = [p EXCEPT !.st = "gone"]] /\ UNCHANGED toWorld
  ELSE /\ player' = [player EXCEPT ![e] = [p EXCEPT !.st = "stopping", !.fence = "stop"]]
       /\ toWorld' = [toWorld EXCEPT ![e] = Append(@, "detach")]

(* The stop call of its Scene. *)
PlayerStop(e) ==
  /\ Alive(e) /\ player[e].fence # "stop" /\ scene[player[e].scene].drop = e
  /\ BeginStop(e, player[e])
  /\ PlayerFrame /\ UNCHANGED <<contact, fromWorld, db, history>>

(* DOWN of the connection: taken without effect while a fence is pending. *)
PlayerGateDown(e) ==
  LET p == [player[e] EXCEPT !.watch = FALSE] IN
  /\ Alive(e) /\ player[e].watch /\ conn[player[e].gate].st = "dead"
  /\ IF p.fence # "none" THEN player' = [player EXCEPT ![e] = p] /\ UNCHANGED toWorld
     ELSE BeginStop(e, p)
  /\ PlayerFrame /\ UNCHANGED <<contact, fromWorld, db, history>>

(* fail and finish: a mismatched Ready, no legal place to stand. *)
PlayerFails(e) ==
  /\ faults < MaxFaults /\ faults' = faults + 1
  /\ player[e].st \in {"live", "requested", "prepared"} /\ ~player[e].failed
  /\ BeginStop(e, [player[e] EXCEPT !.failed = TRUE])
  /\ PlayerFrame /\ UNCHANGED <<contact, fromWorld, db, acked, emitted, reopened, crossings>>

(* The seal call of its connection is only defined for a requested hand-     *)
(* over: any other state crashes the Player.                               *)
PlayerSeal(e) ==
  LET g == player[e].gate IN
  /\ Alive(e) /\ ~player[e].sealer /\ conn[g].st = "sealing" /\ conn[g].id = e
  /\ IF player[e].st = "requested"
     THEN /\ player' = [player EXCEPT ![e].fence = "seal", ![e].sealer = TRUE]
          /\ toWorld' = [toWorld EXCEPT ![e] = Append(@, "detach")]
          /\ UNCHANGED fromWorld
     ELSE /\ player' = [player EXCEPT ![e] = Crashed(@)]
          /\ fromWorld' = [fromWorld EXCEPT ![e] = <<>>]
          /\ UNCHANGED toWorld
  /\ PlayerFrame /\ UNCHANGED <<contact, db, history>>

PrepareCall(e) ==
  [NoCall EXCEPT !.type = "prepare", !.gate = player[e].gate, !.id = e,
                 !.scene = conn[player[e].gate].target, !.body = player[e].body]

(* The World answered the fence: seal saves and replies with the cut, on     *)
(* which the connection calls prepare_transfer; stop saves and exits.       *)
PlayerDetached(e) ==
  LET p == [player[e] EXCEPT !.fence = "none", !.sealer = FALSE]
      g == p.gate
      awaited == player[e].sealer /\ conn[g].st = "sealing" /\ conn[g].id = e
      saved == SaveAccepted(e)
  IN
  /\ Alive(e) /\ p.st # "none" /\ fromWorld[e] # <<>> /\ Head(fromWorld[e]) = Detached
  /\ player[e].fence # "none"
  /\ IF ~saved
     THEN player' = [player EXCEPT ![e] = Crashed(p)] /\ UNCHANGED <<db, conn, calls>>
     ELSE /\ db' = [db EXCEPT !.body = p.body]
          /\ IF player[e].fence = "seal"
             THEN /\ player' = [player EXCEPT ![e] = [p EXCEPT !.st = "sealed"]]
                  /\ IF awaited THEN /\ conn' = [conn EXCEPT ![g].st = "preparing"]
                                     /\ calls' = calls \cup {PrepareCall(e)}
                     ELSE UNCHANGED <<conn, calls>>
             ELSE /\ player' = [player EXCEPT ![e] = [p EXCEPT !.st = "gone"]]
                  /\ conn' = IF awaited THEN Refuse(g, "sealing") ELSE conn
                  /\ UNCHANGED calls
  /\ fromWorld' = [fromWorld EXCEPT ![e] = IF saved THEN Tail(@) ELSE <<>>]
  /\ UNCHANGED <<nextEpoch, owner, job, mail, scene, contact, toWorld, history>>

(* body_heat is absorbed and saved in every state. *)
PlayerHeat(e) ==
  /\ Alive(e) /\ fromWorld[e] # <<>> /\ Head(fromWorld[e]) # Detached
  /\ PersistBody(e, [player[e] EXCEPT !.body = @ \cup {Head(fromWorld[e])}],
                 Tail(fromWorld[e]))
  /\ PlayerFrame /\ UNCHANGED <<contact, toWorld, history>>

(* Mutant: an effect is answered before it is saved. *)
EffectUnsaved(e, p) ==
  player' = [player EXCEPT ![e] = p] /\ UNCHANGED <<db, fromWorld>>

EffectSaved(e, p) == PersistBody(e, p, fromWorld[e])

(* receive_effect: applied, saved, then answered. *)
PlayerEffect(e) ==
  /\ player[e].st = "live" /\ player[e].ready /\ ~player[e].failed
  /\ EffectOn(e) \notin player[e].body /\ Cardinality(acked) < MaxEffects
  /\ EffectSaved(e, [player[e] EXCEPT !.body = @ \cup {EffectOn(e)}])
  /\ acked' = IF player'[e].st = "live" THEN acked \cup {EffectOn(e)} ELSE acked
  /\ PlayerFrame /\ UNCHANGED <<contact, toWorld, emitted, reopened, crossings, faults>>

(* The anchor, the first collision window: the Player has a place in the     *)
(* world and registers its contact, whatever else it has begun.             *)
PlayerAnchor(e) ==
  /\ player[e].st \in {"live", "stopping"} /\ ~player[e].anchored
  /\ player' = [player EXCEPT ![e].anchored = TRUE]
  /\ toWorld' = [toWorld EXCEPT ![e] = Append(@, "contact")]
  /\ PlayerFrame /\ UNCHANGED <<contact, fromWorld, db, history>>

(* body_tick: save the body and report it; bound: one report under way. *)
PlayerTick(e) ==
  /\ player[e].st = "live" /\ player[e].anchored /\ toWorld[e] = <<>>
  /\ PersistBody(e, player[e], fromWorld[e])
  /\ toWorld' = IF player'[e].st = "live" THEN [toWorld EXCEPT ![e] = <<"contact">>] ELSE toWorld
  /\ PlayerFrame /\ UNCHANGED <<contact, history>>

(* boundary: the Player has walked into the domain of a neighbour. *)
PlayerCrosses(e) ==
  /\ crossings < MaxCrossings /\ crossings' = crossings + 1
  /\ player[e].st = "live" /\ player[e].ready /\ ~player[e].failed
  /\ player' = [player EXCEPT ![e].st = "requested"]
  /\ \E s \in Scenes \ {player[e].scene} :
       mail' = Post(mail, player[e].gate, [type |-> "transfer", id |-> e, target |-> s])
  /\ UNCHANGED <<registry, conn, scene, world, db, acked, emitted, reopened, faults>>

-----------------------------------------------------------------------------
(* The World. *)

WorldFrame == UNCHANGED <<registry, gateVars, scene, player, db>>

(* Mutant: a detach is answered and the contact stays. *)
ContactStays(e) == contact

WithoutContact(e) == IF contact = e THEN None ELSE contact

Answered(e) ==
  \/ player[e].st \in {"sealed", "gone", "crashed"}
  \/ \E i \in 1..Len(fromWorld[e]) : fromWorld[e][i] = Detached

(* body_contact: the reported body touches something, or nothing; either     *)
(* way an earlier contact of the character is replaced.                     *)
WorldContact(e) ==
  /\ toWorld[e] # <<>> /\ Head(toWorld[e]) = "contact"
  /\ toWorld' = [toWorld EXCEPT ![e] = Tail(@)]
  /\ contact' \in {e, None}
  /\ reopened' = IF Answered(e) THEN reopened \cup {e} ELSE reopened
  /\ WorldFrame /\ UNCHANGED <<fromWorld, acked, emitted, crossings, faults>>

Deliver(e, message) == IF Alive(e) THEN [fromWorld EXCEPT ![e] = Append(@, message)] ELSE fromWorld

(* Mutant: only the contact gets an answer. *)
AnswerToContact(e) == IF contact = e THEN Deliver(e, Detached) ELSE fromWorld

DetachAnswer(e) == Deliver(e, Detached)

(* body_detach: the contact is dropped if it is the sender's; the reply      *)
(* follows every heat already sent.                                         *)
WorldDetach(e) ==
  /\ toWorld[e] # <<>> /\ Head(toWorld[e]) = "detach"
  /\ toWorld' = [toWorld EXCEPT ![e] = Tail(@)]
  /\ contact' = WithoutContact(e)
  /\ fromWorld' = DetachAnswer(e)
  /\ WorldFrame /\ UNCHANGED history

(* exchange_bodies: a thermal step gives or takes heat of the contact. *)
WorldHeat ==
  LET heat == [n |-> Cardinality(emitted) + 1, to |-> contact, late |-> contact \in reopened] IN
  /\ contact # None /\ Cardinality(emitted) < MaxHeats
  /\ emitted' = emitted \cup {heat}
  /\ fromWorld' = Deliver(contact, heat)
  /\ WorldFrame /\ UNCHANGED <<contact, toWorld, acked, reopened, crossings, faults>>

(* DOWN of the contact, or no report from it for a while. *)
WorldForgets ==
  /\ contact # None /\ contact' = None
  /\ WorldFrame /\ UNCHANGED <<toWorld, fromWorld, history>>

-----------------------------------------------------------------------------
(* The connection. *)

GateFrame == UNCHANGED <<nextEpoch, owner, job, scene, player, world, db>>

(* The client joins: authorised, the connection claims the character. *)
GateJoins(g) ==
  /\ conn[g].st = "new" /\ conn' = [conn EXCEPT ![g].st = "claiming"]
  /\ \E s \in Scenes :
       calls' = calls \cup {[NoCall EXCEPT !.type = "claim", !.gate = g, !.scene = s]}
  /\ GateFrame /\ UNCHANGED <<mail, history>>

(* The client has installed the baseline: its Player accepts input. *)
ClientReady(g) ==
  LET e == conn[g].id IN
  /\ conn[g].st = "open" /\ ~conn[g].closing /\ conn[g].pending = None /\ e # None
  /\ player[e].st \in {"live", "stopping"} /\ player[e].anchored /\ ~player[e].ready
  /\ player' = [player EXCEPT ![e].ready = TRUE]
  /\ UNCHANGED <<registry, gateVars, scene, world, db, history>>

(* mmo_close of this identity, or of another. *)
GateClose(g) ==
  /\ conn[g].st = "open"
  /\ \E m \in mail[g] :
       /\ m.type = "close"
       /\ mail' = [mail EXCEPT ![g] = @ \ {m}]
       /\ conn' = [conn EXCEPT ![g].closing = @ \/ m.id = conn[g].id]
  /\ GateFrame /\ UNCHANGED <<calls, history>>

(* mmo_transfer_request of its Player: seal it. *)
GateTransfer(g) ==
  /\ conn[g].st = "open"
  /\ \E m \in mail[g] :
       /\ m.type = "transfer"
       /\ mail' = [mail EXCEPT ![g] = @ \ {m}]
       /\ conn' = IF m.id = conn[g].id /\ conn[g].pending = None /\ ~conn[g].closing
                  THEN [conn EXCEPT ![g].st = "sealing", ![g].target = m.target] ELSE conn
  /\ GateFrame /\ UNCHANGED <<calls, history>>

(* The Player died before it replied to seal: the call exits. *)
GateSealExits(g) ==
  /\ conn[g].st = "sealing" /\ ~Alive(conn[g].id)
  /\ conn' = [conn EXCEPT ![g].st = "leaving"]
  /\ GateFrame /\ UNCHANGED <<calls, mail, history>>

(* The client confirms the hand-over. *)
ClientCommits(g) ==
  /\ conn[g].st = "open" /\ ~conn[g].closing /\ conn[g].pending # None
  /\ conn' = [conn EXCEPT ![g].st = "committing"]
  /\ calls' = calls \cup {[NoCall EXCEPT !.type = "commit", !.gate = g, !.id = conn[g].id,
                                         !.fresh = conn[g].pending]}
  /\ GateFrame /\ UNCHANGED <<mail, history>>

(* The transport has closed: terminate leaves the pending Scene, then its own. *)
GateTerminates(g) ==
  /\ conn[g].st = "open" /\ conn' = [conn EXCEPT ![g].st = "leaving"]
  /\ GateFrame /\ UNCHANGED <<calls, mail, history>>

Leaves(c) == IF c.pending # None THEN c.pending ELSE c.id

GateLeaves(g) ==
  LET e == Leaves(conn[g])
      s == player[e].scene
  IN
  /\ conn[g].st = "leaving" /\ e # None /\ player[e].st # "none" /\ Idle(s)
  /\ Drop(s, MemberOr(s, e), scene[s].st, g)
  /\ UNCHANGED <<nextEpoch, owner, calls, player, world, db, history>>

(* Nothing to leave (no identity, or a refused join), or the Scene is down. *)
GateGone(g) ==
  /\ conn[g].st = "leaving"
  /\ \A e \in Epochs : e = Leaves(conn[g]) /\ player[e].st # "none"
                         => scene[player[e].scene].st = "down"
  /\ conn' = [conn EXCEPT ![g].st = "dead"] /\ mail' = [mail EXCEPT ![g] = {}]
  /\ GateFrame /\ UNCHANGED <<calls, history>>

(* The linked edit worker, or the node, takes the connection down: no        *)
(* terminate runs, and its calls stay where they are.                      *)
GateKilled(g) ==
  /\ faults < MaxFaults /\ faults' = faults + 1
  /\ conn[g].st \notin {"new", "dead"}
  /\ conn' = [conn EXCEPT ![g].st = "dead"] /\ mail' = [mail EXCEPT ![g] = {}]
  /\ GateFrame /\ UNCHANGED <<calls, acked, emitted, reopened, crossings>>

(* A call times out: the connection exits, its request does not. *)
GateTimesOut(g) ==
  /\ faults < MaxFaults /\ faults' = faults + 1
  /\ Waiting(g) \/ conn[g].st = "sealing"
  /\ conn' = [conn EXCEPT ![g].st = "leaving"]
  /\ GateFrame /\ UNCHANGED <<calls, mail, acked, emitted, reopened, crossings>>

-----------------------------------------------------------------------------
Init ==
  /\ nextEpoch = 1 /\ owner = NoOwner /\ job = NoJob /\ calls = {}
  /\ conn = [g \in Gates |-> [st |-> "new", id |-> None, pending |-> None,
                              target |-> None, closing |-> FALSE]]
  /\ mail = [g \in Gates |-> {}]
  /\ scene = [s \in Scenes |-> [st |-> "up", member |-> None, drop |-> None, caller |-> "none"]]
  /\ player = [e \in Epochs |-> NoPlayer]
  /\ contact = None
  /\ toWorld = [e \in Epochs |-> <<>>] /\ fromWorld = [e \in Epochs |-> <<>>]
  /\ db = [epoch |-> 0, body |-> {}]
  /\ acked = {} /\ emitted = {} /\ reopened = {} /\ crossings = 0 /\ faults = 0

SceneSteps(s) == SceneDropped(s) \/ SceneStopExits(s) \/ SceneRestarts(s) \/ SceneSeesPlayer(s)

PlayerSteps(e) ==
  \/ PlayerStop(e) \/ PlayerGateDown(e) \/ PlayerSeal(e) \/ PlayerDetached(e)
  \/ PlayerHeat(e) \/ PlayerAnchor(e)

WorldSteps(e) == WorldContact(e) \/ WorldDetach(e)

GateSteps(g) ==
  \/ GateClose(g) \/ GateTransfer(g) \/ GateSealExits(g) \/ GateLeaves(g) \/ GateGone(g)
  \/ conn[g].closing /\ GateTerminates(g)

Next ==
  \/ Registry \/ WorldHeat \/ WorldForgets
  \/ \E s \in Scenes : SceneSteps(s) \/ SceneFails(s)
  \/ \E e \in Epochs :
       \/ PlayerSteps(e) \/ WorldSteps(e)
       \/ PlayerFails(e) \/ PlayerEffect(e) \/ PlayerTick(e) \/ PlayerCrosses(e)
  \/ \E g \in Gates :
       \/ GateSteps(g) \/ GateTerminates(g) \/ GateJoins(g) \/ ClientReady(g)
       \/ ClientCommits(g) \/ GateKilled(g) \/ GateTimesOut(g)

Spec == Init /\ [][Next]_vars

(* Every process takes its messages and the supervisors restart; nothing is  *)
(* assumed of clients, bodies and heat.                                     *)
Fairness ==
  /\ WF_vars(Registry)
  /\ \A s \in Scenes : WF_vars(SceneSteps(s))
  /\ \A e \in Epochs : WF_vars(PlayerSteps(e)) /\ WF_vars(WorldSteps(e))
  /\ \A g \in Gates : WF_vars(GateSteps(g))

FairSpec == Spec /\ Fairness

-----------------------------------------------------------------------------
(* Properties. *)

(* What the variables hold. *)
Session == Epochs \cup {None}
Call == [type : {"claim", "prepare", "commit"}, gate : Gates, id : Session,
         fresh : Session, scene : Scenes \cup {None}, body : SUBSET Item]
Connection ==
  [st : {"new", "claiming", "open", "sealing", "preparing", "committing", "leaving", "dead"},
   id : Session, pending : Session, target : Scenes \cup {None}, closing : BOOLEAN]
SceneState == [st : {"up", "failed", "down"}, member : Session, drop : Session,
               caller : Gates \cup {"none", "registry"}]
PlayerState ==
  [st : {"none", "prepared", "live", "requested", "sealed", "stopping", "gone", "crashed"},
   scene : Scenes \cup {None}, gate : Gates \cup {None}, body : SUBSET Item,
   fence : {"none", "seal", "stop"}, owned : BOOLEAN, anchored : BOOLEAN, ready : BOOLEAN,
   sealer : BOOLEAN, watch : BOOLEAN, failed : BOOLEAN]
Messages == [type : {"close"}, id : Epochs, target : {None}]
              \cup [type : {"transfer"}, id : Epochs, target : Scenes]

(* Every variable holds what the processes, mailboxes and tables can hold. *)
TypeOK ==
  /\ nextEpoch \in 1..(Cardinality(Gates) + MaxCrossings + 1)
  /\ owner \in [gate : Gates \cup {None}, id : Session, scene : Scenes \cup {None}]
  /\ job \in [call : Call \cup {NoCall}, epoch : Nat,
              stage : {"idle", "leave", "join", "endpoint", "prepare", "detach", "activate"}]
  /\ calls \in SUBSET Call
  /\ conn \in [Gates -> Connection] /\ mail \in [Gates -> SUBSET Messages]
  /\ scene \in [Scenes -> SceneState] /\ player \in [Epochs -> PlayerState]
  /\ contact \in Session
  /\ toWorld \in [Epochs -> Seq({"contact", "detach"})]
  /\ fromWorld \in [Epochs -> Seq(Item \cup {Detached})]
  /\ db \in [epoch : Session, body : SUBSET Item]
  /\ acked \subseteq Item /\ emitted \subseteq Item /\ IsFiniteSet(emitted)
  /\ reopened \subseteq Epochs
  /\ crossings \in 0..MaxCrossings /\ faults \in 0..MaxFaults

(* An effect whose sender got a receipt is in the stored body, across every  *)
(* hand-over, reconnect and crash (receive_effect, persist_body, claim).    *)
EffectsDurable == acked \subseteq db.body

(* The stored body only moves to newer sessions and never loses what it      *)
(* absorbed: BodyStore with its callers implements BodyOwnership.           *)
Ownership == INSTANCE BodyOwnership WITH epoch <- db.epoch, body <- db.body
OwnershipSpec == Ownership!OwnershipSpec

(* Heat the World sent before it answered the fence is stored, or waits in   *)
(* the mailbox of a Player that will still take it, unless the Player       *)
(* crashed (body_detach, body_detached).                                   *)
Waits(h) == Alive(h.to) /\ \E i \in 1..Len(fromWorld[h.to]) : fromWorld[h.to][i] = h
HeatKept ==
  \A h \in emitted : h.late \/ h \in db.body \/ Waits(h) \/ player[h.to].st = "crashed"

Writes(e) == Alive(e) /\ Persists(player[e])

(* Without a fault no session takes the stored body from a Player that still *)
(* writes it: the leave of the previous Scene ends before the join, and the *)
(* sealed source ends before the target is activated (claim, commit).      *)
NeverOvertaken == faults = 0 => \A e \in Epochs : Writes(e) => db.epoch = e

Member(e) == player[e].st # "none" /\ scene[player[e].scene].member = e

(* A connection that is not closing has a Player in a Scene, or the close of *)
(* it is in its mailbox, or the Player crashed (drop, mmo_close, commit).   *)
OpenSessionHasPlayer ==
  \A g \in Gates :
    LET e == conn[g].id IN
    conn[g].st = "open" /\ ~conn[g].closing /\ e # None =>
      Member(e) \/ Close(e) \in mail[g] \/ player[e].st = "crashed"

(* The registry and the owning connection name the same session whenever the *)
(* connection waits for no reply (claim, commit_transfer and its refusals).  *)
AgreedIdentity ==
  \A g \in Gates :
    conn[g].st = "open" /\ ~conn[g].closing /\ owner.gate = g => owner.id = conn[g].id

(* Registry, connection and Scene agree on who holds the session. *)
SessionsOK == TypeOK /\ AgreedIdentity /\ OpenSessionHasPlayer

(* Every call of a connection to the registry or its Player ends: a claim     *)
(* waiting for a leave waiting for a fence is answered.                     *)
CallsEnd ==
  \A g \in Gates : (Waiting(g) \/ conn[g].st \in {"sealing", "leaving"})
                     ~> ~(Waiting(g) \/ conn[g].st \in {"sealing", "leaving"})

-----------------------------------------------------------------------------
(* What documents and comments say, and the code does not do. *)

(* Without a fault a reconnect finds the Scene free of the old member when   *)
(* it joins: the registry's leave ends before its join.                    *)
JoinAdmitted ==
  faults = 0 /\ job.stage = "join" /\ Idle(job.call.scene)
             /\ scene[job.call.scene].st = "up" => scene[job.call.scene].member = None

(* Without a fault no Scene exits: a Player that ends does not take its       *)
(* Scene with it.                                                          *)
ScenesStay == faults = 0 => \A s \in Scenes : scene[s].st # "down"

(* Without a fault no heat is lost in a stop, not even heat the World sent   *)
(* after it answered the fence.                                            *)
NoHeatLost ==
  faults = 0 => \A h \in emitted : h \in db.body \/ Waits(h) \/ player[h.to].st = "crashed"

(* The Players of a connection that ends do too, the prepared one of a       *)
(* hand-over under way too (terminate, the monitor on the connection).  A    *)
(* kill while a fence is pending leaves one.                                 *)
PlayersEnd ==
  \A e \in Epochs :
    Alive(e) /\ conn[player[e].gate].st \in {"leaving", "dead"} ~> ~Alive(e)
==============================================================================
