--------------------------- MODULE SessionInvariant ---------------------------
(***************************************************************************)
(* The inductive invariant of SessionTransfer: what registry, connections, *)
(* Scenes, Players, World and PostgreSQL know of one character at the same *)
(* time.  Each part is about one pair of them.                             *)
(***************************************************************************)
EXTENDS SessionTransfer

Known(e) == player[e].st # "none"

(* A Player that never writes its body again. *)
Silent(e) == player[e].st \in {"sealed", "gone", "crashed"}

(* A connection that has not begun to end. *)
Serving(g) == conn[g].st \notin {"leaving", "dead"}

(* The calls in the mailbox of the registry, and the one it is in. *)
InFlight == calls \cup ({job.call} \ {NoCall})

(* Every session in use is smaller. *)
Horizon == IF job.call.type \in {"claim", "prepare"} THEN job.epoch ELSE nextEpoch

(* A new epoch names no session yet (next_epoch, Session.claim). *)
EpochsAreNew ==
  /\ \A e \in Epochs : Known(e) => e < Horizon
  /\ db.epoch < Horizon /\ owner.id < Horizon
  /\ \A g \in Gates : conn[g].id < Horizon

(* Every epoch is of a claim, of which a connection sends one, or of a        *)
(* hand-over, of which a crossing asks one.                                *)
Claimed == {g \in Gates : conn[g].st # "new" /\ \A c \in calls : c.type = "claim" => c.gate # g}
Handing == {e \in Epochs : \/ player[e].st = "requested"
                           \/ \E c \in calls : c.type = "prepare" /\ c.id = e}
EpochsCounted == nextEpoch + Cardinality(Handing) <= 1 + Cardinality(Claimed) + crossings

(* The handler the registry is in fits its call and the owner. *)
JobFits ==
  /\ job.stage = "idle" <=> job = NoJob
  /\ job.stage \in {"leave", "join"} => job.call.type = "claim"
  /\ job.stage \in {"endpoint", "prepare"} => job.call.type = "prepare"
  /\ job.stage \in {"detach", "activate"} => job.call.type = "commit"
  /\ job.call.type \in {"claim", "prepare"} => job.epoch \in Epochs /\ nextEpoch = job.epoch + 1
  /\ job.call.type \in {"prepare", "commit"} => IsOwner(job.call)
  /\ job.stage = "leave" => owner.id # None

(* The cut of a hand-over is the stored body while its session owns it. *)
CutIsStored(e, body) == db.epoch = e => db.body = body

(* The prepared Player of a hand-over from session e. *)
PreparedFrom(e, f) ==
  /\ player[f].st \in {"prepared", "gone", "crashed"}
  /\ player[f].st = "prepared" => CutIsStored(e, player[f].body)

(* A call is of a connection that waits for it or has given up, and of a      *)
(* hand-over whose source is sealed.                                       *)
CallFits(c) ==
  /\ conn[c.gate].st \in {ReplyState(c.type), "leaving", "dead"}
  /\ c.type = "claim" => c.scene \in Scenes
  /\ c.type \in {"prepare", "commit"} =>
       c.id \in Epochs /\ Silent(c.id) /\ player[c.id].gate = c.gate
  /\ c.type = "prepare" => c.scene \in Scenes /\ CutIsStored(c.id, c.body)
  /\ c.type = "commit" =>
       /\ c.fresh \in Epochs /\ c.id < c.fresh
       /\ player[c.fresh].gate = c.gate /\ PreparedFrom(c.id, c.fresh)
  /\ conn[c.gate].st = "preparing" => conn[c.gate].id = c.id
  /\ conn[c.gate].st = "committing" => conn[c.gate].id = c.id /\ conn[c.gate].pending = c.fresh

CallsFit ==
  /\ \A c \in InFlight : CallFits(c)
  /\ \A c, d \in calls : c.gate = d.gate => c = d
  /\ \A c \in calls : job = NoJob \/ c.gate # job.call.gate

(* A connection knows its Player and the prepared one of its hand-over. *)
ConnFits(g) ==
  LET c == conn[g] IN
  /\ c.st \in {"new", "claiming"} => c.id = None
  /\ c.st \in {"new", "claiming", "sealing", "preparing"} => c.pending = None
  /\ c.st = "sealing" => c.target \in Scenes /\ c.id # None
  /\ c.st \in {"preparing", "committing"} => c.id # None
  /\ c.st = "committing" => c.pending # None
  /\ \A e \in Epochs : c.id = e /\ Known(e) => player[e].gate = g
  /\ c.pending # None => c.id # None
  /\ \A e, f \in Epochs : c.id = e /\ c.pending = f =>
       /\ e < f /\ Silent(e) /\ Known(f) /\ player[f].gate = g
       /\ Serving(g) => PreparedFrom(e, f)

ConnsFit == \A g \in Gates : ConnFits(g)

(* What a Player has begun and what it may still do. *)
PlayerFits(e) ==
  LET p == player[e] IN
  /\ Known(e) => p.scene \in Scenes /\ p.gate \in Gates
  /\ p.st \in {"none", "prepared"} =>
       ~p.owned /\ p.fence = "none" /\ toWorld[e] = <<>> /\ fromWorld[e] = <<>> /\ contact # e
  /\ p.st \in {"live", "requested", "stopping"} => p.owned
  /\ p.st \in {"live", "sealed"} => p.fence = "none"
  /\ p.st = "stopping" => p.fence = "stop"
  /\ p.ready \/ p.st = "requested" => p.anchored

PlayersFit == \A e \in Epochs : PlayerFits(e)

(* A running Player is the member of its Scene, and the member is a Player    *)
(* of that Scene (join, prepare_import, drop).                             *)
MembersFit ==
  /\ \A e \in Epochs : Alive(e) => /\ scene[player[e].scene].member = e
                                   /\ scene[player[e].scene].st # "down"
  /\ \A s \in Scenes :
       LET c == scene[s] IN
       /\ c.member # None => Known(c.member) /\ player[c.member].scene = s
       /\ c.drop \in {c.member, None} /\ (c.drop = None => c.caller = "none")
       /\ c.st = "down" => c.member = None
       /\ c.caller = "registry" =>
            job.stage = "leave" /\ owner.scene = s /\ owner.id = c.drop

(* The owner of the registry is the session with the right to write, unless  *)
(* its join was refused.                                                   *)
OwnerFits ==
  /\ owner.id = None <=> owner = NoOwner
  /\ owner.id # None => owner.gate \in Gates /\ owner.scene \in Scenes
  /\ owner.id # None /\ Known(owner.id) =>
       /\ db.epoch = owner.id
       /\ player[owner.id].scene = owner.scene /\ player[owner.id].gate = owner.gate
  /\ \A g \in Gates : owner.gate = g /\ Serving(g) => owner.id = conn[g].id

(* The Player with the right to write knows all that is stored. *)
StoredIsKnown ==
  db.epoch # None =>
    /\ player[db.epoch].st \notin {"none", "prepared"}
    /\ Writes(db.epoch) => db.body \subseteq player[db.epoch].body

(* The connection of a Player that is dropped has been told. *)
CloseMailed(g, e) ==
  conn[g].id = e /\ conn[g].st \in {"open", "sealing", "preparing"} /\ ~conn[g].closing
    => Close(e) \in mail[g]

SessionIsHeld ==
  /\ \A s \in Scenes, g \in Gates, e \in Epochs : scene[s].drop = e => CloseMailed(g, e)
  /\ \A g \in Gates, e \in Epochs :
       conn[g].id = e => Member(e) \/ player[e].st = "crashed" \/ CloseMailed(g, e)

(* The inductive invariant. *)
SessionInv ==
  /\ TypeOK /\ EpochsAreNew /\ EpochsCounted /\ JobFits /\ CallsFit /\ ConnsFit
  /\ PlayersFit /\ MembersFit /\ OwnerFits /\ StoredIsKnown /\ SessionIsHeld
  /\ EffectsDurable

(* Only the Player of the owner writes, and none does between the leave and   *)
(* the join of a claim.                                                    *)
WriterOwns == \A e \in Epochs : Writes(e) => owner.id = e /\ job.stage # "join"

(* A connection waits for the call it has sent. *)
CallersWait == \A c \in InFlight : conn[c.gate].st = ReplyState(c.type)

OwnerServes == \A g \in Gates : owner.gate = g => owner.id = conn[g].id

(* A connection ends behind its Player. *)
DeadAreSilent == \A g \in Gates, e \in Epochs : conn[g].st = "dead" /\ conn[g].id = e => ~Writes(e)

(* A connection waits for the Scene it leaves. *)
LeaversWait ==
  \A s \in Scenes, g \in Gates : scene[s].caller = g =>
    conn[g].st = "dead" \/ (conn[g].st = "leaving" /\ scene[s].drop = Leaves(conn[g]))

(* Inductive with SessionInv, without a fault. *)
Orderly == WriterOwns /\ CallersWait /\ OwnerServes /\ DeadAreSilent /\ LeaversWait
OneWriter == faults = 0 => Orderly

(* The World has answered the detach of e, which has not crashed. *)
Fenced(e) ==
  \/ player[e].st \in {"sealed", "gone"}
  \/ \E i \in 1..Len(fromWorld[e]) : fromWorld[e][i] = Detached

(* Heat behind the answer to a detach is late. *)
Behind(e) ==
  \A i, j \in 1..Len(fromWorld[e]) :
    (i < j /\ fromWorld[e][i] = Detached) \/ player[e].st \in {"sealed", "gone"}
      => fromWorld[e][j] = Detached \/ fromWorld[e][j].late

HeatFenced == \A e \in Epochs : (contact = e /\ Fenced(e) => e \in reopened) /\ Behind(e)

HeatInv == HeatFenced /\ HeatKept
==============================================================================
