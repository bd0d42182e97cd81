------------------------ MODULE SessionTransfer_proofs -------------------------
(*****************************************************************************)
(* The inductive invariant of SessionTransfer, for any number of            *)
(* connections, Scenes, crossings, heats, effects and faults, and what      *)
(* follows from it: types, durable effects, agreement on who holds the      *)
(* session, and the refinement of BodyOwnership.  Then the runs without a   *)
(* fault: claims and hand-overs never take the stored body from a Player    *)
(* that still writes it, and the fence of a detach: heat the World sent     *)
(* before it answered is not lost.                                          *)
(*****************************************************************************)
EXTENDS SessionInvariant, FiniteSetTheorems, SequenceTheorems, TLAPS

-----------------------------------------------------------------------------
(* What the operators return. *)

(* The records the processes keep stay records of their kind. *)
LEMMA SceneRecords ==
  ASSUME NEW c \in SceneState, NEW status \in {"up", "failed", "down"}, NEW e \in Session,
         NEW caller \in Gates \cup {"none", "registry"}
  PROVE  /\ [c EXCEPT !.st = status, !.drop = e, !.caller = caller] \in SceneState
         /\ [c EXCEPT !.st = status, !.member = e] \in SceneState
         /\ [c EXCEPT !.member = e, !.drop = e, !.caller = caller] \in SceneState
         /\ [c EXCEPT !.st = status] \in SceneState
         /\ [c EXCEPT !.member = e] \in SceneState
         /\ c.member \in Session
BY DEF SceneState

(* An update of a connection is a connection. *)
LEMMA ConnRecords ==
  ASSUME NEW c \in Connection, NEW e \in Session,
         NEW st \in {"new", "claiming", "open", "sealing", "preparing", "committing",
                     "leaving", "dead"}
  PROVE  /\ [c EXCEPT !.st = st] \in Connection
         /\ [c EXCEPT !.st = st, !.closing = TRUE] \in Connection
         /\ [c EXCEPT !.st = st, !.id = e] \in Connection
         /\ [c EXCEPT !.st = st, !.pending = e] \in Connection
         /\ [c EXCEPT !.st = st, !.id = e, !.pending = None] \in Connection
         /\ \A s \in Scenes : [c EXCEPT !.st = st, !.target = s] \in Connection
         /\ \A b \in BOOLEAN : [c EXCEPT !.closing = b] \in Connection
         /\ c.id \in Session /\ c.pending \in Session
BY DEF Connection, Session

(* An update of a Player is a Player. *)
LEMMA PlayerRecords ==
  ASSUME NEW p \in PlayerState,
         NEW st \in {"none", "prepared", "live", "requested", "sealed", "stopping", "gone", "crashed"},
         NEW fence \in {"none", "seal", "stop"}, NEW b \in BOOLEAN, NEW body \in SUBSET Item
  PROVE  /\ [p EXCEPT !.st = st] \in PlayerState
         /\ [p EXCEPT !.fence = fence] \in PlayerState
         /\ [p EXCEPT !.st = st, !.fence = fence] \in PlayerState
         /\ [p EXCEPT !.st = st, !.owned = b] \in PlayerState
         /\ [p EXCEPT !.fence = fence, !.sealer = b] \in PlayerState
         /\ [p EXCEPT !.watch = b] \in PlayerState /\ [p EXCEPT !.failed = b] \in PlayerState
         /\ [p EXCEPT !.anchored = b] \in PlayerState /\ [p EXCEPT !.ready = b] \in PlayerState
         /\ [p EXCEPT !.body = body] \in PlayerState
         /\ p.body \in SUBSET Item
<1>1. /\ [p EXCEPT !.st = st] \in PlayerState /\ [p EXCEPT !.fence = fence] \in PlayerState
      /\ [p EXCEPT !.st = st, !.fence = fence] \in PlayerState
  BY DEF PlayerState
<1>2. /\ [p EXCEPT !.st = st, !.owned = b] \in PlayerState
      /\ [p EXCEPT !.fence = fence, !.sealer = b] \in PlayerState
      /\ [p EXCEPT !.watch = b] \in PlayerState
  BY DEF PlayerState
<1>3. [p EXCEPT !.failed = b] \in PlayerState /\ [p EXCEPT !.anchored = b] \in PlayerState
  BY DEF PlayerState
<1>4. [p EXCEPT !.ready = b] \in PlayerState /\ [p EXCEPT !.body = body] \in PlayerState
      /\ p.body \in SUBSET Item
  BY DEF PlayerState
<1> QED
  BY <1>1, <1>2, <1>3, <1>4

(* A post leaves sets of messages in the mailboxes. *)
LEMMA PostType ==
  ASSUME NEW m \in [Gates -> SUBSET Messages], NEW g, NEW message \in Messages
  PROVE  Post(m, g, message) \in [Gates -> SUBSET Messages]
BY DEF Post

(* A Player before its start is a Player record. *)
LEMMA NoPlayerType == NoPlayer \in PlayerState
BY DEF NoPlayer, PlayerState, None

(* The close of a session is a message. *)
LEMMA CloseType == ASSUME NEW e \in Epochs PROVE Close(e) \in Messages
BY DEF Close, Messages

(* The bounds of epochs, crossings and faults are numbers. *)
LEMMA BoundType == Cardinality(Gates) \in Nat /\ MaxCrossings \in Nat /\ MaxFaults \in Nat
BY SessionAssumption, FS_CardinalityType

(* A connection after a leave is a connection. *)
LEMMA LeaveDoneType ==
  ASSUME NEW c \in Connection PROVE LeaveDone(c) \in Connection
BY DEF LeaveDone, Connection, Session, None

(* The reply of a leave keeps mailboxes, connections and the job well       *)
(* typed. *)
LEMMA AnswerType ==
  ASSUME TypeOK, NEW caller, NEW m \in [Gates -> SUBSET Messages], Answer(caller, m),
         caller = "registry" => owner.id # None
  PROVE  /\ mail' \in [Gates -> SUBSET Messages] /\ conn' \in [Gates -> Connection]
         /\ job' \in [call : Call \cup {NoCall}, epoch : Nat,
              stage : {"idle", "leave", "join", "endpoint", "prepare", "detach", "activate"}]
<1>1. owner.id # None => Close(owner.id) \in Messages
  BY CloseType DEF TypeOK, Session
<1>2. mail' \in [Gates -> SUBSET Messages]
  BY <1>1, PostType DEF Answer
<1>3. conn' \in [Gates -> Connection]
  BY LeaveDoneType DEF Answer, TypeOK
<1>4. QED
  BY <1>2, <1>3 DEF Answer, TypeOK

(* What a connection waits in, by the type of its call. *)
LEMMA ReplyStateIs ==
  /\ ReplyState("claim") = "claiming"
  /\ ReplyState("prepare") = "preparing"
  /\ ReplyState("commit") = "committing"
BY DEF ReplyState

(* The Scene the registry waits for, by the stage of its handler. *)
LEMMA JobSceneIs ==
  /\ job.stage \in {"leave", "endpoint", "detach"} => JobScene = owner.scene
  /\ job.stage \in {"join", "prepare"} => JobScene = job.call.scene
  /\ job.stage = "activate" => JobScene = player[job.call.fresh].scene
  /\ job.stage = "idle" => JobScene = None
BY DEF JobScene

(* The first stage of a handler, by the type of its call. *)
LEMMA FirstStageIs ==
  ASSUME NEW c \in Call
  PROVE  /\ c.type = "claim" => FirstStage(c) = IF owner.id = None THEN "join" ELSE "leave"
         /\ c.type = "prepare" => FirstStage(c) = "endpoint"
         /\ c.type = "commit" => FirstStage(c) = "detach"
BY DEF FirstStage, Call

(* The calls and stages a handler of the registry can be in. *)
JobType ==
  [call : Call \cup {NoCall}, epoch : Nat,
   stage : {"idle", "leave", "join", "endpoint", "prepare", "detach", "activate"}]

(* A drop keeps Scenes, mailboxes, connections and the job well typed. *)
LEMMA DropType ==
  ASSUME TypeOK, NEW s \in Scenes, NEW e \in Session, NEW status \in {"up", "failed", "down"},
         NEW caller \in Gates \cup {"none", "registry"}, Drop(s, e, status, caller),
         caller = "registry" => owner.id # None
  PROVE  /\ mail' \in [Gates -> SUBSET Messages] /\ conn' \in [Gates -> Connection]
         /\ scene' \in [Scenes -> SceneState] /\ job' \in JobType
<1> DEFINE m == IF e = None THEN mail ELSE Told(mail, e)
<1>1. m \in [Gates -> SUBSET Messages]
  BY PostType, CloseType DEF Told, TypeOK, Session
<1>2. CASE e # None /\ Alive(e)
  <2>1. [scene[s] EXCEPT !.st = status, !.drop = e, !.caller = caller] \in SceneState
    BY SceneRecords DEF TypeOK
  <2>2. scene' = [scene EXCEPT ![s] = [scene[s] EXCEPT !.st = status, !.drop = e, !.caller = caller]]
    BY <1>2 DEF Drop, TypeOK
  <2> QED
    BY <1>1, <1>2, <2>1, <2>2 DEF Drop, TypeOK, JobType
<1>3. CASE ~(e # None /\ Alive(e))
  <2>1. Answer(caller, m)
    BY <1>3 DEF Drop
  <2> HIDE DEF m
  <2>2. /\ mail' \in [Gates -> SUBSET Messages] /\ conn' \in [Gates -> Connection]
        /\ job' \in JobType
    BY <1>1, <2>1, AnswerType DEF JobType
  <2>3. scene' \in [Scenes -> SceneState]
    <3> DEFINE d == IF e = None THEN scene[s].member ELSE None
    <3>1. [scene[s] EXCEPT !.st = status, !.member = d] \in SceneState
      BY SceneRecords DEF TypeOK, Session
    <3>2. scene' = [scene EXCEPT ![s] = [scene[s] EXCEPT !.st = status, !.member = d]]
      BY <1>3 DEF Drop, TypeOK
    <3> QED
      BY <3>1, <3>2 DEF TypeOK
  <2> QED
    BY <2>2, <2>3
<1> QED
  BY <1>2, <1>3

(* An exit of the registry leaves a well typed owner, job, calls and        *)
(* connections. *)
LEMMA RegistryExitsType ==
  ASSUME NEW c \in [Gates -> Connection], RegistryExits(c)
  PROVE  /\ owner' \in [gate : Gates \cup {None}, id : Session, scene : Scenes \cup {None}]
         /\ job' \in JobType /\ calls' \in SUBSET Call /\ conn' \in [Gates -> Connection]
BY DEF RegistryExits, NoOwner, NoJob, JobType, None, Session, Connection

(* An exit of a Scene keeps the types and touches neither the World nor     *)
(* PostgreSQL. *)
LEMMA SceneExitsType ==
  ASSUME TypeOK, NEW s \in Scenes, SceneExits(s)
  PROVE  /\ owner' \in [gate : Gates \cup {None}, id : Session, scene : Scenes \cup {None}]
         /\ job' \in JobType /\ calls' \in SUBSET Call /\ conn' \in [Gates -> Connection]
         /\ scene' \in [Scenes -> SceneState] /\ player' \in [Epochs -> PlayerState]
         /\ fromWorld' \in [Epochs -> Seq(Item \cup {Detached})]
         /\ UNCHANGED <<nextEpoch, mail, contact, toWorld, db, acked, emitted, reopened, crossings>>
<1> DEFINE c == [g \in Gates |-> IF scene[s].caller = g /\ conn[g].st = "leaving"
                            THEN [conn[g] EXCEPT !.st = "dead"] ELSE conn[g]]
<1>1. c \in [Gates -> Connection]
  <2>1. \A g \in Gates : conn[g] \in Connection /\ [conn[g] EXCEPT !.st = "dead"] \in Connection
    BY ConnRecords DEF TypeOK
  <2> QED
    BY <2>1
<1>2. IF JobScene = s THEN RegistryExits(c) ELSE conn' = c /\ UNCHANGED <<owner, job, calls>>
  BY DEF SceneExits
<1> HIDE DEF c
<1>3. /\ owner' \in [gate : Gates \cup {None}, id : Session, scene : Scenes \cup {None}]
      /\ job' \in JobType /\ calls' \in SUBSET Call /\ conn' \in [Gates -> Connection]
  BY <1>1, <1>2, RegistryExitsType DEF TypeOK, JobType
<1>4. scene' \in [Scenes -> SceneState]
  BY DEF SceneExits, TypeOK, SceneState, Session
<1>5. player' \in [Epochs -> PlayerState]
  <2>1. \A e \in Epochs : player[e] \in PlayerState /\ Crashed(player[e]) \in PlayerState
    BY PlayerRecords DEF TypeOK, Crashed
  <2> QED
    BY <2>1 DEF SceneExits
<1>6. fromWorld' \in [Epochs -> Seq(Item \cup {Detached})]
  BY DEF SceneExits, TypeOK
<1> QED
  BY <1>3, <1>4, <1>5, <1>6 DEF SceneExits

(* A save, or a crash for want of the right to, keeps the types. *)
LEMMA PersistBodyType ==
  ASSUME TypeOK, NEW e \in Epochs, NEW p \in PlayerState,
         NEW mailbox \in Seq(Item \cup {Detached}), PersistBody(e, p, mailbox)
  PROVE  /\ player' \in [Epochs -> PlayerState] /\ db' \in [epoch : Session, body : SUBSET Item]
         /\ fromWorld' \in [Epochs -> Seq(Item \cup {Detached})]
<1>1. Crashed(p) \in PlayerState /\ <<>> \in Seq(Item \cup {Detached})
  BY DEF PlayerState, Crashed
<1>2. p.body \in SUBSET Item
  BY DEF PlayerState
<1> QED
  BY <1>1, <1>2 DEF PersistBody, TypeOK

(* A stop keeps the Player and its messages to the World well typed. *)
LEMMA BeginStopType ==
  ASSUME TypeOK, NEW e \in Epochs, NEW p \in PlayerState, BeginStop(e, p)
  PROVE  /\ player' \in [Epochs -> PlayerState]
         /\ toWorld' \in [Epochs -> Seq({"contact", "detach"})]
<1>1. [p EXCEPT !.fence = "stop"] \in PlayerState /\ [p EXCEPT !.st = "gone"] \in PlayerState
      /\ [p EXCEPT !.st = "stopping", !.fence = "stop"] \in PlayerState
  BY DEF PlayerState
<1>2. Append(toWorld[e], "detach") \in Seq({"contact", "detach"})
  BY DEF TypeOK
<1>3. toWorld' \in [Epochs -> Seq({"contact", "detach"})]
  BY <1>2 DEF BeginStop, TypeOK
<1>4. player' \in [Epochs -> PlayerState]
  BY <1>1 DEF BeginStop, TypeOK
<1> QED
  BY <1>3, <1>4

-----------------------------------------------------------------------------
(* The registry. *)

(* What the registry keeps of an owner. *)
OwnerType == [gate : Gates \cup {None}, id : Session, scene : Scenes \cup {None}]

(* The parts of TypeOK, for the steps that change some of them. *)
LEMMA TypesKept ==
  ASSUME TypeOK,
         nextEpoch' \in 1..(Cardinality(Gates) + MaxCrossings + 1),
         owner' \in OwnerType, job' \in JobType, calls' \in SUBSET Call,
         conn' \in [Gates -> Connection], mail' \in [Gates -> SUBSET Messages],
         scene' \in [Scenes -> SceneState], player' \in [Epochs -> PlayerState],
         contact' \in Session, toWorld' \in [Epochs -> Seq({"contact", "detach"})],
         fromWorld' \in [Epochs -> Seq(Item \cup {Detached})],
         db' \in [epoch : Session, body : SUBSET Item],
         acked' \subseteq Item, emitted' \subseteq Item, IsFiniteSet(emitted'), reopened' \subseteq Epochs,
         crossings' \in 0..MaxCrossings, faults' \in 0..MaxFaults
  PROVE  TypeOK'
BY DEF TypeOK, OwnerType, JobType

(* What TypeOK says of each variable, as facts to cite. *)
LEMMA Types ==
  ASSUME TypeOK
  PROVE  /\ nextEpoch \in 1..(Cardinality(Gates) + MaxCrossings + 1)
         /\ owner \in OwnerType /\ job \in JobType /\ calls \in SUBSET Call
         /\ conn \in [Gates -> Connection] /\ mail \in [Gates -> SUBSET Messages]
         /\ scene \in [Scenes -> SceneState] /\ player \in [Epochs -> PlayerState]
         /\ contact \in Session /\ toWorld \in [Epochs -> Seq({"contact", "detach"})]
         /\ fromWorld \in [Epochs -> Seq(Item \cup {Detached})]
         /\ db \in [epoch : Session, body : SUBSET Item]
         /\ acked \subseteq Item /\ emitted \subseteq Item /\ IsFiniteSet(emitted) /\ reopened \subseteq Epochs
         /\ crossings \in 0..MaxCrossings /\ faults \in 0..MaxFaults
BY DEF TypeOK, OwnerType, JobType

(* Records of the registry. *)
LEMMA JobRecords ==
  ASSUME job \in JobType, NEW stage \in {"idle", "leave", "join", "endpoint", "prepare", "detach", "activate"}
  PROVE  /\ [job EXCEPT !.stage = stage] \in JobType /\ NoJob \in JobType
         /\ job.call \in Call \cup {NoCall}
         /\ \A c \in Call, n \in Nat : [call |-> c, stage |-> stage, epoch |-> n] \in JobType
<1>1. [job EXCEPT !.stage = stage] \in JobType
  BY DEF JobType
<1>2. NoJob \in JobType
  BY DEF JobType, NoJob, None
<1> QED
  BY <1>1, <1>2 DEF JobType

(* Taking a call keeps TypeOK, given room for the next epoch. *)
LEMMA RegistryTakesType ==
  ASSUME TypeOK, NEW c \in calls, RegistryTakes(c),
         nextEpoch' \in 1..(Cardinality(Gates) + MaxCrossings + 1)
  PROVE  TypeOK'
<1>1. UNCHANGED <<owner, mail, scene, player, contact, toWorld, fromWorld, db, acked, emitted,
                  reopened, crossings, faults>>
  BY DEF RegistryTakes, world, history
<1>2. c \in Call /\ calls' \in SUBSET Call /\ nextEpoch \in Nat
  BY Types, BoundType DEF RegistryTakes
<1>3. job' \in JobType
  <2>1. FirstStage(c) \in {"idle", "leave", "join", "endpoint", "prepare", "detach", "activate"}
    BY <1>2, FirstStageIs DEF Call
  <2> QED
    BY <1>2, <2>1, Types, JobRecords DEF RegistryTakes
<1>4. conn' \in [Gates -> Connection]
  <2>1. c.gate \in Gates
    BY <1>2 DEF Call
  <2>2. [conn[c.gate] EXCEPT !.st = "open", !.closing = TRUE] \in Connection
    BY <2>1, Types, ConnRecords DEF Session
  <2> QED
    BY <2>1, <2>2, Types DEF RegistryTakes, Refuse, ReplyTo
<1> QED
  BY <1>1, <1>2, <1>3, <1>4, Types, TypesKept

(* The leave of a claim keeps TypeOK. *)
LEMMA ClaimLeavesType == ASSUME TypeOK, JobFits, OwnerFits, ClaimLeaves PROVE TypeOK'
<1>1. UNCHANGED <<nextEpoch, owner, calls, player, contact, toWorld, fromWorld, db, acked, emitted,
                  reopened, crossings, faults>>
  BY DEF ClaimLeaves, world, history
<1>2. owner.id # None /\ owner.scene \in Scenes
  BY DEF ClaimLeaves, JobFits, OwnerFits
<1>3. MemberOr(owner.scene, owner.id) \in Session
      /\ scene[owner.scene].st \in {"up", "failed", "down"}
  BY <1>2, Types DEF MemberOr, OwnerType, Session, SceneState
<1> QED
  BY <1>1, <1>2, <1>3, Types, TypesKept, DropType DEF ClaimLeaves

(* The join of a claim keeps TypeOK. *)
LEMMA ClaimJoinsType == ASSUME TypeOK, JobFits, ClaimJoins PROVE TypeOK'
<1>1. UNCHANGED <<nextEpoch, calls, contact, toWorld, fromWorld, acked, emitted,
                  reopened, crossings, faults>>
  BY DEF ClaimJoins, world, history
<1> DEFINE e == job.epoch  g == job.call.gate  s == job.call.scene
<1>2. e \in Epochs /\ job.call \in Call
  BY Types, JobRecords DEF ClaimJoins, JobFits, NoCall
<1>3. g \in Gates /\ s \in Scenes \cup {None}
  BY <1>2 DEF Call
<1>4. owner' = [gate |-> g, id |-> e, scene |-> s] /\ job' = NoJob
      /\ conn' = ReplyTo(g, "claiming", [conn[g] EXCEPT !.st = "open", !.id = e])
  BY DEF ClaimJoins
<1>5. conn' \in [Gates -> Connection]
  <2>1. [conn[g] EXCEPT !.st = "open", !.id = e] \in Connection
    BY <1>2, <1>3, Types, ConnRecords DEF Session
  <2> QED
    BY <1>3, <1>4, <2>1, Types DEF ReplyTo
<1>6. owner' \in OwnerType /\ job' \in JobType
  BY <1>2, <1>3, <1>4, Types, JobRecords DEF OwnerType, Session
<1>7. mail' \in [Gates -> SUBSET Messages]
  BY <1>2, CloseType, PostType, Types DEF ClaimJoins
<1>8. scene' \in [Scenes -> SceneState]
  <2>1. s \in Scenes => [scene[s] EXCEPT !.member = e] \in SceneState
    BY <1>2, Types, SceneRecords DEF Session
  <2>2. scene' = scene \/ scene' = [scene EXCEPT ![s] = [scene[s] EXCEPT !.member = e]]
    BY DEF ClaimJoins
  <2> QED
    BY <1>3, <2>1, <2>2, Types
<1>9. player' \in [Epochs -> PlayerState] /\ db' \in [epoch : Session, body : SUBSET Item]
  <2>1. db.body \in SUBSET Item /\ db.epoch \in Session
    BY Types
  <2>2. [NoPlayer EXCEPT !.st = "live", !.scene = s, !.gate = g, !.owned = TRUE,
                         !.body = StoredBody, !.watch = TRUE] \in PlayerState
    BY <1>2, <1>3, <2>1 DEF NoPlayer, PlayerState, StoredBody
  <2>3. [db EXCEPT !.epoch = e] \in [epoch : Session, body : SUBSET Item]
    BY <1>2, Types DEF Session
  <2> QED
    BY <1>2, <2>2, <2>3, Types DEF ClaimJoins
<1> QED
  BY <1>1, <1>5, <1>6, <1>7, <1>8, <1>9, Types, TypesKept

(* The endpoint stage of prepare_transfer keeps TypeOK. *)
LEMMA PrepareEndpointType == ASSUME TypeOK, JobFits, PrepareEndpoint PROVE TypeOK'
<1>1. UNCHANGED <<nextEpoch, owner, calls, mail, scene, player, contact, toWorld, fromWorld, db, acked,
                  emitted, reopened, crossings, faults>>
  BY DEF PrepareEndpoint, world, history
<1>2. job.call.gate \in Gates
  BY Types, JobRecords DEF PrepareEndpoint, JobFits, NoCall, Call
<1>3. [conn[job.call.gate] EXCEPT !.st = "open", !.closing = TRUE] \in Connection
  BY <1>2, Types, ConnRecords DEF Session
<1>4. conn' \in [Gates -> Connection]
  BY <1>2, <1>3, Types DEF PrepareEndpoint, Refuse, ReplyTo
<1>5. job' \in JobType
  BY Types, JobRecords DEF PrepareEndpoint
<1> QED
  BY <1>1, <1>4, <1>5, Types, TypesKept

(* The import of a cut keeps TypeOK. *)
LEMMA PrepareImportsType == ASSUME TypeOK, JobFits, PrepareImports PROVE TypeOK'
<1>1. UNCHANGED <<nextEpoch, owner, calls, mail, contact, toWorld, fromWorld, db, acked,
                  emitted, reopened, crossings, faults>>
  BY DEF PrepareImports, world, history
<1> DEFINE e == job.epoch  g == job.call.gate  s == job.call.scene
<1>2. e \in Epochs /\ job.call \in Call
  BY Types, JobRecords DEF PrepareImports, JobFits, NoCall
<1>3. g \in Gates /\ s \in Scenes \cup {None} /\ job.call.body \in SUBSET Item
  BY <1>2 DEF Call
<1>4. [conn[g] EXCEPT !.st = "open", !.closing = TRUE] \in Connection
      /\ [conn[g] EXCEPT !.st = "open", !.pending = e] \in Connection
  BY <1>2, <1>3, Types, ConnRecords DEF Session
<1>5. conn' \in [Gates -> Connection] /\ job' \in JobType
  BY <1>3, <1>4, Types, JobRecords DEF PrepareImports, Refuse, ReplyTo
<1>6. scene' \in [Scenes -> SceneState]
  <2>1. s \in Scenes => [scene[s] EXCEPT !.member = e] \in SceneState
    BY <1>2, Types, SceneRecords DEF Session
  <2>2. scene' = scene \/ scene' = [scene EXCEPT ![s] = [scene[s] EXCEPT !.member = e]]
    BY DEF PrepareImports
  <2> QED
    BY <1>3, <2>1, <2>2, Types
<1>7. player' \in [Epochs -> PlayerState]
  <2>1. [NoPlayer EXCEPT !.st = "prepared", !.scene = s, !.gate = g, !.anchored = TRUE,
                         !.ready = TRUE, !.body = job.call.body, !.watch = TRUE] \in PlayerState
    BY <1>2, <1>3 DEF NoPlayer, PlayerState
  <2> QED
    BY <1>2, <2>1, Types DEF PrepareImports
<1> QED
  BY <1>1, <1>5, <1>6, <1>7, Types, TypesKept

(* A step that exits a Scene keeps TypeOK. *)
LEMMA SceneExitsStep == ASSUME TypeOK, NEW s \in Scenes, SceneExits(s), faults' \in 0..MaxFaults
  PROVE TypeOK'
BY Types, TypesKept, SceneExitsType DEF OwnerType

(* The registry is in a hand-over of the session that owns the character. *)
LEMMA OwnerOfJob ==
  ASSUME TypeOK, JobFits, OwnerFits, job.call.type \in {"prepare", "commit"}
  PROVE  /\ job.call \in Call /\ job.call.gate \in Gates /\ job.call.id \in Epochs
         /\ owner.id = job.call.id /\ owner.gate = job.call.gate /\ owner.scene \in Scenes
         /\ owner.id # None
<1>1. job.call \in Call
  BY Types, JobRecords DEF NoCall
<1>2. job.call.gate \in Gates /\ job.call.id \in Session
  BY <1>1 DEF Call
<1>3. owner.id = job.call.id /\ owner.gate = job.call.gate
  BY DEF JobFits, IsOwner
<1>4. owner.id # None
  BY <1>2, <1>3, SessionAssumption DEF OwnerFits, NoOwner, None
<1> QED
  BY <1>1, <1>2, <1>3, <1>4 DEF OwnerFits, Session

(* The detach stage of commit_transfer keeps TypeOK. *)
LEMMA CommitDetachesType == ASSUME TypeOK, JobFits, OwnerFits, CommitDetaches PROVE TypeOK'
<1> DEFINE old == job.call.id  s == owner.scene
<1>2. job.call.gate \in Gates /\ s \in Scenes /\ old \in Epochs
  BY OwnerOfJob DEF CommitDetaches, JobFits
<1>3. CASE SceneExits(s) /\ UNCHANGED faults
  BY <1>2, <1>3, SceneExitsStep, Types
<1>4. CASE ~(scene[s].member = old /\ ~Alive(old))
  <2>1. UNCHANGED <<nextEpoch, owner, calls, mail, contact, toWorld, fromWorld, db, acked,
                    emitted, reopened, crossings, faults>>
    BY <1>4 DEF CommitDetaches, world, history
  <2>2. [conn[job.call.gate] EXCEPT !.st = "open", !.closing = TRUE] \in Connection
    BY <1>2, Types, ConnRecords DEF Session
  <2>3. conn' \in [Gates -> Connection] /\ job' \in JobType
    BY <1>2, <1>4, <2>2, Types, JobRecords DEF CommitDetaches, Refuse, ReplyTo
  <2>4. scene' \in [Scenes -> SceneState]
    <3>1. [scene[s] EXCEPT !.member = None] \in SceneState
      BY <1>2, Types, SceneRecords DEF Session
    <3>2. scene' = scene \/ scene' = [scene EXCEPT ![s] = [scene[s] EXCEPT !.member = None]]
      BY <1>4 DEF CommitDetaches
    <3> QED
      BY <1>2, <3>1, <3>2, Types
  <2>5. player' \in [Epochs -> PlayerState]
    <3>1. [player[old] EXCEPT !.st = "gone"] \in PlayerState
      BY <1>2, Types, PlayerRecords
    <3>2. player' = player \/ player' = [player EXCEPT ![old] = [player[old] EXCEPT !.st = "gone"]]
      BY <1>4 DEF CommitDetaches
    <3> QED
      BY <1>2, <3>1, <3>2, Types
  <2> QED
    BY <2>1, <2>3, <2>4, <2>5, Types, TypesKept
<1> QED
  BY <1>3, <1>4 DEF CommitDetaches

(* The activation of commit_transfer keeps TypeOK. *)
LEMMA CommitActivatesType == ASSUME TypeOK, JobFits, CallsFit, PlayersFit, CommitActivates PROVE TypeOK'
<1> DEFINE e == job.call.fresh  s == player[e].scene  g == job.call.gate
<1>1. job.call \in Call /\ job.call \in InFlight
  BY Types, JobRecords DEF CommitActivates, JobFits, NoCall, InFlight
<1>2. e \in Epochs /\ g \in Gates
  <2>1. job.call.type = "commit"
    BY DEF CommitActivates, JobFits
  <2> QED
    BY <1>1, <2>1 DEF CallsFit, CallFits, Call
<1>a. s \in Scenes
  <2>1. Known(e)
    BY <1>1, <1>2 DEF CommitActivates, JobFits, CallsFit, CallFits, PreparedFrom, Known
  <2> QED
    BY <1>2, <2>1 DEF PlayersFit, PlayerFits
<1>3. CASE SceneExits(s) /\ UNCHANGED faults
  BY <1>a, <1>3, SceneExitsStep, Types
<1>4. CASE ~(scene[s].member = e /\ ~Alive(e))
  <2>1. UNCHANGED <<nextEpoch, calls, mail, scene, contact, fromWorld, acked,
                    emitted, reopened, crossings, faults>> /\ job' = NoJob
    BY <1>4 DEF CommitActivates, history
  <2>2. /\ [conn[g] EXCEPT !.st = "open", !.closing = TRUE] \in Connection
        /\ [conn[g] EXCEPT !.st = "open", !.id = e, !.pending = None] \in Connection
    BY <1>2, Types, ConnRecords DEF Session
  <2>3. conn' \in [Gates -> Connection]
    BY <1>2, <1>4, <2>2, Types DEF CommitActivates, Refuse, ReplyTo
  <2>4. owner' \in OwnerType
    BY <1>2, <1>a, <1>4, Types DEF CommitActivates, OwnerAfter, OwnerType, Session
  <2>5. player' \in [Epochs -> PlayerState]
    <3>1. [player[e] EXCEPT !.st = "live", !.owned = TRUE] \in PlayerState
      BY <1>2, Types, PlayerRecords
    <3>2. player' = player
          \/ player' = [player EXCEPT ![e] = [player[e] EXCEPT !.st = "live", !.owned = TRUE]]
      BY <1>2, <1>4, Types DEF CommitActivates
    <3> QED
      BY <1>2, <3>1, <3>2, Types
  <2>6. db' \in [epoch : Session, body : SUBSET Item]
    <3>1. player[e].body \in SUBSET Item
      BY <1>2, Types, PlayerRecords
    <3> QED
      BY <1>2, <1>4, <3>1, Types DEF CommitActivates, ClaimedBy, Session
  <2>7. toWorld' \in [Epochs -> Seq({"contact", "detach"})]
    <3>1. Append(toWorld[e], "contact") \in Seq({"contact", "detach"})
      BY <1>2, Types
    <3> QED
      BY <1>2, <1>4, <3>1, Types DEF CommitActivates
  <2>8. job' \in JobType
    BY <2>1, Types, JobRecords
  <2> QED
    BY <2>1, <2>3, <2>4, <2>5, <2>6, <2>7, <2>8, Types, TypesKept
<1> QED
  BY <1>3, <1>4 DEF CommitActivates

(* An exit of the registry, or the DOWN of an owner, keeps TypeOK. *)
LEMMA RegistryEndsType == ASSUME TypeOK, RegistryCallExits \/ RegistryDown PROVE TypeOK'
<1>1. CASE RegistryCallExits
  BY <1>1, Types, TypesKept, RegistryExitsType DEF RegistryCallExits, OwnerType, world, history
<1>2. CASE RegistryDown
  <2>1. owner' \in OwnerType
    BY <1>2 DEF RegistryDown, NoOwner, OwnerType, Session
  <2> QED
    BY <1>2, <2>1, Types, TypesKept DEF RegistryDown, gateVars, world, history
<1> QED
  BY <1>1, <1>2

(* The steps of a Scene keep TypeOK. *)
LEMMA SceneStepsType == ASSUME TypeOK, OwnerFits, MembersFit, JobFits, NEW s \in Scenes, SceneSteps(s) \/ SceneFails(s)
  PROVE TypeOK'
<1>1. CASE SceneDropped(s)
  <2>1. UNCHANGED <<nextEpoch, owner, calls, player, contact, toWorld, fromWorld, db, acked, emitted,
                  reopened, crossings, faults>>
    BY <1>1 DEF SceneDropped, world, history
  <2>2. scene[s].caller = "registry" => owner.id # None
    BY <1>1 DEF MembersFit, JobFits
  <2>3. scene' \in [Scenes -> SceneState]
    <3>1. [scene[s] EXCEPT !.member = None, !.drop = None, !.caller = "none"] \in SceneState
      BY Types, SceneRecords DEF Session
    <3> QED
      BY <1>1, <3>1, Types DEF SceneDropped
  <2>4. /\ mail' \in [Gates -> SUBSET Messages] /\ conn' \in [Gates -> Connection]
        /\ job' \in JobType
    BY <1>1, <2>2, Types, AnswerType DEF SceneDropped, JobType
  <2> QED
    BY <2>1, <2>3, <2>4, Types, TypesKept
<1>2. CASE SceneStopExits(s)
  BY <1>2, SceneExitsStep, Types DEF SceneStopExits
<1>3. CASE SceneRestarts(s)
  <2>1. [scene[s] EXCEPT !.st = "up"] \in SceneState
    BY Types, SceneRecords DEF Session
  <2>2. scene' \in [Scenes -> SceneState]
    BY <1>3, <2>1, Types DEF SceneRestarts
  <2> QED
    BY <1>3, <2>2, Types, TypesKept DEF SceneRestarts, registry, gateVars, world, history
<1>4. CASE SceneSeesPlayer(s) \/ SceneFails(s)
  <2>1. scene[s].member \in Session /\ scene[s].st \in {"up", "failed", "down"}
    BY Types DEF SceneState
  <2>2. PICK status \in {"up", "failed", "down"} : Drop(s, scene[s].member, status, "none")
    BY <1>4, <2>1 DEF SceneSeesPlayer, SceneFails
  <2>3. UNCHANGED <<nextEpoch, owner, calls, player, contact, toWorld, fromWorld, db, acked, emitted,
                  reopened, crossings>>
    BY <1>4 DEF SceneSeesPlayer, SceneFails, world, history
  <2>4. faults' \in 0..MaxFaults
    BY <1>4, Types, BoundType DEF SceneSeesPlayer, SceneFails, history
  <2> QED
    BY <2>1, <2>2, <2>3, <2>4, Types, TypesKept, DropType
<1> QED
  BY <1>1, <1>2, <1>3, <1>4 DEF SceneSteps

-----------------------------------------------------------------------------
(* The Players and the World. *)

(* A Player that stops, or loses its connection, keeps TypeOK. *)
LEMMA StopType == ASSUME TypeOK, NEW e \in Epochs, PlayerStop(e) \/ PlayerGateDown(e) \/ PlayerFails(e)
  PROVE TypeOK'
<1>1. UNCHANGED <<nextEpoch, owner, job, calls, conn, mail, scene, contact, fromWorld, db, acked, emitted,
                  reopened, crossings>>
  BY DEF PlayerStop, PlayerGateDown, PlayerFails, PlayerFrame, registry, gateVars, world, history
<1>2. faults' \in 0..MaxFaults
  BY Types, BoundType DEF PlayerStop, PlayerGateDown, PlayerFails, history
<1>3. /\ player[e] \in PlayerState /\ [player[e] EXCEPT !.watch = FALSE] \in PlayerState
      /\ [player[e] EXCEPT !.failed = TRUE] \in PlayerState
  BY Types, PlayerRecords
<1>4. \/ \E p \in PlayerState : BeginStop(e, p)
      \/ player' = [player EXCEPT ![e] = [player[e] EXCEPT !.watch = FALSE]] /\ UNCHANGED toWorld
  BY <1>3 DEF PlayerStop, PlayerGateDown, PlayerFails
<1>5. player' \in [Epochs -> PlayerState] /\ toWorld' \in [Epochs -> Seq({"contact", "detach"})]
  BY <1>3, <1>4, Types, BeginStopType
<1> QED
  BY <1>1, <1>2, <1>5, Types, TypesKept

(* The seal call keeps TypeOK. *)
LEMMA PlayerSealType == ASSUME TypeOK, NEW e \in Epochs, PlayerSeal(e) PROVE TypeOK'
<1>1. UNCHANGED <<nextEpoch, owner, job, calls, conn, mail, scene, contact, db, acked, emitted,
                  reopened, crossings, faults>>
  BY DEF PlayerSeal, PlayerFrame, registry, gateVars, history
<1>2. /\ [player[e] EXCEPT !.fence = "seal", !.sealer = TRUE] \in PlayerState
      /\ Crashed(player[e]) \in PlayerState
  BY Types, PlayerRecords DEF Crashed
<1>3. Append(toWorld[e], "detach") \in Seq({"contact", "detach"})
  BY Types
<1>4. \/ player' = [player EXCEPT ![e] = [player[e] EXCEPT !.fence = "seal", !.sealer = TRUE]]
      \/ player' = [player EXCEPT ![e] = Crashed(player[e])]
  BY Types DEF PlayerSeal
<1>5. player' \in [Epochs -> PlayerState]
  BY <1>2, <1>4, Types
<1>6. toWorld' \in [Epochs -> Seq({"contact", "detach"})]
  BY <1>3, Types DEF PlayerSeal
<1>7. fromWorld' \in [Epochs -> Seq(Item \cup {Detached})]
  <2>1. fromWorld' = fromWorld \/ fromWorld' = [fromWorld EXCEPT ![e] = <<>>]
    BY DEF PlayerSeal
  <2>2. <<>> \in Seq(Item \cup {Detached})
    OBVIOUS
  <2> QED
    BY <2>1, <2>2, Types
<1> QED
  BY <1>1, <1>5, <1>6, <1>7, Types, TypesKept

(* The answer to a fence keeps TypeOK. *)
LEMMA PlayerDetachedType == ASSUME TypeOK, ConnsFit, PlayersFit, NEW e \in Epochs, PlayerDetached(e) PROVE TypeOK'
<1> DEFINE p == [player[e] EXCEPT !.fence = "none", !.sealer = FALSE]
           g == p.gate
<1>1. UNCHANGED <<nextEpoch, owner, job, mail, scene, contact, toWorld, acked, emitted,
                  reopened, crossings, faults>>
  BY DEF PlayerDetached, history
<1>2. player[e] \in PlayerState /\ p \in PlayerState
  BY Types, PlayerRecords
<1>3. g \in Gates /\ g = player[e].gate
  BY <1>2 DEF PlayerDetached, PlayersFit, PlayerFits, Known, Alive, PlayerState
<1>4. /\ [p EXCEPT !.st = "sealed"] \in PlayerState /\ [p EXCEPT !.st = "gone"] \in PlayerState
      /\ Crashed(p) \in PlayerState /\ p.body \in SUBSET Item /\ player[e].body \in SUBSET Item
  BY <1>2, PlayerRecords DEF Crashed
<1> HIDE DEF p
<1>5. player' \in [Epochs -> PlayerState]
  BY <1>4, Types DEF PlayerDetached, p
<1>6. db' \in [epoch : Session, body : SUBSET Item]
  BY <1>4, Types DEF PlayerDetached, p
<1>7. fromWorld' \in [Epochs -> Seq(Item \cup {Detached})]
  <2>1. Tail(fromWorld[e]) \in Seq(Item \cup {Detached})
    BY Types DEF PlayerDetached
  <2> QED
    BY <2>1, Types DEF PlayerDetached
<1>8. conn' \in [Gates -> Connection]
  <2>1. [conn[g] EXCEPT !.st = "preparing"] \in Connection
        /\ [conn[g] EXCEPT !.st = "open", !.closing = TRUE] \in Connection
    BY <1>3, Types, ConnRecords DEF Session
  <2>2. \/ conn' = conn \/ conn' = [conn EXCEPT ![g] = [conn[g] EXCEPT !.st = "preparing"]]
        \/ conn' = [conn EXCEPT ![g] = [conn[g] EXCEPT !.st = "open", !.closing = TRUE]]
    BY <1>3, Types DEF PlayerDetached, p, Refuse, ReplyTo
  <2> QED
    BY <1>3, <2>1, <2>2, Types
<1>9. calls' \in SUBSET Call
  <2>1. conn[player[e].gate].target \in Scenes \cup {None}
    BY <1>3, Types DEF Connection
  <2>2. PrepareCall(e) \in Call
    BY <1>3, <1>4, <2>1 DEF PrepareCall, NoCall, Call, Session
  <2> QED
    BY <2>2, Types DEF PlayerDetached
<1> QED
  BY <1>1, <1>5, <1>6, <1>7, <1>8, <1>9, Types, TypesKept

(* Absorbing heat keeps TypeOK. *)
LEMMA PlayerHeatType == ASSUME TypeOK, NEW e \in Epochs, PlayerHeat(e) PROVE TypeOK'
<1>1. UNCHANGED <<nextEpoch, owner, job, calls, conn, mail, scene, contact, toWorld, acked, emitted,
                  reopened, crossings, faults>>
  BY DEF PlayerHeat, PlayerFrame, registry, gateVars, history
<1>2. Head(fromWorld[e]) \in Item /\ Tail(fromWorld[e]) \in Seq(Item \cup {Detached})
  BY Types DEF PlayerHeat
<1>3. player[e] \in PlayerState /\ player[e].body \in SUBSET Item
  BY Types, PlayerRecords
<1>4. [player[e] EXCEPT !.body = @ \cup {Head(fromWorld[e])}] \in PlayerState
  <2> DEFINE body == player[e].body \cup {Head(fromWorld[e])}
  <2>1. body \in SUBSET Item
    BY <1>2, <1>3
  <2> HIDE DEF body
  <2>2. [player[e] EXCEPT !.body = body] \in PlayerState
    BY <1>3, <2>1, PlayerRecords
  <2> QED
    BY <2>2 DEF body
<1> QED
  BY <1>1, <1>2, <1>4, Types, TypesKept, PersistBodyType DEF PlayerHeat

(* An effect keeps TypeOK. *)
LEMMA PlayerEffectType == ASSUME TypeOK, NEW e \in Epochs, PlayerEffect(e) PROVE TypeOK'
<1>1. UNCHANGED <<nextEpoch, owner, job, calls, conn, mail, scene, contact, toWorld, emitted,
                  reopened, crossings, faults>>
  BY DEF PlayerEffect, PlayerFrame, registry, gateVars
<1>2. EffectOn(e) \in Item
  BY SessionAssumption DEF EffectOn, Item
<1>3. player[e] \in PlayerState /\ player[e].body \in SUBSET Item
  BY Types, PlayerRecords
<1>4. [player[e] EXCEPT !.body = @ \cup {EffectOn(e)}] \in PlayerState
  <2> DEFINE body == player[e].body \cup {EffectOn(e)}
  <2>1. body \in SUBSET Item
    BY <1>2, <1>3
  <2> HIDE DEF body
  <2>2. [player[e] EXCEPT !.body = body] \in PlayerState
    BY <1>3, <2>1, PlayerRecords
  <2> QED
    BY <2>2 DEF body
<1>5. acked' \subseteq Item
  BY <1>2, Types DEF PlayerEffect
<1> QED
  BY <1>1, <1>4, <1>5, Types, TypesKept, PersistBodyType DEF PlayerEffect, EffectSaved

(* The anchor of a Player keeps TypeOK. *)
LEMMA PlayerAnchorType == ASSUME TypeOK, NEW e \in Epochs, PlayerAnchor(e) PROVE TypeOK'
<1>1. UNCHANGED <<nextEpoch, owner, job, calls, conn, mail, scene, contact, fromWorld, db, acked, emitted,
                  reopened, crossings, faults>>
  BY DEF PlayerAnchor, PlayerFrame, registry, gateVars, history
<1>2. player[e] \in PlayerState /\ toWorld[e] \in Seq({"contact", "detach"})
  BY Types
<1>3. [player[e] EXCEPT !.anchored = TRUE] \in PlayerState
  BY <1>2, PlayerRecords
<1>4. Append(toWorld[e], "contact") \in Seq({"contact", "detach"})
  BY <1>2
<1>5. player' \in [Epochs -> PlayerState] /\ toWorld' \in [Epochs -> Seq({"contact", "detach"})]
  BY <1>3, <1>4, Types DEF PlayerAnchor
<1> QED
  BY <1>1, <1>5, Types, TypesKept

(* A body tick keeps TypeOK. *)
LEMMA PlayerTickType == ASSUME TypeOK, NEW e \in Epochs, PlayerTick(e) PROVE TypeOK'
<1>1. UNCHANGED <<nextEpoch, owner, job, calls, conn, mail, scene, contact, acked, emitted,
                  reopened, crossings, faults>>
  BY DEF PlayerTick, PlayerFrame, registry, gateVars, history
<1>2. <<"contact">> \in Seq({"contact", "detach"})
  OBVIOUS
<1>3. toWorld' \in [Epochs -> Seq({"contact", "detach"})]
  BY <1>2, Types DEF PlayerTick
<1>4. player[e] \in PlayerState /\ fromWorld[e] \in Seq(Item \cup {Detached})
  BY Types
<1> QED
  BY <1>1, <1>3, <1>4, Types, TypesKept, PersistBodyType DEF PlayerTick

(* A crossing keeps TypeOK. *)
LEMMA PlayerCrossesType == ASSUME TypeOK, NEW e \in Epochs, PlayerCrosses(e) PROVE TypeOK'
<1>1. UNCHANGED <<nextEpoch, owner, job, calls, conn, scene, contact, toWorld, fromWorld, db, acked, emitted,
                  reopened, faults>>
  BY DEF PlayerCrosses, registry, world
<1>2. crossings' \in 0..MaxCrossings
  BY Types, BoundType DEF PlayerCrosses
<1>3. player' \in [Epochs -> PlayerState]
  <2>1. [player[e] EXCEPT !.st = "requested"] \in PlayerState
    BY Types, PlayerRecords
  <2> QED
    BY <2>1, Types DEF PlayerCrosses
<1>4. mail' \in [Gates -> SUBSET Messages]
  <2>1. \A s \in Scenes : [type |-> "transfer", id |-> e, target |-> s] \in Messages
    BY DEF Messages
  <2> QED
    BY <2>1, Types, PostType DEF PlayerCrosses
<1> QED
  BY <1>1, <1>2, <1>3, <1>4, Types, TypesKept

(* The steps of the World keep TypeOK. *)
LEMMA WorldType == ASSUME TypeOK, PlayersFit, WorldHeat \/ WorldForgets \/ \E e \in Epochs : WorldSteps(e) PROVE TypeOK'
<1>1. CASE WorldForgets
  BY <1>1, Types, TypesKept DEF WorldForgets, WorldFrame, registry, gateVars, history, Session
<1>2. ASSUME NEW e \in Epochs, WorldContact(e) PROVE TypeOK'
  <2>1. UNCHANGED <<nextEpoch, owner, job, calls, conn, mail, scene, player, fromWorld, db, acked, emitted,
                    crossings, faults>>
    BY <1>2 DEF WorldContact, WorldFrame, registry, gateVars
  <2>2. Tail(toWorld[e]) \in Seq({"contact", "detach"})
    BY <1>2, Types DEF WorldContact
  <2>3. toWorld' \in [Epochs -> Seq({"contact", "detach"})]
    BY <1>2, <2>2, Types DEF WorldContact
  <2>4. contact' \in Session /\ reopened' \subseteq Epochs
    BY <1>2, Types DEF WorldContact, Session
  <2> QED
    BY <2>1, <2>3, <2>4, Types, TypesKept
<1>3. ASSUME NEW e \in Epochs, WorldDetach(e) PROVE TypeOK'
  <2>1. UNCHANGED <<nextEpoch, owner, job, calls, conn, mail, scene, player, db, acked, emitted, reopened,
                    crossings, faults>>
    BY <1>3 DEF WorldDetach, WorldFrame, registry, gateVars, history
  <2>2. Tail(toWorld[e]) \in Seq({"contact", "detach"})
        /\ Append(fromWorld[e], Detached) \in Seq(Item \cup {Detached})
    BY <1>3, Types DEF WorldDetach
  <2>3. toWorld' \in [Epochs -> Seq({"contact", "detach"})]
    BY <1>3, <2>2, Types DEF WorldDetach
  <2>4. fromWorld' \in [Epochs -> Seq(Item \cup {Detached})]
    BY <1>3, <2>2, Types DEF WorldDetach, DetachAnswer, Deliver
  <2>5. contact' \in Session
    BY <1>3, Types DEF WorldDetach, WithoutContact, Session
  <2> QED
    BY <2>1, <2>3, <2>4, <2>5, Types, TypesKept
<1>4. CASE WorldHeat
  <2> DEFINE heat == [n |-> Cardinality(emitted) + 1, to |-> contact, late |-> contact \in reopened]
  <2>1. UNCHANGED <<nextEpoch, owner, job, calls, conn, mail, scene, player, db, contact, toWorld, acked,
                    reopened, crossings, faults>>
    BY <1>4 DEF WorldHeat, WorldFrame, registry, gateVars
  <2>2. contact \in Epochs /\ Cardinality(emitted) \in Nat /\ MaxHeats \in Nat
    BY <1>4, Types, FS_CardinalityType, SessionAssumption DEF WorldHeat, Session
  <2>3. heat \in Item
    BY <1>4, <2>2 DEF WorldHeat, Item
  <2> HIDE DEF heat
  <2>4. emitted' \subseteq Item /\ IsFiniteSet(emitted')
    BY <1>4, <2>3, Types, FS_AddElement DEF WorldHeat, heat
  <2>5. Append(fromWorld[contact], heat) \in Seq(Item \cup {Detached})
    BY <2>2, <2>3, Types
  <2>6. fromWorld' \in [Epochs -> Seq(Item \cup {Detached})]
    BY <1>4, <2>2, <2>5, Types DEF WorldHeat, Deliver, heat
  <2> QED
    BY <2>1, <2>4, <2>6, Types, TypesKept
<1> QED
  BY <1>1, <1>2, <1>3, <1>4 DEF WorldSteps

-----------------------------------------------------------------------------
(* The connections, and the initial state. *)

(* A step of a connection changes it, its mailbox and the calls. *)
LEMMA GateFrameType ==
  ASSUME TypeOK, conn' \in [Gates -> Connection], mail' \in [Gates -> SUBSET Messages],
         calls' \in SUBSET Call, faults' \in 0..MaxFaults, GateFrame,
         UNCHANGED <<acked, emitted, reopened, crossings>>
  PROVE  TypeOK'
BY Types, TypesKept DEF GateFrame, world

(* A claim and a commit of a connection keep TypeOK. *)
LEMMA GateCallsType == ASSUME TypeOK, NEW g \in Gates, GateJoins(g) \/ ClientCommits(g) PROVE TypeOK'
<1>1. conn[g] \in Connection
  BY Types
<1>2. [conn[g] EXCEPT !.st = "claiming"] \in Connection /\ [conn[g] EXCEPT !.st = "committing"] \in Connection
      /\ conn[g].id \in Session /\ conn[g].pending \in Session
  BY <1>1, ConnRecords DEF Session
<1>3. /\ \A s \in Scenes : [NoCall EXCEPT !.type = "claim", !.gate = g, !.scene = s] \in Call
      /\ [NoCall EXCEPT !.type = "commit", !.gate = g, !.id = conn[g].id,
                        !.fresh = conn[g].pending] \in Call
  BY <1>2 DEF NoCall, Call, Session
<1>4. conn' \in [Gates -> Connection]
  BY <1>2, Types DEF GateJoins, ClientCommits
<1>5. calls' \in SUBSET Call
  BY <1>3, Types DEF GateJoins, ClientCommits
<1> QED
  BY <1>4, <1>5, GateFrameType, Types DEF GateJoins, ClientCommits, history

(* The first input of a client keeps TypeOK. *)
LEMMA ClientReadyType == ASSUME TypeOK, NEW g \in Gates, ClientReady(g) PROVE TypeOK'
<1>1. conn[g].id \in Epochs
  BY Types DEF ClientReady, Connection, Session
<1>2. [player[conn[g].id] EXCEPT !.ready = TRUE] \in PlayerState
  BY <1>1, Types, PlayerRecords
<1>3. player' \in [Epochs -> PlayerState]
  BY <1>1, <1>2, Types DEF ClientReady
<1> QED
  BY <1>3, Types, TypesKept DEF ClientReady, registry, gateVars, world, history

(* Taking a message of its mailbox, a connection keeps TypeOK. *)
LEMMA GateMailType == ASSUME TypeOK, NEW g \in Gates, GateClose(g) \/ GateTransfer(g) PROVE TypeOK'
<1>1. PICK m \in mail[g] : /\ mail' = [mail EXCEPT ![g] = @ \ {m}]
                           /\ \/ m.type = "close"
                                 /\ conn' = [conn EXCEPT ![g].closing = @ \/ m.id = conn[g].id]
                              \/ m.type = "transfer" /\ conn' = conn
                              \/ m.type = "transfer"
                                 /\ conn' = [conn EXCEPT ![g].st = "sealing", ![g].target = m.target]
  BY DEF GateClose, GateTransfer
<1>2. m \in Messages /\ mail' \in [Gates -> SUBSET Messages]
  BY <1>1, Types
<1>3. conn[g] \in Connection
  BY Types
<1>4. conn[g].closing \in BOOLEAN /\ (conn[g].closing \/ m.id = conn[g].id) \in BOOLEAN
  BY <1>3 DEF Connection
<1>5. CASE m.type = "close" /\ conn' = [conn EXCEPT ![g].closing = @ \/ m.id = conn[g].id]
  <2> DEFINE b == conn[g].closing \/ m.id = conn[g].id
  <2>1. [conn[g] EXCEPT !.closing = b] \in Connection
    <3>1. b \in BOOLEAN
      BY <1>4
    <3> HIDE DEF b
    <3> QED
      BY <1>3, <3>1, ConnRecords DEF Session
  <2>2. conn' = [conn EXCEPT ![g] = [conn[g] EXCEPT !.closing = b]]
    BY <1>5, Types
  <2>3. conn' \in [Gates -> Connection]
    BY <2>1, <2>2, Types
  <2> QED
    BY <1>2, <2>3, GateFrameType, Types DEF GateClose, GateTransfer, history
<1>6. CASE m.type = "transfer"
  <2>1. m.target \in Scenes
    BY <1>2, <1>6 DEF Messages
  <2>2. [conn[g] EXCEPT !.st = "sealing", !.target = m.target] \in Connection
    BY <1>3, <2>1, ConnRecords DEF Session
  <2>3. conn' \in [Gates -> Connection]
    BY <1>1, <1>6, <2>2, Types
  <2> QED
    BY <1>2, <2>3, GateFrameType, Types DEF GateClose, GateTransfer, history
<1> QED
  BY <1>1, <1>5, <1>6

(* A connection that ends keeps TypeOK. *)
LEMMA GateEndsType ==
  ASSUME TypeOK, NEW g \in Gates,
         GateSealExits(g) \/ GateTerminates(g) \/ GateGone(g) \/ GateKilled(g) \/ GateTimesOut(g)
  PROVE TypeOK'
<1>1. [conn[g] EXCEPT !.st = "leaving"] \in Connection /\ [conn[g] EXCEPT !.st = "dead"] \in Connection
  BY Types, ConnRecords DEF Session
<1>2. conn' \in [Gates -> Connection]
  BY <1>1, Types DEF GateSealExits, GateTerminates, GateGone, GateKilled, GateTimesOut
<1>3. mail' \in [Gates -> SUBSET Messages]
  BY Types DEF GateSealExits, GateTerminates, GateGone, GateKilled, GateTimesOut
<1>4. faults' \in 0..MaxFaults
  BY Types, BoundType DEF GateSealExits, GateTerminates, GateGone, GateKilled, GateTimesOut, history
<1> QED
  BY <1>2, <1>3, <1>4, GateFrameType, Types
     DEF GateSealExits, GateTerminates, GateGone, GateKilled, GateTimesOut, history

(* A leave of a connection keeps TypeOK. *)
LEMMA GateLeavesType == ASSUME TypeOK, PlayersFit, NEW g \in Gates, GateLeaves(g) PROVE TypeOK'
<1> DEFINE e == Leaves(conn[g])
           s == player[e].scene
<1>1. UNCHANGED <<nextEpoch, owner, calls, player, contact, toWorld, fromWorld, db, acked, emitted,
                  reopened, crossings, faults>>
  BY DEF GateLeaves, world, history
<1>2. e \in Epochs
  BY Types, ConnRecords DEF GateLeaves, Leaves, Session
<1>3. s \in Scenes
  BY <1>2 DEF GateLeaves, PlayersFit, PlayerFits, Known
<1>4. MemberOr(s, e) \in Session /\ scene[s].st \in {"up", "failed", "down"}
  BY <1>2, <1>3, Types DEF MemberOr, Session, SceneState
<1>5. Drop(s, MemberOr(s, e), scene[s].st, g)
  BY DEF GateLeaves
<1>6. g # "registry"
  BY SessionAssumption
<1> HIDE DEF e, s
<1> QED
  BY <1>1, <1>3, <1>4, <1>5, <1>6, Types, TypesKept, DropType

(* The initial state is well typed. *)
LEMMA InitType == Init => TypeOK
<1> SUFFICES ASSUME Init PROVE TypeOK
  OBVIOUS
<1>1. nextEpoch \in 1..(Cardinality(Gates) + MaxCrossings + 1)
  BY BoundType DEF Init
<1>2. crossings \in 0..MaxCrossings /\ faults \in 0..MaxFaults
  BY BoundType DEF Init
<1>3. owner \in OwnerType /\ job \in JobType /\ calls \in SUBSET Call
  BY DEF Init, OwnerType, NoOwner, NoJob, JobType, Session, None
<1>4. conn \in [Gates -> Connection] /\ mail \in [Gates -> SUBSET Messages]
  BY DEF Init, Connection, Session
<1>5. scene \in [Scenes -> SceneState] /\ player \in [Epochs -> PlayerState]
  BY NoPlayerType DEF Init, SceneState, Session
<1>6. /\ toWorld \in [Epochs -> Seq({"contact", "detach"})] /\ contact \in Session
      /\ fromWorld \in [Epochs -> Seq(Item \cup {Detached})]
  BY DEF Init, Session
<1>7. db \in [epoch : Session, body : SUBSET Item] /\ IsFiniteSet(emitted)
      /\ acked \subseteq Item /\ emitted \subseteq Item /\ reopened \subseteq Epochs
  BY FS_EmptySet DEF Init, Session, None
<1> QED
  BY <1>1, <1>2, <1>3, <1>4, <1>5, <1>6, <1>7 DEF TypeOK, OwnerType, JobType

-----------------------------------------------------------------------------
(* How Players move. *)

(* What a Player may become by its own steps and those of its World. *)
Moves(p, q) ==
  /\ q.scene = p.scene /\ q.gate = p.gate
  /\ p.st \in {"live", "requested", "stopping", "sealed", "prepared"}
  /\ p.st = "prepared" => q.st \in {"prepared", "gone", "crashed"} /\ q.body = p.body
  /\ p.st = "sealed" => q.st \in {"sealed", "gone", "crashed"}
  /\ p.st # "prepared" => q.st \in {"live", "requested", "stopping", "sealed", "gone", "crashed"}
                          /\ p.body \subseteq q.body
  /\ q.st = "live" => p.st = "live"
  /\ q.st = "requested" => p.st \in {"live", "requested"}

(* A save of Player e, if it may. *)
Saves(e) ==
  \/ db' = db
  \/ /\ db.epoch = e /\ player[e].st \in {"live", "requested", "stopping"}
     /\ db' = [db EXCEPT !.body = player'[e].body]

(* One Player moves, and nothing of the registry, the Scenes and the other    *)
(* Players.                                                                *)
PlayerMoves(e) ==
  /\ UNCHANGED <<nextEpoch, owner, job, scene>>
  /\ \E q \in PlayerState : player' = [player EXCEPT ![e] = q] /\ Moves(player[e], q)
  /\ Saves(e)

(* begin_body_detach moves the Player it is called on. *)
LEMMA BeginStopMoves ==
  ASSUME NEW e \in Epochs, NEW p \in PlayerState, BeginStop(e, p),
         p.st \in {"live", "requested", "stopping", "sealed", "prepared"},
         p.st \in {"live", "sealed", "prepared"} => p.fence = "none"
  PROVE  \E q \in PlayerState : player' = [player EXCEPT ![e] = q] /\ Moves(p, q)
<1> DEFINE q == IF p.fence # "none" THEN [p EXCEPT !.fence = "stop"]
                ELSE IF EndsAtOnce(p) THEN [p EXCEPT !.st = "gone"]
                ELSE [p EXCEPT !.st = "stopping", !.fence = "stop"]
<1>1. player' = [player EXCEPT ![e] = q]
  BY DEF BeginStop
<1>2. q \in PlayerState
  BY DEF PlayerState
<1>3. Moves(p, q)
  BY DEF Moves, EndsAtOnce, PlayerState
<1> HIDE DEF q
<1> QED
  BY <1>1, <1>2, <1>3

(* A Player marked as unwatched or failed moves as it would without the     *)
(* mark. *)
LEMMA MovesFromMarked ==
  ASSUME NEW p \in PlayerState, NEW q,
         Moves([p EXCEPT !.watch = FALSE], q) \/ Moves([p EXCEPT !.failed = TRUE], q)
  PROVE  Moves(p, q)
BY DEF Moves, PlayerState

(* A Player that saves moves, and the stored body is its own or stays. *)
LEMMA PersistBodyMoves ==
  ASSUME NEW e \in Epochs, NEW p \in PlayerState, NEW mailbox, PersistBody(e, p, mailbox), TypeOK,
         Moves(player[e], p), player[e].st # "prepared",
         player[e].st # "sealed" => p.st \in {"live", "requested", "stopping"} /\ player[e].st = p.st,
         player[e].st = "sealed" => p.st = "sealed"
  PROVE  /\ \E q \in PlayerState : player' = [player EXCEPT ![e] = q] /\ Moves(player[e], q)
         /\ Saves(e)
<1>1. Crashed(p) \in PlayerState
  BY DEF Crashed, PlayerState
<1>2. Moves(player[e], Crashed(p))
  BY DEF Crashed, Moves, PlayerState
<1>3. \E q \in PlayerState : player' = [player EXCEPT ![e] = q] /\ Moves(player[e], q)
  BY <1>1, <1>2 DEF PersistBody
<1>4. Saves(e)
  <2>1. player'[e] = p \/ db' = db
    BY Types DEF PersistBody
  <2> QED
    BY <2>1 DEF PersistBody, Saves, Persists, SaveAccepted, Moves
<1> QED
  BY <1>3, <1>4

(* Stop, DOWN of the connection and a failure move one Player and nothing   *)
(* else. *)
LEMMA PlayerStopMoves ==
  ASSUME TypeOK, PlayersFit, NEW e \in Epochs, PlayerStop(e) \/ PlayerGateDown(e) \/ PlayerFails(e)
  PROVE  PlayerMoves(e) /\ UNCHANGED <<calls, conn, mail, db>>
<1>1. UNCHANGED <<nextEpoch, owner, job, calls, conn, mail, scene, db>>
  BY DEF PlayerStop, PlayerGateDown, PlayerFails, PlayerFrame, registry, gateVars, world, history
<1> DEFINE p == player[e]  w == [p EXCEPT !.watch = FALSE]  f == [p EXCEPT !.failed = TRUE]
<1>2. /\ p \in PlayerState /\ w \in PlayerState /\ f \in PlayerState
  BY Types, PlayerRecords
<1>3. /\ p.st \in {"live", "requested", "stopping", "sealed", "prepared"}
      /\ p.st \in {"live", "sealed", "prepared"} => p.fence = "none"
  BY DEF PlayerStop, PlayerGateDown, PlayerFails, Alive, PlayersFit, PlayerFits
<1>4. w.st = p.st /\ w.fence = p.fence /\ f.st = p.st /\ f.fence = p.fence
  BY <1>2 DEF PlayerState
<1>5. Moves(p, w)
  BY <1>2, <1>3 DEF Moves, PlayerState
<1>6. \/ BeginStop(e, p) \/ BeginStop(e, w) \/ BeginStop(e, f)
      \/ player' = [player EXCEPT ![e] = w]
  BY DEF PlayerStop, PlayerGateDown, PlayerFails
<1> HIDE DEF w, f
<1>7. \E q \in PlayerState : player' = [player EXCEPT ![e] = q] /\ (Moves(p, q) \/ Moves(w, q) \/ Moves(f, q))
  <2>1. CASE BeginStop(e, p)
    BY <1>2, <1>3, <2>1, BeginStopMoves
  <2>2. CASE BeginStop(e, w)
    <3>1. \E q \in PlayerState : player' = [player EXCEPT ![e] = q] /\ Moves(w, q)
      BY <1>2, <1>3, <1>4, <2>2, BeginStopMoves
    <3> QED BY <3>1
  <2>3. CASE BeginStop(e, f)
    <3>1. \E q \in PlayerState : player' = [player EXCEPT ![e] = q] /\ Moves(f, q)
      BY <1>2, <1>3, <1>4, <2>3, BeginStopMoves
    <3> QED BY <3>1
  <2>4. CASE player' = [player EXCEPT ![e] = w]
    BY <1>2, <1>5, <2>4
  <2> QED
    BY <1>6, <2>1, <2>2, <2>3, <2>4
<1>8. \A q : Moves(w, q) \/ Moves(f, q) => Moves(p, q)
  BY <1>2, MovesFromMarked DEF w, f
<1> QED
  BY <1>1, <1>7, <1>8 DEF PlayerMoves, Saves

(* The seal call moves one Player and nothing else. *)
LEMMA PlayerSealMoves ==
  ASSUME TypeOK, PlayersFit, NEW e \in Epochs, PlayerSeal(e)
  PROVE  PlayerMoves(e) /\ UNCHANGED <<calls, conn, mail, db>>
<1>1. UNCHANGED <<nextEpoch, owner, job, calls, conn, mail, scene, db>>
  BY DEF PlayerSeal, PlayerFrame, registry, gateVars, world, history
<1> DEFINE p == player[e]  q == IF p.st = "requested" THEN [p EXCEPT !.fence = "seal", !.sealer = TRUE] ELSE Crashed(p)
<1>2. p \in PlayerState
  BY Types
<1>3. player' = [player EXCEPT ![e] = q]
  BY <1>2, Types DEF PlayerSeal
<1>4. q \in PlayerState
  BY <1>2 DEF PlayerState, Crashed
<1>5. Moves(p, q)
  BY <1>2 DEF PlayerSeal, Moves, PlayerState, Crashed, Alive
<1> HIDE DEF q
<1> QED
  BY <1>1, <1>3, <1>4, <1>5 DEF PlayerMoves, Saves

(* The answer to a fence moves one Player, and saves it. *)
LEMMA PlayerDetachedMoves ==
  ASSUME TypeOK, PlayersFit, NEW e \in Epochs, PlayerDetached(e)
  PROVE  PlayerMoves(e) /\ UNCHANGED mail
<1>1. UNCHANGED <<nextEpoch, owner, job, mail, scene>>
  BY DEF PlayerDetached, history
<1> DEFINE p == [player[e] EXCEPT !.fence = "none", !.sealer = FALSE]
           q == IF ~SaveAccepted(e) THEN Crashed(p)
                ELSE IF player[e].fence = "seal" THEN [p EXCEPT !.st = "sealed"]
                ELSE [p EXCEPT !.st = "gone"]
<1>2. player[e] \in PlayerState /\ p \in PlayerState
  BY Types, PlayerRecords
<1>8. player' = [player EXCEPT ![e] = q]
  <2> HIDE DEF p
  <2> QED
    BY DEF PlayerDetached, p
<1>3. db' = db \/ (SaveAccepted(e) /\ db' = [db EXCEPT !.body = p.body])
  <2> HIDE DEF p
  <2> QED
    BY DEF PlayerDetached, p
<1>4. player[e].st \in {"requested", "stopping"}
  BY DEF PlayerDetached, PlayersFit, PlayerFits, Alive
<1>5. q \in PlayerState
  BY <1>2, PlayerRecords DEF Crashed
<1>6. Moves(player[e], q) /\ q.body = p.body
  BY <1>2, <1>4 DEF Moves, PlayerState, Crashed
<1> HIDE DEF q
<1>7. player'[e] = q
  BY <1>8, Types
<1> QED
  BY <1>1, <1>3, <1>8, <1>4, <1>5, <1>6, <1>7 DEF PlayerMoves, Saves, SaveAccepted

(* Heat moves one Player, and saves it. *)
LEMMA PlayerHeatMoves ==
  ASSUME TypeOK, PlayersFit, NEW e \in Epochs, PlayerHeat(e)
  PROVE  PlayerMoves(e) /\ UNCHANGED <<calls, conn, mail>>
<1>1. UNCHANGED <<nextEpoch, owner, job, calls, conn, mail, scene>>
  BY DEF PlayerHeat, PlayerFrame, registry, gateVars
<1> DEFINE body == player[e].body \cup {Head(fromWorld[e])}
           p == [player[e] EXCEPT !.body = body]
<1>2. Head(fromWorld[e]) \in Item
  BY Types DEF PlayerHeat
<1>3. player[e] \in PlayerState /\ body \in SUBSET Item
  BY <1>2, Types, PlayerRecords
<1>4. player[e].st \in {"live", "requested", "stopping", "sealed"}
  BY DEF PlayerHeat, PlayersFit, PlayerFits, Alive
<1>5. player[e].body \subseteq body
  OBVIOUS
<1> HIDE DEF body
<1>6. p \in PlayerState /\ Moves(player[e], p) /\ p.st = player[e].st
  BY <1>3, <1>4, <1>5 DEF Moves, PlayerState
<1>7. PersistBody(e, p, Tail(fromWorld[e]))
  BY DEF PlayerHeat, body
<1> HIDE DEF p
<1> QED
  BY <1>1, <1>4, <1>6, <1>7, PersistBodyMoves DEF PlayerMoves

(* An effect moves one Player, and saves it. *)
LEMMA PlayerEffectMoves ==
  ASSUME TypeOK, PlayersFit, NEW e \in Epochs, PlayerEffect(e)
  PROVE  PlayerMoves(e) /\ UNCHANGED <<calls, conn, mail>>
<1>1. UNCHANGED <<nextEpoch, owner, job, calls, conn, mail, scene>>
  BY DEF PlayerEffect, PlayerFrame, registry, gateVars
<1> DEFINE body == player[e].body \cup {EffectOn(e)}
           p == [player[e] EXCEPT !.body = body]
<1>2. EffectOn(e) \in Item
  BY SessionAssumption DEF EffectOn, Item
<1>3. player[e] \in PlayerState /\ body \in SUBSET Item
  BY <1>2, Types, PlayerRecords
<1>4. player[e].st = "live"
  BY DEF PlayerEffect
<1>5. player[e].body \subseteq body
  OBVIOUS
<1> HIDE DEF body
<1>6. p \in PlayerState /\ Moves(player[e], p) /\ p.st = player[e].st
  BY <1>3, <1>4, <1>5 DEF Moves, PlayerState
<1>7. PersistBody(e, p, fromWorld[e])
  BY DEF PlayerEffect, EffectSaved, body
<1> HIDE DEF p
<1> QED
  BY <1>1, <1>4, <1>6, <1>7, PersistBodyMoves DEF PlayerMoves

(* A body tick moves one Player, and saves it. *)
LEMMA PlayerTickMoves ==
  ASSUME TypeOK, NEW e \in Epochs, PlayerTick(e)
  PROVE  PlayerMoves(e) /\ UNCHANGED <<calls, conn, mail>>
<1>1. UNCHANGED <<nextEpoch, owner, job, calls, conn, mail, scene>>
  BY DEF PlayerTick, PlayerFrame, registry, gateVars
<1>2. player[e] \in PlayerState /\ player[e].st = "live"
  BY Types DEF PlayerTick
<1>3. Moves(player[e], player[e])
  BY <1>2 DEF Moves
<1>4. PersistBody(e, player[e], fromWorld[e])
  BY DEF PlayerTick
<1> QED
  BY <1>1, <1>2, <1>3, <1>4, PersistBodyMoves DEF PlayerMoves

(* The anchor and a crossing move one Player and save nothing. *)
LEMMA PlayerOtherMoves ==
  ASSUME TypeOK, NEW e \in Epochs, PlayerAnchor(e) \/ PlayerCrosses(e)
  PROVE  PlayerMoves(e) /\ UNCHANGED <<calls, conn, db>>
<1>1. UNCHANGED <<nextEpoch, owner, job, calls, conn, scene, db>>
  BY DEF PlayerAnchor, PlayerCrosses, PlayerFrame, registry, gateVars, world
<1>2. player[e] \in PlayerState
  BY Types
<1> DEFINE a == [player[e] EXCEPT !.anchored = TRUE]
           r == [player[e] EXCEPT !.st = "requested"]
<1>3. \/ player' = [player EXCEPT ![e] = a] /\ player[e].st \in {"live", "stopping"}
      \/ player' = [player EXCEPT ![e] = r] /\ player[e].st = "live"
  BY Types DEF PlayerAnchor, PlayerCrosses
<1>4. a \in PlayerState /\ r \in PlayerState
  BY <1>2, PlayerRecords
<1>5. player[e].st \in {"live", "stopping"} => Moves(player[e], a)
  BY <1>2 DEF Moves, PlayerState
<1>6. player[e].st = "live" => Moves(player[e], r)
  BY <1>2 DEF Moves, PlayerState
<1> HIDE DEF a, r
<1> QED
  BY <1>1, <1>3, <1>4, <1>5, <1>6 DEF PlayerMoves, Saves

(* The first input moves the Player of the connection. *)
LEMMA ClientReadyMoves ==
  ASSUME TypeOK, NEW g \in Gates, ClientReady(g)
  PROVE  /\ conn[g].id \in Epochs /\ PlayerMoves(conn[g].id)
         /\ UNCHANGED <<calls, conn, mail, db>>
<1> DEFINE e == conn[g].id  r == [player[e] EXCEPT !.ready = TRUE]
<1>1. UNCHANGED <<nextEpoch, owner, job, calls, conn, mail, scene, db>>
  BY DEF ClientReady, registry, gateVars, world
<1>2. e \in Epochs /\ player[e] \in PlayerState
  BY Types DEF ClientReady, Connection, Session
<1>3. player' = [player EXCEPT ![e] = r] /\ player[e].st \in {"live", "stopping"}
  BY <1>2, Types DEF ClientReady
<1>4. r \in PlayerState
  BY <1>2, PlayerRecords
<1>5. Moves(player[e], r)
  BY <1>2, <1>3 DEF Moves, PlayerState
<1> HIDE DEF r
<1> QED
  BY <1>1, <1>2, <1>3, <1>4, <1>5 DEF PlayerMoves, Saves

-----------------------------------------------------------------------------
(* What the parts of the invariant survive. *)

(* What a Player that is not created or activated may become. *)
Evolves(e) ==
  /\ Known(e)' <=> Known(e)
  /\ player'[e].scene = player[e].scene /\ player'[e].gate = player[e].gate
  /\ Alive(e)' => Alive(e)
  /\ Silent(e) => Silent(e)'
  /\ player[e].st = "crashed" => player'[e].st = "crashed"
  /\ player[e].st \in {"prepared", "gone", "crashed"} => player'[e].st \in {"prepared", "gone", "crashed"}
  /\ player'[e].st = "prepared" => player[e].st = "prepared" /\ player'[e].body = player[e].body

(* A session that no longer writes leaves its stored body as it is. *)
CutsStay == \A e \in Epochs : Silent(e) /\ db'.epoch = e => db' = db

(* A connection stays as it is, is refused, or ends. *)
ConnStays(g) ==
  /\ conn'[g].id = conn[g].id
  /\ \/ conn'[g] = conn[g]
     \/ conn'[g].st \in {"leaving", "dead"} /\ conn'[g].pending \in {conn[g].pending, None}
     \/ conn'[g].st = "open" /\ Serving(g) /\ conn[g].st # "new" /\ conn'[g].closing
        /\ conn'[g].pending = conn[g].pending

(* A Player that does not change evolves. *)
LEMMA SameEvolves == ASSUME NEW e \in Epochs, player'[e] = player[e] PROVE Evolves(e)
BY DEF Evolves, Known, Alive, Silent

(* When one Player moves, every Player evolves and sealed cuts stay. *)
LEMMA MovesEvolve ==
  ASSUME TypeOK, NEW e \in Epochs, PlayerMoves(e)
  PROVE  (\A f \in Epochs : Evolves(f)) /\ CutsStay
<1>1. PICK q \in PlayerState : player' = [player EXCEPT ![e] = q] /\ Moves(player[e], q)
  BY DEF PlayerMoves
<1>2. player'[e] = q /\ \A f \in Epochs \ {e} : player'[f] = player[f]
  BY <1>1, Types
<1>3. Evolves(e)
  BY <1>1, <1>2 DEF Moves, Evolves, Known, Alive, Silent
<1>4. CutsStay
  BY Types DEF PlayerMoves, Saves, CutsStay, Silent
<1> QED
  BY <1>2, <1>3, <1>4, SameEvolves

(* A Player that crashes with its Scene evolves. *)
LEMMA CrashEvolves ==
  ASSUME TypeOK, NEW e \in Epochs, player'[e] = IF Alive(e) THEN Crashed(player[e]) ELSE player[e]
  PROVE  Evolves(e)
<1>1. player[e] \in PlayerState
  BY Types
<1> QED
  BY <1>1 DEF Evolves, Known, Alive, Silent, Crashed, PlayerState

(* The relations of the invariant survive what leaves their sessions alone. *)
LEMMA CallFitsStays ==
  ASSUME TypeOK, NEW c \in Call, CallFits(c), CutsStay,
         \A e \in Epochs : Known(e) /\ player[e].gate = c.gate => Evolves(e),
         conn'[c.gate] = conn[c.gate] \/ conn'[c.gate].st \in {"leaving", "dead"}
  PROVE  CallFits(c)'
<1>1. c.type \in {"claim", "prepare", "commit"} /\ c.id \in Session /\ c.fresh \in Session
  BY DEF Call
<1>2. ASSUME NEW e \in Epochs, Silent(e), player[e].gate = c.gate
      PROVE  /\ Evolves(e) /\ Silent(e)' /\ player'[e].gate = c.gate
             /\ \A b : CutIsStored(e, b) => CutIsStored(e, b)'
  <2>1. Evolves(e)
    BY <1>2 DEF Silent, Known
  <2> QED
    BY <1>2, <2>1 DEF Evolves, CutsStay, CutIsStored
<1>3. c.type \in {"prepare", "commit"} =>
        /\ c.id \in Epochs /\ Silent(c.id)' /\ player'[c.id].gate = c.gate
        /\ \A b : CutIsStored(c.id, b) => CutIsStored(c.id, b)'
  BY <1>2 DEF CallFits
<1>4. c.type = "commit" =>
        player'[c.fresh].gate = c.gate /\ PreparedFrom(c.id, c.fresh)'
  <2> SUFFICES ASSUME c.type = "commit" PROVE player'[c.fresh].gate = c.gate /\ PreparedFrom(c.id, c.fresh)'
    OBVIOUS
  <2>1. c.fresh \in Epochs /\ player[c.fresh].gate = c.gate /\ PreparedFrom(c.id, c.fresh)
    BY DEF CallFits
  <2>2. Evolves(c.fresh)
    BY <2>1 DEF PreparedFrom, Known
  <2> QED
    BY <1>3, <2>1, <2>2 DEF Evolves, PreparedFrom
<1>5. /\ conn'[c.gate].st \in {ReplyState(c.type), "leaving", "dead"}
      /\ conn'[c.gate].st = "preparing" => conn'[c.gate].id = c.id
      /\ conn'[c.gate].st = "committing" => conn'[c.gate].id = c.id /\ conn'[c.gate].pending = c.fresh
  BY DEF CallFits
<1> QED
  BY <1>3, <1>4, <1>5 DEF CallFits

(* A connection that stays fits its Players as they evolve. *)
LEMMA ConnFitsStays ==
  ASSUME TypeOK, TypeOK', NEW g \in Gates, ConnFits(g), CutsStay, ConnStays(g),
         \A e \in Epochs : conn[g].id = e \/ conn[g].pending = e => Evolves(e)
  PROVE  ConnFits(g)'
<1>1. conn[g].id \in Session /\ conn[g].pending \in Session
  BY Types, ConnRecords DEF Session
<1>2. ASSUME NEW e \in Epochs, conn[g].id = e, Known(e)' PROVE player'[e].gate = g
  BY <1>2 DEF ConnFits, Evolves
<1>3. ASSUME NEW e \in Epochs, NEW f \in Epochs, conn[g].id = e, conn[g].pending = f
      PROVE  /\ e < f /\ Silent(e)' /\ Known(f)' /\ player'[f].gate = g
             /\ Serving(g) => PreparedFrom(e, f)'
  BY <1>3 DEF ConnFits, PreparedFrom, CutIsStored, CutsStay, Evolves
<1>4. Epochs \cap {None} = {}
  BY DEF None, Epochs
<1>5. /\ \A e \in Epochs : conn'[g].id = e /\ Known(e)' => player'[e].gate = g
      /\ \A e, f \in Epochs : conn'[g].id = e /\ conn'[g].pending = f =>
           /\ e < f /\ Silent(e)' /\ Known(f)' /\ player'[f].gate = g
           /\ Serving(g)' => PreparedFrom(e, f)'
  BY <1>2, <1>3, <1>4 DEF ConnStays, Serving
<1>6. /\ conn'[g].st \in {"new", "claiming"} => conn'[g].id = None
      /\ conn'[g].st \in {"new", "claiming", "sealing", "preparing"} => conn'[g].pending = None
      /\ conn'[g].st = "sealing" => conn'[g].target \in Scenes /\ conn'[g].id # None
      /\ conn'[g].st \in {"preparing", "committing"} => conn'[g].id # None
      /\ conn'[g].st = "committing" => conn'[g].pending # None
      /\ conn'[g].pending # None => conn'[g].id # None
  BY DEF ConnFits, ConnStays
<1> QED
  BY <1>5, <1>6 DEF ConnFits

(* Calls under way fit their connections and Players as these evolve. *)
LEMMA CallsFitStay ==
  ASSUME TypeOK, CallsFit, CutsStay, \A e \in Epochs : Evolves(e),
         InFlight' \subseteq InFlight, calls' \subseteq calls,
         job' = NoJob \/ (job'.call = job.call /\ job # NoJob),
         \A c \in InFlight' : conn'[c.gate] = conn[c.gate] \/ conn'[c.gate].st \in {"leaving", "dead"}
  PROVE  CallsFit'
<1>1. InFlight \subseteq Call
  BY Types, JobRecords DEF InFlight
<1>2. \A c \in InFlight' : CallFits(c)'
  BY <1>1, CallFitsStays DEF CallsFit
<1> QED
  BY <1>2 DEF CallsFit

(* Scenes whose members only evolve still fit them. *)
LEMMA MembersStay ==
  ASSUME TypeOK, MembersFit, \A e \in Epochs : Evolves(e), UNCHANGED <<scene, job, owner>>
  PROVE  MembersFit'
<1>1. \A s \in Scenes : scene[s].member \in Session
  BY Types DEF SceneState
<1> QED
  BY <1>1 DEF MembersFit, Evolves, Session

(* An owner that does not change fits its Player as it evolves. *)
LEMMA OwnerStays ==
  ASSUME TypeOK, OwnerFits, \A e \in Epochs : Evolves(e), owner' = owner, db'.epoch = db.epoch,
         \A g \in Gates : conn'[g].id = conn[g].id /\ (Serving(g)' => Serving(g))
  PROVE  OwnerFits'
<1>1. owner.id \in Session
  BY Types DEF OwnerType
<1> QED
  BY <1>1 DEF OwnerFits, Evolves, Session

(* Sessions stay held while no mailbox loses the close of one. *)
LEMMA HeldStays ==
  ASSUME TypeOK, SessionIsHeld, MembersFit, \A e \in Epochs : Evolves(e), scene' = scene,
         \A g \in Gates : /\ conn'[g].id = conn[g].id
                          /\ \A e \in Epochs : CloseMailed(g, e) => CloseMailed(g, e)'
  PROVE  SessionIsHeld'
<1>1. ASSUME NEW e \in Epochs PROVE (Member(e) \/ player[e].st = "crashed") => (Member(e) \/ player[e].st = "crashed")'
  BY DEF Evolves, Member, Known
<1> QED
  BY <1>1 DEF SessionIsHeld

(* A step that starts no session keeps the next epoch new. *)
LEMMA EpochsStayNew ==
  ASSUME EpochsAreNew, TypeOK, TypeOK', \A e \in Epochs : Evolves(e), db'.epoch = db.epoch,
         owner'.id \in {owner.id, None}, \A g \in Gates : conn'[g].id = conn[g].id,
         Horizon <= Horizon'
  PROVE  EpochsAreNew'
<1>1. /\ Horizon \in Int /\ Horizon' \in Int /\ owner.id \in Int /\ db.epoch \in Int
      /\ \A g \in Gates : conn[g].id \in Int
  <2>1. nextEpoch \in Int /\ nextEpoch' \in Int /\ job.epoch \in Int /\ job'.epoch \in Int
    BY DEF TypeOK
  <2>2. Epochs \subseteq Int /\ None \in Int
    BY DEF Epochs, None
  <2> QED
    BY <2>1, <2>2, Types, ConnRecords DEF Horizon, OwnerType, Session
<1>2. 0 < Horizon
  BY <1>1, Types DEF EpochsAreNew, Session, None, Epochs
<1>3. \A e \in Epochs : Known(e)' => e < Horizon'
  BY <1>1 DEF EpochsAreNew, Evolves, Epochs
<1> QED
  BY <1>1, <1>2, <1>3 DEF EpochsAreNew, None

(* The horizon only moves with the registry. *)
LEMMA HorizonStays == ASSUME UNCHANGED <<nextEpoch, job>> PROVE Horizon' = Horizon
BY DEF Horizon

(* Epochs are positive numbers, and none is None. *)
LEMMA EpochInts == Epochs \subseteq Nat \ {0} /\ None \notin Epochs
BY DEF Epochs, None

(* A refusal reopens the connection of the call, or finds it ending. *)
LEMMA RefuseStays ==
  ASSUME TypeOK, NEW g \in Gates, NEW st \in {"claiming", "preparing", "committing", "sealing"},
         conn' = Refuse(g, st)
  PROVE  /\ \A h \in Gates : ConnStays(h) /\ (h # g => conn'[h] = conn[h])
         /\ \A h \in Gates : (conn'[h].st = "new" => conn[h].st = "new") /\ (Serving(h)' => Serving(h))
         /\ conn'[g].st = "open" => conn'[g] = conn[g] \/ conn'[g].closing
         /\ conn[g].st = st => conn'[g].st = "open" /\ conn'[g].closing
<1> DEFINE r == [conn[g] EXCEPT !.st = "open", !.closing = TRUE]
<1>1. conn[g] \in Connection /\ r.st = "open" /\ r.closing /\ r.id = conn[g].id
      /\ r.pending = conn[g].pending
  BY Types DEF Connection
<1>2. conn' = IF conn[g].st = st THEN [conn EXCEPT ![g] = r] ELSE conn
  BY DEF Refuse, ReplyTo
<1> HIDE DEF r
<1>3. \A h \in Gates : conn'[h] = IF h = g /\ conn[g].st = st THEN r ELSE conn[h]
  BY <1>2, Types
<1> QED
  BY <1>1, <1>3 DEF ConnStays, Serving

(* What the answer of the World to a fence does. *)
LEMMA PlayerDetachedIs ==
  ASSUME TypeOK, PlayersFit, NEW e \in Epochs, PlayerDetached(e)
  PROVE  /\ UNCHANGED <<nextEpoch, owner, job, mail, scene, contact, toWorld, history>>
         /\ player[e].gate \in Gates /\ player[e].st \in {"requested", "stopping"}
         /\ player[e].fence = "seal" => player[e].st = "requested"
         /\ \A f \in Epochs \ {e} : player'[f] = player[f]
         /\ player'[e].gate = player[e].gate /\ player'[e].body = player[e].body
         /\ player'[e].fence = "none" /\ player'[e].scene = player[e].scene
         /\ player'[e].ready = player[e].ready /\ player'[e].anchored = player[e].anchored
         /\ \/ player'[e].st = "crashed" /\ UNCHANGED <<db, conn, calls>>
            \/ /\ player'[e].st = "sealed" /\ db.epoch = e /\ db' = [db EXCEPT !.body = player[e].body]
               /\ player[e].fence = "seal"
               /\ \/ UNCHANGED <<conn, calls>>
                  \/ /\ conn[player[e].gate].st = "sealing" /\ conn[player[e].gate].id = e
                     /\ conn' = [conn EXCEPT ![player[e].gate] = [conn[player[e].gate] EXCEPT !.st = "preparing"]]
                     /\ calls' = calls \cup {PrepareCall(e)}
            \/ /\ player'[e].st = "gone" /\ db.epoch = e /\ db' = [db EXCEPT !.body = player[e].body]
               /\ conn' = conn \/ conn' = Refuse(player[e].gate, "sealing")
               /\ calls' = calls
<1> DEFINE p == [player[e] EXCEPT !.fence = "none", !.sealer = FALSE]
<1>1. player[e] \in PlayerState
  BY Types
<1>2. /\ p \in PlayerState /\ p.gate = player[e].gate /\ p.body = player[e].body /\ p.fence = "none"
      /\ p.scene = player[e].scene /\ p.ready = player[e].ready /\ p.anchored = player[e].anchored
  BY <1>1 DEF PlayerState
<1>3. /\ player[e].gate \in Gates /\ player[e].st \in {"requested", "stopping"}
      /\ player[e].fence = "seal" => player[e].st = "requested"
  BY DEF PlayerDetached, PlayersFit, PlayerFits, Known, Alive
<1> HIDE DEF p
<1>4. \/ player' = [player EXCEPT ![e] = Crashed(p)] /\ UNCHANGED <<db, conn, calls>>
      \/ /\ player' = [player EXCEPT ![e] = [p EXCEPT !.st = "sealed"]]
         /\ db.epoch = e /\ db' = [db EXCEPT !.body = p.body]
         /\ player[e].fence = "seal"
         /\ \/ UNCHANGED <<conn, calls>>
            \/ /\ conn[p.gate].st = "sealing" /\ conn[p.gate].id = e
               /\ conn' = [conn EXCEPT ![p.gate].st = "preparing"]
               /\ calls' = calls \cup {PrepareCall(e)}
      \/ /\ player' = [player EXCEPT ![e] = [p EXCEPT !.st = "gone"]]
         /\ db.epoch = e /\ db' = [db EXCEPT !.body = p.body]
         /\ conn' = conn \/ conn' = Refuse(p.gate, "sealing")
         /\ calls' = calls
  BY DEF PlayerDetached, SaveAccepted, p
<1>5. \A f \in Epochs \ {e} : player'[f] = player[f]
  BY <1>4, Types
<1>6. \/ player'[e] = Crashed(p) /\ UNCHANGED <<db, conn, calls>>
      \/ /\ player'[e] = [p EXCEPT !.st = "sealed"] /\ db.epoch = e /\ db' = [db EXCEPT !.body = player[e].body]
         /\ player[e].fence = "seal"
         /\ \/ UNCHANGED <<conn, calls>>
            \/ /\ conn[player[e].gate].st = "sealing" /\ conn[player[e].gate].id = e
               /\ conn' = [conn EXCEPT ![player[e].gate] = [conn[player[e].gate] EXCEPT !.st = "preparing"]]
               /\ calls' = calls \cup {PrepareCall(e)}
      \/ /\ player'[e] = [p EXCEPT !.st = "gone"] /\ db.epoch = e /\ db' = [db EXCEPT !.body = player[e].body]
         /\ conn' = conn \/ conn' = Refuse(player[e].gate, "sealing")
         /\ calls' = calls
  BY <1>2, <1>3, <1>4, Types
<1>7. \A st \in {"crashed", "sealed", "gone"} :
        LET q == [p EXCEPT !.st = st] IN
        /\ q.st = st /\ q.gate = player[e].gate /\ q.body = player[e].body /\ q.fence = "none"
        /\ q.scene = player[e].scene /\ q.ready = player[e].ready /\ q.anchored = player[e].anchored
  BY <1>2 DEF PlayerState
<1>8. UNCHANGED <<nextEpoch, owner, job, mail, scene, contact, toWorld, history>>
  BY DEF PlayerDetached
<1> QED
  BY <1>3, <1>5, <1>6, <1>7, <1>8 DEF Crashed

(* Claims and hand-overs are finite. *)
LEMMA CountedFinite ==
  /\ Claimed \subseteq Gates /\ IsFiniteSet(Claimed) /\ Cardinality(Claimed) \in Nat
  /\ Cardinality(Claimed) <= Cardinality(Gates)
  /\ Handing \subseteq Epochs /\ IsFiniteSet(Handing) /\ Cardinality(Handing) \in Nat
<1>1. Claimed \subseteq Gates /\ Handing \subseteq Epochs
  BY DEF Claimed, Handing
<1>2. IsFiniteSet(Gates) /\ IsFiniteSet(Epochs)
  <2>1. Cardinality(Gates) + MaxCrossings \in Int
    BY BoundType
  <2> QED
    BY <2>1, SessionAssumption, FS_Interval DEF Epochs
<1>3. IsFiniteSet(Claimed) /\ Cardinality(Claimed) <= Cardinality(Gates) /\ IsFiniteSet(Handing)
  BY <1>1, <1>2, FS_Subset
<1> QED
  BY <1>1, <1>3, FS_CardinalityType

(* The sets of the count are finite after a step too. *)
LEMMA CountedPrimed ==
  /\ Claimed' \subseteq Gates /\ IsFiniteSet(Claimed') /\ Cardinality(Claimed') \in Nat
  /\ Cardinality(Claimed') <= Cardinality(Gates)
  /\ Handing' \subseteq Epochs /\ IsFiniteSet(Handing') /\ Cardinality(Handing') \in Nat
<1>1. Claimed' \subseteq Gates /\ Handing' \subseteq Epochs
  BY DEF Claimed, Handing
<1>2. IsFiniteSet(Gates) /\ IsFiniteSet(Epochs)
  <2>1. Cardinality(Gates) + MaxCrossings \in Int
    BY BoundType
  <2> QED
    BY <2>1, SessionAssumption, FS_Interval DEF Epochs
<1>3. IsFiniteSet(Claimed') /\ Cardinality(Claimed') <= Cardinality(Gates) /\ IsFiniteSet(Handing')
  BY <1>1, <1>2, FS_Subset
<1> QED
  BY <1>1, <1>3, FS_CardinalityType

(* The epochs given stay within the claims and hand-overs asked for. *)
LEMMA CountStays ==
  ASSUME TypeOK, EpochsCounted, UNCHANGED <<nextEpoch, crossings>>,
         \A g \in Gates : conn'[g].st = "new" => conn[g].st = "new",
         \A e \in Epochs : player'[e].st = "requested" => player[e].st = "requested",
         \A c \in calls' : c \in calls \/ c.type = "commit"
  PROVE  EpochsCounted'
<1>1. Claimed \subseteq Claimed' /\ Handing' \subseteq Handing
  BY DEF Claimed, Handing
<1>2. Cardinality(Claimed) <= Cardinality(Claimed') /\ Cardinality(Handing') <= Cardinality(Handing)
  BY <1>1, CountedFinite, CountedPrimed, FS_Subset
<1>3. nextEpoch \in Nat /\ crossings \in Nat
  BY Types, BoundType
<1> QED
  BY <1>2, <1>3, CountedFinite, CountedPrimed DEF EpochsCounted

(* The count bounds the next epoch. *)
LEMMA CountBounds ==
  ASSUME EpochsCounted, nextEpoch \in Nat, crossings \in 0..MaxCrossings
  PROVE  nextEpoch <= Cardinality(Gates) + MaxCrossings + 1
BY CountedFinite, BoundType DEF EpochsCounted

(* Taking a call spends a claim, or a hand-over, for its epoch. *)
LEMMA RegistryTakesCounts ==
  ASSUME TypeOK, EpochsCounted, CallsFit, NEW c \in calls, RegistryTakes(c)
  PROVE  EpochsCounted'
<1>1. /\ calls' = calls \ {c} /\ UNCHANGED <<player, crossings>> /\ c \in Call /\ CallFits(c)
      /\ nextEpoch \in Nat /\ crossings \in Nat
  BY Types, BoundType DEF RegistryTakes, history, CallsFit, InFlight
<1>2. \A g \in Gates : conn'[g].st = "new" => conn[g].st = "new"
  <2>1. c.gate \in Gates /\ ReplyState(c.type) \in {"claiming", "preparing", "committing", "sealing"}
    BY <1>1, ReplyStateIs DEF Call
  <2>2. conn' = conn \/ conn' = Refuse(c.gate, ReplyState(c.type))
    BY DEF RegistryTakes
  <2> QED
    BY <2>1, <2>2, RefuseStays
<1>3. CASE nextEpoch' = nextEpoch
  BY <1>1, <1>2, <1>3, CountStays
<1>4. CASE nextEpoch' = nextEpoch + 1 /\ c.type = "claim"
  <2>1. c.gate \in Gates /\ conn' = conn /\ conn[c.gate].st # "new"
    BY <1>1, <1>4, ReplyStateIs DEF RegistryTakes, CallFits, Call
  <2>2. c.gate \notin Claimed /\ Claimed \cup {c.gate} \subseteq Claimed'
    BY <1>1, <1>4, <2>1 DEF Claimed, CallsFit
  <2>3. Handing' \subseteq Handing
    BY <1>1 DEF Handing
  <2>4. Cardinality(Claimed \cup {c.gate}) = Cardinality(Claimed) + 1 /\ IsFiniteSet(Claimed \cup {c.gate})
    BY <2>2, CountedFinite, FS_AddElement
  <2>5. Cardinality(Claimed) + 1 <= Cardinality(Claimed') /\ Cardinality(Handing') <= Cardinality(Handing)
    BY <2>2, <2>3, <2>4, CountedFinite, CountedPrimed, FS_Subset
  <2> QED
    BY <1>1, <1>4, <2>5, CountedFinite, CountedPrimed DEF EpochsCounted
<1>5. CASE nextEpoch' = nextEpoch + 1 /\ c.type = "prepare"
  <2>1. c.id \in Handing /\ Silent(c.id) /\ player[c.id].gate = c.gate
    BY <1>1, <1>5 DEF Handing, CallFits
  <2>2. Handing' \subseteq Handing \ {c.id}
    <3>1. ASSUME NEW d \in calls, d.type = "prepare", d.id = c.id PROVE d = c
      BY <2>1, <3>1 DEF CallsFit, CallFits, InFlight
    <3> QED
      BY <1>1, <2>1, <3>1 DEF Handing, Silent
  <2>3. Claimed \subseteq Claimed'
    BY <1>1, <1>2 DEF Claimed
  <2>4. Cardinality(Handing \ {c.id}) = Cardinality(Handing) - 1 /\ IsFiniteSet(Handing \ {c.id})
    BY <2>1, CountedFinite, FS_RemoveElement
  <2>5. Cardinality(Claimed) <= Cardinality(Claimed') /\ Cardinality(Handing') <= Cardinality(Handing) - 1
    BY <2>2, <2>3, <2>4, CountedFinite, CountedPrimed, FS_Subset
  <2> QED
    BY <1>1, <1>5, <2>5, CountedFinite, CountedPrimed DEF EpochsCounted
<1> QED
  BY <1>1, <1>3, <1>4, <1>5 DEF RegistryTakes, Call

(* A crossing pays for the epoch of its hand-over. *)
LEMMA PlayerCrossesCounts ==
  ASSUME TypeOK, EpochsCounted, NEW e \in Epochs, PlayerCrosses(e)
  PROVE  EpochsCounted'
<1>1. UNCHANGED <<nextEpoch, calls, conn>> /\ crossings' = crossings + 1
  BY DEF PlayerCrosses, registry
<1>2. \A f \in Epochs \ {e} : player'[f] = player[f]
  BY Types DEF PlayerCrosses
<1>3. Claimed' = Claimed /\ Handing' \subseteq Handing \cup {e}
  BY <1>1, <1>2 DEF Claimed, Handing
<1>4. IsFiniteSet(Handing \cup {e}) /\ Cardinality(Handing \cup {e}) <= Cardinality(Handing) + 1
  <2>1. IsFiniteSet(Handing) /\ Cardinality(Handing) \in Nat
    BY CountedFinite
  <2> QED
    BY <2>1, FS_AddElement
<1>5. Cardinality(Handing') <= Cardinality(Handing) + 1
  <2>1. Cardinality(Handing \cup {e}) \in Nat /\ Cardinality(Handing') <= Cardinality(Handing \cup {e})
    BY <1>3, <1>4, FS_Subset, FS_CardinalityType
  <2> QED
    BY <1>4, <2>1, CountedFinite, CountedPrimed
<1>6. nextEpoch \in Nat /\ crossings \in Nat
  BY Types, BoundType
<1> QED
  BY <1>1, <1>3, <1>5, <1>6, CountedFinite, CountedPrimed DEF EpochsCounted

(* The seal turns a request into a call of prepare_transfer. *)
LEMMA PlayerDetachedCounts ==
  ASSUME TypeOK, EpochsCounted, PlayersFit, NEW e \in Epochs, PlayerDetached(e)
  PROVE  EpochsCounted'
<1>1. UNCHANGED <<nextEpoch, crossings>>
  BY PlayerDetachedIs DEF history
<1>2. \A c \in calls' : c \in calls \/ (player[e].st = "requested" /\ c.id = e /\ c.type = "prepare")
  <2>1. PrepareCall(e).type = "prepare" /\ PrepareCall(e).id = e
    BY DEF PrepareCall, NoCall
  <2>2. calls' = calls \/ (player[e].st = "requested" /\ calls' = calls \cup {PrepareCall(e)})
    BY PlayerDetachedIs
  <2> QED
    BY <2>1, <2>2
<1>5. \A f \in Epochs : player'[f].st = "requested" => player[f].st = "requested"
  BY PlayerDetachedIs
<1>6. \A g \in Gates : conn'[g].st = "new" => conn[g].st = "new"
  <2>1. CASE conn' = Refuse(player[e].gate, "sealing")
    BY <2>1, PlayerDetachedIs, RefuseStays
  <2>2. CASE conn' = [conn EXCEPT ![player[e].gate] = [conn[player[e].gate] EXCEPT !.st = "preparing"]]
    <3>1. [conn[player[e].gate] EXCEPT !.st = "preparing"].st = "preparing"
      BY PlayerDetachedIs, Types DEF Connection
    <3> QED
      BY <2>2, <3>1, Types
  <2> QED
    BY <2>1, <2>2, PlayerDetachedIs
<1>7. Claimed \subseteq Claimed' /\ Handing' \subseteq Handing
  BY <1>2, <1>5, <1>6 DEF Claimed, Handing
<1>8. Cardinality(Claimed) <= Cardinality(Claimed') /\ Cardinality(Handing') <= Cardinality(Handing)
  BY <1>7, CountedFinite, CountedPrimed, FS_Subset
<1>9. nextEpoch \in Nat /\ crossings \in Nat
  BY Types, BoundType
<1> QED
  BY <1>1, <1>8, <1>9, CountedFinite, CountedPrimed DEF EpochsCounted

(* A join turns a new connection into a call of claim. *)
LEMMA GateJoinsCounts ==
  ASSUME TypeOK, EpochsCounted, NEW g \in Gates, GateJoins(g)
  PROVE  EpochsCounted'
<1>1. UNCHANGED <<nextEpoch, crossings, player>> /\ conn[g].st = "new"
  BY DEF GateJoins, GateFrame, history
<1>2. \A c \in calls' : c \in calls \/ (c.type = "claim" /\ c.gate = g)
  BY DEF GateJoins, NoCall
<1>3. \A h \in Gates : conn'[h].st = "new" => conn[h].st = "new"
  BY Types DEF GateJoins
<1>4. Claimed \subseteq Claimed' /\ Handing' \subseteq Handing
  BY <1>1, <1>2, <1>3 DEF Claimed, Handing
<1>5. Cardinality(Claimed) <= Cardinality(Claimed') /\ Cardinality(Handing') <= Cardinality(Handing)
  BY <1>4, CountedFinite, CountedPrimed, FS_Subset
<1>6. nextEpoch \in Nat /\ crossings \in Nat
  BY Types, BoundType
<1> QED
  BY <1>1, <1>5, <1>6, CountedFinite, CountedPrimed DEF EpochsCounted

(* The parts of the invariant that a session's own steps leave to its frame. *)
Relations ==
  /\ EpochsAreNew /\ JobFits /\ CallsFit /\ ConnsFit /\ MembersFit /\ OwnerFits
  /\ StoredIsKnown /\ SessionIsHeld

(* The invariant is its types, its count, its Players and the relations     *)
(* between them. *)
LEMMA InvParts ==
  /\ SessionInv <=> TypeOK /\ EpochsCounted /\ PlayersFit /\ EffectsDurable /\ Relations
  /\ SessionInv' <=> TypeOK' /\ EpochsCounted' /\ PlayersFit' /\ EffectsDurable' /\ Relations'
BY DEF SessionInv, Relations

(* The stored body grows under the session that owns it. *)
LEMMA MovesGrow ==
  ASSUME TypeOK, PlayersFit, StoredIsKnown, NEW e \in Epochs, PlayerMoves(e)
  PROVE  db'.epoch = db.epoch /\ db.body \subseteq db'.body /\ StoredIsKnown'
<1>1. PICK q \in PlayerState : player' = [player EXCEPT ![e] = q] /\ Moves(player[e], q)
  BY DEF PlayerMoves
<1>2. player'[e] = q /\ \A f \in Epochs \ {e} : player'[f] = player[f]
  BY <1>1, Types
<1>3. db \in [epoch : Session, body : SUBSET Item] /\ Epochs \subseteq Nat \ {0}
  BY Types, EpochInts
<1>4. db'.epoch = db.epoch /\ (db' = db \/ (db.epoch = e /\ player[e].st \in {"live", "requested", "stopping"}
                                           /\ db'.body = q.body))
  BY <1>2, <1>3 DEF PlayerMoves, Saves
<1>5. player[e].st \in {"live", "requested", "stopping"} => player[e].owned /\ player[e].body \subseteq q.body
  BY <1>1 DEF Moves, PlayersFit, PlayerFits
<1>6. db.epoch = e /\ player[e].st \in {"live", "requested", "stopping"} => db.body \subseteq q.body
  BY <1>3, <1>5 DEF StoredIsKnown, Writes, Persists, Alive, None
<1>7. db.body \subseteq db'.body
  BY <1>4, <1>6
<1>8. ASSUME db.epoch # None
      PROVE  /\ player'[db.epoch].st \notin {"none", "prepared"}
             /\ Writes(db.epoch)' => db'.body \subseteq player'[db.epoch].body
  <2>1. db.epoch \in Epochs /\ player[db.epoch].st \notin {"none", "prepared"}
    BY <1>3, <1>8 DEF StoredIsKnown, Session
  <2>2. CASE db.epoch # e
    BY <1>2, <1>4, <1>8, <2>1, <2>2 DEF StoredIsKnown, Writes, Alive, Persists
  <2>3. CASE db.epoch = e
    <3>1. q.st \notin {"none", "prepared"}
      BY <1>1, <2>1, <2>3 DEF Moves
    <3>2. Writes(e)' => player[e].st \in {"live", "requested", "stopping"}
      BY <1>1, <1>2, <2>1, <2>3 DEF Moves, Writes, Alive, Persists
    <3> QED
      BY <1>2, <1>4, <1>6, <2>3, <3>1, <3>2
  <2> QED
    BY <2>2, <2>3
<1> QED
  BY <1>4, <1>7, <1>8 DEF StoredIsKnown, Writes, Alive, Persists

(* A move of one Player keeps the relations between the processes. *)
LEMMA MovesRelate ==
  ASSUME SessionInv, TypeOK', NEW e \in Epochs, PlayerMoves(e), calls' = calls, conn' = conn,
         \A g \in Gates : mail[g] \subseteq mail'[g]
  PROVE  Relations' /\ db.body \subseteq db'.body /\ db'.epoch = db.epoch
<1> USE DEF SessionInv
<1>1. UNCHANGED <<nextEpoch, owner, job, scene>>
  BY DEF PlayerMoves
<1>2. (\A f \in Epochs : Evolves(f)) /\ CutsStay
  BY MovesEvolve
<1>3. db'.epoch = db.epoch /\ db.body \subseteq db'.body /\ StoredIsKnown'
  BY MovesGrow
<1>4. EpochsAreNew'
  <2>1. Horizon' = Horizon
    BY <1>1 DEF Horizon
  <2>2. Horizon <= Horizon'
    BY <2>1, Types DEF Horizon, JobType
  <2> QED
    BY <1>1, <1>2, <1>3, <2>2, EpochsStayNew
<1>5. JobFits'
  BY <1>1 DEF JobFits, IsOwner
<1>6. CallsFit'
  <2>1. InFlight' = InFlight
    BY <1>1 DEF InFlight
  <2>2. job' = NoJob \/ (job'.call = job.call /\ job # NoJob)
    BY <1>1
  <2> QED
    BY <1>2, <2>1, <2>2, CallsFitStay
<1>7. ConnsFit'
  <2>1. \A g \in Gates : ConnStays(g)
    BY DEF ConnStays
  <2> QED
    BY <1>2, <2>1, ConnFitsStays DEF ConnsFit
<1>8. MembersFit'
  BY <1>1, <1>2, MembersStay
<1>9. OwnerFits'
  BY <1>1, <1>2, <1>3, OwnerStays DEF Serving
<1>10. SessionIsHeld'
  <2>1. \A g \in Gates, f \in Epochs : CloseMailed(g, f) => CloseMailed(g, f)'
    BY DEF CloseMailed
  <2> QED
    BY <1>1, <1>2, <2>1, HeldStays
<1> QED
  BY <1>3, <1>4, <1>5, <1>6, <1>7, <1>8, <1>9, <1>10 DEF Relations

(* The call the registry is in is under way. *)
LEMMA JobInFlight ==
  ASSUME TypeOK, JobFits, job # NoJob
  PROVE  /\ job.call \in InFlight /\ job.call \in Call
         /\ job.stage \in {"leave", "join", "endpoint", "prepare", "detach", "activate"}
<1>1. job.stage \in {"leave", "join", "endpoint", "prepare", "detach", "activate"}
  BY Types DEF JobType, JobFits
<1>2. job.call.type \in {"claim", "prepare", "commit"}
  BY <1>1 DEF JobFits
<1>3. job.call # NoCall
  BY <1>2 DEF NoCall
<1> QED
  BY <1>1, <1>3, Types, JobRecords DEF InFlight

(* A change of one Player leaves the others as they fit. *)
LEMMA OthersFit ==
  ASSUME PlayersFit, NEW e \in Epochs, UNCHANGED contact, PlayerFits(e)',
         \A f \in Epochs \ {e} : UNCHANGED <<player[f], toWorld[f], fromWorld[f]>>
  PROVE  PlayersFit'
BY DEF PlayersFit, PlayerFits, Known

-----------------------------------------------------------------------------
(* The Players and the World. *)

(* A Player that begins to stop keeps what it has begun. *)
LEMMA BeginStopFits ==
  ASSUME TypeOK, PlayersFit, NEW e \in Epochs, NEW p \in PlayerState, BeginStop(e, p), UNCHANGED contact,
         fromWorld' = fromWorld, Alive(e),
         p.st = player[e].st, p.fence = player[e].fence, p.owned = player[e].owned,
         p.ready = player[e].ready, p.anchored = player[e].anchored,
         p.scene = player[e].scene, p.gate = player[e].gate
  PROVE  PlayersFit'
<1> DEFINE q == IF p.fence # "none" THEN [p EXCEPT !.fence = "stop"]
                ELSE IF EndsAtOnce(p) THEN [p EXCEPT !.st = "gone"]
                ELSE [p EXCEPT !.st = "stopping", !.fence = "stop"]
<1>1. player' = [player EXCEPT ![e] = q] /\ (toWorld' = toWorld \/ toWorld' = [toWorld EXCEPT ![e] = Append(@, "detach")])
  BY DEF BeginStop
<1>2. /\ q.ready = p.ready /\ q.anchored = p.anchored /\ q.owned = p.owned
      /\ q.scene = p.scene /\ q.gate = p.gate
      /\ p.fence # "none" => q.st = p.st /\ q.fence = "stop"
      /\ p.fence = "none" /\ EndsAtOnce(p) => q.st = "gone" /\ q.fence = "none"
      /\ p.fence = "none" /\ ~EndsAtOnce(p) => q.st = "stopping" /\ q.fence = "stop"
  BY DEF PlayerState
<1> HIDE DEF q
<1>3. player'[e] = q /\ \A f \in Epochs \ {e} : UNCHANGED <<player[f], toWorld[f], fromWorld[f]>>
  BY <1>1, Types
<1>4. PlayerFits(e)'
  BY <1>2, <1>3 DEF PlayersFit, PlayerFits, Known, Alive, EndsAtOnce
<1> QED
  BY <1>3, <1>4, OthersFit

(* begin_body_detach starts no hand-over. *)
LEMMA BeginStopRequests ==
  ASSUME TypeOK, NEW e \in Epochs, NEW p \in PlayerState, BeginStop(e, p), p.st = player[e].st
  PROVE  \A f \in Epochs : player'[f].st = "requested" => player[f].st = "requested"
<1>1. /\ [p EXCEPT !.fence = "stop"].st = p.st
      /\ [p EXCEPT !.st = "gone"].st = "gone"
      /\ [p EXCEPT !.st = "stopping", !.fence = "stop"].st = "stopping"
  BY DEF PlayerState
<1>2. \/ player' = [player EXCEPT ![e] = [p EXCEPT !.fence = "stop"]]
      \/ player' = [player EXCEPT ![e] = [p EXCEPT !.st = "gone"]]
      \/ player' = [player EXCEPT ![e] = [p EXCEPT !.st = "stopping", !.fence = "stop"]]
  BY DEF BeginStop
<1> QED
  BY <1>1, <1>2, Types

(* Stop, DOWN of the connection and a failure keep the invariant. *)
LEMMA StopInv ==
  ASSUME SessionInv, NEW e \in Epochs, PlayerStop(e) \/ PlayerGateDown(e) \/ PlayerFails(e)
  PROVE  SessionInv'
<1> USE DEF SessionInv
<1>1. TypeOK'
  BY StopType
<1>2. PlayerMoves(e) /\ UNCHANGED <<nextEpoch, calls, conn, mail, db, crossings, contact, fromWorld, acked>>
  BY PlayerStopMoves DEF PlayerStop, PlayerGateDown, PlayerFails, PlayerMoves, history
<1>3. Relations'
  BY <1>1, <1>2, MovesRelate
<1>4. EpochsCounted'
  <2>1. PICK q \in PlayerState : player' = [player EXCEPT ![e] = q] /\ Moves(player[e], q)
    BY <1>2 DEF PlayerMoves
  <2>2. \A f \in Epochs : player'[f].st = "requested" => player[f].st = "requested"
    <3> DEFINE w == [player[e] EXCEPT !.watch = FALSE]  m == [player[e] EXCEPT !.failed = TRUE]
    <3>1. player[e] \in PlayerState /\ w \in PlayerState /\ m \in PlayerState
      BY Types, PlayerRecords
    <3>2. player[e].st = w.st /\ player[e].st = m.st
      BY <3>1 DEF PlayerState
    <3>3. \/ BeginStop(e, player[e]) \/ BeginStop(e, w) \/ BeginStop(e, m)
          \/ player' = [player EXCEPT ![e] = w]
      BY DEF PlayerStop, PlayerGateDown, PlayerFails
    <3> HIDE DEF w, m
    <3>4. CASE player' = [player EXCEPT ![e] = w]
      BY <3>2, <3>4, Types
    <3> QED
      BY <3>1, <3>2, <3>3, <3>4, BeginStopRequests
  <2> QED
    BY <1>2, <2>2, CountStays
<1>5. PlayersFit'
  <2> DEFINE w == [player[e] EXCEPT !.watch = FALSE]  m == [player[e] EXCEPT !.failed = TRUE]
  <2>1. player[e] \in PlayerState /\ w \in PlayerState /\ m \in PlayerState
    BY Types, PlayerRecords
  <2>2. \A p \in {player[e], w, m} :
          /\ p.st = player[e].st /\ p.fence = player[e].fence /\ p.owned = player[e].owned
          /\ p.ready = player[e].ready /\ p.anchored = player[e].anchored
          /\ p.scene = player[e].scene /\ p.gate = player[e].gate
    BY <2>1 DEF PlayerState
  <2>3. \/ \E p \in {player[e], w, m} : BeginStop(e, p)
        \/ player' = [player EXCEPT ![e] = w] /\ toWorld' = toWorld /\ player[e].fence # "none"
    <3>1. w.fence = player[e].fence
      BY <2>2
    <3> QED
      BY <3>1 DEF PlayerStop, PlayerGateDown, PlayerFails
  <2>4. Alive(e)
    BY DEF PlayerStop, PlayerGateDown, PlayerFails, Alive
  <2> HIDE DEF w, m
  <2>5. CASE \E p \in {player[e], w, m} : BeginStop(e, p)
    <3>1. PICK p \in {player[e], w, m} : BeginStop(e, p)
      BY <2>5
    <3>2. p \in PlayerState /\ p.st = player[e].st /\ p.fence = player[e].fence /\ p.owned = player[e].owned
          /\ p.ready = player[e].ready /\ p.anchored = player[e].anchored
          /\ p.scene = player[e].scene /\ p.gate = player[e].gate
      BY <2>1, <2>2, <3>1
    <3> QED
      BY <1>2, <2>4, <3>1, <3>2, BeginStopFits
  <2>6. CASE player' = [player EXCEPT ![e] = w] /\ toWorld' = toWorld /\ player[e].fence # "none"
    <3>1. player'[e] = w /\ \A f \in Epochs \ {e} : UNCHANGED <<player[f], toWorld[f], fromWorld[f]>>
      BY <1>2, <2>6, Types
    <3>2. PlayerFits(e)'
      BY <2>2, <2>4, <2>6, <3>1 DEF PlayersFit, PlayerFits, Known, Alive
    <3> QED
      BY <1>2, <3>1, <3>2, OthersFit
  <2> QED
    BY <2>3, <2>5, <2>6
<1>6. EffectsDurable'
  BY <1>2 DEF EffectsDurable
<1> QED
  BY <1>1, <1>3, <1>4, <1>5, <1>6, InvParts

(* The seal call keeps the invariant. *)
LEMMA PlayerSealInv == ASSUME SessionInv, NEW e \in Epochs, PlayerSeal(e) PROVE SessionInv'
<1> USE DEF SessionInv
<1>1. TypeOK'
  BY PlayerSealType
<1>2. PlayerMoves(e) /\ UNCHANGED <<nextEpoch, calls, conn, mail, db, crossings, contact, acked>>
  BY PlayerSealMoves DEF PlayerSeal, PlayerMoves, history
<1>3. Relations'
  BY <1>1, <1>2, MovesRelate
<1> DEFINE q == [player[e] EXCEPT !.fence = "seal", !.sealer = TRUE]
<1>4. /\ q.st = player[e].st /\ q.owned = player[e].owned /\ q.ready = player[e].ready
      /\ q.anchored = player[e].anchored /\ q.scene = player[e].scene /\ q.gate = player[e].gate
  BY Types DEF PlayerState
<1>5. /\ Crashed(player[e]).st = "crashed" /\ Crashed(player[e]).owned = player[e].owned
      /\ Crashed(player[e]).ready = player[e].ready /\ Crashed(player[e]).anchored = player[e].anchored
      /\ Crashed(player[e]).scene = player[e].scene /\ Crashed(player[e]).gate = player[e].gate
  BY Types DEF PlayerState, Crashed
<1>6. \/ player' = [player EXCEPT ![e] = q] /\ player[e].st = "requested"
      \/ player' = [player EXCEPT ![e] = Crashed(player[e])]
  BY Types DEF PlayerSeal
<1> HIDE DEF q
<1>7. \/ player'[e] = q /\ player[e].st = "requested"
      \/ player'[e] = Crashed(player[e])
  BY <1>6, Types
<1>8. \A f \in Epochs \ {e} : UNCHANGED <<player[f], toWorld[f], fromWorld[f]>>
  BY <1>6, Types DEF PlayerSeal
<1>9. EpochsCounted'
  <2>1. \A f \in Epochs : player'[f].st = "requested" => player[f].st = "requested"
    BY <1>4, <1>5, <1>7, <1>8
  <2> QED
    BY <1>2, <2>1, CountStays
<1>10. PlayersFit'
  <2>1. PlayerFits(e)'
    BY <1>4, <1>5, <1>7 DEF PlayersFit, PlayerFits, Known, PlayerSeal, Alive
  <2> QED
    BY <1>2, <1>8, <2>1, OthersFit
<1>11. EffectsDurable'
  BY <1>2 DEF EffectsDurable
<1> QED
  BY <1>1, <1>3, <1>9, <1>10, <1>11, InvParts

(* A post loses no message. *)
LEMMA PostKeeps ==
  ASSUME NEW m \in [Gates -> SUBSET Messages], NEW g, NEW message
  PROVE  \A h \in Gates : m[h] \subseteq Post(m, g, message)[h]
BY DEF Post

(* A Player that saves goes on, or has lost its right to and crashes. *)
LEMMA PersistBodyIs ==
  ASSUME TypeOK, NEW e \in Epochs, NEW p \in PlayerState, NEW mailbox, PersistBody(e, p, mailbox)
  PROVE  /\ \A f \in Epochs \ {e} : UNCHANGED <<player[f], fromWorld[f]>>
         /\ player'[e] = p \/ player'[e] = Crashed(p)
         /\ /\ Crashed(p).st = "crashed" /\ Crashed(p).fence = p.fence /\ Crashed(p).owned = p.owned
            /\ Crashed(p).ready = p.ready /\ Crashed(p).anchored = p.anchored
            /\ Crashed(p).scene = p.scene /\ Crashed(p).gate = p.gate
         /\ p.st = "live" /\ p.owned /\ player'[e].st = "live" => db'.body = p.body
<1>1. /\ Crashed(p).st = "crashed" /\ Crashed(p).fence = p.fence /\ Crashed(p).owned = p.owned
      /\ Crashed(p).ready = p.ready /\ Crashed(p).anchored = p.anchored
      /\ Crashed(p).scene = p.scene /\ Crashed(p).gate = p.gate
  BY DEF Crashed, PlayerState
<1>2. \A f \in Epochs \ {e} : UNCHANGED <<player[f], fromWorld[f]>>
  BY Types DEF PersistBody
<1>3. player'[e] = p \/ player'[e] = Crashed(p)
  BY Types DEF PersistBody
<1>4. p.st = "live" /\ p.owned /\ player'[e].st = "live" => db'.body = p.body
  BY <1>1, Types DEF PersistBody, Persists
<1> QED
  BY <1>1, <1>2, <1>3, <1>4

(* A save leaves a Player that fits. *)
LEMMA PersistFits ==
  ASSUME TypeOK, PlayersFit, NEW e \in Epochs, NEW p \in PlayerState, NEW mailbox,
         PersistBody(e, p, mailbox), UNCHANGED contact,
         \A f \in Epochs \ {e} : UNCHANGED toWorld[f],
         player[e].st \notin {"none", "prepared"},
         p.st = player[e].st, p.fence = player[e].fence, p.owned = player[e].owned,
         p.ready = player[e].ready, p.anchored = player[e].anchored,
         p.scene = player[e].scene, p.gate = player[e].gate
  PROVE  /\ PlayersFit'
         /\ \A f \in Epochs : player'[f].st = "requested" => player[f].st = "requested"
<1>1. /\ \A f \in Epochs \ {e} : UNCHANGED <<player[f], fromWorld[f]>>
      /\ player'[e] = p \/ player'[e] = Crashed(p)
      /\ Crashed(p).st = "crashed" /\ Crashed(p).fence = p.fence /\ Crashed(p).owned = p.owned
      /\ Crashed(p).ready = p.ready /\ Crashed(p).anchored = p.anchored
      /\ Crashed(p).scene = p.scene /\ Crashed(p).gate = p.gate
  BY PersistBodyIs
<1>2. PlayerFits(e)'
  BY <1>1 DEF PlayersFit, PlayerFits, Known
<1> QED
  BY <1>1, <1>2, OthersFit

(* Absorbing heat keeps the invariant. *)
LEMMA PlayerHeatInv == ASSUME SessionInv, NEW e \in Epochs, PlayerHeat(e) PROVE SessionInv'
<1> USE DEF SessionInv
<1>1. TypeOK'
  BY PlayerHeatType
<1>2. PlayerMoves(e) /\ UNCHANGED <<nextEpoch, calls, conn, mail, toWorld, crossings, contact, acked>>
  BY PlayerHeatMoves DEF PlayerHeat, PlayerMoves, history
<1>3. Relations' /\ db.body \subseteq db'.body
  BY <1>1, <1>2, MovesRelate
<1> DEFINE body == player[e].body \cup {Head(fromWorld[e])}
           p == [player[e] EXCEPT !.body = body]
<1>4. body \in SUBSET Item /\ player[e] \in PlayerState
  <2>1. Head(fromWorld[e]) \in Item
    BY Types DEF PlayerHeat
  <2> QED
    BY <2>1, Types, PlayerRecords
<1> HIDE DEF body
<1>5. /\ p \in PlayerState /\ p.st = player[e].st /\ p.fence = player[e].fence /\ p.owned = player[e].owned
      /\ p.ready = player[e].ready /\ p.anchored = player[e].anchored
      /\ p.scene = player[e].scene /\ p.gate = player[e].gate
  BY <1>4 DEF PlayerState
<1>6. PersistBody(e, p, Tail(fromWorld[e])) /\ player[e].st \notin {"none", "prepared"}
  BY DEF PlayerHeat, body, PlayersFit, PlayerFits, Alive
<1> HIDE DEF p
<1>7. PlayersFit' /\ \A f \in Epochs : player'[f].st = "requested" => player[f].st = "requested"
  BY <1>2, <1>5, <1>6, PersistFits
<1>8. EpochsCounted'
  BY <1>2, <1>7, CountStays
<1>9. EffectsDurable'
  BY <1>2, <1>3 DEF EffectsDurable
<1> QED
  BY <1>1, <1>3, <1>7, <1>8, <1>9, InvParts

(* An effect keeps the invariant; its receipt follows the save. *)
LEMMA PlayerEffectInv == ASSUME SessionInv, NEW e \in Epochs, PlayerEffect(e) PROVE SessionInv'
<1> USE DEF SessionInv
<1>1. TypeOK'
  BY PlayerEffectType
<1>2. PlayerMoves(e) /\ UNCHANGED <<nextEpoch, calls, conn, mail, toWorld, crossings, contact>>
  BY PlayerEffectMoves DEF PlayerEffect, PlayerMoves
<1>3. Relations' /\ db.body \subseteq db'.body
  BY <1>1, <1>2, MovesRelate
<1> DEFINE body == player[e].body \cup {EffectOn(e)}
           p == [player[e] EXCEPT !.body = body]
<1>4. body \in SUBSET Item /\ player[e] \in PlayerState
  <2>1. EffectOn(e) \in Item
    BY SessionAssumption DEF EffectOn, Item
  <2> QED
    BY <2>1, Types, PlayerRecords
<1>a. EffectOn(e) \in body
  OBVIOUS
<1> HIDE DEF body
<1>5. /\ p \in PlayerState /\ p.st = player[e].st /\ p.fence = player[e].fence /\ p.owned = player[e].owned
      /\ p.ready = player[e].ready /\ p.anchored = player[e].anchored
      /\ p.scene = player[e].scene /\ p.gate = player[e].gate /\ p.body = body
  BY <1>4 DEF PlayerState
<1>6. PersistBody(e, p, fromWorld[e]) /\ player[e].st = "live" /\ player[e].owned
  BY DEF PlayerEffect, EffectSaved, body, PlayersFit, PlayerFits, Alive
<1> HIDE DEF p
<1>7. PlayersFit' /\ \A f \in Epochs : player'[f].st = "requested" => player[f].st = "requested"
  BY <1>2, <1>5, <1>6, PersistFits
<1>8. EpochsCounted'
  BY <1>2, <1>7, CountStays
<1>9. EffectsDurable'
  <2>1. p \in PlayerState /\ p.st = "live" /\ p.owned /\ p.body = body
    BY <1>5, <1>6
  <2>a. p.st = "live" /\ p.owned /\ player'[e].st = "live" => db'.body = p.body
    BY <1>6, <2>1, PersistBodyIs
  <2>2. acked' = IF player'[e].st = "live" THEN acked \cup {EffectOn(e)} ELSE acked
    BY DEF PlayerEffect
  <2> QED
    BY <1>3, <1>a, <2>1, <2>a, <2>2 DEF EffectsDurable
<1> QED
  BY <1>1, <1>3, <1>7, <1>8, <1>9, InvParts

(* A body tick keeps the invariant. *)
LEMMA PlayerTickInv == ASSUME SessionInv, NEW e \in Epochs, PlayerTick(e) PROVE SessionInv'
<1> USE DEF SessionInv
<1>1. TypeOK'
  BY PlayerTickType
<1>2. PlayerMoves(e) /\ UNCHANGED <<nextEpoch, calls, conn, mail, crossings, contact, acked>>
  BY PlayerTickMoves DEF PlayerTick, PlayerMoves, history
<1>3. Relations' /\ db.body \subseteq db'.body
  BY <1>1, <1>2, MovesRelate
<1>4. player[e] \in PlayerState /\ PersistBody(e, player[e], fromWorld[e]) /\ player[e].st = "live"
  BY Types DEF PlayerTick
<1>5. \A f \in Epochs \ {e} : UNCHANGED toWorld[f]
  BY Types DEF PlayerTick
<1>7. PlayersFit' /\ \A f \in Epochs : player'[f].st = "requested" => player[f].st = "requested"
  BY <1>2, <1>4, <1>5, PersistFits
<1>8. EpochsCounted'
  BY <1>2, <1>7, CountStays
<1>9. EffectsDurable'
  BY <1>2, <1>3 DEF EffectsDurable
<1> QED
  BY <1>1, <1>3, <1>7, <1>8, <1>9, InvParts

(* The anchor and a crossing keep the invariant. *)
LEMMA PlayerOtherInv ==
  ASSUME SessionInv, NEW e \in Epochs, PlayerAnchor(e) \/ PlayerCrosses(e) PROVE SessionInv'
<1> USE DEF SessionInv
<1>1. TypeOK'
  BY PlayerAnchorType, PlayerCrossesType
<1>2. PlayerMoves(e) /\ UNCHANGED <<nextEpoch, calls, conn, db, contact, acked>>
  BY PlayerOtherMoves DEF PlayerAnchor, PlayerCrosses, PlayerMoves, history, world
<1>3. Relations'
  <2>1. \A g \in Gates : mail[g] \subseteq mail'[g]
    <3>1. mail' = mail \/ \E s \in Scenes : mail' = Post(mail, player[e].gate, [type |-> "transfer", id |-> e, target |-> s])
      BY DEF PlayerAnchor, PlayerCrosses, PlayerFrame, gateVars
    <3> QED
      BY <3>1, Types, PostKeeps
  <2> QED
    BY <1>1, <1>2, <2>1, MovesRelate
<1> DEFINE a == [player[e] EXCEPT !.anchored = TRUE]
           r == [player[e] EXCEPT !.st = "requested"]
<1>4. player[e] \in PlayerState
  BY Types
<1>5. /\ a.st = player[e].st /\ a.fence = player[e].fence /\ a.owned = player[e].owned
      /\ a.anchored /\ a.scene = player[e].scene /\ a.gate = player[e].gate
      /\ r.st = "requested" /\ r.fence = player[e].fence /\ r.owned = player[e].owned
      /\ r.ready = player[e].ready /\ r.anchored = player[e].anchored
      /\ r.scene = player[e].scene /\ r.gate = player[e].gate
  BY <1>4 DEF PlayerState
<1>6. \/ player' = [player EXCEPT ![e] = a] /\ player[e].st \in {"live", "stopping"}
      \/ player' = [player EXCEPT ![e] = r] /\ player[e].st = "live" /\ player[e].ready
  BY Types DEF PlayerAnchor, PlayerCrosses
<1> HIDE DEF a, r
<1>7. \/ player'[e] = a /\ player[e].st \in {"live", "stopping"}
      \/ player'[e] = r /\ player[e].st = "live" /\ player[e].ready
  BY <1>6, Types
<1>8. \A f \in Epochs \ {e} : UNCHANGED <<player[f], toWorld[f], fromWorld[f]>>
  BY <1>6, Types DEF PlayerAnchor, PlayerCrosses, world
<1>9. PlayersFit'
  <2>1. PlayerFits(e)'
    BY <1>5, <1>7 DEF PlayersFit, PlayerFits, Known
  <2> QED
    BY <1>2, <1>8, <2>1, OthersFit
<1>10. EpochsCounted'
  <2>1. CASE PlayerAnchor(e)
    <3>1. \A f \in Epochs : player'[f].st = "requested" => player[f].st = "requested"
      <4>1. player' = [player EXCEPT ![e] = a]
        BY <2>1, Types DEF PlayerAnchor, a
      <4> QED
        BY <1>5, <1>8, <4>1, Types
    <3> QED
      BY <1>2, <2>1, <3>1, CountStays DEF PlayerAnchor, history
  <2>2. CASE PlayerCrosses(e)
    BY <2>2, PlayerCrossesCounts
  <2> QED
    BY <2>1, <2>2
<1>11. EffectsDurable'
  BY <1>2 DEF EffectsDurable
<1> QED
  BY <1>1, <1>3, <1>9, <1>10, <1>11, InvParts

(* The first input keeps the invariant. *)
LEMMA ClientReadyInv == ASSUME SessionInv, NEW g \in Gates, ClientReady(g) PROVE SessionInv'
<1> USE DEF SessionInv
<1>0. PICK e \in Epochs : e = conn[g].id
  BY ClientReadyMoves
<1> DEFINE r == [player[e] EXCEPT !.ready = TRUE]
<1>1. TypeOK'
  BY ClientReadyType
<1>2. PlayerMoves(e) /\ UNCHANGED <<nextEpoch, calls, conn, mail, db, contact, toWorld, fromWorld, acked, crossings>>
  BY <1>0, ClientReadyMoves DEF ClientReady, PlayerMoves, history, world
<1>3. Relations'
  BY <1>1, <1>2, MovesRelate
<1>4. player[e] \in PlayerState
  BY <1>2, Types
<1>5. /\ r.st = player[e].st /\ r.fence = player[e].fence /\ r.owned = player[e].owned
      /\ r.anchored = player[e].anchored /\ r.scene = player[e].scene /\ r.gate = player[e].gate
  BY <1>4 DEF PlayerState
<1>6. player' = [player EXCEPT ![e] = r] /\ player[e].st \in {"live", "stopping"} /\ player[e].anchored
  BY <1>0, <1>2, Types DEF ClientReady
<1> HIDE DEF r
<1>7. player'[e] = r /\ \A f \in Epochs \ {e} : UNCHANGED <<player[f], toWorld[f], fromWorld[f]>>
  BY <1>2, <1>6, Types
<1>8. PlayersFit'
  <2>1. PlayerFits(e)'
    BY <1>2, <1>5, <1>6, <1>7 DEF PlayersFit, PlayerFits, Known
  <2> QED
    BY <1>2, <1>7, <2>1, OthersFit
<1>9. EpochsCounted'
  BY <1>2, <1>5, <1>7, CountStays
<1>10. EffectsDurable'
  BY <1>2 DEF EffectsDurable
<1> QED
  BY <1>1, <1>3, <1>8, <1>9, <1>10, InvParts

(* With Players and stored body unchanged, all evolves. *)
LEMMA EvolvesAll ==
  ASSUME player' = player, db' = db
  PROVE  (\A e \in Epochs : Evolves(e)) /\ CutsStay
BY SameEvolves DEF CutsStay

(* The steps of the World leave the sessions alone. *)
LEMMA WorldInv ==
  ASSUME SessionInv, WorldHeat \/ WorldForgets \/ \E e \in Epochs : WorldSteps(e) PROVE SessionInv'
<1> USE DEF SessionInv
<1>1. TypeOK'
  BY WorldType
<1>2. /\ UNCHANGED <<nextEpoch, owner, job, calls, conn, mail, scene, player, db, acked, crossings>>
  BY DEF WorldHeat, WorldForgets, WorldSteps, WorldContact, WorldDetach, WorldFrame, registry, gateVars, history
<1>3. Relations'
  <2>1. EpochsAreNew' /\ JobFits' /\ StoredIsKnown' /\ OwnerFits'
    BY <1>2 DEF EpochsAreNew, Horizon, JobFits, IsOwner, StoredIsKnown, OwnerFits, Known, Writes,
       Alive, Persists, Serving
  <2>2. MembersFit' /\ SessionIsHeld'
    BY <1>2 DEF MembersFit, SessionIsHeld, Alive, Known, Member, CloseMailed
  <2>3. CallsFit' /\ ConnsFit'
    BY <1>2 DEF CallsFit, InFlight, CallFits, ConnsFit, ConnFits, PreparedFrom, CutIsStored, Silent,
       Known, Serving
  <2> QED
    BY <2>1, <2>2, <2>3 DEF Relations
<1>4. EpochsCounted' /\ EffectsDurable'
  BY <1>2 DEF EpochsCounted, Claimed, Handing, EffectsDurable
<1>5. PlayersFit'
  <2>0. contact \in Session /\ None \notin Epochs
    BY Types, EpochInts
  <2>1. ASSUME NEW e \in Epochs, WorldContact(e) PROVE PlayersFit'
    <3>1. player[e].st \notin {"none", "prepared"}
      BY <2>1 DEF WorldContact, PlayersFit, PlayerFits
    <3>2. /\ \A f \in Epochs \ {e} : toWorld'[f] = toWorld[f]
          /\ fromWorld' = fromWorld /\ contact' \in {e, None}
      BY <2>1, Types DEF WorldContact
    <3> QED
      BY <1>2, <2>0, <3>1, <3>2 DEF PlayersFit, PlayerFits, Known
  <2>2. ASSUME NEW e \in Epochs, WorldDetach(e) PROVE PlayersFit'
    <3>1. player[e].st \notin {"none", "prepared"}
      BY <2>2 DEF WorldDetach, PlayersFit, PlayerFits
    <3>2. /\ \A f \in Epochs \ {e} : toWorld'[f] = toWorld[f] /\ fromWorld'[f] = fromWorld[f]
          /\ contact' \in {contact, None}
      BY <2>2, Types DEF WorldDetach, DetachAnswer, Deliver, WithoutContact
    <3> QED
      BY <1>2, <2>0, <3>1, <3>2 DEF PlayersFit, PlayerFits, Known
  <2>3. CASE WorldHeat
    <3>1. contact \in Epochs /\ contact' = contact /\ toWorld' = toWorld
      BY <2>3, <2>0 DEF WorldHeat, Session
    <3>2. player[contact].st \notin {"none", "prepared"}
      BY <3>1 DEF PlayersFit, PlayerFits
    <3>3. \A f \in Epochs \ {contact} : fromWorld'[f] = fromWorld[f]
      BY <2>3, Types DEF WorldHeat, Deliver
    <3> QED
      BY <1>2, <2>0, <3>1, <3>2, <3>3 DEF PlayersFit, PlayerFits, Known
  <2>4. CASE WorldForgets
    BY <1>2, <2>0, <2>4 DEF WorldForgets, PlayersFit, PlayerFits, Known
  <2> QED
    BY <2>1, <2>2, <2>3, <2>4 DEF WorldSteps
<1> QED
  BY <1>1, <1>3, <1>4, <1>5, InvParts

(* The answer to a fence keeps the invariant: the cut it sends is stored. *)
LEMMA PlayerDetachedInv == ASSUME SessionInv, NEW e \in Epochs, PlayerDetached(e) PROVE SessionInv'
<1> USE DEF SessionInv
<1>0. PICK g \in Gates : g = player[e].gate
  BY PlayerDetachedIs
<1>1. TypeOK'
  BY PlayerDetachedType
<1>2. PlayerMoves(e) /\ UNCHANGED <<nextEpoch, owner, job, mail, scene, contact, toWorld, acked>>
  BY PlayerDetachedMoves, PlayerDetachedIs DEF history
<1>3. (\A f \in Epochs : Evolves(f)) /\ CutsStay
  BY <1>2, MovesEvolve
<1>4. db'.epoch = db.epoch /\ db.body \subseteq db'.body /\ StoredIsKnown'
  BY <1>2, MovesGrow
<1> DEFINE Awaited == /\ conn[g].st = "sealing" /\ conn[g].id = e /\ player'[e].st = "sealed"
                      /\ conn' = [conn EXCEPT ![g] = [conn[g] EXCEPT !.st = "preparing"]]
                      /\ calls' = calls \cup {PrepareCall(e)}
                      /\ db' = [db EXCEPT !.body = player[e].body]
<1>5. \/ calls' = calls /\ (conn' = conn \/ conn' = Refuse(g, "sealing"))
      \/ Awaited
  BY <1>0, PlayerDetachedIs
<1>6. [conn[g] EXCEPT !.st = "preparing"].st = "preparing"
      /\ [conn[g] EXCEPT !.st = "preparing"].id = conn[g].id
      /\ [conn[g] EXCEPT !.st = "preparing"].pending = conn[g].pending
      /\ [conn[g] EXCEPT !.st = "preparing"].target = conn[g].target
      /\ [conn[g] EXCEPT !.st = "preparing"].closing = conn[g].closing
  BY <1>2, Types DEF Connection
<1>7. Awaited => /\ conn'[g].st = "preparing" /\ conn'[g].id = conn[g].id /\ conn'[g].closing = conn[g].closing
                 /\ conn'[g].pending = conn[g].pending /\ conn'[g].target = conn[g].target
                 /\ \A h \in Gates \ {g} : conn'[h] = conn[h]
  BY <1>2, <1>6, Types
<1> HIDE DEF Awaited
<1>8. ASSUME calls' = calls, conn' = conn \/ conn' = Refuse(g, "sealing")
      PROVE  /\ CallsFit' /\ ConnsFit'
             /\ \A h \in Gates : conn'[h].id = conn[h].id /\ (Serving(h)' => Serving(h))
             /\ \A h \in Gates, f \in Epochs : CloseMailed(h, f) => CloseMailed(h, f)'
  <2>1. (\A h \in Gates : ConnStays(h) /\ (Serving(h)' => Serving(h)))
        /\ (\A h \in Gates : h # g => conn'[h] = conn[h])
        /\ (conn[g].st = "sealing" => conn' = conn \/ conn'[g].closing)
        /\ (conn[g].st # "sealing" => conn' = conn)
    <3>1. CASE conn' = conn
      BY <3>1 DEF ConnStays, Serving
    <3>2. CASE conn' = Refuse(g, "sealing")
      BY <1>2, <3>2, RefuseStays DEF Refuse, ReplyTo
    <3> QED
      BY <1>8, <3>1, <3>2
  <2>2. CallsFit'
    <3>1. InFlight' = InFlight /\ InFlight \subseteq Call
      BY <1>2, <1>8, Types, JobRecords DEF InFlight
    <3>2. \A c \in InFlight : conn'[c.gate] = conn[c.gate] \/ conn'[c.gate].st \in {"leaving", "dead"}
      <4> SUFFICES ASSUME NEW c \in InFlight PROVE conn'[c.gate] = conn[c.gate]
        OBVIOUS
      <4>1. c.gate \in Gates /\ conn[c.gate].st # "sealing"
        BY <3>1, ReplyStateIs DEF CallsFit, CallFits, Call
      <4> QED
        BY <2>1, <4>1
    <3> QED
      BY <1>2, <1>3, <1>8, <3>1, <3>2, CallsFitStay
  <2>3. ConnsFit'
    BY <1>1, <1>3, <2>1, ConnFitsStays DEF ConnsFit
  <2>4. \A h \in Gates, f \in Epochs : CloseMailed(h, f) => CloseMailed(h, f)'
    BY <1>2, <2>1 DEF CloseMailed, ConnStays
  <2> QED
    BY <2>1, <2>2, <2>3, <2>4 DEF ConnStays
<1>9. ASSUME Awaited
      PROVE  /\ CallsFit' /\ ConnsFit'
             /\ \A h \in Gates : conn'[h].id = conn[h].id /\ (Serving(h)' => Serving(h))
             /\ \A h \in Gates, f \in Epochs : CloseMailed(h, f) => CloseMailed(h, f)'
  <2>1. \A h \in Gates : conn'[h].id = conn[h].id /\ (Serving(h)' => Serving(h))
    BY <1>7, <1>9 DEF Serving, Awaited
  <2>2. \A h \in Gates, f \in Epochs : CloseMailed(h, f) => CloseMailed(h, f)'
    BY <1>2, <1>7, <1>9 DEF CloseMailed, Awaited
  <2>3. ConnsFit'
    <3>1. ASSUME NEW h \in Gates, h # g PROVE ConnFits(h)'
      <4>1. ConnStays(h)
        BY <1>7, <1>9, <3>1 DEF ConnStays
      <4> QED
        BY <1>1, <1>3, <4>1, ConnFitsStays DEF ConnsFit
    <3>2. ConnFits(g)'
      <4>1. /\ conn'[g].id = e /\ conn'[g].pending = None /\ conn'[g].st = "preparing" /\ e # None
            /\ player'[e].gate = g
        BY <1>0, <1>2, <1>7, <1>9, PlayerDetachedIs, EpochInts DEF Awaited, ConnsFit, ConnFits
      <4> QED
        BY <4>1, EpochInts DEF ConnFits
    <3> QED
      BY <3>1, <3>2 DEF ConnsFit
  <2>4. CallsFit'
    <3>0. PICK c : c = PrepareCall(e)
      OBVIOUS
    <3>1. /\ c.type = "prepare" /\ c.gate = g /\ c.id = e /\ c.scene = conn[g].target
          /\ c.body = player[e].body
      BY <1>0, <3>0 DEF PrepareCall, NoCall
    <3>2. InFlight \subseteq Call /\ InFlight' = InFlight \cup {c} /\ calls' = calls \cup {c}
      BY <1>2, <1>9, <3>0, Types, JobRecords DEF InFlight, Awaited
    <3>3. ASSUME NEW d \in InFlight PROVE d.gate \in Gates /\ d.gate # g
      <4>1. d.gate \in Gates /\ conn[d.gate].st # "sealing"
        BY <3>2, ReplyStateIs DEF CallsFit, CallFits, Call
      <4> QED
        BY <1>9, <4>1 DEF Awaited
    <3>4. ASSUME NEW d \in InFlight PROVE CallFits(d)'
      <4>1. conn'[d.gate] = conn[d.gate]
        BY <1>7, <1>9, <3>3
      <4> QED
        BY <1>3, <3>2, <4>1, CallFitsStays DEF CallsFit
    <3>5. CallFits(c)'
      <4>1. conn[g].target \in Scenes
        BY <1>2, <1>9 DEF Awaited, ConnsFit, ConnFits
      <4>2. player'[e].st = "sealed" /\ player'[e].gate = g /\ db'.body = player[e].body
        BY <1>0, <1>9, Types, PlayerDetachedIs DEF Awaited
      <4>3. conn'[c.gate].st = "preparing" /\ conn'[c.gate].id = c.id /\ conn[g].id = e
        BY <1>7, <1>9, <3>1 DEF Awaited
      <4>4. Silent(c.id)' /\ CutIsStored(c.id, c.body)'
        BY <3>1, <4>2 DEF Silent, CutIsStored
      <4> QED
        BY <3>1, <4>1, <4>2, <4>3, <4>4, ReplyStateIs DEF CallFits
    <3>6. \A d, f \in calls' : d.gate = f.gate => d = f
      BY <3>1, <3>2, <3>3 DEF CallsFit, InFlight
    <3>7. \A d \in calls' : job' = NoJob \/ d.gate # job'.call.gate
      <4>1. job # NoJob => job.call \in InFlight
        BY JobInFlight
      <4> QED
        BY <1>2, <3>1, <3>2, <3>3, <4>1 DEF CallsFit
    <3> QED
      BY <3>2, <3>4, <3>5, <3>6, <3>7 DEF CallsFit
  <2> QED
    BY <2>1, <2>2, <2>3, <2>4
<1>10. /\ CallsFit' /\ ConnsFit'
       /\ \A h \in Gates : conn'[h].id = conn[h].id /\ (Serving(h)' => Serving(h))
       /\ \A h \in Gates, f \in Epochs : CloseMailed(h, f) => CloseMailed(h, f)'
  BY <1>5, <1>8, <1>9
<1>11. EpochsAreNew'
  <2>1. Horizon' = Horizon /\ Horizon <= Horizon'
    BY <1>2, Types DEF Horizon, JobType
  <2> QED
    BY <1>1, <1>2, <1>3, <1>4, <1>10, <2>1, EpochsStayNew
<1>12. JobFits'
  BY <1>2 DEF JobFits, IsOwner
<1>13. MembersFit'
  BY <1>2, <1>3, MembersStay
<1>14. OwnerFits'
  BY <1>2, <1>3, <1>4, <1>10, OwnerStays
<1>15. SessionIsHeld'
  BY <1>2, <1>3, <1>10, HeldStays
<1>16. Relations'
  BY <1>4, <1>10, <1>11, <1>12, <1>13, <1>14, <1>15 DEF Relations
<1>17. EpochsCounted' /\ EffectsDurable'
  BY <1>2, <1>4, PlayerDetachedCounts DEF EffectsDurable
<1>18. PlayersFit'
  <2>1. \A f \in Epochs \ {e} : UNCHANGED <<player[f], toWorld[f], fromWorld[f]>>
    <3>1. \A f \in Epochs \ {e} : fromWorld'[f] = fromWorld[f]
      <4>1. \E box : fromWorld' = [fromWorld EXCEPT ![e] = box]
        BY DEF PlayerDetached
      <4> QED
        BY <4>1, Types
    <3>2. \A f \in Epochs \ {e} : player'[f] = player[f]
      BY PlayerDetachedIs
    <3> QED
      BY <1>2, <3>1, <3>2
  <2>2. PlayerFits(e)'
    BY PlayerDetachedIs DEF PlayersFit, PlayerFits, Known
  <2> QED
    BY <1>2, <2>1, <2>2, OthersFit
<1> QED
  BY <1>1, <1>16, <1>17, <1>18, InvParts

-----------------------------------------------------------------------------
(* The connections. *)

(* A step of a connection that keeps its session. *)
LEMMA GateKeeps ==
  ASSUME SessionInv, TypeOK', GateFrame, UNCHANGED <<acked, crossings>>,
         \A c \in calls' : c \in calls \/ c.type = "commit",
         \A h \in Gates : conn'[h].st = "new" => conn[h].st = "new",
         CallsFit', ConnsFit',
         \A h \in Gates : conn'[h].id = conn[h].id /\ (Serving(h)' => Serving(h)),
         \A h \in Gates, f \in Epochs : CloseMailed(h, f) => CloseMailed(h, f)'
  PROVE  SessionInv'
<1> USE DEF SessionInv
<1>1. UNCHANGED <<nextEpoch, owner, job, scene, player, contact, toWorld, fromWorld, db>>
  BY DEF GateFrame, world
<1>2. (\A e \in Epochs : Evolves(e)) /\ CutsStay
  BY <1>1, EvolvesAll
<1>3. EpochsAreNew'
  <2>1. Horizon' = Horizon /\ Horizon <= Horizon'
    BY <1>1, Types DEF Horizon, JobType
  <2> QED
    BY <1>1, <1>2, <2>1, EpochsStayNew
<1>4. EpochsCounted'
  BY <1>1, CountStays
<1>5. JobFits' /\ PlayersFit' /\ StoredIsKnown' /\ EffectsDurable'
  BY <1>1 DEF JobFits, IsOwner, PlayersFit, PlayerFits, Known, StoredIsKnown, Writes, Alive, Persists,
     EffectsDurable
<1>6. MembersFit' /\ OwnerFits' /\ SessionIsHeld'
  BY <1>1, <1>2, MembersStay, OwnerStays, HeldStays
<1> QED
  BY <1>3, <1>4, <1>5, <1>6

(* A connection that ends keeps what it knows. *)
LEMMA GateEndsInv ==
  ASSUME SessionInv, NEW g \in Gates,
         GateSealExits(g) \/ GateTerminates(g) \/ GateGone(g) \/ GateKilled(g) \/ GateTimesOut(g)
  PROVE SessionInv'
<1> USE DEF SessionInv
<1>1. TypeOK'
  BY GateEndsType
<1>2. GateFrame /\ UNCHANGED <<calls, acked, crossings>>
  BY DEF GateSealExits, GateTerminates, GateGone, GateKilled, GateTimesOut, history
<1>3. PICK st \in {"leaving", "dead"} : conn' = [conn EXCEPT ![g] = [conn[g] EXCEPT !.st = st]]
  BY Types DEF GateSealExits, GateTerminates, GateGone, GateKilled, GateTimesOut
<1>4. /\ [conn[g] EXCEPT !.st = st].st = st /\ [conn[g] EXCEPT !.st = st].id = conn[g].id
      /\ [conn[g] EXCEPT !.st = st].pending = conn[g].pending
  BY Types DEF Connection
<1>5. /\ conn'[g].st = st /\ conn'[g].id = conn[g].id /\ conn'[g].pending = conn[g].pending
      /\ \A h \in Gates \ {g} : conn'[h] = conn[h]
  BY <1>3, <1>4, Types
<1>6. \A h \in Gates : ConnStays(h) /\ (Serving(h)' => Serving(h)) /\ (conn'[h].st = "new" => conn[h].st = "new")
  BY <1>5 DEF ConnStays, Serving
<1>7. UNCHANGED <<job, player, db>>
  BY <1>2 DEF GateFrame
<1>8. (\A e \in Epochs : Evolves(e)) /\ CutsStay
  BY <1>7, EvolvesAll
<1>9. ConnsFit'
  BY <1>1, <1>6, <1>8, ConnFitsStays DEF ConnsFit
<1>10. CallsFit'
  <2>1. InFlight' = InFlight /\ \A c \in InFlight : c.gate \in Gates
    BY <1>2, <1>7, Types, JobRecords DEF InFlight, Call
  <2> QED
    BY <1>2, <1>5, <1>7, <1>8, <2>1, CallsFitStay
<1>11. \A h \in Gates, f \in Epochs : CloseMailed(h, f) => CloseMailed(h, f)'
  <2>1. \A h \in Gates \ {g} : mail'[h] = mail[h]
    BY Types DEF GateSealExits, GateTerminates, GateGone, GateKilled, GateTimesOut
  <2> QED
    BY <1>5, <2>1 DEF CloseMailed
<1> QED
  BY <1>1, <1>2, <1>6, <1>9, <1>10, <1>11, GateKeeps DEF ConnStays

(* Taking a close keeps the invariant. *)
LEMMA GateCloseInv == ASSUME SessionInv, NEW g \in Gates, GateClose(g) PROVE SessionInv'
<1> USE DEF SessionInv
<1>1. TypeOK'
  BY GateMailType
<1>2. GateFrame /\ UNCHANGED <<calls, acked, crossings>>
  BY DEF GateClose, history
<1>3. PICK m \in mail[g] : /\ mail' = [mail EXCEPT ![g] = mail[g] \ {m}]
                           /\ conn' = [conn EXCEPT ![g] = [conn[g] EXCEPT !.closing = conn[g].closing \/ m.id = conn[g].id]]
  BY Types DEF GateClose
<1> DEFINE b == conn[g].closing \/ m.id = conn[g].id
<1>4. /\ [conn[g] EXCEPT !.closing = b].st = conn[g].st /\ [conn[g] EXCEPT !.closing = b].id = conn[g].id
      /\ [conn[g] EXCEPT !.closing = b].pending = conn[g].pending
      /\ [conn[g] EXCEPT !.closing = b].target = conn[g].target
      /\ [conn[g] EXCEPT !.closing = b].closing = b
  <2> HIDE DEF b
  <2> QED
    BY Types DEF Connection
<1>5. /\ conn'[g].st = conn[g].st /\ conn'[g].id = conn[g].id /\ conn'[g].pending = conn[g].pending
      /\ conn'[g].target = conn[g].target /\ conn'[g].closing = b
      /\ \A h \in Gates \ {g} : conn'[h] = conn[h]
      /\ mail'[g] = mail[g] \ {m} /\ \A h \in Gates \ {g} : mail'[h] = mail[h]
  BY <1>3, <1>4, Types
<1>6. UNCHANGED <<job, player, db>>
  BY <1>2 DEF GateFrame
<1> HIDE DEF b
<1>7. CallsFit' /\ ConnsFit'
  <2>1. \A h \in Gates : /\ conn'[h].st = conn[h].st /\ conn'[h].id = conn[h].id
                         /\ conn'[h].pending = conn[h].pending /\ conn'[h].target = conn[h].target
    BY <1>5
  <2>2. InFlight' = InFlight /\ \A c \in InFlight : c.gate \in Gates
    BY <1>2, <1>6, Types, JobRecords DEF InFlight, Call
  <2>3. CallsFit'
    BY <1>2, <1>6, <2>1, <2>2 DEF CallsFit, CallFits, Silent, CutIsStored, PreparedFrom
  <2>4. ConnsFit'
    BY <1>6, <2>1 DEF ConnsFit, ConnFits, Silent, Known, CutIsStored, PreparedFrom, Serving
  <2> QED
    BY <2>3, <2>4
<1>8. \A h \in Gates, f \in Epochs : CloseMailed(h, f) => CloseMailed(h, f)'
  <2>1. ASSUME NEW f \in Epochs, CloseMailed(g, f), conn'[g].id = f, ~conn'[g].closing,
               conn'[g].st \in {"open", "sealing", "preparing"}
        PROVE  Close(f) \in mail'[g]
    <3>1. ~b
      BY <1>5, <2>1
    <3>2. ~conn[g].closing /\ m.id # f
      BY <1>5, <2>1, <3>1 DEF b
    <3>3. Close(f) \in mail[g] /\ Close(f).id = f
      BY <1>5, <2>1, <3>2 DEF CloseMailed, Close
    <3> QED
      BY <1>5, <3>2, <3>3
  <2>2. ASSUME NEW h \in Gates, h # g, NEW f \in Epochs, CloseMailed(h, f) PROVE CloseMailed(h, f)'
    BY <1>5, <2>2 DEF CloseMailed
  <2>3. ASSUME NEW f \in Epochs, CloseMailed(g, f) PROVE CloseMailed(g, f)'
    BY <2>1, <2>3 DEF CloseMailed
  <2> QED
    BY <2>2, <2>3
<1> QED
  BY <1>1, <1>2, <1>5, <1>7, <1>8, GateKeeps DEF Serving

(* Taking a transfer request keeps the invariant. *)
LEMMA GateTransferInv == ASSUME SessionInv, NEW g \in Gates, GateTransfer(g) PROVE SessionInv'
<1> USE DEF SessionInv
<1>1. TypeOK'
  BY GateMailType
<1>2. GateFrame /\ UNCHANGED <<calls, acked, crossings>> /\ conn[g].st = "open"
  BY DEF GateTransfer, history
<1>3. PICK m \in mail[g] :
        /\ m.type = "transfer"
        /\ mail' = [mail EXCEPT ![g] = mail[g] \ {m}]
        /\ conn' = IF m.id = conn[g].id /\ conn[g].pending = None /\ ~conn[g].closing
                   THEN [conn EXCEPT ![g] = [conn[g] EXCEPT !.st = "sealing", !.target = m.target]] ELSE conn
  BY Types DEF GateTransfer
<1> DEFINE r == [conn[g] EXCEPT !.st = "sealing", !.target = m.target]
<1>4. /\ r.st = "sealing" /\ r.id = conn[g].id /\ r.pending = conn[g].pending
      /\ r.target = m.target /\ r.closing = conn[g].closing
  BY Types DEF Connection
<1> HIDE DEF r
<1>5. /\ conn'[g] = conn[g] \/ (conn'[g] = r /\ m.id = conn[g].id /\ conn[g].pending = None)
      /\ \A h \in Gates \ {g} : conn'[h] = conn[h]
      /\ mail'[g] = mail[g] \ {m} /\ \A h \in Gates \ {g} : mail'[h] = mail[h]
  BY <1>3, Types DEF r
<1>6. UNCHANGED <<job, player, db>>
  BY <1>2 DEF GateFrame
<1>7. m.id \in Epochs /\ m.target \in Scenes
  BY <1>3, Types DEF Messages
<1>8. (\A e \in Epochs : Evolves(e)) /\ CutsStay
  BY <1>6, EvolvesAll
<1>9. \A h \in Gates : conn'[h].id = conn[h].id /\ (Serving(h)' => Serving(h)) /\ (conn'[h].st = "new" => conn[h].st = "new")
  BY <1>2, <1>4, <1>5 DEF Serving
<1>10. CallsFit'
  <2>1. InFlight' = InFlight /\ \A c \in InFlight : c \in Call /\ c.gate \in Gates
    BY <1>2, <1>6, Types, JobRecords DEF InFlight, Call
  <2>2. \A c \in InFlight : c.gate # g
    BY <1>2, <2>1, ReplyStateIs DEF CallsFit, CallFits, Call
  <2> QED
    BY <1>2, <1>5, <1>6, <1>8, <2>1, <2>2, CallsFitStay
<1>11. ConnsFit'
  <2>1. ASSUME NEW h \in Gates, conn'[h] = conn[h] PROVE ConnFits(h)'
    BY <1>1, <1>8, <2>1, ConnFitsStays DEF ConnStays, ConnsFit
  <2>2. ASSUME conn'[g] = r, m.id = conn[g].id, conn[g].pending = None PROVE ConnFits(g)'
    BY <1>4, <1>6, <1>7, <2>2, EpochInts DEF ConnsFit, ConnFits, Known
  <2> QED
    BY <1>5, <2>1, <2>2 DEF ConnsFit
<1>12. \A h \in Gates, f \in Epochs : CloseMailed(h, f) => CloseMailed(h, f)'
  BY <1>2, <1>3, <1>4, <1>5 DEF CloseMailed, Close
<1> QED
  BY <1>1, <1>2, <1>9, <1>10, <1>11, <1>12, GateKeeps

(* The call of commit_transfer fits its connection: it keeps the            *)
(* invariant. *)
LEMMA ClientCommitsInv == ASSUME SessionInv, NEW g \in Gates, ClientCommits(g) PROVE SessionInv'
<1> USE DEF SessionInv
<1>1. TypeOK'
  BY GateCallsType
<1>2. GateFrame /\ UNCHANGED <<acked, crossings, mail>> /\ conn[g].st = "open" /\ conn[g].pending # None
  BY DEF ClientCommits, history
<1>3. PICK c : c = [NoCall EXCEPT !.type = "commit", !.gate = g, !.id = conn[g].id, !.fresh = conn[g].pending]
  OBVIOUS
<1>4. c.type = "commit" /\ c.gate = g /\ c.id = conn[g].id /\ c.fresh = conn[g].pending
  BY <1>3 DEF NoCall
<1>5. calls' = calls \cup {c}
  BY <1>3 DEF ClientCommits
<1>6. /\ [conn[g] EXCEPT !.st = "committing"].st = "committing" /\ [conn[g] EXCEPT !.st = "committing"].id = conn[g].id
      /\ [conn[g] EXCEPT !.st = "committing"].pending = conn[g].pending
  BY Types DEF Connection
<1>7. /\ conn'[g].st = "committing" /\ conn'[g].id = conn[g].id /\ conn'[g].pending = conn[g].pending
      /\ \A h \in Gates \ {g} : conn'[h] = conn[h]
  BY <1>6, Types DEF ClientCommits
<1>8. UNCHANGED <<job, player, db>>
  BY <1>2 DEF GateFrame
<1>9. (\A e \in Epochs : Evolves(e)) /\ CutsStay
  BY <1>8, EvolvesAll
<1>10. \A h \in Gates : conn'[h].id = conn[h].id /\ (Serving(h)' => Serving(h)) /\ (conn'[h].st = "new" => conn[h].st = "new")
  BY <1>2, <1>7 DEF Serving
<1>11. /\ c.id \in Epochs /\ c.fresh \in Epochs /\ c.id < c.fresh /\ Silent(c.id)
       /\ player[c.id].gate = g /\ player[c.fresh].gate = g /\ PreparedFrom(c.id, c.fresh)
  <2>1. conn[g].pending \in Epochs /\ conn[g].id \in Epochs
    BY <1>2, Types, ConnRecords DEF Session, ConnsFit, ConnFits
  <2> QED
    BY <1>2, <1>4, <2>1 DEF ConnsFit, ConnFits, Serving, Silent, Known
<1>12. ConnsFit'
  <2>1. ASSUME NEW h \in Gates, h # g PROVE ConnFits(h)'
    BY <1>1, <1>7, <1>9, <2>1, ConnFitsStays DEF ConnStays, ConnsFit
  <2>2. ConnFits(g)'
    BY <1>2, <1>4, <1>7, <1>8, <1>11, EpochInts DEF ConnsFit, ConnFits, Known, Silent, PreparedFrom, CutIsStored, Serving
  <2> QED
    BY <2>1, <2>2 DEF ConnsFit
<1>13. CallsFit'
  <2>1. InFlight \subseteq Call /\ InFlight' = InFlight \cup {c}
    BY <1>5, <1>8, Types, JobRecords DEF InFlight
  <2>2. ASSUME NEW d \in InFlight PROVE d.gate \in Gates /\ d.gate # g
    BY <1>2, <2>1, ReplyStateIs DEF CallsFit, CallFits, Call
  <2>3. ASSUME NEW d \in InFlight PROVE CallFits(d)'
    BY <1>7, <1>9, <2>1, <2>2, CallFitsStays DEF CallsFit
  <2>4. CallFits(c)'
    BY <1>4, <1>7, <1>8, <1>11, ReplyStateIs DEF CallFits, Silent, PreparedFrom, CutIsStored
  <2>5. \A d, f \in calls' : d.gate = f.gate => d = f
    BY <1>4, <1>5, <2>2 DEF CallsFit, InFlight
  <2>6. \A d \in calls' : job' = NoJob \/ d.gate # job'.call.gate
    BY <1>4, <1>5, <1>8, <2>2, JobInFlight DEF CallsFit
  <2> QED
    BY <2>1, <2>3, <2>4, <2>5, <2>6 DEF CallsFit
<1>14. \A h \in Gates, f \in Epochs : CloseMailed(h, f) => CloseMailed(h, f)'
  BY <1>2, <1>7 DEF CloseMailed
<1>15. \A d \in calls' : d \in calls \/ d.type = "commit"
  BY <1>4, <1>5
<1> QED
  BY <1>1, <1>2, <1>10, <1>12, <1>13, <1>14, <1>15, GateKeeps

(* The call of claim keeps the invariant. *)
LEMMA GateJoinsInv == ASSUME SessionInv, NEW g \in Gates, GateJoins(g) PROVE SessionInv'
<1> USE DEF SessionInv
<1>1. TypeOK'
  BY GateCallsType
<1>2. GateFrame /\ UNCHANGED <<acked, crossings, mail>> /\ conn[g].st = "new"
  BY DEF GateJoins, history
<1>3. PICK s \in Scenes : calls' = calls \cup {[NoCall EXCEPT !.type = "claim", !.gate = g, !.scene = s]}
  BY DEF GateJoins
<1>4. PICK c : c = [NoCall EXCEPT !.type = "claim", !.gate = g, !.scene = s]
  OBVIOUS
<1>5. c.type = "claim" /\ c.gate = g /\ c.scene = s /\ calls' = calls \cup {c}
  BY <1>3, <1>4 DEF NoCall
<1>6. /\ [conn[g] EXCEPT !.st = "claiming"].st = "claiming" /\ [conn[g] EXCEPT !.st = "claiming"].id = conn[g].id
      /\ [conn[g] EXCEPT !.st = "claiming"].pending = conn[g].pending
  BY Types DEF Connection
<1>7. /\ conn'[g].st = "claiming" /\ conn'[g].id = conn[g].id /\ conn'[g].pending = conn[g].pending
      /\ \A h \in Gates \ {g} : conn'[h] = conn[h]
  BY <1>6, Types DEF GateJoins
<1>8. UNCHANGED <<nextEpoch, owner, job, scene, player, contact, toWorld, fromWorld, db>>
  BY <1>2 DEF GateFrame, world
<1>9. (\A e \in Epochs : Evolves(e)) /\ CutsStay
  BY <1>8, EvolvesAll
<1>10. \A h \in Gates : conn'[h].id = conn[h].id /\ (Serving(h)' => Serving(h))
  BY <1>2, <1>7 DEF Serving
<1>12. ConnsFit'
  <2>1. ASSUME NEW h \in Gates, h # g PROVE ConnFits(h)'
    BY <1>1, <1>7, <1>9, <2>1, ConnFitsStays DEF ConnStays, ConnsFit
  <2>2. ConnFits(g)'
    BY <1>2, <1>7, <1>8, EpochInts DEF ConnsFit, ConnFits
  <2> QED
    BY <2>1, <2>2 DEF ConnsFit
<1>13. CallsFit'
  <2>1. InFlight \subseteq Call /\ InFlight' = InFlight \cup {c}
    BY <1>5, <1>8, Types, JobRecords DEF InFlight
  <2>2. ASSUME NEW d \in InFlight PROVE d.gate \in Gates /\ d.gate # g
    BY <1>2, <2>1, ReplyStateIs DEF CallsFit, CallFits, Call
  <2>3. ASSUME NEW d \in InFlight PROVE CallFits(d)'
    BY <1>7, <1>9, <2>1, <2>2, CallFitsStays DEF CallsFit
  <2>4. CallFits(c)'
    BY <1>5, <1>7, ReplyStateIs DEF CallFits
  <2>5. \A d, f \in calls' : d.gate = f.gate => d = f
    BY <1>5, <2>2 DEF CallsFit, InFlight
  <2>6. \A d \in calls' : job' = NoJob \/ d.gate # job'.call.gate
    BY <1>5, <1>8, <2>2, JobInFlight DEF CallsFit
  <2> QED
    BY <2>1, <2>3, <2>4, <2>5, <2>6 DEF CallsFit
<1>14. \A h \in Gates, f \in Epochs : CloseMailed(h, f) => CloseMailed(h, f)'
  BY <1>2, <1>7 DEF CloseMailed
<1>15. EpochsAreNew'
  <2>1. Horizon' = Horizon /\ Horizon <= Horizon'
    BY <1>8, Types DEF Horizon, JobType
  <2> QED
    BY <1>1, <1>8, <1>9, <1>10, <2>1, EpochsStayNew
<1>16. EpochsCounted'
  BY GateJoinsCounts
<1>17. JobFits' /\ PlayersFit' /\ StoredIsKnown' /\ EffectsDurable'
  BY <1>2, <1>8 DEF JobFits, IsOwner, PlayersFit, PlayerFits, Known, StoredIsKnown, Writes, Alive, Persists,
     EffectsDurable
<1>18. MembersFit' /\ OwnerFits' /\ SessionIsHeld'
  BY <1>8, <1>9, <1>10, <1>14, MembersStay, OwnerStays, HeldStays
<1> QED
  BY <1>1, <1>12, <1>13, <1>15, <1>16, <1>17, <1>18

-----------------------------------------------------------------------------
(* Drops, and the replies of leaves. *)

(* What the reply of a leave does to its caller. *)
LEMMA AnswerIs ==
  ASSUME TypeOK, NEW caller, NEW m \in [Gates -> SUBSET Messages], Answer(caller, m)
  PROVE  /\ \A g \in Gates : ConnStays(g) /\ (Serving(g)' => Serving(g)) /\ (conn'[g].st = "new" => conn[g].st = "new")
         /\ \A g \in Gates : conn'[g] = conn[g] \/ conn'[g].st \in {"leaving", "dead"}
         /\ \A g \in Gates : m[g] \subseteq mail'[g]
         /\ job' = IF caller = "registry" THEN [job EXCEPT !.stage = "join"] ELSE job
<1>1. \A g \in Gates : m[g] \subseteq mail'[g]
  BY PostKeeps DEF Answer
<1>2. \A g \in Gates : \/ conn'[g] = conn[g]
                       \/ conn[g].st = "leaving" /\ conn'[g] = LeaveDone(conn[g])
  BY Types DEF Answer
<1>3. ASSUME NEW g \in Gates, conn[g].st = "leaving"
      PROVE  /\ LeaveDone(conn[g]).id = conn[g].id /\ LeaveDone(conn[g]).st \in {"leaving", "dead"}
             /\ LeaveDone(conn[g]).pending \in {conn[g].pending, None}
  BY <1>3, Types DEF LeaveDone, Connection
<1>4. \A g \in Gates : ConnStays(g) /\ (Serving(g)' => Serving(g)) /\ (conn'[g].st = "new" => conn[g].st = "new")
  BY <1>2, <1>3 DEF ConnStays, Serving
<1>5. \A g \in Gates : conn'[g] = conn[g] \/ conn'[g].st \in {"leaving", "dead"}
  BY <1>2, <1>3
<1> QED
  BY <1>1, <1>4, <1>5 DEF Answer

(* A leave that ends: the member of s is gone, the caller is answered. *)
LEMMA LeaveEnds ==
  ASSUME SessionInv, TypeOK', NEW s \in Scenes, NEW e \in Session, NEW r, NEW caller,
         NEW m \in [Gates -> SUBSET Messages],
         scene' = [scene EXCEPT ![s] = r], r.drop = None, r.caller = "none", r.st # "down",
         r.member = IF e = None THEN scene[s].member ELSE None,
         e # None => e = scene[s].member /\ ~Alive(e),
         Answer(caller, m), \A g \in Gates : mail[g] \subseteq m[g],
         \A g \in Gates : e # None /\ conn[g].id = e /\ conn[g].st \in {"open", "sealing", "preparing"}
                            /\ ~conn[g].closing => Close(e) \in m[g],
         caller = "registry" => job.stage = "leave" /\ owner.scene = s,
         UNCHANGED <<nextEpoch, owner, calls, player, contact, toWorld, fromWorld, db, acked, crossings>>
  PROVE  SessionInv'
<1> USE DEF SessionInv
<1>1. (\A f \in Epochs : Evolves(f)) /\ CutsStay
  BY EvolvesAll
<1>2. /\ \A g \in Gates : ConnStays(g) /\ (Serving(g)' => Serving(g)) /\ (conn'[g].st = "new" => conn[g].st = "new")
      /\ \A g \in Gates : conn'[g] = conn[g] \/ conn'[g].st \in {"leaving", "dead"}
      /\ \A g \in Gates : m[g] \subseteq mail'[g]
      /\ job' = IF caller = "registry" THEN [job EXCEPT !.stage = "join"] ELSE job
  BY AnswerIs
<1>3. /\ scene'[s] = r /\ \A t \in Scenes \ {s} : scene'[t] = scene[t]
  BY Types
<1>4. /\ job'.call = job.call /\ job'.epoch = job.epoch
      /\ caller = "registry" => job'.stage = "join" /\ job.stage = "leave" /\ job' # NoJob /\ job # NoJob
      /\ caller # "registry" => job' = job
  BY <1>2, Types DEF JobType, NoJob
<1>5. EpochsAreNew'
  <2>1. Horizon' = Horizon /\ Horizon <= Horizon'
    BY <1>4, Types DEF Horizon, JobType
  <2> QED
    BY <1>1, <1>2, <2>1, EpochsStayNew DEF ConnStays
<1>6. EpochsCounted'
  BY <1>2, CountStays
<1>7. JobFits'
  <2>1. CASE caller = "registry"
    BY <1>4, <2>1 DEF JobFits, IsOwner
  <2>2. CASE caller # "registry"
    BY <1>4, <2>2 DEF JobFits, IsOwner
  <2> QED
    BY <2>1, <2>2
<1>8. CallsFit'
  <2>1. InFlight' = InFlight /\ \A c \in InFlight : c.gate \in Gates
    BY <1>4, Types, JobRecords DEF InFlight, Call
  <2> QED
    BY <1>1, <1>2, <1>4, <2>1, CallsFitStay
<1>9. ConnsFit'
  BY <1>1, <1>2, ConnFitsStays DEF ConnsFit
<1>10. PlayersFit' /\ StoredIsKnown' /\ EffectsDurable'
  BY DEF PlayersFit, PlayerFits, Known, StoredIsKnown, Writes, Alive, Persists, EffectsDurable
<1>11. MembersFit'
  <2>1. ASSUME NEW f \in Epochs, Alive(f)' PROVE scene'[player[f].scene].member = f /\ scene'[player[f].scene].st # "down"
    <3>1. Alive(f) /\ player[f].scene \in Scenes
      BY <2>1 DEF Alive, PlayersFit, PlayerFits, Known
    <3>2. scene[player[f].scene].member = f /\ scene[player[f].scene].st # "down"
      BY <3>1 DEF MembersFit
    <3> QED
      BY <1>3, <3>1, <3>2
  <2>2. ASSUME NEW t \in Scenes, t # s
        PROVE  /\ scene[t].member # None => Known(scene[t].member) /\ player[scene[t].member].scene = t
               /\ scene[t].drop \in {scene[t].member, None} /\ (scene[t].drop = None => scene[t].caller = "none")
               /\ scene[t].st = "down" => scene[t].member = None
               /\ scene[t].caller = "registry" => job'.stage = "leave" /\ owner.scene = t /\ owner.id = scene[t].drop
    BY <1>4, <2>2 DEF MembersFit
  <2>3. r.member # None => Known(r.member) /\ player[r.member].scene = s
    BY DEF MembersFit
  <2> QED
    BY <1>3, <2>1, <2>2, <2>3 DEF MembersFit, Alive, Known
<1>12. OwnerFits'
  BY <1>1, <1>2, OwnerStays DEF ConnStays
<1>13. SessionIsHeld'
  <2>1. \A g \in Gates, f \in Epochs : CloseMailed(g, f) => CloseMailed(g, f)'
    BY <1>2 DEF CloseMailed, ConnStays
  <2>2. ASSUME NEW t \in Scenes, NEW g \in Gates, NEW f \in Epochs, scene'[t].drop = f
        PROVE  CloseMailed(g, f)'
    <3>1. f # None
      BY EpochInts
    <3>2. t # s /\ scene[t].drop = f
      BY <1>3, <2>2, <3>1
    <3> QED
      BY <2>1, <3>2 DEF SessionIsHeld
  <2>3. ASSUME NEW g \in Gates, NEW f \in Epochs, conn'[g].id = f
        PROVE (Member(f) \/ player[f].st = "crashed" \/ CloseMailed(g, f))'
    <3>1. conn[g].id = f
      BY <1>2, <2>3 DEF ConnStays
    <3>2. Member(f) \/ player[f].st = "crashed" \/ CloseMailed(g, f)
      BY <3>1, EpochInts DEF SessionIsHeld
    <3>3. CASE Member(f)
      <4>1. player[f].scene \in Scenes
        BY <3>3 DEF Member, PlayersFit, PlayerFits, Known
      <4>2. CASE f = e
        <5>1. conn[g].st \in {"open", "sealing", "preparing"} /\ ~conn[g].closing => Close(f) \in m[g]
          BY <3>1, <4>2, EpochInts
        <5> QED
          BY <1>2, <5>1 DEF CloseMailed, ConnStays
      <4>3. CASE f # e
        BY <1>3, <3>3, <4>1, <4>3, EpochInts DEF Member
      <4> QED
        BY <4>2, <4>3
    <3> QED
      BY <2>1, <3>2, <3>3
  <2> QED
    BY <2>2, <2>3 DEF SessionIsHeld
<1> QED
  BY <1>5, <1>6, <1>7, <1>8, <1>9, <1>10, <1>11, <1>12, <1>13

(* The connection of a member is told that it is dropped. *)
LEMMA ToldIs ==
  ASSUME TypeOK, ConnsFit, NEW e \in Epochs, Known(e)
  PROVE  /\ Told(mail, e) \in [Gates -> SUBSET Messages]
         /\ \A g \in Gates : mail[g] \subseteq Told(mail, e)[g]
         /\ \A g \in Gates : conn[g].id = e /\ conn[g].st # "dead" => Close(e) \in Told(mail, e)[g]
<1>1. mail \in [Gates -> SUBSET Messages] /\ Close(e) \in Messages
  BY Types, CloseType
<1>2. \A g \in Gates : conn[g].id = e => player[e].gate = g /\ g # None
  BY SessionAssumption DEF ConnsFit, ConnFits, None
<1> QED
  BY <1>1, <1>2, PostType DEF Told, Post

(* A drop that waits for the Player to stop. *)
LEMMA DropBegins ==
  ASSUME SessionInv, TypeOK', NEW s \in Scenes, NEW e \in Epochs, NEW status \in {"up", "failed"},
         NEW caller, Idle(s), scene[s].member = e, Alive(e),
         scene' = [scene EXCEPT ![s].st = status, ![s].drop = e, ![s].caller = caller],
         mail' = Told(mail, e), UNCHANGED <<job, conn>>,
         caller = "registry" => job.stage = "leave" /\ owner.scene = s /\ owner.id = e,
         UNCHANGED <<nextEpoch, owner, calls, player, contact, toWorld, fromWorld, db, acked, crossings>>
  PROVE  SessionInv'
<1> USE DEF SessionInv
<1>1. (\A f \in Epochs : Evolves(f)) /\ CutsStay
  BY EvolvesAll
<1>2. Known(e)
  BY DEF Alive, Known
<1>3. /\ \A g \in Gates : mail[g] \subseteq mail'[g]
      /\ \A g \in Gates : conn[g].id = e /\ conn[g].st # "dead" => Close(e) \in mail'[g]
  BY <1>2, ToldIs
<1>4. /\ \A t \in Scenes \ {s} : scene'[t] = scene[t]
      /\ scene'[s].st = status /\ scene'[s].member = e /\ scene'[s].drop = e /\ scene'[s].caller = caller
  BY Types DEF SceneState
<1>5. EpochsAreNew' /\ EpochsCounted' /\ JobFits' /\ PlayersFit' /\ OwnerFits' /\ StoredIsKnown' /\ EffectsDurable'
  <2>1. EpochsAreNew' /\ EpochsCounted' /\ JobFits'
    BY DEF EpochsAreNew, Horizon, EpochsCounted, Claimed, Handing, JobFits, IsOwner, Known
  <2>2. PlayersFit' /\ OwnerFits'
    BY DEF PlayersFit, PlayerFits, Known, OwnerFits, Serving
  <2> QED
    BY <2>1, <2>2 DEF StoredIsKnown, Writes, Alive, Persists, EffectsDurable
<1>6. CallsFit' /\ ConnsFit'
  BY DEF CallsFit, InFlight, CallFits, ConnsFit, ConnFits, PreparedFrom, CutIsStored, Silent,
         Known, Serving
<1>7. MembersFit'
  <2>1. ASSUME NEW f \in Epochs, Alive(f)' PROVE scene'[player[f].scene].member = f /\ scene'[player[f].scene].st # "down"
    <3>1. Alive(f) /\ player[f].scene \in Scenes
      BY <2>1 DEF Alive, PlayersFit, PlayerFits, Known
    <3>2. scene[player[f].scene].member = f /\ scene[player[f].scene].st # "down"
      BY <3>1 DEF MembersFit
    <3> QED
      BY <1>4, <3>1, <3>2
  <2>2. ASSUME NEW t \in Scenes, t # s
        PROVE  /\ scene[t].member # None => Known(scene[t].member) /\ player[scene[t].member].scene = t
               /\ scene[t].drop \in {scene[t].member, None} /\ (scene[t].drop = None => scene[t].caller = "none")
               /\ scene[t].st = "down" => scene[t].member = None
               /\ scene[t].caller = "registry" => job'.stage = "leave" /\ owner.scene = t /\ owner.id = scene[t].drop
    BY <2>2 DEF MembersFit
  <2>3. player[e].scene = s /\ e # None
    BY EpochInts DEF MembersFit
  <2>4. ASSUME NEW t \in Scenes
        PROVE  /\ scene'[t].member # None =>
                    player'[scene'[t].member].st # "none" /\ player'[scene'[t].member].scene = t
               /\ scene'[t].drop \in {scene'[t].member, None} /\ (scene'[t].drop = None => scene'[t].caller = "none")
               /\ scene'[t].st = "down" => scene'[t].member = None
               /\ scene'[t].caller = "registry" =>
                    job'.stage = "leave" /\ owner'.scene = t /\ owner'.id = scene'[t].drop
    <3>1. CASE t = s
      BY <1>2, <1>4, <2>3, <3>1 DEF Known
    <3>2. CASE t # s
      <4>1. scene'[t] = scene[t]
        BY <1>4, <3>2
      <4> QED
        BY <2>2, <3>2, <4>1 DEF Known
    <3> QED
      BY <3>1, <3>2
  <2>5. \A f \in Epochs : Alive(f)' => scene'[player'[f].scene].member = f /\ scene'[player'[f].scene].st # "down"
    BY <2>1
  <2> QED
    BY <2>4, <2>5 DEF MembersFit, Known
<1>8. SessionIsHeld'
  <2>1. \A g \in Gates, f \in Epochs : CloseMailed(g, f) => CloseMailed(g, f)'
    BY <1>3 DEF CloseMailed
  <2>2. \A g \in Gates : CloseMailed(g, e)'
    BY <1>3 DEF CloseMailed
  <2>3. \A f \in Epochs : Member(f) => Member(f)'
    <3>1. \A f \in Epochs : Member(f) => player[f].scene \in Scenes
      BY DEF Member, PlayersFit, PlayerFits, Known
    <3> QED
      BY <1>4, <3>1 DEF Member
  <2> QED
    BY <1>4, <2>1, <2>2, <2>3 DEF SessionIsHeld
<1> QED
  BY <1>5, <1>6, <1>7, <1>8

(* A drop, whoever asks for it. *)
LEMMA DropInv ==
  ASSUME SessionInv, TypeOK', NEW s \in Scenes, NEW e \in Session, NEW status \in {"up", "failed"},
         NEW caller, Idle(s), e \in {None, scene[s].member}, Drop(s, e, status, caller),
         caller = "registry" => job.stage = "leave" /\ owner.scene = s /\ e \in {None, owner.id},
         UNCHANGED <<nextEpoch, owner, calls, player, contact, toWorld, fromWorld, db, acked, crossings>>
  PROVE  SessionInv'
<1> USE DEF SessionInv
<1>1. CASE e # None /\ Alive(e)
  <2>1. e \in Epochs
    BY <1>1 DEF Session
  <2> QED
    BY <1>1, <2>1, DropBegins DEF Drop
<1>2. CASE ~(e # None /\ Alive(e))
  <2>a. PICK r : r = [scene[s] EXCEPT !.st = status, !.member = IF e = None THEN @ ELSE None]
    OBVIOUS
  <2>b. PICK m : m = IF e = None THEN mail ELSE Told(mail, e)
    OBVIOUS
  <2>1. /\ r.st = status /\ r.member = (IF e = None THEN scene[s].member ELSE None)
        /\ r.drop = None /\ r.caller = "none"
    BY <2>a, Types DEF SceneState, Idle, MembersFit
  <2>2. scene' = [scene EXCEPT ![s] = r] /\ Answer(caller, m)
    BY <1>2, <2>a, <2>b, Types DEF Drop, SceneState
  <2>3. e # None => e \in Epochs /\ Known(e) /\ ~Alive(e)
    BY <1>2 DEF MembersFit, Session
  <2>4. /\ m \in [Gates -> SUBSET Messages] /\ \A g \in Gates : mail[g] \subseteq m[g]
        /\ \A g \in Gates : e # None /\ conn[g].id = e /\ conn[g].st \in {"open", "sealing", "preparing"}
                            /\ ~conn[g].closing => Close(e) \in m[g]
    BY <2>b, <2>3, ToldIs, Types
  <2>5. r.st # "down" /\ (e # None => e = scene[s].member /\ ~Alive(e))
    BY <2>1, <2>3
  <2>6. caller = "registry" => job.stage = "leave" /\ owner.scene = s
    OBVIOUS
  <2>7. r.drop = None /\ r.caller = "none"
    BY <2>1
  <2> HIDE DEF SessionInv
  <2>8. \A g \in Gates : e # None /\ conn[g].id = e /\ conn[g].st \in {"open", "sealing", "preparing"}
                         /\ ~conn[g].closing => Close(e) \in m[g]
    BY <2>4
  <2>9. r.member = IF e = None THEN scene[s].member ELSE None
    BY <2>1
  <2>10. scene' = [scene EXCEPT ![s] = r] /\ Answer(caller, m) /\ m \in [Gates -> SUBSET Messages]
    BY <2>2, <2>4
  <2>11. \A g \in Gates : mail[g] \subseteq m[g]
    BY <2>4
  <2>12. r.st # "down"
    BY <2>1
  <2>13. e # None => e = scene[s].member /\ ~Alive(e)
    BY <2>3
  <2> QED
    BY <2>6, <2>7, <2>8, <2>9, <2>10, <2>11, <2>12, <2>13, LeaveEnds
<1> QED
  BY <1>1, <1>2

(* The leave of a claim keeps the invariant. *)
LEMMA ClaimLeavesInv == ASSUME SessionInv, ClaimLeaves PROVE SessionInv'
<1> USE DEF SessionInv
<1>1. TypeOK'
  BY ClaimLeavesType
<1>2. UNCHANGED <<nextEpoch, owner, calls, player, contact, toWorld, fromWorld, db, acked, crossings>>
  BY DEF ClaimLeaves, world, history
<1>3. owner.id \in Epochs /\ owner.scene \in Scenes
  BY Types DEF ClaimLeaves, JobFits, OwnerFits, OwnerType, Session
<1>4. scene[owner.scene].st \in {"up", "failed"}
  BY <1>3, Types DEF ClaimLeaves, Idle, SceneState
<1>5. PICK e \in Session : e = MemberOr(owner.scene, owner.id)
  BY <1>3 DEF MemberOr, Session
<1>6. e \in {None, scene[owner.scene].member} /\ e \in {None, owner.id}
  BY <1>5 DEF MemberOr
<1> QED
  BY <1>1, <1>2, <1>3, <1>4, <1>5, <1>6, DropInv DEF ClaimLeaves

(* A Scene that sees its Player end, or fails, keeps the invariant. *)
LEMMA SceneDropsInv ==
  ASSUME SessionInv, NEW s \in Scenes, SceneSeesPlayer(s) \/ SceneFails(s) PROVE SessionInv'
<1> USE DEF SessionInv
<1>1. TypeOK'
  BY SceneStepsType DEF SceneSteps
<1>2. UNCHANGED <<nextEpoch, owner, calls, player, contact, toWorld, fromWorld, db, acked, crossings>>
  BY DEF SceneSeesPlayer, SceneFails, world, history
<1>3. scene[s].st \in {"up", "failed"} /\ scene[s].member \in Session /\ Idle(s)
  BY Types DEF SceneSeesPlayer, SceneFails, Idle, SceneState
<1>4. PICK status \in {"up", "failed"} : Drop(s, scene[s].member, status, "none")
  BY <1>3 DEF SceneSeesPlayer, SceneFails
<1> QED
  BY <1>1, <1>2, <1>3, <1>4, DropInv

(* A leave of a connection keeps the invariant. *)
LEMMA GateLeavesInv == ASSUME SessionInv, NEW g \in Gates, GateLeaves(g) PROVE SessionInv'
<1> USE DEF SessionInv
<1>1. TypeOK'
  BY GateLeavesType
<1>2. UNCHANGED <<nextEpoch, owner, calls, player, contact, toWorld, fromWorld, db, acked, crossings>>
  BY DEF GateLeaves, world, history
<1>3. PICK f : f = Leaves(conn[g])
  OBVIOUS
<1>4. f \in Epochs /\ Known(f) /\ Idle(player[f].scene)
      /\ Drop(player[f].scene, MemberOr(player[f].scene, f), scene[player[f].scene].st, g)
  <2>1. f \in Session
    BY <1>3, Types, ConnRecords DEF Leaves, Session
  <2> QED
    BY <1>3, <2>1 DEF GateLeaves, Session, Known
<1>5. PICK s \in Scenes : s = player[f].scene
  BY <1>4 DEF PlayersFit, PlayerFits
<1>6. PICK e \in Session : e = MemberOr(s, f)
  BY <1>4 DEF MemberOr, Session
<1>7. scene[s].st \in {"up", "failed"}
  BY <1>4, <1>5, Types DEF Idle, SceneState
<1>8. g # "registry" /\ e \in {None, scene[s].member}
  BY <1>6, SessionAssumption DEF MemberOr
<1> QED
  BY <1>1, <1>2, <1>4, <1>5, <1>6, <1>7, <1>8, DropInv

(* The end of a drop keeps the invariant. *)
LEMMA SceneDroppedInv == ASSUME SessionInv, NEW s \in Scenes, SceneDropped(s) PROVE SessionInv'
<1> USE DEF SessionInv
<1>1. TypeOK'
  BY SceneStepsType DEF SceneSteps
<1>2. UNCHANGED <<nextEpoch, owner, calls, player, contact, toWorld, fromWorld, db, acked, crossings>>
  BY DEF SceneDropped, world, history
<1> DEFINE r == [scene[s] EXCEPT !.member = None, !.drop = None, !.caller = "none"]
<1>3. scene' = [scene EXCEPT ![s] = r] /\ Answer(scene[s].caller, mail)
  BY Types DEF SceneDropped, SceneState
<1>4. PICK e \in Epochs : e = scene[s].drop
  BY Types DEF SceneDropped, SceneState, Session
<1>5. e = scene[s].member /\ ~Alive(e) /\ e # None
  BY <1>4, EpochInts DEF SceneDropped, MembersFit, Alive
<1>6. scene[s].st # "down"
  BY <1>5 DEF MembersFit
<1>7. r.st # "down" /\ r.member = None /\ r.drop = None /\ r.caller = "none"
  BY <1>6, Types DEF SceneState
<1>8. \A g \in Gates : conn[g].id = e /\ conn[g].st \in {"open", "sealing", "preparing"}
                       /\ ~conn[g].closing => Close(e) \in mail[g]
  BY <1>4 DEF SessionIsHeld, CloseMailed
<1>9. scene[s].caller = "registry" => job.stage = "leave" /\ owner.scene = s
  BY DEF MembersFit
<1>10. mail \in [Gates -> SUBSET Messages] /\ e \in Session
  BY Types DEF Session
<1> HIDE DEF r
<1> QED
  BY <1>1, <1>2, <1>3, <1>5, <1>7, <1>8, <1>9, <1>10, LeaveEnds

-----------------------------------------------------------------------------
(* Exits of Scenes and of the registry. *)

(* Exits of the registry or of a Scene end connections that wait for them. *)
LEMMA ExitsEnd ==
  ASSUME TypeOK, NEW c,
         \A g \in Gates : c[g] = conn[g] \/ c[g] = [conn[g] EXCEPT !.st = "dead"],
         \/ \A g \in Gates : conn'[g] = c[g]
         \/ \A g \in Gates : conn'[g] = IF Waiting(g) THEN [c[g] EXCEPT !.st = "leaving"] ELSE c[g],
         \A g \in Gates : c[g] # conn[g] => conn[g].st = "leaving"
  PROVE  /\ \A g \in Gates : ConnStays(g) /\ (Serving(g)' => Serving(g)) /\ (conn'[g].st = "new" => conn[g].st = "new")
         /\ \A g \in Gates : conn'[g] = conn[g] \/ conn'[g].st \in {"leaving", "dead"}
<1> SUFFICES ASSUME NEW g \in Gates
             PROVE  /\ ConnStays(g) /\ (Serving(g)' => Serving(g)) /\ (conn'[g].st = "new" => conn[g].st = "new")
                    /\ conn'[g] = conn[g] \/ conn'[g].st \in {"leaving", "dead"}
  OBVIOUS
<1>1. conn[g] \in Connection
  BY Types
<1>2. ASSUME NEW st \in {"leaving", "dead"}, conn'[g] = [conn[g] EXCEPT !.st = st]
      PROVE  conn'[g].st = st /\ conn'[g].id = conn[g].id /\ conn'[g].pending = conn[g].pending
  BY <1>1, <1>2 DEF Connection
<1>3. Waiting(g) => c[g] = conn[g]
  BY DEF Waiting
<1>4. \/ conn'[g] = conn[g]
      \/ conn'[g] = [conn[g] EXCEPT !.st = "dead"]
      \/ conn'[g] = [conn[g] EXCEPT !.st = "leaving"]
  BY <1>3
<1> QED
  BY <1>2, <1>4 DEF ConnStays, Serving

(* The Players of the Scene that exits crash, every other one stays. *)
LEMMA ExitIs ==
  ASSUME SessionInv, NEW s \in Scenes, SceneExits(s)
  PROVE  /\ \A e \in Epochs : Evolves(e) /\ (player[e].scene = s => ~Alive(e)')
         /\ \A e \in Epochs : \/ UNCHANGED <<player[e], fromWorld[e]>>
                              \/ Alive(e) /\ player[e].scene = s /\ player'[e] = Crashed(player[e])
         /\ \A t \in Scenes \ {s} : scene'[t] = scene[t]
         /\ scene'[s].st = "down" /\ scene'[s].member = None /\ scene'[s].drop = None
         /\ scene'[s].caller = "none"
         /\ \A g \in Gates : ConnStays(g) /\ (Serving(g)' => Serving(g)) /\ (conn'[g].st = "new" => conn[g].st = "new")
         /\ \A g \in Gates : conn'[g] = conn[g] \/ conn'[g].st \in {"leaving", "dead"}
         /\ \/ JobScene = s /\ owner' = NoOwner /\ job' = NoJob /\ calls' = {}
            \/ JobScene # s /\ UNCHANGED <<owner, job, calls>>
<1> USE DEF SessionInv
<1>1. \A e \in Epochs : player'[e] = IF player[e].scene = s /\ Alive(e) THEN Crashed(player[e]) ELSE player[e]
  BY DEF SceneExits
<1>2. \A e \in Epochs : Alive(e) /\ player[e].scene = s => Evolves(e)
  BY <1>1, CrashEvolves
<1>3. \A e \in Epochs : Evolves(e)
  BY <1>1, <1>2, SameEvolves
<1>4. ASSUME NEW e \in Epochs, player[e].scene = s PROVE ~Alive(e)'
  <2>1. CASE Alive(e)
    <3>1. player'[e] = Crashed(player[e]) /\ player[e] \in PlayerState
      BY <1>1, <1>4, <2>1, Types
    <3>2. player'[e].st = "crashed"
      BY <3>1 DEF Crashed, PlayerState
    <3> QED
      BY <3>2 DEF Alive
  <2>2. CASE ~Alive(e)
    BY <1>1, <2>2 DEF Alive
  <2> QED
    BY <2>1, <2>2
<1>5. \A e \in Epochs : \/ UNCHANGED <<player[e], fromWorld[e]>>
                        \/ Alive(e) /\ player[e].scene = s /\ player'[e] = Crashed(player[e])
  <2>1. \A e \in Epochs : fromWorld'[e] = IF player[e].scene = s /\ Alive(e) THEN <<>> ELSE fromWorld[e]
    BY DEF SceneExits
  <2> QED
    BY <1>1, <2>1, Zenon
<1>6. /\ \A t \in Scenes \ {s} : scene'[t] = scene[t]
      /\ scene'[s].st = "down" /\ scene'[s].member = None /\ scene'[s].drop = None
      /\ scene'[s].caller = "none"
  BY Types DEF SceneExits
<1> DEFINE c == [g \in Gates |-> IF scene[s].caller = g /\ conn[g].st = "leaving"
                                 THEN [conn[g] EXCEPT !.st = "dead"] ELSE conn[g]]
<1>7. /\ \A g \in Gates : c[g] = conn[g] \/ c[g] = [conn[g] EXCEPT !.st = "dead"]
      /\ \A g \in Gates : c[g] # conn[g] => conn[g].st = "leaving"
  OBVIOUS
<1>8. \/ JobScene = s /\ owner' = NoOwner /\ job' = NoJob /\ calls' = {}
         /\ \A g \in Gates : conn'[g] = IF Waiting(g) THEN [c[g] EXCEPT !.st = "leaving"] ELSE c[g]
      \/ JobScene # s /\ UNCHANGED <<owner, job, calls>> /\ conn' = c
  BY DEF SceneExits, RegistryExits
<1> HIDE DEF c
<1>9. /\ \A g \in Gates : ConnStays(g) /\ (Serving(g)' => Serving(g)) /\ (conn'[g].st = "new" => conn[g].st = "new")
      /\ \A g \in Gates : conn'[g] = conn[g] \/ conn'[g].st \in {"leaving", "dead"}
  BY <1>7, <1>8, ExitsEnd
<1> QED
  BY <1>3, <1>4, <1>5, <1>6, <1>8, <1>9

(* A Scene exits.  The connection of a member that is gone knows it. *)
LEMMA SceneExitsInv ==
  ASSUME SessionInv, TypeOK', NEW s \in Scenes, SceneExits(s),
         \A g \in Gates, e \in Epochs : conn[g].id = e /\ scene[s].member = e =>
           Alive(e) \/ player[e].st = "crashed" \/ CloseMailed(g, e)
  PROVE  SessionInv'
<1> USE DEF SessionInv
<1>1. UNCHANGED <<nextEpoch, mail, contact, toWorld, db, acked, crossings>>
  BY DEF SceneExits
<1>2. /\ \A e \in Epochs : Evolves(e) /\ (player[e].scene = s => ~Alive(e)')
      /\ \A e \in Epochs : \/ UNCHANGED <<player[e], fromWorld[e]>>
                           \/ Alive(e) /\ player[e].scene = s /\ player'[e] = Crashed(player[e])
  BY ExitIs
<1>3. /\ \A t \in Scenes \ {s} : scene'[t] = scene[t]
      /\ scene'[s].st = "down" /\ scene'[s].member = None /\ scene'[s].drop = None
      /\ scene'[s].caller = "none"
  BY ExitIs
<1>4. /\ \A g \in Gates : ConnStays(g) /\ (Serving(g)' => Serving(g)) /\ (conn'[g].st = "new" => conn[g].st = "new")
      /\ \A g \in Gates : conn'[g] = conn[g] \/ conn'[g].st \in {"leaving", "dead"}
  BY ExitIs
<1>5. \/ JobScene = s /\ owner' = NoOwner /\ job' = NoJob /\ calls' = {}
      \/ JobScene # s /\ UNCHANGED <<owner, job, calls>>
  BY ExitIs
<1>6. CutsStay
  BY <1>1 DEF CutsStay
<1>7. NoJob.call = NoCall /\ NoJob.stage = "idle" /\ NoCall.type = "none" /\ NoOwner.id = None /\ NoOwner.gate = None
  BY DEF NoJob, NoCall, NoOwner
<1>8. EpochsAreNew'
  <2>1. Horizon <= Horizon'
    BY <1>1, <1>5, <1>7, Types DEF Horizon, JobFits, JobType
  <2>2. owner'.id \in {owner.id, None}
    BY <1>5, <1>7
  <2> QED
    BY <1>1, <1>2, <1>4, <2>1, <2>2, EpochsStayNew DEF ConnStays
<1>9. EpochsCounted'
  <2>1. \A e \in Epochs : player'[e].st = "requested" => player[e].st = "requested"
    BY <1>2, Types DEF Crashed, PlayerState
  <2> QED
    BY <1>1, <1>4, <1>5, <2>1, CountStays
<1>10. JobFits'
  BY <1>1, <1>5, <1>7 DEF JobFits, IsOwner
<1>11. CallsFit'
  <2>1. /\ InFlight' \subseteq InFlight /\ calls' \subseteq calls
        /\ job' = NoJob \/ (job'.call = job.call /\ job # NoJob)
    BY <1>5, <1>7 DEF InFlight
  <2>2. \A c \in InFlight : c.gate \in Gates
    BY Types, JobRecords DEF InFlight, Call
  <2> QED
    BY <1>2, <1>4, <1>6, <2>1, <2>2, CallsFitStay
<1>12. ConnsFit'
  BY <1>2, <1>4, <1>6, ConnFitsStays DEF ConnsFit
<1>13. PlayersFit'
  <2>1. ASSUME NEW e \in Epochs, player'[e] = Crashed(player[e]), Alive(e) PROVE PlayerFits(e)'
    <3>1. /\ player'[e].st = "crashed" /\ player'[e].scene = player[e].scene /\ player'[e].gate = player[e].gate
          /\ player'[e].ready = player[e].ready /\ player'[e].anchored = player[e].anchored
      BY <2>1, Types DEF Crashed, PlayerState
    <3> QED
      BY <2>1, <3>1 DEF PlayersFit, PlayerFits, Known, Alive
  <2>2. ASSUME NEW e \in Epochs, UNCHANGED <<player[e], fromWorld[e]>> PROVE PlayerFits(e)'
    BY <1>1, <2>2 DEF PlayersFit, PlayerFits, Known
  <2> QED
    BY <1>2, <2>1, <2>2 DEF PlayersFit
<1>14. MembersFit'
  <2>1. ASSUME NEW f \in Epochs, Alive(f)'
        PROVE  scene'[player'[f].scene].member = f /\ scene'[player'[f].scene].st # "down"
    <3>1. Alive(f) /\ player'[f].scene = player[f].scene /\ player[f].scene # s
      BY <1>2, <2>1 DEF Evolves
    <3>2. player[f].scene \in Scenes
      BY <3>1 DEF Alive, PlayersFit, PlayerFits, Known
    <3> QED
      BY <1>3, <3>1, <3>2 DEF MembersFit
  <2>2. ASSUME NEW t \in Scenes, t # s
        PROVE  /\ scene[t].member # None => player'[scene[t].member].st # "none" /\ player'[scene[t].member].scene = t
               /\ scene[t].drop \in {scene[t].member, None} /\ (scene[t].drop = None => scene[t].caller = "none")
               /\ scene[t].st = "down" => scene[t].member = None
    <3>1. scene[t].member \in Session
      BY Types DEF SceneState
    <3> QED
      BY <1>2, <3>1 DEF MembersFit, Evolves, Known, Session
  <2>3. ASSUME NEW t \in Scenes, t # s, scene[t].caller = "registry"
        PROVE  job'.stage = "leave" /\ owner'.scene = t /\ owner'.id = scene[t].drop
    <3>1. job.stage = "leave" /\ owner.scene = t /\ owner.id = scene[t].drop
      BY <2>3 DEF MembersFit
    <3>2. JobScene = t
      BY <3>1, JobSceneIs
    <3> QED
      BY <1>5, <2>3, <3>1, <3>2
  <2>4. \A t \in Scenes \ {s} : scene'[t] = scene[t]
    BY <1>3
  <2> QED
    BY <1>3, <2>1, <2>2, <2>3, <2>4 DEF MembersFit, Known
<1>15. OwnerFits'
  <2>1. CASE owner' = NoOwner
    <3>1. \A g \in Gates : g # None
      BY SessionAssumption DEF None
    <3> QED
      BY <1>7, <2>1, <3>1 DEF OwnerFits
  <2>2. CASE owner' = owner
    BY <1>1, <1>2, <1>4, <2>2, OwnerStays DEF ConnStays
  <2> QED
    BY <1>5, <2>1, <2>2
<1>16. StoredIsKnown' /\ EffectsDurable'
  <2>1. db.epoch \in Session
    BY Types
  <2>2. ASSUME NEW e \in Epochs, player[e].st \notin {"none", "prepared"}
        PROVE  player'[e].st \notin {"none", "prepared"} /\ (Writes(e)' => Writes(e) /\ player'[e].body = player[e].body)
    <3>1. CASE player'[e] = Crashed(player[e])
      <4>1. player'[e].st = "crashed"
        BY <3>1, Types DEF Crashed, PlayerState
      <4> QED
        BY <4>1 DEF Writes, Alive
    <3>2. CASE player'[e] = player[e]
      BY <2>2, <3>2 DEF Writes, Alive, Persists
    <3> QED
      BY <1>2, <3>1, <3>2
  <2> QED
    BY <1>1, <2>1, <2>2 DEF StoredIsKnown, EffectsDurable, Session
<1>17. SessionIsHeld'
  <2>1. \A g \in Gates, f \in Epochs : CloseMailed(g, f) => CloseMailed(g, f)'
    BY <1>1, <1>4 DEF CloseMailed, ConnStays
  <2>2. ASSUME NEW t \in Scenes, NEW g \in Gates, NEW f \in Epochs, scene'[t].drop = f
        PROVE  CloseMailed(g, f)'
    <3>1. t # s /\ scene[t].drop = f
      BY <1>3, <2>2, EpochInts
    <3> QED
      BY <2>1, <3>1 DEF SessionIsHeld
  <2>3. ASSUME NEW g \in Gates, NEW f \in Epochs, conn'[g].id = f
        PROVE  (Member(f) \/ player[f].st = "crashed" \/ CloseMailed(g, f))'
    <3>1. conn[g].id = f
      BY <1>4, <2>3 DEF ConnStays
    <3>2. Member(f) \/ player[f].st = "crashed" \/ CloseMailed(g, f)
      BY <3>1 DEF SessionIsHeld
    <3>3. CASE Member(f) /\ player[f].scene # s
      <4>1. player[f].scene \in Scenes /\ player'[f].st # "none" /\ player'[f].scene = player[f].scene
        BY <1>2, <3>3 DEF Member, PlayersFit, PlayerFits, Known, Evolves
      <4> QED
        BY <1>3, <3>3, <4>1 DEF Member
    <3>4. CASE Member(f) /\ player[f].scene = s
      <4>1. Alive(f) \/ player[f].st = "crashed" \/ CloseMailed(g, f)
        BY <3>1, <3>4 DEF Member
      <4>2. Alive(f) => player'[f].st = "crashed"
        <5>1. Alive(f) => player'[f] = Crashed(player[f])
          BY <1>2, <3>4 DEF Alive
        <5> QED
          BY <5>1, Types DEF Crashed, PlayerState
      <4> QED
        BY <1>2, <2>1, <4>1, <4>2 DEF Evolves
    <3> QED
      BY <1>2, <2>1, <3>2, <3>3, <3>4 DEF Evolves
  <2> QED
    BY <2>2, <2>3 DEF SessionIsHeld
<1> QED
  BY <1>8, <1>9, <1>10, <1>11, <1>12, <1>13, <1>14, <1>15, <1>16, <1>17

(* A Scene that exits in a stop keeps the invariant. *)
LEMMA SceneStopExitsInv == ASSUME SessionInv, NEW s \in Scenes, SceneStopExits(s) PROVE SessionInv'
<1>1. TypeOK'
  BY SceneStepsType DEF SceneSteps, SessionInv
<1>2. SceneExits(s) /\ scene[s].drop # None /\ player[scene[s].drop].st = "crashed"
  BY DEF SceneStopExits
<1>3. scene[s].drop = scene[s].member
  BY <1>2 DEF SessionInv, MembersFit
<1> QED
  BY <1>1, <1>2, <1>3, SceneExitsInv

(* A restart of a Scene keeps the invariant. *)
LEMMA SceneRestartsInv == ASSUME SessionInv, NEW s \in Scenes, SceneRestarts(s) PROVE SessionInv'
<1> USE DEF SessionInv
<1>1. TypeOK'
  BY SceneStepsType DEF SceneSteps
<1>2. UNCHANGED <<nextEpoch, owner, job, calls, conn, mail, player, contact, toWorld, fromWorld, db,
                  acked, crossings>>
  BY DEF SceneRestarts, registry, gateVars, world, history
<1>3. \A t \in Scenes : /\ scene'[t].member = scene[t].member /\ scene'[t].drop = scene[t].drop
                        /\ scene'[t].caller = scene[t].caller
                        /\ scene'[t].st = scene[t].st \/ scene'[t].st = "up"
  BY Types DEF SceneRestarts, SceneState
<1>4. EpochsAreNew' /\ EpochsCounted' /\ JobFits' /\ PlayersFit' /\ OwnerFits' /\ StoredIsKnown' /\ EffectsDurable'
  <2>1. EpochsAreNew' /\ EpochsCounted' /\ JobFits'
    BY <1>2 DEF EpochsAreNew, Horizon, EpochsCounted, Claimed, Handing, JobFits, IsOwner, Known
  <2>2. PlayersFit' /\ OwnerFits'
    BY <1>2 DEF PlayersFit, PlayerFits, Known, OwnerFits, Serving
  <2> QED
    BY <1>2, <2>1, <2>2 DEF StoredIsKnown, Writes, Alive, Persists, EffectsDurable
<1>5. CallsFit' /\ ConnsFit'
  BY <1>2 DEF CallsFit, InFlight, CallFits, ConnsFit, ConnFits, PreparedFrom, CutIsStored, Silent,
         Known, Serving
<1>6. \A f \in Epochs : Known(f) => player[f].scene \in Scenes
  BY DEF PlayersFit, PlayerFits
<1>7. MembersFit'
  <2>1. ASSUME NEW f \in Epochs, Alive(f)
        PROVE  scene'[player[f].scene].member = f /\ scene'[player[f].scene].st # "down"
    <3>1. player[f].scene \in Scenes /\ scene[player[f].scene].member = f /\ scene[player[f].scene].st # "down"
      BY <1>6, <2>1 DEF Alive, Known, MembersFit
    <3> QED
      BY <1>3, <3>1
  <2>2. ASSUME NEW t \in Scenes
        PROVE  /\ scene[t].member # None => player[scene[t].member].st # "none" /\ player[scene[t].member].scene = t
               /\ scene[t].drop \in {scene[t].member, None} /\ (scene[t].drop = None => scene[t].caller = "none")
               /\ scene[t].st = "down" => scene[t].member = None
               /\ scene[t].caller = "registry" =>
                    job'.stage = "leave" /\ owner'.scene = t /\ owner'.id = scene[t].drop
    BY <1>2 DEF MembersFit, Known
  <2>3. ASSUME NEW t \in Scenes
        PROVE  /\ scene'[t].member # None =>
                    player'[scene'[t].member].st # "none" /\ player'[scene'[t].member].scene = t
               /\ scene'[t].drop \in {scene'[t].member, None} /\ (scene'[t].drop = None => scene'[t].caller = "none")
               /\ scene'[t].st = "down" => scene'[t].member = None
               /\ scene'[t].caller = "registry" =>
                    job'.stage = "leave" /\ owner'.scene = t /\ owner'.id = scene'[t].drop
    BY <1>2, <1>3, <2>2
  <2>4. \A f \in Epochs : Alive(f)' => scene'[player'[f].scene].member = f /\ scene'[player'[f].scene].st # "down"
    BY <1>2, <2>1 DEF Alive
  <2> QED
    BY <2>3, <2>4 DEF MembersFit, Known
<1>8. SessionIsHeld'
  <2>1. \A f \in Epochs : Member(f) => Member(f)'
    BY <1>2, <1>3, <1>6 DEF Member, Known
  <2>2. \A g \in Gates, f \in Epochs : CloseMailed(g, f) => CloseMailed(g, f)'
    BY <1>2 DEF CloseMailed
  <2> QED
    BY <1>2, <1>3, <2>1, <2>2 DEF SessionIsHeld
<1> QED
  BY <1>1, <1>4, <1>5, <1>7, <1>8

(* The registry forgets the owner, its call and, when it exits, its mailbox. *)
LEMMA ForgetsInv ==
  ASSUME SessionInv, TypeOK', owner' = NoOwner, job' = NoJob, calls' \subseteq calls,
         \A g \in Gates : ConnStays(g) /\ (Serving(g)' => Serving(g)) /\ (conn'[g].st = "new" => conn[g].st = "new"),
         \A g \in Gates : conn'[g] = conn[g] \/ conn'[g].st \in {"leaving", "dead"},
         \A s \in Scenes : scene[s].caller # "registry",
         UNCHANGED <<nextEpoch, mail, scene, player, contact, toWorld, fromWorld, db, acked, crossings>>
  PROVE  SessionInv'
<1> USE DEF SessionInv
<1>1. (\A f \in Epochs : Evolves(f)) /\ CutsStay
  BY EvolvesAll
<1>2. NoJob.call = NoCall /\ NoJob.stage = "idle" /\ NoCall.type = "none" /\ NoOwner.id = None /\ NoOwner.gate = None
  BY DEF NoJob, NoCall, NoOwner
<1>3. EpochsAreNew'
  <2>1. Horizon <= Horizon' /\ owner'.id \in {owner.id, None}
    BY <1>2, Types DEF Horizon, JobFits, JobType
  <2> QED
    BY <1>1, <2>1, EpochsStayNew DEF ConnStays
<1>4. EpochsCounted'
  BY CountStays
<1>5. JobFits'
  BY <1>2 DEF JobFits, IsOwner
<1>6. CallsFit'
  <2>1. InFlight' \subseteq InFlight
    BY <1>2 DEF InFlight
  <2>2. \A c \in InFlight : c.gate \in Gates
    BY Types, JobRecords DEF InFlight, Call
  <2> QED
    BY <1>1, <2>1, <2>2, CallsFitStay
<1>7. ConnsFit'
  BY <1>1, ConnFitsStays DEF ConnsFit
<1>8. PlayersFit' /\ StoredIsKnown' /\ EffectsDurable'
  BY DEF PlayersFit, PlayerFits, Known, StoredIsKnown, Writes, Alive, Persists, EffectsDurable
<1>9. MembersFit'
  BY DEF MembersFit, Alive, Known
<1>10. OwnerFits'
  <2>1. \A g \in Gates : g # None
    BY SessionAssumption DEF None
  <2> QED
    BY <1>2, <2>1 DEF OwnerFits
<1>11. SessionIsHeld'
  <2>1. \A g \in Gates : conn'[g].id = conn[g].id /\ \A f \in Epochs : CloseMailed(g, f) => CloseMailed(g, f)'
    BY DEF CloseMailed, ConnStays
  <2> QED
    BY <1>1, <2>1, HeldStays
<1> QED
  BY <1>3, <1>4, <1>5, <1>6, <1>7, <1>8, <1>9, <1>10, <1>11

(* An exit of the registry, or the DOWN of an owner, keeps the invariant. *)
LEMMA RegistryEndsInv == ASSUME SessionInv, RegistryCallExits \/ RegistryDown PROVE SessionInv'
<1>1. TypeOK'
  BY RegistryEndsType DEF SessionInv
<1>2. TypeOK /\ MembersFit /\ JobFits
  BY DEF SessionInv
<1>3. NoJob.stage = "idle"
  BY DEF NoJob
<1>4. CASE RegistryCallExits
  <2>1. UNCHANGED <<nextEpoch, mail, scene, player, contact, toWorld, fromWorld, db, acked, crossings>>
    BY <1>4 DEF RegistryCallExits, world, history
  <2>2. /\ owner' = NoOwner /\ job' = NoJob /\ calls' = {} /\ scene[JobScene].st = "down"
        /\ \A g \in Gates : conn'[g] = IF Waiting(g) THEN [conn[g] EXCEPT !.st = "leaving"] ELSE conn[g]
    BY <1>4 DEF RegistryCallExits, RegistryExits
  <2>3. /\ \A g \in Gates : ConnStays(g) /\ (Serving(g)' => Serving(g)) /\ (conn'[g].st = "new" => conn[g].st = "new")
        /\ \A g \in Gates : conn'[g] = conn[g] \/ conn'[g].st \in {"leaving", "dead"}
    <3>1. PICK c : c = conn
      OBVIOUS
    <3> QED
      BY <1>2, <2>2, <3>1, ExitsEnd
  <2>4. ASSUME NEW s \in Scenes, scene[s].caller = "registry" PROVE FALSE
    <3>1. JobScene = s
      BY <1>2, <2>4, JobSceneIs DEF MembersFit
    <3> QED
      BY <1>2, <2>2, <2>4, <3>1 DEF MembersFit
  <2> QED
    BY <1>1, <2>1, <2>2, <2>3, <2>4, ForgetsInv
<1>5. CASE RegistryDown
  <2>1. UNCHANGED <<nextEpoch, job, calls, conn, mail, scene, player, contact, toWorld, fromWorld, db, acked, crossings>>
    BY <1>5 DEF RegistryDown, world, gateVars, history
  <2>2. job = NoJob /\ owner' = NoOwner
    BY <1>5 DEF RegistryDown
  <2>3. \A g \in Gates : ConnStays(g) /\ (Serving(g)' => Serving(g))
    BY <2>1 DEF ConnStays, Serving
  <2>4. \A s \in Scenes : scene[s].caller # "registry"
    BY <1>2, <1>3, <2>2 DEF MembersFit
  <2> QED
    BY <1>1, <2>1, <2>2, <2>3, <2>4, ForgetsInv
<1> QED
  BY <1>4, <1>5

-----------------------------------------------------------------------------
(* The handlers of the registry. *)

(* A step of the registry that leaves sessions, Scenes and the table alone. *)
LEMMA RegistryKeeps ==
  ASSUME SessionInv, TypeOK', EpochsCounted', JobFits', CallsFit', Horizon <= Horizon',
         \A g \in Gates : ConnStays(g) /\ (Serving(g)' => Serving(g)),
         \A s \in Scenes : scene[s].caller # "registry",
         UNCHANGED <<owner, mail, scene, player, contact, toWorld, fromWorld, db, acked>>
  PROVE  SessionInv'
<1> USE DEF SessionInv
<1>1. (\A f \in Epochs : Evolves(f)) /\ CutsStay
  BY EvolvesAll
<1>2. EpochsAreNew'
  BY <1>1, EpochsStayNew DEF ConnStays
<1>3. ConnsFit'
  BY <1>1, ConnFitsStays DEF ConnsFit
<1>4. PlayersFit' /\ StoredIsKnown' /\ EffectsDurable'
  BY DEF PlayersFit, PlayerFits, Known, StoredIsKnown, Writes, Alive, Persists, EffectsDurable
<1>5. MembersFit'
  BY DEF MembersFit, Alive, Known
<1>6. OwnerFits'
  BY <1>1, OwnerStays DEF ConnStays
<1>7. SessionIsHeld'
  <2>1. \A g \in Gates : conn'[g].id = conn[g].id /\ \A f \in Epochs : CloseMailed(g, f) => CloseMailed(g, f)'
    BY DEF CloseMailed, ConnStays
  <2> QED
    BY <1>1, <2>1, HeldStays
<1> QED
  BY <1>2, <1>3, <1>4, <1>5, <1>6, <1>7

(* Only a leave has the registry wait for a Scene's drop. *)
LEMMA NoLeave ==
  ASSUME MembersFit, job.stage # "leave"
  PROVE  \A s \in Scenes : scene[s].caller # "registry"
BY DEF MembersFit

(* A hand-over that is refused. *)
LEMMA RefusedInv ==
  ASSUME SessionInv, TypeOK', NEW st \in {"preparing", "committing"},
         job # NoJob, job.stage # "leave", job' = NoJob, conn' = Refuse(job.call.gate, st),
         UNCHANGED <<nextEpoch, owner, calls, mail, scene, player, contact, toWorld, fromWorld, db,
                     acked, crossings>>
  PROVE  SessionInv'
<1> USE DEF SessionInv
<1>1. NoJob.call = NoCall /\ NoJob.stage = "idle" /\ NoCall.type = "none"
  BY DEF NoJob, NoCall
<1>2. job.call \in InFlight /\ job.call \in Call /\ job.call.gate \in Gates
  BY JobInFlight DEF Call
<1>3. PICK h \in Gates : h = job.call.gate
  BY <1>2
<1>4. /\ \A g \in Gates : ConnStays(g) /\ (g # h => conn'[g] = conn[g])
      /\ \A g \in Gates : (conn'[g].st = "new" => conn[g].st = "new") /\ (Serving(g)' => Serving(g))
  BY <1>3, RefuseStays
<1>5. EpochsCounted'
  BY <1>4, CountStays
<1>6. JobFits' /\ Horizon <= Horizon'
  BY <1>1, Types DEF JobFits, Horizon, JobType
<1>7. CallsFit'
  <2>1. InFlight' \subseteq calls /\ InFlight' \subseteq InFlight
    BY <1>1 DEF InFlight
  <2>2. \A c \in calls : c.gate \in Gates /\ c.gate # h
    BY <1>3, Types DEF CallsFit, Call
  <2>3. (\A f \in Epochs : Evolves(f)) /\ CutsStay
    BY EvolvesAll
  <2>4. \A c \in InFlight' : conn'[c.gate] = conn[c.gate]
    BY <1>4, <2>1, <2>2
  <2> QED
    BY <2>1, <2>3, <2>4, CallsFitStay
<1> QED
  BY <1>4, <1>5, <1>6, <1>7, NoLeave, RegistryKeeps

(* Taking a call keeps the invariant. *)
LEMMA RegistryTakesInv == ASSUME SessionInv, NEW c \in calls, RegistryTakes(c) PROVE SessionInv'
<1> USE DEF SessionInv
<1>1. EpochsCounted'
  BY RegistryTakesCounts
<1>2. UNCHANGED <<owner, mail, scene, player, contact, toWorld, fromWorld, db, acked, crossings>>
      /\ job = NoJob /\ calls' = calls \ {c}
  BY DEF RegistryTakes, world, history
<1>3. nextEpoch' \in 1..(Cardinality(Gates) + MaxCrossings + 1) /\ nextEpoch \in Nat /\ nextEpoch > 0
  <2>1. nextEpoch \in Nat /\ nextEpoch > 0 /\ nextEpoch' \in {nextEpoch, nextEpoch + 1}
    BY Types, BoundType DEF RegistryTakes
  <2>2. crossings' \in 0..MaxCrossings
    BY <1>2, Types
  <2> QED
    BY <1>1, <2>1, <2>2, CountedPrimed, BoundType DEF EpochsCounted
<1>4. TypeOK'
  BY <1>3, RegistryTakesType
<1>5. NoJob.call = NoCall /\ NoJob.stage = "idle" /\ NoCall.type = "none"
  BY DEF NoJob, NoCall
<1>6. c \in Call /\ c \in InFlight /\ c.type \in {"claim", "prepare", "commit"} /\ c.gate \in Gates
  BY Types DEF Call, InFlight
<1>7. \A s \in Scenes : scene[s].caller # "registry"
  BY <1>2, <1>5, NoLeave
<1>8. CASE c.type = "claim" \/ IsOwner(c)
  <2>1. /\ nextEpoch' = IF c.type = "commit" THEN nextEpoch ELSE nextEpoch + 1
        /\ job' = [call |-> c, stage |-> FirstStage(c), epoch |-> nextEpoch]
        /\ conn' = conn
    BY <1>8 DEF RegistryTakes
  <2>2. job'.call = c /\ job'.stage = FirstStage(c) /\ job'.epoch = nextEpoch
    BY <2>1
  <2>3. /\ c.type = "claim" => FirstStage(c) \in {"join", "leave"} /\ (FirstStage(c) = "leave" => owner.id # None)
        /\ c.type = "prepare" => FirstStage(c) = "endpoint"
        /\ c.type = "commit" => FirstStage(c) = "detach"
    BY <1>6, FirstStageIs
  <2>4. job' # NoJob /\ job'.stage # "idle"
    BY <1>5, <1>6, <2>2, <2>3
  <2>5. c.type # "commit" => nextEpoch \in Epochs
    BY <1>3, <2>1, BoundType DEF Epochs
  <2>6. JobFits'
    BY <1>2, <1>6, <1>8, <2>1, <2>2, <2>3, <2>4, <2>5 DEF JobFits, IsOwner
  <2>7. Horizon' = Horizon /\ Horizon <= Horizon'
    BY <1>2, <1>3, <1>5, <1>6, <2>1, <2>2 DEF Horizon
  <2>8. CallsFit'
    <3>1. InFlight' = InFlight
      BY <1>2, <1>5, <1>6, <2>2 DEF InFlight, NoCall
    <3>2. \A d \in InFlight : CallFits(d)'
      BY <1>2, <2>1 DEF CallsFit, CallFits, PreparedFrom, CutIsStored, Silent
    <3> QED
      BY <1>2, <2>2, <3>1, <3>2 DEF CallsFit
  <2>9. \A g \in Gates : ConnStays(g) /\ (Serving(g)' => Serving(g))
    BY <2>1 DEF ConnStays, Serving
  <2> QED
    BY <1>1, <1>2, <1>4, <1>7, <2>6, <2>7, <2>8, <2>9, RegistryKeeps
<1>9. CASE ~(c.type = "claim" \/ IsOwner(c))
  <2>1. conn' = Refuse(c.gate, ReplyState(c.type)) /\ UNCHANGED <<nextEpoch, job>>
    BY <1>9 DEF RegistryTakes
  <2>2. ReplyState(c.type) \in {"preparing", "committing"}
    BY <1>6, <1>9, ReplyStateIs
  <2>3. PICK h \in Gates : h = c.gate
    BY <1>6
  <2>4. /\ \A g \in Gates : ConnStays(g) /\ (g # h => conn'[g] = conn[g])
        /\ \A g \in Gates : (conn'[g].st = "new" => conn[g].st = "new") /\ (Serving(g)' => Serving(g))
    BY <2>1, <2>2, <2>3, RefuseStays
  <2>5. JobFits' /\ Horizon' = Horizon /\ Horizon <= Horizon'
    BY <1>2, <1>3, <1>5, <2>1 DEF JobFits, IsOwner, Horizon
  <2>6. CallsFit'
    <3>1. InFlight' \subseteq calls \ {c} /\ InFlight' \subseteq InFlight
      BY <1>2, <1>5, <2>1 DEF InFlight
    <3>2. \A d \in calls \ {c} : d.gate \in Gates /\ d.gate # h
      BY <2>3, Types DEF CallsFit, Call
    <3>3. (\A f \in Epochs : Evolves(f)) /\ CutsStay
      BY <1>2, EvolvesAll
    <3>4. \A d \in InFlight' : conn'[d.gate] = conn[d.gate]
      BY <2>4, <3>1, <3>2
    <3> QED
      BY <1>2, <2>1, <3>1, <3>3, <3>4, CallsFitStay
  <2> QED
    BY <1>1, <1>2, <1>4, <1>7, <2>4, <2>5, <2>6, RegistryKeeps
<1> QED
  BY <1>8, <1>9

(* The endpoint stage of prepare_transfer keeps the invariant. *)
LEMMA PrepareEndpointInv == ASSUME SessionInv, PrepareEndpoint PROVE SessionInv'
<1> USE DEF SessionInv
<1>1. TypeOK'
  BY PrepareEndpointType
<1>2. UNCHANGED <<nextEpoch, owner, calls, mail, scene, player, contact, toWorld, fromWorld, db, acked, crossings>>
      /\ job.stage = "endpoint" /\ job # NoJob
  BY DEF PrepareEndpoint, JobFits, world, history
<1>3. CASE job' = NoJob /\ conn' = Refuse(job.call.gate, "preparing")
  BY <1>1, <1>2, <1>3, RefusedInv
<1>4. CASE job' = [job EXCEPT !.stage = "prepare"] /\ conn' = conn
  <2>1. job'.stage = "prepare" /\ job'.call = job.call /\ job'.epoch = job.epoch
    BY <1>4, Types DEF JobType
  <2>2. JobFits'
    <3>1. NoJob.stage = "idle"
      BY DEF NoJob
    <3> QED
      BY <1>2, <2>1, <3>1 DEF JobFits, IsOwner
  <2>3. Horizon' = Horizon /\ Horizon <= Horizon'
    BY <1>2, <2>1, Types DEF Horizon, JobType
  <2>4. EpochsCounted'
    BY <1>2, <1>4, CountStays
  <2>5. CallsFit'
    <3>1. InFlight' = InFlight
      BY <1>2, <2>1 DEF InFlight
    <3>2. \A d \in InFlight : CallFits(d)'
      BY <1>2, <1>4 DEF CallsFit, CallFits, PreparedFrom, CutIsStored, Silent
    <3> QED
      BY <1>2, <2>1, <3>1, <3>2 DEF CallsFit
  <2>6. \A g \in Gates : ConnStays(g) /\ (Serving(g)' => Serving(g))
    BY <1>4 DEF ConnStays, Serving
  <2> QED
    BY <1>1, <1>2, <2>2, <2>3, <2>4, <2>5, <2>6, NoLeave, RegistryKeeps
<1> QED
  BY <1>3, <1>4 DEF PrepareEndpoint

(* The call of the registry ends; what it says of other connections stays. *)
LEMMA JobEndsCalls ==
  ASSUME TypeOK, JobFits, CallsFit, job # NoJob, job' = NoJob, calls' = calls, CutsStay,
         \A g \in Gates : g # job.call.gate => conn'[g] = conn[g],
         \A e \in Epochs : Known(e) /\ player[e].gate # job.call.gate => Evolves(e)
  PROVE  CallsFit'
<1>1. InFlight' \subseteq calls
  BY DEF InFlight, NoJob
<1>2. \A c \in calls : c \in InFlight /\ c \in Call /\ c.gate \in Gates /\ c.gate # job.call.gate
  BY Types DEF CallsFit, InFlight, Call
<1>3. \A c \in InFlight' : CallFits(c)'
  <2> SUFFICES ASSUME NEW c \in calls PROVE CallFits(c)'
    BY <1>1
  <2>1. c \in Call /\ CallFits(c) /\ conn'[c.gate] = conn[c.gate] /\ c.gate # job.call.gate
    BY <1>2 DEF CallsFit
  <2> QED
    BY <2>1, CallFitsStays
<1> QED
  BY <1>3 DEF CallsFit

(* A connection whose sessions are not those of the call. *)
LEMMA OtherConn ==
  ASSUME TypeOK, TypeOK', ConnsFit, CutsStay, NEW g \in Gates, NEW e \in Epochs, conn'[g] = conn[g],
         conn[g].id # e, conn[g].pending # e,
         \A f \in Epochs \ {e} : Evolves(f)
  PROVE  ConnFits(g)'
<1>1. ConnStays(g)
  BY DEF ConnStays
<1>2. ConnFits(g) /\ \A f \in Epochs : conn[g].id = f \/ conn[g].pending = f => Evolves(f)
  BY DEF ConnsFit
<1> QED
  BY <1>1, <1>2, ConnFitsStays

(* A Scene takes a new Player. *)
LEMMA NewMember ==
  ASSUME SessionInv, NEW s \in Scenes, NEW e \in Epochs, NEW p, ~Known(e), Idle(s),
         scene[s].st = "up", scene[s].member = None, job.stage # "leave",
         player' = [player EXCEPT ![e] = p], p.st # "none", p.scene = s,
         scene' = [scene EXCEPT ![s].member = e]
  PROVE  /\ MembersFit' /\ Member(e)' /\ player'[e] = p
         /\ \A f \in Epochs \ {e} : player'[f] = player[f] /\ Evolves(f) /\ (Member(f) => Member(f)')
         /\ \A t \in Scenes : scene'[t].drop = scene[t].drop /\ scene[t].drop # e
<1> USE DEF SessionInv
<1>1. player'[e] = p /\ \A f \in Epochs \ {e} : player'[f] = player[f]
  BY Types
<1>2. /\ \A t \in Scenes \ {s} : scene'[t] = scene[t]
      /\ scene'[s].member = e /\ scene'[s].drop = None /\ scene'[s].st = "up"
      /\ scene'[s].caller = "none" /\ scene[s].drop = None
  BY Types DEF SceneState, Idle, MembersFit
<1>3. \A t \in Scenes : scene[t].member \in Session /\ scene[t].member # e /\ scene[t].drop # e
  BY Types, EpochInts DEF SceneState, MembersFit
<1>4. \A f \in Epochs : Known(f) => player[f].scene \in Scenes
  BY DEF PlayersFit, PlayerFits
<1>5. \A f \in Epochs \ {e} : Member(f) => Member(f)'
  BY <1>1, <1>2, <1>4, EpochInts DEF Member, Known
<1>6. Member(e)'
  BY <1>1, <1>2 DEF Member
<1>7. \A f \in Epochs \ {e} : Evolves(f)
  BY <1>1, SameEvolves
<1>8. \A f \in Epochs : Alive(f)' => scene'[player'[f].scene].member = f /\ scene'[player'[f].scene].st # "down"
  <2>1. ASSUME NEW f \in Epochs \ {e}, Alive(f)
        PROVE  scene'[player[f].scene].member = f /\ scene'[player[f].scene].st # "down"
    <3>1. player[f].scene \in Scenes /\ scene[player[f].scene].member = f /\ scene[player[f].scene].st # "down"
      BY <1>4, <2>1 DEF Alive, Known, MembersFit
    <3> QED
      BY <1>2, <3>1, EpochInts
  <2> QED
    BY <1>1, <1>2, <2>1 DEF Alive
<1>9. ASSUME NEW t \in Scenes
      PROVE  /\ scene'[t].member # None =>
                  player'[scene'[t].member].st # "none" /\ player'[scene'[t].member].scene = t
             /\ scene'[t].drop \in {scene'[t].member, None} /\ (scene'[t].drop = None => scene'[t].caller = "none")
             /\ scene'[t].st = "down" => scene'[t].member = None
             /\ scene'[t].caller # "registry"
  <2>1. CASE t = s
    BY <1>1, <1>2, <2>1
  <2>2. CASE t # s
    <3>1. /\ scene[t].member # None => player[scene[t].member].st # "none" /\ player[scene[t].member].scene = t
          /\ scene[t].drop \in {scene[t].member, None} /\ (scene[t].drop = None => scene[t].caller = "none")
          /\ scene[t].st = "down" => scene[t].member = None
          /\ scene[t].caller # "registry"
      BY DEF MembersFit, Known
    <3>2. scene'[t] = scene[t] /\ scene[t].member \in Session /\ scene[t].member # e
      BY <1>2, <1>3, <2>2
    <3> QED
      BY <1>1, <3>1, <3>2 DEF Session
  <2> QED
    BY <2>1, <2>2
<1>10. MembersFit'
  BY <1>8, <1>9 DEF MembersFit, Known
<1> QED
  BY <1>1, <1>2, <1>3, <1>5, <1>6, <1>7, <1>10

(* Sessions are numbers. *)
LEMMA SessionInts ==
  ASSUME TypeOK
  PROVE  /\ owner.id \in Session /\ db.epoch \in Session /\ Session \subseteq Nat
         /\ owner.id \in Nat /\ db.epoch \in Nat /\ \A g \in Gates : conn[g].id \in Nat
<1>1. Session \subseteq Nat
  BY EpochInts DEF Session, None
<1>2. owner.id \in Session /\ db.epoch \in Session
  BY Types DEF OwnerType
<1>3. \A g \in Gates : conn[g].id \in Session
  BY Types DEF Connection
<1> QED
  BY <1>1, <1>2, <1>3

(* The epoch of a call is of no session before it ends. *)
LEMMA NewEpoch ==
  ASSUME SessionInv, job.call.type \in {"claim", "prepare"}
  PROVE  /\ job.epoch \in Epochs /\ ~Known(job.epoch) /\ nextEpoch = job.epoch + 1 /\ Horizon = job.epoch
         /\ db.epoch < job.epoch /\ owner.id < job.epoch
         /\ \A g \in Gates : conn[g].id < job.epoch /\ conn[g].pending # job.epoch
         /\ \A e \in Epochs : Known(e) => e < job.epoch
         /\ db.epoch # job.epoch /\ owner.id # job.epoch /\ db.epoch < job.epoch + 1 /\ owner.id < job.epoch + 1
         /\ \A g \in Gates : conn[g].id # job.epoch /\ conn[g].id < job.epoch + 1
<1> USE DEF SessionInv
<1>1. job.epoch \in Epochs /\ nextEpoch = job.epoch + 1 /\ Horizon = job.epoch
  BY DEF JobFits, Horizon
<1>2. /\ db.epoch < job.epoch /\ owner.id < job.epoch
      /\ \A g \in Gates : conn[g].id < job.epoch
      /\ \A e \in Epochs : Known(e) => e < job.epoch
  BY <1>1 DEF EpochsAreNew
<1>3. ~Known(job.epoch)
  <2>1. ASSUME NEW e \in Epochs, e = job.epoch, Known(e) PROVE FALSE
    <3>1. e < e /\ e \in Nat
      BY <1>2, <2>1, EpochInts
    <3> QED
      BY <3>1
  <2> QED
    BY <1>1, <2>1 DEF Known
<1>4. ASSUME NEW g \in Gates PROVE conn[g].pending # job.epoch
  <2>1. conn[g].pending # None => conn[g].id \in Epochs
    BY Types, ConnRecords DEF ConnsFit, ConnFits, Session
  <2>2. conn[g].pending \in Epochs => Known(conn[g].pending)
    BY <2>1, EpochInts DEF ConnsFit, ConnFits
  <2> QED
    BY <1>1, <1>3, <2>2
<1>5. /\ db.epoch # job.epoch /\ owner.id # job.epoch /\ db.epoch < job.epoch + 1 /\ owner.id < job.epoch + 1
      /\ \A g \in Gates : conn[g].id # job.epoch /\ conn[g].id < job.epoch + 1
  <2>1. job.epoch \in Nat
    BY <1>1, EpochInts
  <2> QED
    BY <1>2, <2>1, SessionInts
<1> QED
  BY <1>1, <1>2, <1>3, <1>4, <1>5

(* The reply to the connection of the call. *)
LEMMA ReplyIs ==
  ASSUME TypeOK, NEW g \in Gates, NEW st, NEW r, conn' = ReplyTo(g, st, r)
  PROVE  /\ \A h \in Gates \ {g} : conn'[h] = conn[h]
         /\ conn'[g] = IF conn[g].st = st THEN r ELSE conn[g]
BY Types DEF ReplyTo

(* The join of a claim keeps the invariant: the new session takes the       *)
(* stored body. *)
LEMMA ClaimJoinsInv == ASSUME SessionInv, ClaimJoins PROVE SessionInv'
<1> USE DEF SessionInv
<1>0. TypeOK'
  BY ClaimJoinsType
<1>1. UNCHANGED <<nextEpoch, calls, contact, toWorld, fromWorld, acked, crossings>> /\ job' = NoJob /\ job.stage = "join"
  BY DEF ClaimJoins, world, history
<1>2. job # NoJob /\ job.call.type = "claim" /\ job.call \in InFlight
  <2>1. job # NoJob /\ job.call.type = "claim"
    BY <1>1 DEF JobFits
  <2> QED
    BY <2>1, JobInFlight
<1>3. PICK e \in Epochs : e = job.epoch
  BY <1>2, NewEpoch
<1>4. PICK h \in Gates : h = job.call.gate
  BY <1>2, JobInFlight DEF Call
<1>5. PICK s \in Scenes : s = job.call.scene
  BY <1>2 DEF CallsFit, CallFits
<1>6. /\ ~Known(e) /\ nextEpoch = e + 1 /\ Horizon = e /\ db.epoch < e /\ owner.id < e
      /\ \A g \in Gates : conn[g].id < e /\ conn[g].pending # e
      /\ \A f \in Epochs : Known(f) => f < e
      /\ e \in Int /\ e # None /\ h # None
  BY <1>2, <1>3, NewEpoch, EpochInts, SessionAssumption DEF None
<1>7. /\ owner' = [gate |-> h, id |-> e, scene |-> s] /\ Idle(s)
      /\ conn' = ReplyTo(h, "claiming", [conn[h] EXCEPT !.st = "open", !.id = e])
  BY <1>3, <1>4, <1>5 DEF ClaimJoins
<1>8. PICK r \in Connection : r = [conn[h] EXCEPT !.st = "open", !.id = e]
  <2>1. conn[h] \in Connection /\ e \in Session
    BY Types DEF Session
  <2> QED
    BY <2>1, ConnRecords
<1>9. r.st = "open" /\ r.id = e /\ r.pending = conn[h].pending
  BY <1>8, Types DEF Connection
<1>10. /\ \A g \in Gates \ {h} : conn'[g] = conn[g]
       /\ conn'[h] = IF conn[h].st = "claiming" THEN r ELSE conn[h]
  BY <1>7, <1>8, ReplyIs
<1>11. conn[h].st \in {"claiming", "leaving", "dead"} /\ (conn[h].st = "claiming" => conn[h].pending = None)
  <2>1. conn[h].st \in {ReplyState("claim"), "leaving", "dead"}
    BY <1>2, <1>4 DEF CallsFit, CallFits
  <2> QED
    BY <2>1, ReplyStateIs DEF ConnsFit, ConnFits
<1>12. PICK p : p = [NoPlayer EXCEPT !.st = "live", !.scene = s, !.gate = h, !.owned = TRUE,
                                     !.body = StoredBody, !.watch = TRUE]
  OBVIOUS
<1>13. /\ p.st = "live" /\ p.scene = s /\ p.gate = h /\ p.owned /\ p.body = db.body
       /\ p.fence = "none" /\ ~p.anchored /\ ~p.ready
  BY <1>12 DEF NoPlayer, StoredBody
<1>14. \/ /\ scene[s].st = "up" /\ scene[s].member = None
          /\ player' = [player EXCEPT ![e] = p] /\ db' = [db EXCEPT !.epoch = e]
          /\ scene' = [scene EXCEPT ![s].member = e] /\ mail' = mail
       \/ mail' = Post(mail, h, Close(e)) /\ UNCHANGED <<player, db, scene>>
  BY <1>3, <1>4, <1>5, <1>12 DEF ClaimJoins
<1>15. /\ \A f \in Epochs \ {e} : player'[f] = player[f] /\ Evolves(f) /\ (Member(f) => Member(f)')
       /\ \A t \in Scenes : scene'[t].drop = scene[t].drop /\ scene[t].drop # e
       /\ MembersFit'
       /\ \/ Member(e)' /\ player'[e] = p /\ db' = [db EXCEPT !.epoch = e]
          \/ /\ UNCHANGED <<player, db>> /\ Evolves(e)
             /\ conn[h].st = "claiming" => Close(e) \in mail'[h]
  <2>1. CASE mail' = Post(mail, h, Close(e)) /\ UNCHANGED <<player, db, scene>>
    <3>1. \A f \in Epochs : Evolves(f) /\ (Member(f) => Member(f)')
      BY <2>1, EvolvesAll DEF Member
    <3>2. \A t \in Scenes : scene[t].drop # e
      BY <1>6, Types DEF MembersFit, SceneState
    <3>3. MembersFit'
      BY <1>1, <2>1 DEF MembersFit, Alive, Known
    <3>4. conn[h].st = "claiming" => Close(e) \in mail'[h]
      BY <1>6, <2>1, Types DEF Post
    <3> QED
      BY <2>1, <3>1, <3>2, <3>3, <3>4
  <2>2. CASE /\ scene[s].st = "up" /\ scene[s].member = None
             /\ player' = [player EXCEPT ![e] = p] /\ db' = [db EXCEPT !.epoch = e]
             /\ scene' = [scene EXCEPT ![s].member = e] /\ mail' = mail
    <3>1. job.stage # "leave" /\ p.st # "none"
      BY <1>1, <1>13
    <3>2. /\ MembersFit' /\ Member(e)' /\ player'[e] = p
          /\ \A f \in Epochs \ {e} : player'[f] = player[f] /\ Evolves(f) /\ (Member(f) => Member(f)')
          /\ \A t \in Scenes : scene'[t].drop = scene[t].drop /\ scene[t].drop # e
      BY <1>6, <1>7, <1>13, <2>2, <3>1, NewMember
    <3> QED
      BY <2>2, <3>2
  <2> QED
    BY <1>14, <2>1, <2>2
<1>16. \A g \in Gates : mail[g] \subseteq mail'[g]
  BY <1>14, PostKeeps, Types, CloseType
<1>17. db'.body = db.body /\ db'.epoch \in {db.epoch, e}
       /\ (db'.epoch = e => player'[e] = p) /\ (player'[e] = p => db'.epoch = e)
  BY <1>6, <1>13, <1>15, Types DEF Known
<1>18. CutsStay
  BY <1>6, <1>15, Types DEF CutsStay, Silent, Known
<1>19. NoJob.call = NoCall /\ NoJob.stage = "idle" /\ NoCall.type = "none"
  BY DEF NoJob, NoCall
<1>20. EpochsAreNew'
  <2>1. Horizon' = e + 1
    BY <1>1, <1>6, <1>19 DEF Horizon
  <2>2. \A f \in Epochs : Known(f)' => f < e + 1
    BY <1>6, <1>15, EpochInts DEF Known
  <2>3. db'.epoch < e + 1 /\ owner'.id < e + 1
    BY <1>6, <1>7, <1>17, Types, EpochInts DEF Session, OwnerType, None
  <2>4. \A g \in Gates : conn'[g].id < e + 1
    <3>1. ASSUME NEW g \in Gates PROVE conn[g].id \in Int
      <4>1. conn[g] \in Connection
        BY Types
      <4>2. conn[g].id \in Epochs \cup {0}
        BY <4>1 DEF Connection, Session, None
      <4>3. \A x \in Epochs \cup {0} : x \in Int
        BY EpochInts
      <4> QED
        BY <4>2, <4>3, Zenon
    <3> QED
      BY <1>6, <1>9, <1>10, <3>1
  <2> QED
    BY <2>1, <2>2, <2>3, <2>4 DEF EpochsAreNew
<1>21. EpochsCounted'
  <2>1. \A f \in Epochs : player'[f].st = "requested" => player[f].st = "requested"
    BY <1>13, <1>15
  <2>2. \A g \in Gates : conn'[g].st = "new" => conn[g].st = "new"
    BY <1>9, <1>10
  <2> QED
    BY <1>1, <2>1, <2>2, CountStays
<1>22. JobFits'
  BY <1>1, <1>19 DEF JobFits
<1>23. CallsFit'
  <2>1. \A f \in Epochs : Known(f) => Evolves(f)
    BY <1>6, <1>15
  <2>2. \A g \in Gates : g # job.call.gate => conn'[g] = conn[g]
    BY <1>4, <1>10
  <2> QED
    BY <1>1, <1>2, <1>18, <2>1, <2>2, JobEndsCalls
<1>24. ConnsFit'
  <2>1. ASSUME NEW g \in Gates, conn'[g] = conn[g] PROVE ConnFits(g)'
    BY <1>0, <1>6, <1>15, <1>18, <2>1, OtherConn
  <2>2. ASSUME conn[h].st = "claiming" PROVE ConnFits(h)'
    <3>1. conn'[h].st = "open" /\ conn'[h].id = e /\ conn'[h].pending = None
      BY <1>9, <1>10, <1>11, <2>2
    <3>2. Known(e)' => player'[e].gate = h
      BY <1>6, <1>13, <1>15 DEF Known
    <3> QED
      BY <1>6, <3>1, <3>2, EpochInts DEF ConnFits
  <2> QED
    BY <1>10, <2>1, <2>2 DEF ConnsFit
<1>25. PlayersFit'
  <2>1. PlayerFits(e)'
    <3>1. CASE player'[e] = p
      BY <1>13, <3>1 DEF PlayerFits, Known
    <3>2. CASE player'[e] = player[e]
      BY <1>1, <3>2 DEF PlayersFit, PlayerFits, Known
    <3> QED
      BY <1>15, <3>1, <3>2
  <2> QED
    BY <1>1, <1>15, <2>1, OthersFit
<1>26. OwnerFits'
  <2>1. owner' # NoOwner /\ owner'.id = e /\ owner'.gate = h /\ owner'.scene = s
    BY <1>6, <1>7 DEF NoOwner
  <2>2. Known(e)' => db'.epoch = e /\ player'[e].scene = s /\ player'[e].gate = h
    BY <1>6, <1>13, <1>15, <1>17 DEF Known
  <2>3. Serving(h)' => conn'[h].id = e
    BY <1>9, <1>10, <1>11 DEF Serving
  <2> QED
    BY <1>6, <2>1, <2>2, <2>3 DEF OwnerFits
<1>27. StoredIsKnown' /\ EffectsDurable'
  <2>1. CASE player'[e] = p
    BY <1>1, <1>6, <1>13, <1>17, <2>1 DEF StoredIsKnown, EffectsDurable, Writes
  <2>2. CASE UNCHANGED <<player, db>>
    BY <1>1, <2>2 DEF StoredIsKnown, EffectsDurable, Writes, Alive, Persists
  <2> QED
    BY <1>15, <2>1, <2>2
<1>28. SessionIsHeld'
  <2>1. \A g \in Gates, f \in Epochs \ {e} : CloseMailed(g, f) => CloseMailed(g, f)'
    BY <1>9, <1>10, <1>16 DEF CloseMailed
  <2>2. \A t \in Scenes, g \in Gates, f \in Epochs : scene'[t].drop = f => CloseMailed(g, f)'
    BY <1>15, <2>1 DEF SessionIsHeld
  <2>3. ASSUME NEW g \in Gates, NEW f \in Epochs, conn'[g].id = f
        PROVE  (Member(f) \/ player[f].st = "crashed" \/ CloseMailed(g, f))'
    <3>1. CASE f = e
      <4>1. g = h /\ conn[h].st = "claiming"
        BY <1>6, <1>10, <2>3, <3>1, EpochInts
      <4> QED
        BY <1>15, <3>1, <4>1 DEF CloseMailed
    <3>2. CASE f # e
      <4>1. conn[g].id = f
        BY <1>9, <1>10, <2>3, <3>2
      <4> QED
        BY <1>15, <2>1, <3>2, <4>1 DEF SessionIsHeld
    <3> QED
      BY <3>1, <3>2
  <2> QED
    BY <2>2, <2>3 DEF SessionIsHeld
<1> QED
  BY <1>0, <1>15, <1>20, <1>21, <1>22, <1>23, <1>24, <1>25, <1>26, <1>27, <1>28

(* The import of a cut keeps the invariant: the prepared Player holds       *)
(* what is stored. *)
LEMMA PrepareImportsInv == ASSUME SessionInv, PrepareImports PROVE SessionInv'
<1> USE DEF SessionInv
<1>0. TypeOK'
  BY PrepareImportsType
<1>1. /\ UNCHANGED <<nextEpoch, owner, calls, mail, contact, toWorld, fromWorld, db, acked, crossings>>
      /\ job' = NoJob /\ job.stage = "prepare"
  BY DEF PrepareImports, world, history
<1>2. job # NoJob /\ job.call.type = "prepare" /\ job.call \in InFlight /\ job.call \in Call
  <2>1. job # NoJob /\ job.call.type = "prepare"
    BY <1>1 DEF JobFits
  <2> QED
    BY <2>1, JobInFlight
<1>3. PICK e \in Epochs : e = job.epoch
  BY <1>2, NewEpoch
<1>4. PICK h \in Gates : h = job.call.gate
  BY <1>2, JobInFlight DEF Call
<1>5. PICK s \in Scenes : s = job.call.scene
  BY <1>2 DEF CallsFit, CallFits
<1>6. /\ ~Known(e) /\ nextEpoch = e + 1 /\ Horizon = e /\ db.epoch < e /\ owner.id < e
      /\ \A g \in Gates : conn[g].id < e /\ conn[g].pending # e
      /\ db.epoch # e /\ owner.id # e /\ db.epoch < e + 1 /\ owner.id < e + 1
      /\ \A g \in Gates : conn[g].id # e /\ conn[g].id < e + 1
      /\ \A f \in Epochs : Known(f) => f < e
      /\ e \in Int /\ e # None /\ h # None
  BY <1>2, <1>3, NewEpoch, EpochInts, SessionAssumption DEF None
<1>7. CASE conn' = Refuse(h, "preparing") /\ UNCHANGED <<player, scene>>
  <2>1. conn' = Refuse(job.call.gate, "preparing")
    BY <1>4, <1>7
  <2> QED
    BY <1>0, <1>1, <1>2, <1>7, <2>1, RefusedInv
<1>8. CASE /\ scene[s].st = "up" /\ scene[s].member = None
           /\ player' = [player EXCEPT ![e] =
                [NoPlayer EXCEPT !.st = "prepared", !.scene = s, !.gate = h, !.anchored = TRUE,
                                 !.ready = TRUE, !.body = job.call.body, !.watch = TRUE]]
           /\ scene' = [scene EXCEPT ![s].member = e]
           /\ conn' = ReplyTo(h, "preparing", [conn[h] EXCEPT !.st = "open", !.pending = e])
  <2>1. PICK r \in Connection : r = [conn[h] EXCEPT !.st = "open", !.pending = e]
    <3>1. conn[h] \in Connection /\ e \in Session
      BY Types DEF Session
    <3> QED
      BY <3>1, ConnRecords
  <2>2. r.st = "open" /\ r.id = conn[h].id /\ r.pending = e /\ r.closing = conn[h].closing
    BY <2>1, Types DEF Connection
  <2>3. /\ \A g \in Gates \ {h} : conn'[g] = conn[g]
        /\ conn'[h] = IF conn[h].st = "preparing" THEN r ELSE conn[h]
    BY <1>8, <2>1, ReplyIs
  <2>4. PICK p : p = [NoPlayer EXCEPT !.st = "prepared", !.scene = s, !.gate = h, !.anchored = TRUE,
                                      !.ready = TRUE, !.body = job.call.body, !.watch = TRUE]
    OBVIOUS
  <2>5. /\ p.st = "prepared" /\ p.scene = s /\ p.gate = h /\ ~p.owned /\ p.body = job.call.body
        /\ p.fence = "none" /\ p.anchored
    BY <2>4 DEF NoPlayer
  <2>6. /\ player' = [player EXCEPT ![e] = p] /\ scene' = [scene EXCEPT ![s].member = e]
        /\ p.st # "none" /\ job.stage # "leave" /\ Idle(s)
    BY <1>1, <1>5, <1>8, <2>4, <2>5 DEF PrepareImports
  <2>7. /\ MembersFit' /\ Member(e)' /\ player'[e] = p
        /\ \A f \in Epochs \ {e} : player'[f] = player[f] /\ Evolves(f) /\ (Member(f) => Member(f)')
        /\ \A t \in Scenes : scene'[t].drop = scene[t].drop /\ scene[t].drop # e
    BY <1>6, <1>8, <2>5, <2>6, NewMember
  <2>8. CutsStay
    BY <1>1 DEF CutsStay
  <2>9. NoJob.call = NoCall /\ NoJob.stage = "idle" /\ NoCall.type = "none"
    BY DEF NoJob, NoCall
  <2>10. \A g \in Gates : conn'[g].id = conn[g].id
    BY <2>2, <2>3
  <2>11. EpochsAreNew'
    <3>1. Horizon' = e + 1
      BY <1>1, <1>6, <2>9 DEF Horizon
    <3>2. \A f \in Epochs : Known(f)' => f < e + 1
      BY <1>6, <2>7, EpochInts DEF Known
    <3>3. db'.epoch < e + 1 /\ owner'.id < e + 1
      BY <1>1, <1>6
    <3>4. \A g \in Gates : conn'[g].id < e + 1
      BY <1>6, <2>10
    <3> QED
      BY <3>1, <3>2, <3>3, <3>4 DEF EpochsAreNew
  <2>12. EpochsCounted'
    <3>1. \A f \in Epochs : player'[f].st = "requested" => player[f].st = "requested"
      BY <2>5, <2>7
    <3>2. \A g \in Gates : conn'[g].st = "new" => conn[g].st = "new"
      BY <2>2, <2>3
    <3> QED
      BY <1>1, <3>1, <3>2, CountStays
  <2>13. JobFits'
    BY <1>1, <2>9 DEF JobFits
  <2>14. CallsFit'
    <3>1. \A f \in Epochs : Known(f) => Evolves(f)
      BY <1>6, <2>7
    <3>2. \A g \in Gates : g # job.call.gate => conn'[g] = conn[g]
      BY <1>4, <2>3
    <3> QED
      BY <1>1, <1>2, <2>8, <3>1, <3>2, JobEndsCalls
  <2>15. ConnsFit'
    <3>1. ASSUME NEW g \in Gates, conn'[g] = conn[g] PROVE ConnFits(g)'
      BY <1>0, <1>6, <2>7, <2>8, <3>1, OtherConn
    <3>2. ASSUME conn[h].st = "preparing" PROVE ConnFits(h)'
      <4>1. PICK f \in Epochs : f = job.call.id
        BY <1>2 DEF CallsFit, CallFits
      <4>2. Silent(f) /\ player[f].gate = h /\ CutIsStored(f, job.call.body) /\ conn[h].id = f
        BY <1>2, <1>4, <3>2, <4>1 DEF CallsFit, CallFits
      <4>3. f < e /\ f # e
        BY <1>6, <4>2 DEF Silent, Known
      <4>4. Silent(f)' /\ player'[f].gate = h
        BY <2>7, <4>2, <4>3 DEF Silent
      <4>5. Known(e)' /\ player'[e].gate = h /\ PreparedFrom(f, e)'
        BY <1>1, <2>5, <2>7, <4>2 DEF Known, PreparedFrom, CutIsStored
      <4>6. conn'[h].st = "open" /\ conn'[h].id = f /\ conn'[h].pending = e
        BY <2>2, <2>3, <3>2, <4>2
      <4> QED
        BY <1>6, <4>3, <4>4, <4>5, <4>6, EpochInts DEF ConnFits
    <3> QED
      BY <2>3, <3>1, <3>2 DEF ConnsFit
  <2>16. PlayersFit'
    <3>1. PlayerFits(e)'
      BY <1>1, <1>6, <2>5, <2>7 DEF PlayersFit, PlayerFits, Known
    <3> QED
      BY <1>1, <2>7, <3>1, OthersFit
  <2>17. OwnerFits'
    <3>1. owner.id \in Session /\ owner.id # e
      BY <1>6, SessionInts
    <3>2. \A g \in Gates : Serving(g)' => Serving(g)
      BY <2>2, <2>3 DEF Serving
    <3>3. owner.id # None => player'[owner.id] = player[owner.id]
      BY <2>7, <3>1 DEF Session
    <3> QED
      BY <1>1, <2>10, <3>2, <3>3 DEF OwnerFits, Known
  <2>18. StoredIsKnown' /\ EffectsDurable'
    <3>1. db.epoch # None => db.epoch \in Epochs /\ player'[db.epoch] = player[db.epoch]
      BY <1>6, <2>7, SessionInts DEF Session
    <3> QED
      BY <1>1, <3>1 DEF StoredIsKnown, EffectsDurable, Writes, Alive, Persists
  <2>19. SessionIsHeld'
    <3>1. \A g \in Gates, f \in Epochs : CloseMailed(g, f) => CloseMailed(g, f)'
      BY <1>1, <2>2, <2>3 DEF CloseMailed
    <3>2. ASSUME NEW g \in Gates, NEW f \in Epochs, conn'[g].id = f
          PROVE  (Member(f) \/ player[f].st = "crashed" \/ CloseMailed(g, f))'
      <4>1. conn[g].id = f /\ f # e
        BY <1>6, <2>10, <3>2
      <4> QED
        BY <2>7, <3>1, <4>1 DEF SessionIsHeld
    <3> QED
      BY <2>7, <3>1, <3>2 DEF SessionIsHeld
  <2> QED
    BY <1>0, <2>7, <2>11, <2>12, <2>13, <2>14, <2>15, <2>16, <2>17, <2>18, <2>19
<1> QED
  BY <1>3, <1>4, <1>5, <1>7, <1>8 DEF PrepareImports

(* The registry is in a commit: its source is sealed or over, and owns the body. *)
LEMMA CommitIs ==
  ASSUME SessionInv, job.call.type = "commit", job.stage # "idle", NEW h \in Gates, h = job.call.gate,
         NEW old \in Epochs, old = job.call.id, NEW e \in Epochs, e = job.call.fresh
  PROVE  /\ job # NoJob /\ job.call \in InFlight /\ job.call \in Call
         /\ owner.id = old /\ owner.gate = h /\ owner.scene \in Scenes /\ db.epoch = old
         /\ Silent(old) /\ player[old].gate = h /\ player[old].scene = owner.scene
         /\ old < e /\ player[e].gate = h /\ PreparedFrom(old, e) /\ player[e].scene \in Scenes
         /\ conn[h].st \in {"committing", "leaving", "dead"}
         /\ conn[h].st = "committing" => conn[h].id = old /\ conn[h].pending = e
<1> USE DEF SessionInv
<1>1. job # NoJob /\ job.call \in InFlight /\ job.call \in Call
  BY JobInFlight DEF JobFits
<1>2. owner.id = old /\ owner.gate = h /\ owner.scene \in Scenes /\ owner.id # None
  BY OwnerOfJob
<1>3. /\ CallFits(job.call)
      /\ Silent(old) /\ player[old].gate = h /\ old < e /\ player[e].gate = h /\ PreparedFrom(old, e)
      /\ conn[h].st = "committing" => conn[h].id = old /\ conn[h].pending = e
  BY <1>1 DEF CallsFit, CallFits
<1>4. conn[h].st \in {"committing", "leaving", "dead"}
  <2>1. conn[h].st \in {ReplyState(job.call.type), "leaving", "dead"}
    BY <1>3 DEF CallFits
  <2> QED
    BY <2>1, ReplyStateIs
<1>5. Known(old) /\ Known(e)
  BY <1>3 DEF Silent, Known, PreparedFrom
<1>6. player[e].scene \in Scenes
  BY <1>5 DEF PlayersFit, PlayerFits
<1>7. db.epoch = old /\ player[old].scene = owner.scene
  BY <1>2, <1>5 DEF OwnerFits, Known
<1> QED
  BY <1>1, <1>2, <1>3, <1>4, <1>6, <1>7

(* The source or the target of a commit that exits its Scene: its connection  *)
(* waits for the commit or ends.                                           *)
LEMMA CommitExits ==
  ASSUME SessionInv, TypeOK', job.call.type = "commit", job.stage # "idle", NEW s \in Scenes,
         NEW f \in Epochs, f = scene[s].member, player[f].gate = job.call.gate, SceneExits(s)
  PROVE  SessionInv'
<1> USE DEF SessionInv
<1>1. PICK h \in Gates : h = job.call.gate
  BY OwnerOfJob
<1>2. PICK old \in Epochs : old = job.call.id
  BY OwnerOfJob
<1>3. PICK e \in Epochs : e = job.call.fresh
  BY JobInFlight DEF CallsFit, CallFits, JobFits
<1>4. conn[h].st \in {"committing", "leaving", "dead"}
  BY <1>1, <1>2, <1>3, CommitIs
<1>5. Known(f) /\ f # None
  BY EpochInts DEF MembersFit
<1>6. \A g \in Gates : conn[g].id = f => CloseMailed(g, f)
  BY <1>1, <1>4, <1>5 DEF ConnsFit, ConnFits, CloseMailed
<1> QED
  BY <1>6, SceneExitsInv

(* The detach stage of commit_transfer keeps the invariant. *)
LEMMA CommitDetachesInv == ASSUME SessionInv, CommitDetaches PROVE SessionInv'
<1> USE DEF SessionInv
<1>0. TypeOK'
  BY CommitDetachesType
<1>1. job.stage = "detach" /\ job.call.type = "commit" /\ Idle(owner.scene)
  BY DEF CommitDetaches, JobFits
<1>2. PICK h \in Gates : h = job.call.gate
  BY <1>1, OwnerOfJob
<1>3. PICK old \in Epochs : old = job.call.id
  BY <1>1, OwnerOfJob
<1>4. PICK e \in Epochs : e = job.call.fresh
  BY <1>1, JobInFlight DEF CallsFit, CallFits, JobFits
<1>5. /\ job # NoJob /\ job.call \in InFlight /\ job.call \in Call
      /\ owner.id = old /\ owner.gate = h /\ owner.scene \in Scenes /\ db.epoch = old
      /\ Silent(old) /\ player[old].gate = h /\ player[old].scene = owner.scene
      /\ conn[h].st \in {"committing", "leaving", "dead"}
  BY <1>1, <1>2, <1>3, <1>4, CommitIs
<1>6. PICK s \in Scenes : s = owner.scene
  BY <1>5
<1>7. CASE SceneExits(s) /\ scene[s].member = old
  <2>1. player[old].gate = job.call.gate
    BY <1>2, <1>5
  <2> QED
    BY <1>0, <1>1, <1>7, <2>1, CommitExits
<1>8. ASSUME UNCHANGED <<nextEpoch, owner, calls, mail, contact, toWorld, fromWorld, db, acked, crossings>>,
             job' = NoJob, conn' = Refuse(job.call.gate, "committing"), UNCHANGED <<scene, player>>
      PROVE  SessionInv'
  <2>1. job.stage # "leave"
    BY <1>1
  <2> QED
    BY <1>0, <1>5, <1>8, <2>1, RefusedInv
<1>9. ASSUME UNCHANGED <<nextEpoch, owner, calls, mail, contact, toWorld, fromWorld, db, acked, crossings>>,
             scene[s].member = old, Alive(old), conn' = conn,
             scene' = [scene EXCEPT ![s].member = None], player' = [player EXCEPT ![old].st = "gone"],
             job' = [job EXCEPT !.stage = "activate"]
      PROVE  SessionInv'
  <2>1. /\ \A t \in Scenes \ {s} : scene'[t] = scene[t]
        /\ scene'[s].member = None /\ scene'[s].drop = None /\ scene'[s].caller = "none"
        /\ scene'[s].st = scene[s].st
    BY <1>1, <1>6, <1>9, Types DEF SceneState, Idle, MembersFit
  <2>2. /\ \A f \in Epochs \ {old} : player'[f] = player[f]
        /\ player'[old].st = "gone" /\ player'[old].scene = player[old].scene
        /\ player'[old].gate = player[old].gate /\ player'[old].ready = player[old].ready
        /\ player'[old].anchored = player[old].anchored
        /\ player[old].st = "sealed"
    BY <1>5, <1>9, Types DEF PlayerState, Silent, Alive
  <2>3. (\A f \in Epochs : Evolves(f)) /\ CutsStay
    <3>1. Evolves(old)
      BY <2>2 DEF Evolves, Known, Alive, Silent
    <3> QED
      BY <1>9, <2>2, <3>1, SameEvolves DEF CutsStay
  <2>4. job'.call = job.call /\ job'.stage = "activate" /\ job'.epoch = job.epoch
    BY <1>9, Types DEF JobType
  <2>5. EpochsAreNew'
    <3>1. Horizon <= Horizon'
      BY <1>1, <1>9, <2>4, Types DEF Horizon, JobType
    <3> QED
      BY <1>0, <1>9, <2>3, <3>1, EpochsStayNew
  <2>6. EpochsCounted'
    <3>1. \A f \in Epochs : player'[f].st = "requested" => player[f].st = "requested"
      BY <2>2
    <3> QED
      BY <1>9, <3>1, CountStays
  <2>7. JobFits'
    <3>1. NoJob.stage = "idle"
      BY DEF NoJob
    <3> QED
      BY <1>1, <1>9, <2>4, <3>1 DEF JobFits, IsOwner
  <2>8. CallsFit'
    <3>1. InFlight' = InFlight
      BY <1>9, <2>4 DEF InFlight
    <3>2. \A c \in InFlight' : conn'[c.gate] = conn[c.gate]
      BY <1>9
    <3> QED
      BY <1>5, <1>9, <2>3, <2>4, <3>1, <3>2, CallsFitStay
  <2>9. ConnsFit'
    <3>1. \A g \in Gates : ConnStays(g)
      BY <1>9 DEF ConnStays
    <3> QED
      BY <1>0, <2>3, <3>1, ConnFitsStays DEF ConnsFit
  <2>10. PlayersFit'
    <3>1. PlayerFits(old)'
      BY <1>9, <2>2 DEF PlayersFit, PlayerFits, Known
    <3> QED
      BY <1>9, <2>2, <3>1, OthersFit
  <2>11. \A f \in Epochs : Known(f) => player[f].scene \in Scenes
    BY DEF PlayersFit, PlayerFits
  <2>12. MembersFit'
    <3>1. ASSUME NEW f \in Epochs \ {old}, Alive(f)
          PROVE  scene'[player[f].scene].member = f /\ scene'[player[f].scene].st # "down"
      <4>1. player[f].scene \in Scenes /\ scene[player[f].scene].member = f /\ scene[player[f].scene].st # "down"
        BY <2>11, <3>1 DEF Alive, Known, MembersFit
      <4> QED
        BY <1>9, <2>1, <4>1
    <3>2. \A f \in Epochs : Alive(f)' => scene'[player'[f].scene].member = f /\ scene'[player'[f].scene].st # "down"
      BY <2>2, <3>1 DEF Alive
    <3>3. ASSUME NEW t \in Scenes
          PROVE  /\ scene'[t].member # None =>
                      player'[scene'[t].member].st # "none" /\ player'[scene'[t].member].scene = t
                 /\ scene'[t].drop \in {scene'[t].member, None} /\ (scene'[t].drop = None => scene'[t].caller = "none")
                 /\ scene'[t].st = "down" => scene'[t].member = None
                 /\ scene'[t].caller # "registry"
      <4>1. CASE t = s
        BY <2>1, <4>1
      <4>2. CASE t # s
        <5>1. /\ scene[t].member # None => player[scene[t].member].st # "none" /\ player[scene[t].member].scene = t
              /\ scene[t].drop \in {scene[t].member, None} /\ (scene[t].drop = None => scene[t].caller = "none")
              /\ scene[t].st = "down" => scene[t].member = None
              /\ scene[t].caller # "registry"
          BY <1>1 DEF MembersFit, Known
        <5>2. scene'[t] = scene[t] /\ scene[t].member \in Session
          BY <2>1, <4>2, Types DEF SceneState
        <5> QED
          BY <2>2, <5>1, <5>2 DEF Session
      <4> QED
        BY <4>1, <4>2
    <3> QED
      BY <3>2, <3>3 DEF MembersFit, Known
  <2>13. OwnerFits'
    <3>1. \A g \in Gates : conn'[g].id = conn[g].id /\ (Serving(g)' => Serving(g))
      BY <1>9 DEF Serving
    <3> QED
      BY <1>9, <2>3, <3>1, OwnerStays
  <2>14. StoredIsKnown' /\ EffectsDurable'
    BY <1>5, <1>9, <2>2 DEF StoredIsKnown, EffectsDurable, Writes, Alive
  <2>15. SessionIsHeld'
    <3>1. \A g \in Gates, f \in Epochs : CloseMailed(g, f) => CloseMailed(g, f)'
      BY <1>9 DEF CloseMailed
    <3>2. \A t \in Scenes, f \in Epochs : scene'[t].drop = f => scene[t].drop = f
      BY <2>1, EpochInts
    <3>3. ASSUME NEW g \in Gates, NEW f \in Epochs, conn[g].id = f
          PROVE  (Member(f) \/ player[f].st = "crashed" \/ CloseMailed(g, f))'
      <4>1. CASE f = old
        <5>1. g = h
          BY <1>5, <3>3, <4>1 DEF ConnsFit, ConnFits, Silent, Known
        <5> QED
          BY <1>5, <1>9, <5>1 DEF CloseMailed
      <4>2. CASE f # old
        <5>1. Member(f) => Member(f)'
          BY <1>9, <2>1, <2>2, <2>11, <4>2 DEF Member, Known
        <5> QED
          BY <2>2, <3>1, <3>3, <4>2, <5>1 DEF SessionIsHeld
      <4> QED
        BY <4>1, <4>2
    <3> QED
      BY <1>9, <3>1, <3>2, <3>3 DEF SessionIsHeld
  <2> QED
    BY <1>0, <2>5, <2>6, <2>7, <2>8, <2>9, <2>10, <2>12, <2>13, <2>14, <2>15
<1> QED
  BY <1>3, <1>6, <1>7, <1>8, <1>9 DEF CommitDetaches, world, history

(* The activation keeps the invariant: what it writes is what the source    *)
(* stored. *)
LEMMA CommitActivatesInv == ASSUME SessionInv, CommitActivates PROVE SessionInv'
<1> USE DEF SessionInv
<1>0. TypeOK'
  BY CommitActivatesType
<1>1. job.stage = "activate" /\ job.call.type = "commit"
  BY DEF CommitActivates, JobFits
<1>2. PICK h \in Gates : h = job.call.gate
  BY <1>1, OwnerOfJob
<1>3. PICK old \in Epochs : old = job.call.id
  BY <1>1, OwnerOfJob
<1>4. PICK e \in Epochs : e = job.call.fresh
  BY <1>1, JobInFlight DEF CallsFit, CallFits, JobFits
<1>5. /\ job # NoJob /\ job.call \in InFlight /\ job.call \in Call
      /\ owner.id = old /\ owner.gate = h /\ owner.scene \in Scenes /\ db.epoch = old
      /\ Silent(old) /\ player[old].gate = h
      /\ old < e /\ player[e].gate = h /\ PreparedFrom(old, e) /\ player[e].scene \in Scenes
      /\ conn[h].st \in {"committing", "leaving", "dead"}
      /\ conn[h].st = "committing" => conn[h].id = old /\ conn[h].pending = e
  BY <1>1, <1>2, <1>3, <1>4, CommitIs
<1>6. PICK s \in Scenes : s = player[e].scene
  BY <1>5
<1>7. Idle(s)
  BY <1>4, <1>6 DEF CommitActivates
<1>8. CASE SceneExits(s) /\ scene[s].member = e
  <2>1. player[e].gate = job.call.gate
    BY <1>2, <1>5
  <2> QED
    BY <1>0, <1>1, <1>8, <2>1, CommitExits
<1>9. ASSUME UNCHANGED <<nextEpoch, calls, mail, scene, contact, fromWorld, acked, crossings>>,
             job' = NoJob, conn' = Refuse(job.call.gate, "committing"),
             UNCHANGED <<player, db, toWorld, owner>>
      PROVE  SessionInv'
  <2>1. job.stage # "leave"
    BY <1>1
  <2> QED
    BY <1>0, <1>5, <1>9, <2>1, RefusedInv
<1>10. ASSUME UNCHANGED <<nextEpoch, calls, mail, scene, contact, fromWorld, acked, crossings>>,
              job' = NoJob, scene[s].member = e, Alive(e),
              player' = [player EXCEPT ![e].st = "live", ![e].owned = TRUE],
              db' = [epoch |-> ClaimedBy(e), body |-> player[e].body],
              toWorld' = [toWorld EXCEPT ![e] = Append(@, "contact")],
              owner' = OwnerAfter(e, s),
              conn' = ReplyTo(h, "committing", [conn[h] EXCEPT !.st = "open", !.id = e, !.pending = None])
       PROVE  SessionInv'
  <2>1. /\ \A f \in Epochs \ {e} : player'[f] = player[f] /\ Evolves(f)
        /\ player'[e].st = "live" /\ player'[e].owned /\ player'[e].scene = s /\ player'[e].gate = h
        /\ player'[e].body = player[e].body /\ player'[e].fence = player[e].fence
        /\ player'[e].ready = player[e].ready /\ player'[e].anchored = player[e].anchored
    <3>1. \A f \in Epochs \ {e} : player'[f] = player[f]
      BY <1>10, Types
    <3>2. /\ player'[e].st = "live" /\ player'[e].owned /\ player'[e].scene = s /\ player'[e].gate = h
          /\ player'[e].body = player[e].body /\ player'[e].fence = player[e].fence
          /\ player'[e].ready = player[e].ready /\ player'[e].anchored = player[e].anchored
      BY <1>5, <1>6, <1>10, Types DEF PlayerState
    <3> QED
      BY <3>1, <3>2, SameEvolves
  <2>2. player[e].st = "prepared" /\ db.body = player[e].body
    BY <1>5, <1>10 DEF PreparedFrom, Alive, CutIsStored
  <2>3. db'.epoch = e /\ db'.body = db.body
    BY <1>10, <2>2 DEF ClaimedBy
  <2>4. PICK r \in Connection : r = [conn[h] EXCEPT !.st = "open", !.id = e, !.pending = None]
    <3>1. conn[h] \in Connection /\ e \in Session
      BY Types DEF Session
    <3> QED
      BY <3>1, ConnRecords
  <2>5. r.st = "open" /\ r.id = e /\ r.pending = None
    BY <2>4, Types DEF Connection
  <2>6. /\ \A g \in Gates \ {h} : conn'[g] = conn[g]
        /\ conn'[h] = IF conn[h].st = "committing" THEN r ELSE conn[h]
    BY <1>10, <2>4, ReplyIs
  <2>7. owner'.id = e /\ owner'.gate = h /\ owner'.scene = s
    BY <1>5, <1>10, Types DEF OwnerAfter, OwnerType
  <2>8. /\ CutsStay
        /\ Known(e) /\ Known(e)' /\ e # None /\ h # None
    BY <2>1, <2>2, <2>3, EpochInts, SessionAssumption DEF CutsStay, Silent, Known, None
  <2>9. NoJob.call = NoCall /\ NoJob.stage = "idle" /\ NoCall.type = "none" /\ NoOwner.id = None
    BY DEF NoJob, NoCall, NoOwner
  <2>10. EpochsAreNew'
    <3>1. Horizon' = Horizon
      BY <1>1, <1>10, <2>9 DEF Horizon
    <3>2. e < Horizon
      BY <2>8 DEF EpochsAreNew
    <3>3. \A f \in Epochs : Known(f)' => Known(f)
      BY <2>1, <2>8 DEF Known
    <3>4. \A g \in Gates : conn'[g].id < Horizon
      BY <2>5, <2>6, <3>2 DEF EpochsAreNew
    <3> QED
      BY <2>3, <2>7, <3>1, <3>2, <3>3, <3>4 DEF EpochsAreNew
  <2>11. EpochsCounted'
    <3>1. \A f \in Epochs : player'[f].st = "requested" => player[f].st = "requested"
      BY <2>1
    <3>2. \A g \in Gates : conn'[g].st = "new" => conn[g].st = "new"
      BY <2>5, <2>6
    <3> QED
      BY <1>10, <3>1, <3>2, CountStays
  <2>12. JobFits'
    BY <1>10, <2>9 DEF JobFits
  <2>13. CallsFit'
    <3>1. \A g \in Gates : g # job.call.gate => conn'[g] = conn[g]
      BY <1>2, <2>6
    <3>2. \A f \in Epochs : Known(f) /\ player[f].gate # job.call.gate => Evolves(f)
      BY <1>2, <1>5, <2>1
    <3> QED
      BY <1>5, <1>10, <2>8, <3>1, <3>2, JobEndsCalls
  <2>14. ConnsFit'
    <3>1. ASSUME NEW g \in Gates, g # h PROVE ConnFits(g)'
      <4>1. conn[g].id # e
        BY <1>5, <2>8, <3>1 DEF ConnsFit, ConnFits
      <4>2. conn[g].pending # e
        <5>1. conn[g].pending # None => conn[g].id \in Epochs
          BY SessionInts, Types DEF ConnsFit, ConnFits, Connection, Session
        <5> QED
          BY <1>5, <2>8, <3>1, <5>1 DEF ConnsFit, ConnFits
      <4> QED
        BY <1>0, <2>1, <2>6, <2>8, <3>1, <4>1, <4>2, OtherConn
    <3>2. CASE conn[h].st = "committing"
      <4>1. conn'[h].st = "open" /\ conn'[h].id = e /\ conn'[h].pending = None
        BY <2>5, <2>6, <3>2
      <4>2. ConnFits(h)'
        BY <2>1, <2>8, <4>1, EpochInts DEF ConnFits
      <4> QED
        BY <3>1, <4>2 DEF ConnsFit
    <3>3. CASE conn[h].st # "committing"
      <4>1. conn'[h] = conn[h] /\ conn[h].st \in {"leaving", "dead"}
        BY <1>5, <2>6, <3>3
      <4>2. \A f \in Epochs : conn[h].id = f => (Known(f)' => player'[f].gate = h)
        BY <2>1 DEF ConnsFit, ConnFits, Known
      <4>3. ASSUME NEW f \in Epochs, NEW k \in Epochs, conn[h].id = f, conn[h].pending = k
            PROVE  f < k /\ Silent(f)' /\ Known(k)' /\ player'[k].gate = h
        <5>1. f < k /\ Silent(f) /\ Known(k) /\ player[k].gate = h
          BY <4>3 DEF ConnsFit, ConnFits
        <5>2. f # e
          BY <2>2, <5>1 DEF Silent
        <5> QED
          BY <2>1, <2>8, <5>1, <5>2 DEF Silent, Known
      <4>4. conn[h].pending # None => conn[h].id # None
        BY DEF ConnsFit, ConnFits
      <4>5. ConnFits(h)'
        BY <4>1, <4>2, <4>3, <4>4 DEF ConnFits, Serving
      <4> QED
        BY <3>1, <4>5 DEF ConnsFit
    <3> QED
      BY <3>2, <3>3
  <2>15. PlayersFit'
    <3>1. PlayerFits(e)'
      BY <1>10, <2>1, <2>2, <2>8 DEF PlayersFit, PlayerFits, Known
    <3>2. \A f \in Epochs \ {e} : toWorld'[f] = toWorld[f]
      BY <1>10, Types
    <3> QED
      BY <1>10, <2>1, <3>1, <3>2, OthersFit
  <2>16. MembersFit'
    <3>1. ASSUME NEW f \in Epochs, Alive(f)'
          PROVE  scene[player'[f].scene].member = f /\ scene[player'[f].scene].st # "down"
      <4>1. Alive(f) /\ player'[f].scene = player[f].scene
        BY <1>6, <1>10, <2>1, <3>1 DEF Alive
      <4> QED
        BY <4>1 DEF MembersFit
    <3>2. ASSUME NEW t \in Scenes
          PROVE  /\ scene[t].member # None =>
                      player'[scene[t].member].st # "none" /\ player'[scene[t].member].scene = t
                 /\ scene[t].drop \in {scene[t].member, None} /\ (scene[t].drop = None => scene[t].caller = "none")
                 /\ scene[t].st = "down" => scene[t].member = None
                 /\ scene[t].caller # "registry"
      <4>1. /\ scene[t].member # None => player[scene[t].member].st # "none" /\ player[scene[t].member].scene = t
            /\ scene[t].drop \in {scene[t].member, None} /\ (scene[t].drop = None => scene[t].caller = "none")
            /\ scene[t].st = "down" => scene[t].member = None
            /\ scene[t].caller # "registry"
        BY <1>1 DEF MembersFit, Known
      <4>2. scene[t].member \in Session
        BY Types DEF SceneState
      <4> QED
        BY <1>6, <2>1, <4>1, <4>2 DEF Session
    <3>3. \A f \in Epochs : Alive(f)' => scene'[player'[f].scene].member = f /\ scene'[player'[f].scene].st # "down"
      BY <1>10, <3>1
    <3>4. ASSUME NEW t \in Scenes
          PROVE  /\ scene'[t].member # None =>
                      player'[scene'[t].member].st # "none" /\ player'[scene'[t].member].scene = t
                 /\ scene'[t].drop \in {scene'[t].member, None} /\ (scene'[t].drop = None => scene'[t].caller = "none")
                 /\ scene'[t].st = "down" => scene'[t].member = None
                 /\ scene'[t].caller # "registry"
      BY <1>10, <3>2
    <3> QED
      BY <3>3, <3>4 DEF MembersFit, Known
  <2>17. OwnerFits'
    <3>1. Serving(h)' => conn'[h].id = e
      BY <1>5, <2>5, <2>6 DEF Serving
    <3>2. owner' # NoOwner
      BY <2>7, <2>8, <2>9
    <3> QED
      BY <2>1, <2>3, <2>7, <2>8, <3>1, <3>2 DEF OwnerFits
  <2>18. StoredIsKnown' /\ EffectsDurable'
    BY <1>10, <2>1, <2>2, <2>3 DEF StoredIsKnown, EffectsDurable
  <2>19. SessionIsHeld'
    <3>1. \A t \in Scenes : scene[t].drop # e
      BY <1>6, <1>7, <2>8 DEF MembersFit, Idle
    <3>2. \A g \in Gates, f \in Epochs \ {e} : CloseMailed(g, f) => CloseMailed(g, f)'
      BY <1>10, <2>5, <2>6 DEF CloseMailed
    <3>3. \A g \in Gates, f \in Epochs : Member(f) => Member(f)'
      BY <1>6, <1>10, <2>1, <2>8 DEF Member, Known
    <3>4. Member(e)'
      BY <1>10, <2>1, <2>8 DEF Member, Known
    <3>5. ASSUME NEW g \in Gates, NEW f \in Epochs, conn'[g].id = f, f # e
          PROVE  (Member(f) \/ player[f].st = "crashed" \/ CloseMailed(g, f))'
      <4>1. conn[g].id = f
        BY <2>5, <2>6, <3>5
      <4> QED
        BY <2>1, <3>2, <3>3, <3>5, <4>1 DEF SessionIsHeld
    <3> QED
      BY <1>10, <3>1, <3>2, <3>4, <3>5 DEF SessionIsHeld
  <2> QED
    BY <1>0, <2>10, <2>11, <2>12, <2>13, <2>14, <2>15, <2>16, <2>17, <2>18, <2>19
<1>11. CASE scene[s].member = e /\ ~Alive(e)
  <2>1. SceneExits(s)
    BY <1>4, <1>6, <1>11 DEF CommitActivates
  <2> QED
    BY <1>8, <1>11, <2>1
<1>12. CASE scene[s].member = e /\ Alive(e)
  BY <1>2, <1>4, <1>6, <1>10, <1>12 DEF CommitActivates, history
<1>13. CASE scene[s].member # e
  BY <1>2, <1>4, <1>6, <1>9, <1>13 DEF CommitActivates, history
<1> QED
  BY <1>11, <1>12, <1>13

-----------------------------------------------------------------------------
(* The invariant, and what it implies. *)

(* The initial state has the invariant. *)
LEMMA InitInv == Init => SessionInv
<1> SUFFICES ASSUME Init PROVE SessionInv
  OBVIOUS
<1>1. TypeOK
  BY InitType
<1>2. /\ nextEpoch = 1 /\ owner = NoOwner /\ job = NoJob /\ calls = {} /\ db = [epoch |-> 0, body |-> {}]
      /\ contact = None /\ acked = {} /\ crossings = 0
  BY DEF Init
<1>3. /\ \A g \in Gates : conn[g].st = "new" /\ conn[g].id = None /\ conn[g].pending = None /\ g # None
      /\ \A s \in Scenes : /\ scene[s].st = "up" /\ scene[s].member = None /\ scene[s].drop = None
                           /\ scene[s].caller = "none"
      /\ \A e \in Epochs : player[e] = NoPlayer /\ toWorld[e] = <<>> /\ fromWorld[e] = <<>> /\ e # None
  BY EpochInts, SessionAssumption DEF Init, None
<1>4. /\ NoJob.call = NoCall /\ NoJob.stage = "idle" /\ NoCall.type = "none" /\ NoOwner.id = None /\ NoOwner.gate = None
      /\ NoPlayer.st = "none" /\ ~NoPlayer.owned /\ NoPlayer.fence = "none" /\ ~NoPlayer.ready
  BY DEF NoJob, NoCall, NoOwner, NoPlayer
<1>5. \A e \in Epochs : ~Known(e) /\ ~Alive(e)
  BY <1>3, <1>4 DEF Known, Alive
<1>6. EpochsAreNew
  <2>1. Horizon = 1
    BY <1>2, <1>4 DEF Horizon
  <2> QED
    BY <1>2, <1>3, <1>4, <1>5, <2>1 DEF EpochsAreNew, None
<1>7. EpochsCounted
  <2>1. Handing = {}
    BY <1>2, <1>3, <1>4 DEF Handing
  <2> QED
    BY <1>2, <2>1, CountedFinite, FS_EmptySet DEF EpochsCounted
<1>8. JobFits
  BY <1>2, <1>4 DEF JobFits
<1>9. CallsFit
  BY <1>2, <1>4 DEF CallsFit, InFlight
<1>10. ConnsFit
  BY <1>3 DEF ConnsFit, ConnFits
<1>11. PlayersFit
  BY <1>2, <1>3, <1>4 DEF PlayersFit, PlayerFits, Known
<1>12. MembersFit
  BY <1>3, <1>5 DEF MembersFit
<1>13. OwnerFits
  BY <1>2, <1>3, <1>4 DEF OwnerFits
<1>14. StoredIsKnown /\ EffectsDurable
  BY <1>2 DEF StoredIsKnown, EffectsDurable, None
<1>15. SessionIsHeld
  BY <1>3 DEF SessionIsHeld
<1> QED
  BY <1>1, <1>6, <1>7, <1>8, <1>9, <1>10, <1>11, <1>12, <1>13, <1>14, <1>15 DEF SessionInv

(* A stuttering step keeps the invariant. *)
LEMMA StutterInv == ASSUME SessionInv, UNCHANGED vars PROVE SessionInv'
<1>1. /\ UNCHANGED <<nextEpoch, owner, job, calls, conn, mail, scene, player, contact, toWorld, fromWorld, db>>
      /\ UNCHANGED <<acked, emitted, reopened, crossings, faults>>
  BY DEF vars, registry, gateVars, world, history
<1>2. TypeOK'
  BY <1>1 DEF SessionInv, TypeOK
<1>3. EpochsAreNew' /\ EpochsCounted' /\ JobFits'
  BY <1>1 DEF SessionInv, EpochsAreNew, Horizon, EpochsCounted, Claimed, Handing, JobFits, IsOwner, Known
<1>4. PlayersFit' /\ OwnerFits'
  BY <1>1 DEF SessionInv, PlayersFit, PlayerFits, Known, OwnerFits, Serving
<1>5. StoredIsKnown' /\ EffectsDurable'
  BY <1>1 DEF SessionInv, StoredIsKnown, Writes, Alive, Persists, EffectsDurable
<1>6. CallsFit' /\ ConnsFit'
  BY <1>1 DEF SessionInv, CallsFit, InFlight, CallFits, ConnsFit, ConnFits, PreparedFrom, CutIsStored,
     Silent, Known, Serving
<1>7. MembersFit' /\ SessionIsHeld'
  BY <1>1 DEF SessionInv, MembersFit, SessionIsHeld, Alive, Known, Member, CloseMailed
<1> QED
  BY <1>2, <1>3, <1>4, <1>5, <1>6, <1>7 DEF SessionInv

(* Every step of the registry keeps the invariant. *)
LEMMA RegistryInv == ASSUME SessionInv, Registry PROVE SessionInv'
BY RegistryTakesInv, ClaimLeavesInv, ClaimJoinsInv, PrepareEndpointInv, PrepareImportsInv,
   CommitDetachesInv, CommitActivatesInv, RegistryEndsInv DEF Registry

(* Every step of a Scene keeps the invariant. *)
LEMMA ScenesInv == ASSUME SessionInv, NEW s \in Scenes, SceneSteps(s) \/ SceneFails(s) PROVE SessionInv'
BY SceneDroppedInv, SceneStopExitsInv, SceneRestartsInv, SceneDropsInv DEF SceneSteps

(* Every step of a Player keeps the invariant. *)
LEMMA PlayersInv ==
  ASSUME SessionInv, NEW e \in Epochs,
         PlayerSteps(e) \/ PlayerFails(e) \/ PlayerEffect(e) \/ PlayerTick(e) \/ PlayerCrosses(e)
  PROVE  SessionInv'
BY StopInv, PlayerSealInv, PlayerDetachedInv, PlayerHeatInv, PlayerEffectInv, PlayerTickInv, PlayerOtherInv
   DEF PlayerSteps

(* Every step of a connection keeps the invariant. *)
LEMMA GatesInv ==
  ASSUME SessionInv, NEW g \in Gates,
         \/ GateSteps(g) \/ GateTerminates(g) \/ GateJoins(g) \/ ClientReady(g)
         \/ ClientCommits(g) \/ GateKilled(g) \/ GateTimesOut(g)
  PROVE  SessionInv'
BY GateCloseInv, GateTransferInv, GateLeavesInv, GateEndsInv, GateJoinsInv, ClientReadyInv, ClientCommitsInv
   DEF GateSteps

(* Every step keeps the invariant. *)
LEMMA NextInv == ASSUME SessionInv, [Next]_vars PROVE SessionInv'
<1>1. CASE Registry
  BY <1>1, RegistryInv
<1>2. CASE WorldHeat \/ WorldForgets
  BY <1>2, WorldInv
<1>3. ASSUME NEW s \in Scenes, SceneSteps(s) \/ SceneFails(s) PROVE SessionInv'
  BY <1>3, ScenesInv
<1>4. ASSUME NEW e \in Epochs, PlayerSteps(e) \/ WorldSteps(e) \/ PlayerFails(e) \/ PlayerEffect(e)
                                \/ PlayerTick(e) \/ PlayerCrosses(e)
      PROVE  SessionInv'
  BY <1>4, PlayersInv, WorldInv
<1>5. ASSUME NEW g \in Gates, GateSteps(g) \/ GateTerminates(g) \/ GateJoins(g) \/ ClientReady(g)
                               \/ ClientCommits(g) \/ GateKilled(g) \/ GateTimesOut(g)
      PROVE  SessionInv'
  BY <1>5, GatesInv
<1>6. CASE UNCHANGED vars
  BY <1>6, StutterInv
<1> QED
  BY <1>1, <1>2, <1>3, <1>4, <1>5, <1>6 DEF Next

(* The parts of the invariant hold together in every reachable state. *)
THEOREM SessionInvariance == Spec => []SessionInv
<1>1. Init => SessionInv
  BY InitInv
<1>2. SessionInv /\ [Next]_vars => SessionInv'
  BY NextInv
<1> QED
  BY <1>1, <1>2, PTL DEF Spec

(* TypeOK: every variable holds what the processes, mailboxes and tables    *)
(* can hold. *)
THEOREM SessionTypes == Spec => []TypeOK
<1>1. SessionInv => TypeOK
  BY DEF SessionInv
<1> QED
  BY <1>1, SessionInvariance, PTL

(* EffectsDurable: an effect whose sender got a receipt is in the stored    *)
(* body, whatever hand-overs, reconnects, crashes and timeouts follow       *)
(* (receive_effect, persist_body, claim). *)
THEOREM EffectsAreDurable == Spec => []EffectsDurable
<1>1. SessionInv => EffectsDurable
  BY DEF SessionInv
<1> QED
  BY <1>1, SessionInvariance, PTL

(* The invariant implies that registry, connections and Scenes agree. *)
LEMMA InvAgrees == SessionInv => SessionsOK
<1> SUFFICES ASSUME SessionInv PROVE SessionsOK
  OBVIOUS
<1> USE DEF SessionInv
<1>1. AgreedIdentity
  BY DEF AgreedIdentity, OwnerFits, Serving
<1>2. ASSUME NEW g \in Gates, conn[g].st = "open", ~conn[g].closing, conn[g].id # None
      PROVE  Member(conn[g].id) \/ Close(conn[g].id) \in mail[g] \/ player[conn[g].id].st = "crashed"
  <2>1. PICK e \in Epochs : e = conn[g].id
    BY <1>2, Types DEF Connection, Session
  <2>2. Member(e) \/ player[e].st = "crashed" \/ CloseMailed(g, e)
    BY <2>1 DEF SessionIsHeld
  <2> QED
    BY <1>2, <2>1, <2>2 DEF CloseMailed
<1>3. OpenSessionHasPlayer
  BY <1>2 DEF OpenSessionHasPlayer
<1> QED
  BY <1>1, <1>3 DEF SessionsOK

(* SessionsOK: a connection that is not closing has a Player in a Scene,    *)
(* a close on its way or a crashed Player, and the registry and the owner   *)
(* name the same session (drop, mmo_close, commit_transfer). *)
THEOREM SessionsAgree == Spec => []SessionsOK
BY InvAgrees, SessionInvariance, PTL

-----------------------------------------------------------------------------
(* The stored body as BodyOwnership. *)

(* What a step does to the stored body. *)
StoredGrows == db'.epoch = db.epoch /\ db.body \subseteq db'.body

(* A newer session takes the stored body as it is. *)
StoredPasses == db.epoch < db'.epoch /\ db'.body = db.body

(* A join takes the stored body for a newer session. *)
LEMMA ClaimJoinsPasses == ASSUME SessionInv, ClaimJoins PROVE StoredGrows \/ StoredPasses
<1>1. job.call.type = "claim"
  BY DEF SessionInv, JobFits, ClaimJoins
<1>2. db.epoch < job.epoch
  BY <1>1, NewEpoch
<1>3. db' = db \/ db' = [db EXCEPT !.epoch = job.epoch]
  BY DEF ClaimJoins
<1>4. db \in [epoch : Session, body : SUBSET Item]
  BY Types DEF SessionInv
<1> QED
  BY <1>2, <1>3, <1>4 DEF StoredGrows, StoredPasses

(* An activation takes the stored body for a newer session, and writes      *)
(* what is stored. *)
LEMMA CommitActivatesPasses == ASSUME SessionInv, CommitActivates PROVE StoredGrows \/ StoredPasses
<1> USE DEF SessionInv
<1>1. job.stage = "activate" /\ job.call.type = "commit"
  BY DEF CommitActivates, JobFits
<1>2. PICK h \in Gates : h = job.call.gate
  BY <1>1, OwnerOfJob
<1>3. PICK old \in Epochs : old = job.call.id
  BY <1>1, OwnerOfJob
<1>4. PICK e \in Epochs : e = job.call.fresh
  BY <1>1, JobInFlight DEF CallsFit, CallFits, JobFits
<1>5. old < e /\ db.epoch = old /\ PreparedFrom(old, e)
  BY <1>1, <1>2, <1>3, <1>4, CommitIs
<1>6. db' = db \/ (Alive(e) /\ db' = [epoch |-> e, body |-> player[e].body])
  BY <1>4 DEF CommitActivates, SceneExits, ClaimedBy
<1>7. Alive(e) => player[e].body = db.body
  BY <1>5 DEF PreparedFrom, Alive, CutIsStored
<1> QED
  BY <1>5, <1>6, <1>7 DEF StoredGrows, StoredPasses

(* Every step of the registry leaves the stored body or hands it on. *)
LEMMA RegistryPasses == ASSUME SessionInv, Registry PROVE StoredGrows \/ StoredPasses
<1>1. CASE ClaimJoins
  BY <1>1, ClaimJoinsPasses
<1>2. CASE CommitActivates
  BY <1>2, CommitActivatesPasses
<1>3. CASE ClaimLeaves \/ PrepareEndpoint \/ PrepareImports \/ CommitDetaches
  <2>1. db' = db
    BY <1>3 DEF ClaimLeaves, PrepareEndpoint, PrepareImports, CommitDetaches, SceneExits
  <2> QED
    BY <2>1 DEF StoredGrows
<1>4. CASE RegistryCallExits \/ RegistryDown \/ \E c \in calls : RegistryTakes(c)
  <2>1. db' = db
    BY <1>4 DEF RegistryTakes, RegistryCallExits, RegistryDown
  <2> QED
    BY <2>1 DEF StoredGrows
<1> QED
  BY <1>1, <1>2, <1>3, <1>4 DEF Registry

(* Every step of a Player moves it. *)
LEMMA PlayersMove ==
  ASSUME TypeOK, PlayersFit, NEW e \in Epochs,
         PlayerSteps(e) \/ PlayerFails(e) \/ PlayerEffect(e) \/ PlayerTick(e) \/ PlayerCrosses(e)
  PROVE  PlayerMoves(e)
BY PlayerStopMoves, PlayerSealMoves, PlayerDetachedMoves, PlayerHeatMoves, PlayerEffectMoves, PlayerTickMoves,
   PlayerOtherMoves DEF PlayerSteps

(* Every step hands the stored body to a newer session or adds to it. *)
LEMMA NextPasses == ASSUME SessionInv, Next PROVE StoredGrows \/ StoredPasses
<1> USE DEF SessionInv
<1>1. CASE Registry
  BY <1>1, RegistryPasses
<1>2. CASE WorldHeat \/ WorldForgets
  <2>1. db' = db
    BY <1>2 DEF WorldHeat, WorldForgets, WorldFrame
  <2> QED
    BY <2>1 DEF StoredGrows
<1>3. ASSUME NEW s \in Scenes, SceneSteps(s) \/ SceneFails(s) PROVE StoredGrows
  <2>1. db' = db
    BY <1>3 DEF SceneSteps, SceneFails, SceneDropped, SceneStopExits, SceneExits, SceneRestarts, SceneSeesPlayer
  <2> QED
    BY <2>1 DEF StoredGrows
<1>4. ASSUME NEW e \in Epochs, WorldSteps(e) PROVE StoredGrows
  <2>1. db' = db
    BY <1>4 DEF WorldSteps, WorldContact, WorldDetach, WorldFrame
  <2> QED
    BY <2>1 DEF StoredGrows
<1>5. ASSUME NEW e \in Epochs, PlayerSteps(e) \/ PlayerFails(e) \/ PlayerEffect(e) \/ PlayerTick(e) \/ PlayerCrosses(e)
      PROVE  StoredGrows
  BY <1>5, PlayersMove, MovesGrow DEF StoredGrows
<1>6. ASSUME NEW g \in Gates, GateSteps(g) \/ GateTerminates(g) \/ GateJoins(g) \/ ClientReady(g)
                               \/ ClientCommits(g) \/ GateKilled(g) \/ GateTimesOut(g)
      PROVE  StoredGrows
  <2>1. db' = db
    <3>1. CASE GateSteps(g) \/ GateTerminates(g)
      BY <3>1 DEF GateSteps, GateTerminates, GateClose, GateTransfer, GateSealExits, GateLeaves, GateGone, GateFrame
    <3>2. CASE GateJoins(g) \/ ClientReady(g) \/ ClientCommits(g) \/ GateKilled(g) \/ GateTimesOut(g)
      BY <3>2 DEF GateJoins, ClientReady, ClientCommits, GateKilled, GateTimesOut, GateFrame
    <3> QED
      BY <1>6, <3>1, <3>2
  <2> QED
    BY <2>1 DEF StoredGrows
<1> QED
  BY <1>1, <1>2, <1>3, <1>4, <1>5, <1>6 DEF Next

(* OwnershipSpec: BodyStore with its callers implements BodyOwnership;      *)
(* the stored body goes to newer sessions only, and never loses what it     *)
(* absorbed (save, claim). *)
THEOREM ImplementsOwnership == Spec => OwnershipSpec
<1>1. Init => Ownership!OwnershipInit
  BY DEF Init, Ownership!OwnershipInit
<1>2. SessionInv /\ [Next]_vars => [Ownership!Take \/ Ownership!Store]_(Ownership!ownershipVars)
  <2> SUFFICES ASSUME SessionInv, [Next]_vars
               PROVE  [Ownership!Take \/ Ownership!Store]_(Ownership!ownershipVars)
    OBVIOUS
  <2>1. CASE Next
    BY <2>1, NextPasses DEF StoredGrows, StoredPasses, Ownership!Take, Ownership!Store
  <2>2. CASE UNCHANGED vars
    BY <2>2 DEF vars, Ownership!ownershipVars
  <2> QED
    BY <2>1, <2>2
<1> QED
  BY <1>1, <1>2, SessionInvariance, PTL DEF Spec, OwnershipSpec, Ownership!OwnershipSpec

-----------------------------------------------------------------------------
(* Players, World and connections. *)

(* A step that leaves the owner and the connections that end alone. *)
LEMMA StaysOrderly ==
  ASSUME Orderly, owner' = owner, job'.stage = "join" => job.stage = "join" \/ owner.id = None,
         \A e \in Epochs : Writes(e)' => Writes(e),
         CallersWait',
         \A g \in Gates : conn'[g].id = conn[g].id /\ (conn'[g].st = "dead" => conn[g].st = "dead"),
         \A g \in Gates : conn[g].st \in {"leaving", "dead"} => conn'[g] = conn[g],
         \A s \in Scenes, g \in Gates : scene'[s].caller = g => scene[s].caller = g /\ scene'[s].drop = scene[s].drop
  PROVE  Orderly'
<1> USE DEF Orderly
<1>1. WriterOwns' /\ OwnerServes' /\ DeadAreSilent'
  BY EpochInts DEF WriterOwns, OwnerServes, DeadAreSilent
<1>2. LeaversWait'
  <2> SUFFICES ASSUME NEW s \in Scenes, NEW g \in Gates, scene'[s].caller = g
               PROVE  conn'[g].st = "dead" \/ (conn'[g].st = "leaving" /\ scene'[s].drop = Leaves(conn'[g]))
    BY DEF LeaversWait, Leaves
  <2>1. conn[g].st = "dead" \/ (conn[g].st = "leaving" /\ scene[s].drop = Leaves(conn[g]))
    BY DEF LeaversWait
  <2>2. conn'[g] = conn[g] /\ scene'[s].drop = scene[s].drop
    BY <2>1
  <2> QED
    BY <2>1, <2>2 DEF Leaves
<1> QED
  BY <1>1, <1>2

(* A Player only begins to write when it is created or activated. *)
LEMMA MovesWrite ==
  ASSUME TypeOK, PlayersFit, PlayersFit', NEW e \in Epochs, PlayerMoves(e)
  PROVE  \A f \in Epochs : Writes(f)' => Writes(f)
<1>1. PICK q \in PlayerState : player' = [player EXCEPT ![e] = q] /\ Moves(player[e], q)
  BY DEF PlayerMoves
<1>2. player'[e] = q /\ \A f \in Epochs \ {e} : player'[f] = player[f]
  BY <1>1, Types
<1>3. Writes(e)' => Writes(e)
  <2> SUFFICES ASSUME Alive(e)', Persists(player'[e]) PROVE Writes(e)
    BY DEF Writes
  <2>1. q.st \in {"live", "requested", "stopping", "prepared"} /\ q.owned
    BY <1>2 DEF Alive, Persists
  <2>2. q.st # "prepared"
    BY <1>2, <2>1 DEF PlayersFit, PlayerFits
  <2>3. player[e].st \in {"live", "requested", "stopping"}
    BY <1>1, <2>1, <2>2 DEF Moves
  <2> QED
    BY <2>3 DEF Writes, Alive, Persists, PlayersFit, PlayerFits
<1>4. \A f \in Epochs \ {e} : Writes(f)' => Writes(f)
  BY <1>2 DEF Writes, Alive, Persists
<1> QED
  BY <1>3, <1>4

(* Players that do not change write as before. *)
LEMMA SameWrites == ASSUME player' = player PROVE \A e \in Epochs : Writes(e)' => Writes(e)
BY DEF Writes, Alive, Persists

(* Calls that wait go on waiting while their connections do. *)
LEMMA StillWait ==
  ASSUME CallersWait, InFlight' \subseteq InFlight, \A c \in InFlight' : conn'[c.gate].st = conn[c.gate].st
  PROVE  CallersWait'
BY DEF CallersWait

(* A step of a Player, the answer to a fence apart, keeps the order of      *)
(* writers. *)
LEMMA PlayersOrderly ==
  ASSUME SessionInv, SessionInv', Orderly, NEW e \in Epochs,
         \/ PlayerSteps(e) /\ ~PlayerDetached(e)
         \/ PlayerEffect(e) \/ PlayerTick(e) \/ PlayerCrosses(e)
  PROVE  Orderly'
<1> USE DEF SessionInv
<1>1. PlayerMoves(e) /\ UNCHANGED <<calls, conn>>
  BY PlayerStopMoves, PlayerSealMoves, PlayerHeatMoves, PlayerEffectMoves, PlayerTickMoves,
     PlayerOtherMoves DEF PlayerSteps
<1>2. \A f \in Epochs : Writes(f)' => Writes(f)
  BY <1>1, MovesWrite
<1>3. UNCHANGED <<owner, job, scene>>
  BY <1>1 DEF PlayerMoves
<1>4. CallersWait'
  BY <1>1, <1>3 DEF Orderly, CallersWait, InFlight
<1> QED
  BY <1>1, <1>2, <1>3, <1>4, StaysOrderly

(* The steps of the World keep the order of writers. *)
LEMMA WorldOrderly ==
  ASSUME SessionInv, Orderly, WorldHeat \/ WorldForgets \/ \E e \in Epochs : WorldSteps(e) PROVE Orderly'
<1>1. UNCHANGED <<owner, job, calls, conn, scene, player>>
  BY DEF WorldHeat, WorldForgets, WorldSteps, WorldContact, WorldDetach, WorldFrame, registry, gateVars
<1>2. \A f \in Epochs : Writes(f)' => Writes(f)
  BY <1>1, SameWrites
<1>3. CallersWait'
  BY <1>1 DEF Orderly, CallersWait, InFlight
<1> QED
  BY <1>1, <1>2, <1>3, StaysOrderly

(* One connection moves that neither waits nor ends. *)
LEMMA OneMoves ==
  ASSUME TypeOK, Orderly, NEW g \in Gates, UNCHANGED <<owner, job, scene>>,
         \A e \in Epochs : Writes(e)' => Writes(e),
         \A h \in Gates \ {g} : conn'[h] = conn[h], conn'[g].id = conn[g].id,
         conn[g].st \in {"new", "open", "sealing"}, conn'[g].st # "dead",
         \A c \in calls' : c \in calls \/ (c.gate = g /\ conn'[g].st = ReplyState(c.type))
  PROVE  Orderly'
<1>1. \A c \in InFlight : c \in Call
  BY Types, JobRecords DEF InFlight
<1>2. \A c \in InFlight : c.gate \in Gates \ {g}
  <2> SUFFICES ASSUME NEW c \in InFlight, c.gate = g PROVE FALSE
    BY <1>1 DEF Call
  <2>1. conn[g].st = ReplyState(c.type) /\ c.type \in {"claim", "prepare", "commit"}
    BY <1>1 DEF Orderly, CallersWait, Call
  <2> QED
    BY <2>1, ReplyStateIs
<1>3. CallersWait'
  <2>1. ASSUME NEW c \in InFlight' PROVE conn'[c.gate].st = ReplyState(c.type)
    <3>1. c \in InFlight \/ (c.gate = g /\ conn'[g].st = ReplyState(c.type))
      BY <2>1 DEF InFlight
    <3>2. c \in InFlight => conn'[c.gate].st = ReplyState(c.type)
      BY <1>2 DEF Orderly, CallersWait
    <3> QED
      BY <3>1, <3>2
  <2> QED
    BY <2>1 DEF CallersWait
<1>4. \A h \in Gates : conn'[h].id = conn[h].id /\ (conn'[h].st = "dead" => conn[h].st = "dead")
  OBVIOUS
<1>5. \A h \in Gates : conn[h].st \in {"leaving", "dead"} => conn'[h] = conn[h]
  OBVIOUS
<1> QED
  BY <1>3, <1>4, <1>5, StaysOrderly

(* A connection that calls, takes a message or begins to end keeps the      *)
(* order of writers. *)
LEMMA GateMovesOrderly ==
  ASSUME SessionInv, Orderly, NEW g \in Gates,
         \/ GateClose(g) \/ GateTransfer(g) \/ GateSealExits(g) \/ GateTerminates(g)
         \/ GateJoins(g) \/ ClientCommits(g)
  PROVE  Orderly'
<1>1. TypeOK
  BY DEF SessionInv
<1>2. UNCHANGED <<owner, job, scene, player>>
  BY DEF GateClose, GateTransfer, GateSealExits, GateTerminates, GateJoins, ClientCommits, GateFrame
<1>3. conn[g].st \in {"new", "open", "sealing"}
  BY DEF GateClose, GateTransfer, GateSealExits, GateTerminates, GateJoins, ClientCommits
<1>4. conn[g] \in Connection
  BY <1>1, Types
<1>5. \A h \in Gates \ {g} : conn'[h] = conn[h]
  BY <1>1, Types DEF GateClose, GateTransfer, GateSealExits, GateTerminates, GateJoins, ClientCommits
<1>6. conn'[g].id = conn[g].id /\ conn'[g].st # "dead"
  <2>1. CASE GateClose(g)
    <3>1. PICK b : conn'[g] = [conn[g] EXCEPT !.closing = b] /\ conn[g].st = "open"
      BY <1>1, <2>1, Types DEF GateClose
    <3> QED
      BY <1>4, <3>1 DEF Connection
  <2>2. CASE GateTransfer(g)
    <3>1. PICK t : conn'[g] = [conn[g] EXCEPT !.st = "sealing", !.target = t] \/ conn'[g] = conn[g]
      BY <1>1, <2>2, Types DEF GateTransfer
    <3> QED
      BY <1>3, <1>4, <3>1 DEF Connection
  <2>3. CASE GateSealExits(g) \/ GateTerminates(g) \/ GateJoins(g) \/ ClientCommits(g)
    <3>1. PICK st \in {"leaving", "claiming", "committing"} : conn'[g] = [conn[g] EXCEPT !.st = st]
      BY <1>1, <2>3, Types DEF GateSealExits, GateTerminates, GateJoins, ClientCommits
    <3> QED
      BY <1>4, <3>1 DEF Connection
  <2> QED
    BY <2>1, <2>2, <2>3
<1>7. \A c \in calls' : c \in calls \/ (c.gate = g /\ conn'[g].st = ReplyState(c.type))
  <2>1. CASE GateJoins(g)
    <3>1. \A c \in calls' : c \in calls \/ (c.gate = g /\ c.type = "claim")
      BY <2>1 DEF GateJoins, NoCall
    <3>2. conn'[g].st = "claiming"
      BY <1>1, <2>1, Types DEF GateJoins, Connection
    <3> QED
      BY <3>1, <3>2, ReplyStateIs
  <2>2. CASE ClientCommits(g)
    <3>1. \A c \in calls' : c \in calls \/ (c.gate = g /\ c.type = "commit")
      BY <2>2 DEF ClientCommits, NoCall
    <3>2. conn'[g].st = "committing"
      BY <1>1, <2>2, Types DEF ClientCommits, Connection
    <3> QED
      BY <3>1, <3>2, ReplyStateIs
  <2>3. CASE GateClose(g) \/ GateTransfer(g) \/ GateSealExits(g) \/ GateTerminates(g)
    BY <2>3 DEF GateClose, GateTransfer, GateSealExits, GateTerminates
  <2> QED
    BY <2>1, <2>2, <2>3
<1>8. \A e \in Epochs : Writes(e)' => Writes(e)
  BY <1>2, SameWrites
<1> QED
  BY <1>1, <1>2, <1>3, <1>5, <1>6, <1>7, <1>8, OneMoves

(* The first input keeps the order of writers. *)
LEMMA ReadyOrderly ==
  ASSUME SessionInv, SessionInv', Orderly, NEW g \in Gates, ClientReady(g) PROVE Orderly'
<1> USE DEF SessionInv
<1>1. PICK e \in Epochs : PlayerMoves(e) /\ UNCHANGED <<calls, conn>>
  BY ClientReadyMoves
<1>2. \A f \in Epochs : Writes(f)' => Writes(f)
  BY <1>1, MovesWrite
<1>3. UNCHANGED <<owner, job, scene>>
  BY <1>1 DEF PlayerMoves
<1>4. CallersWait'
  BY <1>1, <1>3 DEF Orderly, CallersWait, InFlight
<1> QED
  BY <1>1, <1>2, <1>3, <1>4, StaysOrderly

(* The answer to a fence ends the writing of its Player and keeps the       *)
(* order. *)
LEMMA DetachedOrderly ==
  ASSUME SessionInv, SessionInv', Orderly, NEW e \in Epochs, PlayerDetached(e) PROVE Orderly'
<1> USE DEF SessionInv
<1>1. UNCHANGED <<owner, job, scene>> /\ player[e].gate \in Gates
  BY PlayerDetachedIs
<1>2. \A f \in Epochs : Writes(f)' => Writes(f)
  BY PlayerDetachedMoves, MovesWrite
<1>3. PICK g \in Gates : g = player[e].gate
  BY <1>1
<1>4. \/ UNCHANGED <<conn, calls>>
      \/ /\ conn[g].st = "sealing" /\ conn' = [conn EXCEPT ![g] = [conn[g] EXCEPT !.st = "preparing"]]
         /\ calls' = calls \cup {PrepareCall(e)}
      \/ conn' = Refuse(g, "sealing") /\ calls' = calls
  BY <1>3, PlayerDetachedIs
<1>5. CASE UNCHANGED <<conn, calls>>
  <2>1. CallersWait'
    BY <1>1, <1>5 DEF Orderly, CallersWait, InFlight
  <2> QED
    BY <1>1, <1>2, <1>5, <2>1, StaysOrderly
<1>6. CASE /\ conn[g].st = "sealing" /\ conn' = [conn EXCEPT ![g] = [conn[g] EXCEPT !.st = "preparing"]]
           /\ calls' = calls \cup {PrepareCall(e)}
  <2>1. conn[g] \in Connection
    BY Types
  <2>2. /\ conn'[g].st = "preparing" /\ conn'[g].id = conn[g].id
        /\ \A h \in Gates \ {g} : conn'[h] = conn[h]
    BY <1>6, <2>1, Types DEF Connection
  <2>3. PrepareCall(e).type = "prepare" /\ PrepareCall(e).gate = g
    BY <1>3 DEF PrepareCall, NoCall
  <2>4. \A c \in calls' : c \in calls \/ (c.gate = g /\ conn'[g].st = ReplyState(c.type))
    BY <1>6, <2>2, <2>3, ReplyStateIs
  <2> QED
    BY <1>1, <1>2, <1>6, <2>2, <2>4, OneMoves
<1>7. CASE conn' = Refuse(g, "sealing") /\ calls' = calls
  <2>1. \A h \in Gates : ConnStays(h) /\ (h # g => conn'[h] = conn[h])
    BY <1>7, RefuseStays
  <2>2. conn[g].st = "sealing" => conn'[g].st = "open"
    BY <1>7, RefuseStays
  <2>3. CASE conn[g].st = "sealing"
    <3>1. conn'[g].id = conn[g].id /\ \A h \in Gates \ {g} : conn'[h] = conn[h]
      BY <2>1 DEF ConnStays
    <3> QED
      BY <1>1, <1>2, <1>7, <2>2, <2>3, <3>1, OneMoves
  <2>4. CASE conn[g].st # "sealing"
    <3>1. conn' = conn
      BY <1>7, <2>4 DEF Refuse, ReplyTo
    <3>2. CallersWait'
      BY <1>1, <1>7, <3>1 DEF Orderly, CallersWait, InFlight
    <3> QED
      BY <1>1, <1>2, <3>1, <3>2, StaysOrderly
  <2> QED
    BY <2>3, <2>4
<1> QED
  BY <1>4, <1>5, <1>6, <1>7

-----------------------------------------------------------------------------
(* Drops, and the replies of leaves. *)

(* The reply of a leave ends the writing of whoever asked for it. *)
LEMMA AnswerOrderly ==
  ASSUME SessionInv, Orderly, NEW s \in Scenes, NEW caller, NEW m, Answer(caller, m),
         UNCHANGED <<owner, calls, player>>, scene'[s].caller = "none",
         \A t \in Scenes \ {s} : scene'[t] = scene[t],
         caller = "registry" => job.stage = "leave" /\ ~Writes(owner.id),
         \A g \in Gates : caller = g /\ conn[g].st = "leaving" =>
           player[Leaves(conn[g])].scene = s /\ ~Writes(Leaves(conn[g]))
  PROVE  Orderly'
<1> USE DEF SessionInv, Orderly
<1>1. job'.call = job.call /\ (job'.stage = "join" => job.stage = "join" \/ ~Writes(owner.id))
  BY Types DEF Answer, JobType
<1>2. ASSUME NEW g \in Gates
      PROVE  /\ conn'[g] = IF caller = g /\ conn[g].st = "leaving" THEN LeaveDone(conn[g]) ELSE conn[g]
             /\ conn'[g].id = conn[g].id /\ conn'[g].st \in {conn[g].st, "leaving", "dead"}
             /\ conn[g].st # "leaving" => conn'[g] = conn[g]
             /\ LeaveDone(conn[g]).st = "dead" => conn[g].pending = None \/ conn[g].st = "dead"
  <2>1. conn'[g] = IF caller = g /\ conn[g].st = "leaving" THEN LeaveDone(conn[g]) ELSE conn[g]
    BY Types DEF Answer
  <2>2. conn[g] \in Connection
    BY Types
  <2> QED
    BY <2>1, <2>2 DEF LeaveDone, Connection
<1>3. \A e \in Epochs : Writes(e)' => Writes(e)
  BY SameWrites
<1>4. WriterOwns'
  BY <1>1, <1>3 DEF WriterOwns
<1>5. CallersWait'
  <2>1. InFlight' = InFlight /\ \A c \in InFlight : c \in Call
    BY <1>1, Types, JobRecords DEF InFlight
  <2>2. ASSUME NEW c \in InFlight PROVE conn'[c.gate].st = ReplyState(c.type)
    <3>1. conn[c.gate].st = ReplyState(c.type) /\ c.type \in {"claim", "prepare", "commit"} /\ c.gate \in Gates
      BY <2>1 DEF CallersWait, Call
    <3>2. conn[c.gate].st # "leaving"
      BY <3>1, ReplyStateIs
    <3> QED
      BY <1>2, <3>1, <3>2
  <2> QED
    BY <2>1, <2>2 DEF CallersWait
<1>6. OwnerServes'
  BY <1>2 DEF OwnerServes
<1>7. DeadAreSilent'
  <2> SUFFICES ASSUME NEW g \in Gates, NEW e \in Epochs, conn'[g].st = "dead", conn'[g].id = e PROVE ~Writes(e)
    BY <1>3 DEF DeadAreSilent
  <2>1. CASE conn[g].st = "dead"
    BY <1>2, <2>1 DEF DeadAreSilent
  <2>2. CASE conn[g].st # "dead"
    <3>1. caller = g /\ conn[g].st = "leaving" /\ conn[g].pending = None /\ conn[g].id = e
      BY <1>2, <2>2
    <3> QED
      BY <3>1 DEF Leaves
  <2> QED
    BY <2>1, <2>2
<1>8. LeaversWait'
  <2> SUFFICES ASSUME NEW t \in Scenes, NEW g \in Gates, scene'[t].caller = g
               PROVE  conn'[g].st = "dead" \/ (conn'[g].st = "leaving" /\ scene'[t].drop = Leaves(conn'[g]))
    BY DEF LeaversWait, Leaves
  <2>1. g # "none" /\ t # s /\ scene'[t] = scene[t] /\ scene[t].caller = g
    BY SessionAssumption
  <2>2. conn[g].st = "dead" \/ (conn[g].st = "leaving" /\ scene[t].drop = Leaves(conn[g]))
    BY <2>1 DEF LeaversWait
  <2>3. CASE conn[g].st = "dead"
    BY <1>2, <2>3
  <2>4. CASE conn[g].st = "leaving" /\ caller # g
    <3>1. conn'[g] = conn[g]
      BY <1>2, <2>4
    <3> QED
      BY <2>1, <2>2, <2>4, <3>1
  <2>5. CASE conn[g].st = "leaving" /\ caller = g
    <3>1. scene[t].drop # None /\ scene[t].drop \in {scene[t].member, None}
      BY <2>1 DEF MembersFit
    <3>2. player[scene[t].drop].scene = t
      BY <3>1 DEF MembersFit
    <3> QED
      BY <2>1, <2>2, <2>5, <3>2
  <2> QED
    BY <2>2, <2>3, <2>4, <2>5
<1> QED
  BY <1>4, <1>5, <1>6, <1>7, <1>8

(* A Player that is not a member of its Scene does not run. *)
LEMMA OnlyMembersWrite ==
  ASSUME SessionInv, NEW e \in Epochs, scene[player[e].scene].member # e \/ scene[player[e].scene].st = "down"
  PROVE  ~Writes(e)
BY DEF SessionInv, MembersFit, Writes

(* A drop that is answered at once, or begins. *)
LEMMA DropOrderly ==
  ASSUME SessionInv, Orderly, NEW s \in Scenes, NEW e \in Session, NEW status, NEW caller,
         Idle(s), e \in {None, scene[s].member}, Drop(s, e, status, caller),
         UNCHANGED <<owner, calls, player>>,
         caller = "registry" => job.stage = "leave" /\ (e = None \/ ~Alive(e) => ~Writes(owner.id)),
         \A g \in Gates : caller = g =>
           /\ conn[g].st = "leaving" /\ player[Leaves(conn[g])].scene = s
           /\ IF e = None THEN ~Writes(Leaves(conn[g])) ELSE e = Leaves(conn[g])
  PROVE  Orderly'
<1> USE DEF SessionInv
<1>1. scene[s].caller = "none" /\ scene[s] \in SceneState
  BY Types DEF Idle, MembersFit
<1>2. CASE e # None /\ Alive(e)
  <2>1. scene' = [scene EXCEPT ![s].st = status, ![s].drop = e, ![s].caller = caller] /\ UNCHANGED <<job, conn>>
    BY <1>2 DEF Drop
  <2>2. /\ scene'[s].drop = e /\ scene'[s].caller = caller
        /\ \A t \in Scenes \ {s} : scene'[t] = scene[t]
    BY <2>1, Types DEF SceneState
  <2>3. WriterOwns' /\ OwnerServes' /\ DeadAreSilent' /\ CallersWait'
    BY <2>1, SameWrites DEF Orderly, WriterOwns, OwnerServes, DeadAreSilent, CallersWait, InFlight
  <2>4. LeaversWait'
    <3>1. ASSUME NEW t \in Scenes, NEW g \in Gates, scene'[t].caller = g
          PROVE  conn[g].st = "dead" \/ (conn[g].st = "leaving" /\ scene'[t].drop = Leaves(conn[g]))
      <4>1. CASE t = s
        BY <1>2, <2>2, <3>1, <4>1
      <4>2. CASE t # s
        BY <2>2, <3>1, <4>2 DEF Orderly, LeaversWait
      <4> QED
        BY <4>1, <4>2
    <3>2. conn' = conn
      BY <2>1
    <3> QED
      BY <3>1, <3>2 DEF LeaversWait, Leaves
  <2> QED
    BY <2>3, <2>4 DEF Orderly
<1>3. CASE ~(e # None /\ Alive(e))
  <2>1. PICK m : Answer(caller, m)
    BY <1>3 DEF Drop
  <2>2. scene'[s].caller = "none" /\ \A t \in Scenes \ {s} : scene'[t] = scene[t]
    BY <1>1, <1>3, Types DEF Drop, SceneState
  <2>3. caller = "registry" => job.stage = "leave" /\ ~Writes(owner.id)
    BY <1>3
  <2>4. \A g \in Gates : caller = g /\ conn[g].st = "leaving" =>
          player[Leaves(conn[g])].scene = s /\ ~Writes(Leaves(conn[g]))
    BY <1>3 DEF Writes
  <2> QED
    BY <2>1, <2>2, <2>3, <2>4, AnswerOrderly
<1> QED
  BY <1>2, <1>3

(* The leave of a claim keeps the order of writers. *)
LEMMA ClaimLeavesOrderly == ASSUME SessionInv, Orderly, ClaimLeaves PROVE Orderly'
<1> USE DEF SessionInv
<1>1. UNCHANGED <<owner, calls, player>> /\ job.stage = "leave"
  BY DEF ClaimLeaves
<1>2. owner.id \in Epochs /\ owner.scene \in Scenes
  BY Types DEF ClaimLeaves, JobFits, OwnerFits, OwnerType, Session
<1>3. PICK e \in Session : e = MemberOr(owner.scene, owner.id)
  BY <1>2 DEF MemberOr, Session
<1>4. e \in {None, scene[owner.scene].member}
  BY <1>3 DEF MemberOr
<1>5. e = None \/ ~Alive(e) => ~Writes(owner.id)
  <2>1. CASE scene[owner.scene].member = owner.id
    BY <1>2, <1>3, <2>1, EpochInts DEF MemberOr, Writes
  <2>2. CASE scene[owner.scene].member # owner.id
    <3>1. Known(owner.id) => player[owner.id].scene = owner.scene
      BY <1>2, EpochInts DEF OwnerFits
    <3>2. ~Known(owner.id) => ~Writes(owner.id)
      BY DEF Known, Writes, Alive
    <3> QED
      BY <1>2, <2>2, <3>1, <3>2, OnlyMembersWrite
  <2> QED
    BY <2>1, <2>2
<1>6. \A g \in Gates : g # "registry"
  BY SessionAssumption
<1>7. Idle(owner.scene) /\ Drop(owner.scene, e, scene[owner.scene].st, "registry")
  BY <1>3 DEF ClaimLeaves
<1> QED
  BY <1>1, <1>2, <1>4, <1>5, <1>6, <1>7, DropOrderly

(* A Scene that sees its Player end, or fails, keeps the order of           *)
(* writers. *)
LEMMA SceneDropsOrderly ==
  ASSUME SessionInv, Orderly, NEW s \in Scenes, SceneSeesPlayer(s) \/ SceneFails(s) PROVE Orderly'
<1> USE DEF SessionInv
<1>1. UNCHANGED <<owner, calls, player>>
  BY DEF SceneSeesPlayer, SceneFails
<1>2. Idle(s) /\ scene[s].member \in Session
  BY Types DEF SceneSeesPlayer, SceneFails, SceneState
<1>3. PICK status : Drop(s, scene[s].member, status, "none")
  BY DEF SceneSeesPlayer, SceneFails
<1>4. \A g \in Gates : g # "none"
  BY SessionAssumption
<1> QED
  BY <1>1, <1>2, <1>3, <1>4, DropOrderly

(* A leave of a connection keeps the order of writers. *)
LEMMA GateLeavesOrderly == ASSUME SessionInv, Orderly, NEW g \in Gates, GateLeaves(g) PROVE Orderly'
<1> USE DEF SessionInv
<1>1. UNCHANGED <<owner, calls, player>> /\ conn[g].st = "leaving"
  BY DEF GateLeaves
<1>2. PICK f : f = Leaves(conn[g])
  OBVIOUS
<1>3. /\ f \in Epochs /\ Known(f) /\ Idle(player[f].scene)
      /\ Drop(player[f].scene, MemberOr(player[f].scene, f), scene[player[f].scene].st, g)
  <2>1. f \in Session
    BY <1>2, Types, ConnRecords DEF Leaves, Session
  <2> QED
    BY <1>2, <2>1 DEF GateLeaves, Session, Known
<1>4. PICK s \in Scenes : s = player[f].scene
  BY <1>3 DEF PlayersFit, PlayerFits
<1>5. PICK e \in Session : e = MemberOr(s, f)
  BY <1>3 DEF MemberOr, Session
<1>6. e \in {None, scene[s].member} /\ (e = None => ~Writes(f)) /\ (e # None => e = f)
  BY <1>3, <1>4, <1>5, OnlyMembersWrite, EpochInts DEF MemberOr
<1>7. g # "registry" /\ IF e = None THEN ~Writes(Leaves(conn[g])) ELSE e = Leaves(conn[g])
  BY <1>2, <1>6, SessionAssumption
<1>8. Idle(s) /\ Drop(s, e, scene[s].st, g) /\ player[Leaves(conn[g])].scene = s
  BY <1>2, <1>3, <1>4, <1>5
<1> QED
  BY <1>1, <1>4, <1>6, <1>7, <1>8, DropOrderly

(* The end of a drop keeps the order: the dropped Player no longer          *)
(* writes. *)
LEMMA SceneDroppedOrderly == ASSUME SessionInv, Orderly, NEW s \in Scenes, SceneDropped(s) PROVE Orderly'
<1> USE DEF SessionInv
<1>1. UNCHANGED <<owner, calls, player>> /\ Answer(scene[s].caller, mail)
  BY DEF SceneDropped
<1>2. scene'[s].caller = "none" /\ \A t \in Scenes \ {s} : scene'[t] = scene[t]
  BY Types DEF SceneDropped, SceneState
<1>3. PICK e \in Epochs : e = scene[s].drop
  BY Types DEF SceneDropped, SceneState, Session
<1>4. ~Writes(e) /\ player[e].scene = s
  BY <1>3, EpochInts DEF SceneDropped, MembersFit, Writes, Alive
<1>5. scene[s].caller = "registry" => job.stage = "leave" /\ ~Writes(owner.id)
  BY <1>3, <1>4 DEF MembersFit
<1>6. \A g \in Gates : scene[s].caller = g /\ conn[g].st = "leaving" =>
        player[Leaves(conn[g])].scene = s /\ ~Writes(Leaves(conn[g]))
  BY <1>3, <1>4 DEF Orderly, LeaversWait
<1> QED
  BY <1>1, <1>2, <1>5, <1>6, AnswerOrderly

(* A connection that has nothing more to leave ends. *)
LEMMA GateGoneOrderly == ASSUME SessionInv, Orderly, NEW g \in Gates, GateGone(g) PROVE Orderly'
<1> USE DEF SessionInv, Orderly
<1>1. UNCHANGED <<owner, job, calls, scene, player>> /\ conn[g].st = "leaving"
  BY DEF GateGone, GateFrame
<1>2. /\ conn'[g].st = "dead" /\ conn'[g].id = conn[g].id
      /\ \A h \in Gates \ {g} : conn'[h] = conn[h]
  <2>1. conn[g] \in Connection
    BY Types
  <2>2. conn' = [conn EXCEPT ![g] = [conn[g] EXCEPT !.st = "dead"]]
    BY Types DEF GateGone
  <2> QED
    BY <2>1, <2>2, Types DEF Connection
<1>3. WriterOwns'
  BY <1>1, SameWrites DEF WriterOwns
<1>4. OwnerServes'
  BY <1>1, <1>2 DEF OwnerServes
<1>5. CallersWait'
  <2>1. InFlight' = InFlight /\ \A c \in InFlight : c \in Call
    BY <1>1, Types, JobRecords DEF InFlight
  <2>2. ASSUME NEW c \in InFlight PROVE conn'[c.gate].st = ReplyState(c.type)
    <3>1. conn[c.gate].st = ReplyState(c.type) /\ c.type \in {"claim", "prepare", "commit"} /\ c.gate \in Gates
      BY <2>1 DEF CallersWait, Call
    <3>2. c.gate # g
      BY <1>1, <3>1, ReplyStateIs
    <3> QED
      BY <1>2, <3>1, <3>2
  <2> QED
    BY <2>1, <2>2 DEF CallersWait
<1>6. DeadAreSilent'
  <2>1. ASSUME NEW e \in Epochs, conn[g].id = e PROVE ~Writes(e)
    <3>1. conn[g].pending \in Session
      BY Types, ConnRecords
    <3>2. CASE conn[g].pending \in Epochs
      BY <2>1, <3>2 DEF ConnsFit, ConnFits, Silent, Writes, Alive, Persists
    <3>3. CASE conn[g].pending = None
      <4>1. Known(e) => scene[player[e].scene].st = "down"
        BY <2>1, <3>3 DEF GateGone, Leaves, Known
      <4>2. ~Known(e) => ~Writes(e)
        BY DEF Known, Writes, Alive
      <4> QED
        BY <4>1, <4>2, OnlyMembersWrite
    <3> QED
      BY <3>1, <3>2, <3>3 DEF Session
  <2>2. \A h \in Gates, e \in Epochs : conn'[h].st = "dead" /\ conn'[h].id = e => ~Writes(e)
    BY <1>2, <2>1 DEF DeadAreSilent
  <2> QED
    BY <1>1, <2>2, SameWrites DEF DeadAreSilent
<1>7. LeaversWait'
  <2>1. ASSUME NEW t \in Scenes, NEW h \in Gates, scene[t].caller = h
        PROVE  conn'[h].st = "dead" \/ (conn'[h].st = "leaving" /\ scene[t].drop = Leaves(conn'[h]))
    BY <1>2, <2>1 DEF LeaversWait
  <2> QED
    BY <1>1, <2>1 DEF LeaversWait, Leaves
<1> QED
  BY <1>3, <1>4, <1>5, <1>6, <1>7

-----------------------------------------------------------------------------
(* Exits. *)

(* While the registry is in a call, only a Player of the Scene it waits for   *)
(* writes.                                                                 *)
LEMMA JobSceneWrites ==
  ASSUME SessionInv, WriterOwns, job # NoJob, NEW e \in Epochs, Writes(e)
  PROVE  player[e].scene = JobScene
<1> USE DEF SessionInv
<1>1. owner.id = e /\ job.stage # "join"
  BY DEF WriterOwns
<1>2. Known(e) /\ player[e].scene = owner.scene
  BY <1>1, EpochInts DEF Writes, Alive, Known, OwnerFits
<1>3. job.stage \notin {"prepare", "activate"}
  <2>1. job.stage \in {"prepare", "activate"} => Silent(e)
    BY <1>1, JobInFlight DEF JobFits, IsOwner, CallsFit, CallFits
  <2> QED
    BY <2>1 DEF Silent, Writes, Alive, Persists
<1>4. job.stage \in {"leave", "endpoint", "detach"}
  BY <1>1, <1>3, JobInFlight
<1> QED
  BY <1>2, <1>4, JobSceneIs

(* The registry without an owner has nobody write. *)
LEMMA ForgetsOrderly ==
  ASSUME owner' = NoOwner, InFlight' = {} \/ CallersWait', \A e \in Epochs : ~Writes(e)',
         LeaversWait'
  PROVE  Orderly'
<1>1. \A g \in Gates : owner'.gate # g
  BY SessionAssumption DEF NoOwner, None
<1> QED
  BY <1>1 DEF Orderly, WriterOwns, OwnerServes, CallersWait, DeadAreSilent

(* An exit of the registry, or the DOWN of an owner, keeps the order: no    *)
(* Player writes then. *)
LEMMA RegistryEndsOrderly == ASSUME SessionInv, Orderly, RegistryCallExits \/ RegistryDown PROVE Orderly'
<1> USE DEF SessionInv
<1>1. CASE RegistryCallExits
  <2>1. /\ owner' = NoOwner /\ job' = NoJob /\ calls' = {} /\ scene[JobScene].st = "down" /\ job # NoJob
        /\ conn' = [g \in Gates |-> IF Waiting(g) THEN [conn[g] EXCEPT !.st = "leaving"] ELSE conn[g]]
        /\ UNCHANGED <<scene, player>>
    BY <1>1 DEF RegistryCallExits, RegistryExits
  <2>2. InFlight' = {}
    BY <2>1 DEF InFlight, NoJob
  <2>3. \A e \in Epochs : ~Writes(e)
    BY <2>1, JobSceneWrites, OnlyMembersWrite DEF Orderly
  <2>4. LeaversWait'
    <3>1. ASSUME NEW t \in Scenes, NEW g \in Gates, scene[t].caller = g
          PROVE  conn'[g].st = "dead" \/ (conn'[g].st = "leaving" /\ scene[t].drop = Leaves(conn'[g]))
      <4>1. conn[g].st = "dead" \/ (conn[g].st = "leaving" /\ scene[t].drop = Leaves(conn[g]))
        BY <3>1 DEF Orderly, LeaversWait
      <4>2. conn'[g] = conn[g]
        BY <2>1, <4>1 DEF Waiting
      <4> QED
        BY <4>1, <4>2
    <3> QED
      BY <2>1, <3>1 DEF LeaversWait, Leaves
  <2> QED
    BY <2>1, <2>2, <2>3, <2>4, SameWrites, ForgetsOrderly
<1>2. CASE RegistryDown
  <2>1. /\ owner' = NoOwner /\ UNCHANGED <<job, calls, conn, scene, player>>
        /\ owner.gate # None /\ conn[owner.gate].st = "dead"
    BY <1>2 DEF RegistryDown, gateVars
  <2>2. owner.gate \in Gates
    BY <2>1, Types DEF OwnerType
  <2>3. \A e \in Epochs : ~Writes(e)
    BY <2>1, <2>2 DEF Orderly, WriterOwns, OwnerServes, DeadAreSilent
  <2>4. CallersWait' /\ LeaversWait'
    BY <2>1 DEF Orderly, CallersWait, InFlight, LeaversWait, Leaves
  <2> QED
    BY <2>1, <2>3, <2>4, SameWrites, ForgetsOrderly
<1> QED
  BY <1>1, <1>2

(* The connections when a Scene exits. *)
LEMMA ExitConns ==
  ASSUME TypeOK, NEW s \in Scenes, SceneExits(s), NEW g \in Gates
  PROVE  /\ conn'[g].id = conn[g].id
         /\ \/ conn'[g] = conn[g] /\ ~(scene[s].caller = g /\ conn[g].st = "leaving")
            \/ conn'[g].st = "leaving" /\ Waiting(g) /\ JobScene = s
            \/ conn'[g].st = "dead" /\ scene[s].caller = g /\ conn[g].st = "leaving"
<1> DEFINE c == [h \in Gates |-> IF scene[s].caller = h /\ conn[h].st = "leaving"
                                 THEN [conn[h] EXCEPT !.st = "dead"] ELSE conn[h]]
<1>1. \/ JobScene = s /\ conn'[g] = IF Waiting(g) THEN [c[g] EXCEPT !.st = "leaving"] ELSE c[g]
      \/ conn'[g] = c[g]
  BY DEF SceneExits, RegistryExits
<1>2. conn[g] \in Connection
  BY Types
<1>3. CASE scene[s].caller = g /\ conn[g].st = "leaving"
  <2>1. ~Waiting(g) /\ conn'[g] = [conn[g] EXCEPT !.st = "dead"]
    BY <1>1, <1>3 DEF Waiting
  <2> QED
    BY <1>2, <1>3, <2>1 DEF Connection
<1>4. CASE ~(scene[s].caller = g /\ conn[g].st = "leaving")
  <2>1. c[g] = conn[g]
    BY <1>4
  <2> HIDE DEF c
  <2> QED
    BY <1>1, <1>2, <1>4, <2>1 DEF Connection
<1> QED
  BY <1>3, <1>4

(* An exit of a Scene keeps the order: its Players end with it. *)
LEMMA SceneExitsOrderly == ASSUME SessionInv, Orderly, NEW s \in Scenes, SceneExits(s) PROVE Orderly'
<1> USE DEF SessionInv
<1>1. /\ \A e \in Epochs : player[e].scene = s => ~Alive(e)'
      /\ \A e \in Epochs : player'[e] = player[e] \/ (player[e].scene = s)
      /\ \A t \in Scenes \ {s} : scene'[t] = scene[t]
      /\ scene'[s].caller = "none"
      /\ \/ JobScene = s /\ owner' = NoOwner /\ job' = NoJob /\ calls' = {}
         \/ JobScene # s /\ UNCHANGED <<owner, job, calls>>
  BY ExitIs
<1>2. \A e \in Epochs : Writes(e)' => Writes(e) /\ player[e].scene # s
  BY <1>1 DEF Writes, Alive, Persists
<1>3. \A g \in Gates :
        /\ conn'[g].id = conn[g].id
        /\ \/ conn'[g] = conn[g] /\ ~(scene[s].caller = g /\ conn[g].st = "leaving")
           \/ conn'[g].st = "leaving" /\ Waiting(g) /\ JobScene = s
           \/ conn'[g].st = "dead" /\ scene[s].caller = g /\ conn[g].st = "leaving"
  BY ExitConns
<1>4. LeaversWait'
  <2>1. ASSUME NEW t \in Scenes, NEW g \in Gates, scene'[t].caller = g
        PROVE  conn'[g].st = "dead" \/ (conn'[g].st = "leaving" /\ scene'[t].drop = Leaves(conn'[g]))
    <3>1. t # s /\ scene'[t] = scene[t]
      BY <1>1, <2>1, SessionAssumption
    <3>2. conn[g].st = "dead" \/ (conn[g].st = "leaving" /\ scene[t].drop = Leaves(conn[g]))
      BY <2>1, <3>1 DEF Orderly, LeaversWait
    <3>3. conn'[g] = conn[g] \/ conn'[g].st = "dead"
      BY <1>3, <3>2 DEF Waiting
    <3> QED
      BY <3>1, <3>2, <3>3
  <2> QED
    BY <2>1 DEF LeaversWait, Leaves
<1>5. CASE JobScene = s /\ owner' = NoOwner /\ job' = NoJob /\ calls' = {}
  <2>1. job # NoJob
    <3>1. NoJob.stage = "idle" /\ s # None
      BY SessionAssumption DEF NoJob, None
    <3> QED
      BY <1>5, <3>1 DEF JobScene
  <2>2. \A e \in Epochs : ~Writes(e)'
    BY <1>2, <1>5, <2>1, JobSceneWrites DEF Orderly
  <2>3. InFlight' = {}
    BY <1>5 DEF InFlight, NoJob
  <2> QED
    BY <1>4, <1>5, <2>2, <2>3, ForgetsOrderly
<1>6. CASE JobScene # s /\ UNCHANGED <<owner, job, calls>>
  <2>1. WriterOwns' /\ OwnerServes'
    BY <1>2, <1>3, <1>6 DEF Orderly, WriterOwns, OwnerServes
  <2>2. CallersWait'
    <3>1. InFlight' = InFlight /\ \A c \in InFlight : c \in Call
      BY <1>6, Types, JobRecords DEF InFlight
    <3>2. ASSUME NEW c \in InFlight PROVE conn'[c.gate].st = ReplyState(c.type)
      <4>1. conn[c.gate].st = ReplyState(c.type) /\ c.type \in {"claim", "prepare", "commit"} /\ c.gate \in Gates
        BY <3>1 DEF Orderly, CallersWait, Call
      <4>2. conn[c.gate].st # "leaving"
        BY <4>1, ReplyStateIs
      <4>3. conn'[c.gate] = conn[c.gate]
        BY <1>3, <1>6, <4>1, <4>2
      <4> QED
        BY <4>1, <4>3
    <3> QED
      BY <3>1, <3>2 DEF CallersWait
  <2>3. DeadAreSilent'
    <3>1. ASSUME NEW g \in Gates, NEW e \in Epochs, conn'[g].st = "dead", conn'[g].id = e, Writes(e)'
          PROVE  FALSE
      <4>1. Writes(e) /\ player[e].scene # s /\ conn[g].id = e
        BY <1>2, <1>3, <3>1
      <4>2. conn[g].st # "dead"
        BY <4>1 DEF Orderly, DeadAreSilent
      <4>3. scene[s].caller = g /\ conn[g].st = "leaving"
        BY <1>3, <3>1, <4>2
      <4>4. scene[s].drop = Leaves(conn[g])
        BY <4>2, <4>3 DEF Orderly, LeaversWait
      <4>5. scene[s].drop # None /\ player[scene[s].drop].scene = s
        <5>1. g # "none"
          BY SessionAssumption
        <5> QED
          BY <4>3, <5>1 DEF MembersFit
      <4>6. conn[g].pending \in Epochs
        BY <4>1, <4>4, <4>5, Types, ConnRecords DEF Leaves, Session
      <4>7. Silent(e)
        BY <4>1, <4>6 DEF ConnsFit, ConnFits
      <4> QED
        BY <4>1, <4>7 DEF Silent, Writes, Alive, Persists
    <3> QED
      BY <3>1 DEF DeadAreSilent
  <2> QED
    BY <1>4, <2>1, <2>2, <2>3 DEF Orderly
<1> QED
  BY <1>1, <1>5, <1>6

-----------------------------------------------------------------------------
(* The handlers of the registry. *)

(* The reply to one call leaves the other connections waiting. *)
LEMMA OthersWait ==
  ASSUME SessionInv, CallersWait, NEW h \in Gates, InFlight' \subseteq InFlight,
         \A c \in InFlight' : c.gate # h, \A g \in Gates \ {h} : conn'[g] = conn[g]
  PROVE  CallersWait'
<1>1. \A c \in InFlight : c.gate \in Gates
  BY Types, JobRecords DEF SessionInv, InFlight, Call
<1> QED
  BY <1>1 DEF CallersWait

(* A reply that leaves the connection its session. *)
LEMMA RepliesOrderly ==
  ASSUME SessionInv, Orderly, NEW h \in Gates, NEW st \in {"claiming", "preparing", "committing"}, NEW r,
         conn' = ReplyTo(h, st, r), r.st = "open", r.id = conn[h].id,
         InFlight' \subseteq InFlight, \A c \in InFlight' : c.gate # h,
         owner' = owner, job'.stage = "join" => job.stage = "join",
         \A e \in Epochs : Writes(e)' => Writes(e),
         \A s \in Scenes : scene'[s].caller = scene[s].caller /\ scene'[s].drop = scene[s].drop
  PROVE  Orderly'
<1> USE DEF SessionInv
<1>1. /\ \A g \in Gates \ {h} : conn'[g] = conn[g]
      /\ conn'[h] = IF conn[h].st = st THEN r ELSE conn[h]
  BY ReplyIs
<1>2. CallersWait'
  BY <1>1, OthersWait DEF Orderly
<1>3. /\ \A g \in Gates : conn'[g].id = conn[g].id /\ (conn'[g].st = "dead" => conn[g].st = "dead")
      /\ \A g \in Gates : conn[g].st \in {"leaving", "dead"} => conn'[g] = conn[g]
  BY <1>1
<1>4. \A s \in Scenes, g \in Gates : scene'[s].caller = g => scene[s].caller = g /\ scene'[s].drop = scene[s].drop
  OBVIOUS
<1> QED
  BY <1>2, <1>3, <1>4, StaysOrderly

(* A refused call keeps the order of writers. *)
LEMMA RefuseOrderly ==
  ASSUME SessionInv, Orderly, NEW h \in Gates, NEW st \in {"claiming", "preparing", "committing"},
         conn' = Refuse(h, st), InFlight' \subseteq InFlight, \A c \in InFlight' : c.gate # h,
         job'.stage = "join" => job.stage = "join", UNCHANGED <<owner, player, scene>>
  PROVE  Orderly'
<1>1. PICK r : r = [conn[h] EXCEPT !.st = "open", !.closing = TRUE]
  OBVIOUS
<1>2. r.st = "open" /\ r.id = conn[h].id
  BY <1>1, Types DEF SessionInv, Connection
<1>3. conn' = ReplyTo(h, st, r)
  BY <1>1 DEF Refuse
<1>4. \A s \in Scenes : scene'[s].caller = scene[s].caller /\ scene'[s].drop = scene[s].drop
  OBVIOUS
<1> QED
  BY <1>2, <1>3, <1>4, SameWrites, RepliesOrderly

(* The call of the registry ends. *)
LEMMA JobEnds ==
  ASSUME SessionInv, job # NoJob, job' = NoJob, calls' = calls
  PROVE  /\ InFlight' \subseteq InFlight /\ job'.stage = "idle"
         /\ job.call.gate \in Gates /\ \A c \in InFlight' : c.gate # job.call.gate
<1>1. InFlight' \subseteq calls /\ job'.stage = "idle"
  BY DEF InFlight, NoJob
<1>2. job.call.gate \in Gates
  BY JobInFlight DEF SessionInv, Call
<1> QED
  BY <1>1, <1>2 DEF SessionInv, CallsFit, InFlight

(* Taking a call keeps the order of writers. *)
LEMMA RegistryTakesOrderly == ASSUME SessionInv, Orderly, NEW c \in calls, RegistryTakes(c) PROVE Orderly'
<1> USE DEF SessionInv
<1>1. UNCHANGED <<owner, player, scene>> /\ job = NoJob /\ calls' = calls \ {c}
  BY DEF RegistryTakes
<1>2. NoJob.call = NoCall /\ NoJob.stage = "idle" /\ NoCall.type = "none"
  BY DEF NoJob, NoCall
<1>3. c \in Call /\ c \in InFlight /\ c.type \in {"claim", "prepare", "commit"} /\ c.gate \in Gates
  BY Types DEF Call, InFlight
<1>4. CASE c.type = "claim" \/ IsOwner(c)
  <2>1. job' = [call |-> c, stage |-> FirstStage(c), epoch |-> nextEpoch] /\ conn' = conn
    BY <1>4 DEF RegistryTakes
  <2>2. job'.call = c /\ job'.stage = FirstStage(c)
    BY <2>1
  <2>3. job'.stage = "join" => owner.id = None
    BY <1>3, <2>2, FirstStageIs
  <2>4. InFlight' = InFlight
    BY <1>1, <1>2, <1>3, <2>2 DEF InFlight, NoCall
  <2>5. CallersWait'
    BY <2>1, <2>4 DEF Orderly, CallersWait
  <2>6. \A e \in Epochs : Writes(e)' => Writes(e)
    BY <1>1, SameWrites
  <2> QED
    BY <1>1, <2>1, <2>3, <2>5, <2>6, StaysOrderly
<1>5. CASE ~(c.type = "claim" \/ IsOwner(c))
  <2>1. conn' = Refuse(c.gate, ReplyState(c.type)) /\ job' = job
    BY <1>5 DEF RegistryTakes
  <2>2. ReplyState(c.type) \in {"preparing", "committing"}
    BY <1>3, <1>5, ReplyStateIs
  <2>3. InFlight' \subseteq InFlight /\ \A d \in InFlight' : d.gate # c.gate
    BY <1>1, <1>2, <2>1 DEF InFlight, CallsFit
  <2> QED
    BY <1>1, <1>3, <2>1, <2>2, <2>3, RefuseOrderly
<1> QED
  BY <1>4, <1>5

(* The endpoint stage of prepare_transfer keeps the order of writers. *)
LEMMA PrepareEndpointOrderly == ASSUME SessionInv, Orderly, PrepareEndpoint PROVE Orderly'
<1> USE DEF SessionInv
<1>1. UNCHANGED <<owner, calls, player, scene>> /\ job.stage = "endpoint" /\ job # NoJob
  BY DEF PrepareEndpoint, JobFits
<1>2. CASE job' = NoJob /\ conn' = Refuse(job.call.gate, "preparing")
  <2>1. /\ InFlight' \subseteq InFlight /\ job'.stage = "idle"
        /\ job.call.gate \in Gates /\ \A c \in InFlight' : c.gate # job.call.gate
    BY <1>1, <1>2, JobEnds
  <2> QED
    BY <1>1, <1>2, <2>1, RefuseOrderly
<1>3. CASE job' = [job EXCEPT !.stage = "prepare"] /\ conn' = conn
  <2>1. job'.stage = "prepare" /\ job'.call = job.call
    BY <1>3, Types DEF JobType
  <2>2. CallersWait'
    BY <1>1, <1>3, <2>1 DEF Orderly, CallersWait, InFlight
  <2> QED
    BY <1>1, <1>3, <2>1, <2>2, SameWrites, StaysOrderly
<1> QED
  BY <1>2, <1>3 DEF PrepareEndpoint

(* The import of a cut keeps the order: a prepared Player does not write. *)
LEMMA PrepareImportsOrderly == ASSUME SessionInv, Orderly, PrepareImports PROVE Orderly'
<1> USE DEF SessionInv
<1>1. UNCHANGED <<owner, calls>> /\ job.stage = "prepare" /\ job' = NoJob /\ job # NoJob /\ job.call.type = "prepare"
  BY DEF PrepareImports, JobFits
<1>2. /\ InFlight' \subseteq InFlight /\ job'.stage = "idle"
      /\ job.call.gate \in Gates /\ \A c \in InFlight' : c.gate # job.call.gate
  BY <1>1, JobEnds
<1>3. PICK h \in Gates : h = job.call.gate
  BY <1>2
<1>4. PICK e \in Epochs : e = job.epoch
  BY <1>1, NewEpoch
<1>5. CASE conn' = Refuse(h, "preparing") /\ UNCHANGED <<player, scene>>
  BY <1>1, <1>2, <1>3, <1>5, RefuseOrderly
<1>6. CASE /\ player' = [player EXCEPT ![e] =
                [NoPlayer EXCEPT !.st = "prepared", !.scene = job.call.scene, !.gate = h, !.anchored = TRUE,
                                 !.ready = TRUE, !.body = job.call.body, !.watch = TRUE]]
           /\ scene' = [scene EXCEPT ![job.call.scene].member = e]
           /\ conn' = ReplyTo(h, "preparing", [conn[h] EXCEPT !.st = "open", !.pending = e])
  <2>1. PICK r : r = [conn[h] EXCEPT !.st = "open", !.pending = e]
    OBVIOUS
  <2>2. r.st = "open" /\ r.id = conn[h].id
    BY <2>1, Types DEF Connection
  <2>3. \A f \in Epochs : Writes(f)' => Writes(f)
    <3>0. PICK p : p = [NoPlayer EXCEPT !.st = "prepared", !.scene = job.call.scene, !.gate = h,
                                        !.anchored = TRUE, !.ready = TRUE, !.body = job.call.body,
                                        !.watch = TRUE]
      OBVIOUS
    <3>1. ~p.owned
      BY <3>0 DEF NoPlayer
    <3>2. player'[e] = p /\ \A f \in Epochs \ {e} : player'[f] = player[f]
      BY <1>6, <3>0, Types
    <3> QED
      BY <3>1, <3>2 DEF Writes, Alive, Persists
  <2>4. \A s \in Scenes : scene'[s].caller = scene[s].caller /\ scene'[s].drop = scene[s].drop
    BY <1>6, Types DEF SceneState
  <2>5. conn' = ReplyTo(h, "preparing", r)
    BY <1>6, <2>1
  <2> QED
    BY <1>1, <1>2, <1>3, <2>2, <2>3, <2>4, <2>5, RepliesOrderly
<1> QED
  BY <1>3, <1>4, <1>5, <1>6 DEF PrepareImports

(* The detach stage of commit_transfer keeps the order of writers. *)
LEMMA CommitDetachesOrderly == ASSUME SessionInv, Orderly, CommitDetaches PROVE Orderly'
<1> USE DEF SessionInv
<1>1. job.stage = "detach" /\ job.call.type = "commit" /\ job # NoJob
  BY DEF CommitDetaches, JobFits
<1>2. owner.scene \in Scenes
  BY <1>1, OwnerOfJob
<1>3. PICK old \in Epochs : old = job.call.id
  BY <1>1, OwnerOfJob
<1>4. CASE SceneExits(owner.scene)
  BY <1>2, <1>4, SceneExitsOrderly
<1>5. CASE /\ scene' = [scene EXCEPT ![owner.scene].member = None]
           /\ player' = [player EXCEPT ![old].st = "gone"]
           /\ job' = [job EXCEPT !.stage = "activate"] /\ conn' = conn /\ UNCHANGED <<owner, calls>>
  <2>1. job'.stage = "activate" /\ job'.call = job.call
    BY <1>5, Types DEF JobType
  <2>2. CallersWait'
    BY <1>5, <2>1 DEF Orderly, CallersWait, InFlight
  <2>3. \A e \in Epochs : Writes(e)' => Writes(e)
    <3>1. player'[old].st = "gone" /\ \A e \in Epochs \ {old} : player'[e] = player[e]
      BY <1>5, Types DEF PlayerState
    <3> QED
      BY <3>1 DEF Writes, Alive, Persists
  <2>4. \A s \in Scenes : scene'[s].caller = scene[s].caller /\ scene'[s].drop = scene[s].drop
    BY <1>5, Types DEF SceneState
  <2> QED
    BY <1>5, <2>1, <2>2, <2>3, <2>4, StaysOrderly
<1>6. CASE /\ job' = NoJob /\ conn' = Refuse(job.call.gate, "committing")
           /\ UNCHANGED <<owner, calls, scene, player>>
  <2>1. /\ InFlight' \subseteq InFlight /\ job'.stage = "idle"
        /\ job.call.gate \in Gates /\ \A c \in InFlight' : c.gate # job.call.gate
    BY <1>1, <1>6, JobEnds
  <2> QED
    BY <1>6, <2>1, RefuseOrderly
<1> QED
  BY <1>3, <1>4, <1>5, <1>6 DEF CommitDetaches

(* A session takes the body: nobody wrote before, and it is the owner. *)
LEMMA TakesOrderly ==
  ASSUME SessionInv, Orderly, job # NoJob, job' = NoJob, calls' = calls,
         NEW h \in Gates, h = job.call.gate, NEW e \in Epochs, NEW r,
         conn' = ReplyTo(h, ReplyState(job.call.type), r), r.st = "open", r.id = e,
         owner'.id = e, owner'.gate = h, \A f \in Epochs \ {e} : player'[f] = player[f] /\ ~Writes(f),
         \A g \in Gates \ {h} : conn[g].id = e => ~Writes(e)',
         \A s \in Scenes : scene'[s].caller = scene[s].caller /\ scene'[s].drop = scene[s].drop
  PROVE  Orderly'
<1> USE DEF SessionInv
<1>1. conn[h].st = ReplyState(job.call.type) /\ conn[h].st \notin {"leaving", "dead"}
  <2>1. job.call \in InFlight /\ job.call.type \in {"claim", "prepare", "commit"}
    BY JobInFlight DEF Call
  <2> QED
    BY <2>1, ReplyStateIs DEF Orderly, CallersWait
<1>2. conn'[h] = r /\ \A g \in Gates \ {h} : conn'[g] = conn[g]
  BY <1>1, ReplyIs
<1>3. CallersWait'
  BY <1>2, JobEnds, OthersWait DEF Orderly
<1>4. \A f \in Epochs \ {e} : ~Writes(f)'
  BY DEF Writes, Alive, Persists
<1>5. WriterOwns' /\ OwnerServes'
  <2>1. job'.stage = "idle"
    BY DEF NoJob
  <2> QED
    BY <1>2, <1>4, <2>1 DEF WriterOwns, OwnerServes
<1>6. DeadAreSilent'
  <2>1. ASSUME NEW g \in Gates, NEW f \in Epochs, conn'[g].st = "dead", conn'[g].id = f PROVE ~Writes(f)'
    <3>1. g # h /\ conn[g].id = f
      BY <1>2, <2>1
    <3> QED
      BY <1>4, <3>1
  <2> QED
    BY <2>1 DEF DeadAreSilent
<1>7. LeaversWait'
  <2>1. ASSUME NEW s \in Scenes, NEW g \in Gates, scene'[s].caller = g
        PROVE  conn'[g].st = "dead" \/ (conn'[g].st = "leaving" /\ scene'[s].drop = Leaves(conn'[g]))
    <3>1. conn[g].st = "dead" \/ (conn[g].st = "leaving" /\ scene[s].drop = Leaves(conn[g]))
      BY <2>1 DEF Orderly, LeaversWait
    <3>2. conn'[g] = conn[g]
      BY <1>1, <1>2, <3>1
    <3> QED
      BY <3>1, <3>2
  <2> QED
    BY <2>1 DEF LeaversWait, Leaves
<1> QED
  BY <1>3, <1>5, <1>6, <1>7 DEF Orderly

(* The join of a claim keeps the order: no Player wrote before it. *)
LEMMA ClaimJoinsOrderly == ASSUME SessionInv, Orderly, ClaimJoins PROVE Orderly'
<1> USE DEF SessionInv
<1>1. calls' = calls /\ job' = NoJob /\ job.stage = "join" /\ job # NoJob /\ job.call.type = "claim"
  BY DEF ClaimJoins, JobFits
<1>2. PICK h \in Gates : h = job.call.gate
  BY <1>1, JobInFlight DEF Call
<1>3. PICK e \in Epochs : e = job.epoch
  BY <1>1, NewEpoch
<1>4. PICK r : r = [conn[h] EXCEPT !.st = "open", !.id = e]
  OBVIOUS
<1>5. r.st = "open" /\ r.id = e
  BY <1>4, Types DEF Connection
<1>6. /\ conn' = ReplyTo(h, "claiming", r) /\ ReplyState(job.call.type) = "claiming"
      /\ owner'.id = e /\ owner'.gate = h
  BY <1>1, <1>2, <1>3, <1>4, ReplyStateIs DEF ClaimJoins
<1>7. \A f \in Epochs \ {e} : player'[f] = player[f] /\ ~Writes(f)
  <2>1. \A f \in Epochs \ {e} : player'[f] = player[f]
    BY <1>3, Types DEF ClaimJoins
  <2> QED
    BY <1>1, <2>1 DEF Orderly, WriterOwns
<1>8. \A g \in Gates \ {h} : conn[g].id # e
  BY <1>1, <1>3, NewEpoch
<1>9. \A s \in Scenes : scene'[s].caller = scene[s].caller /\ scene'[s].drop = scene[s].drop
  <2>1. PICK t \in Scenes : t = job.call.scene
    BY <1>1, JobInFlight DEF CallsFit, CallFits
  <2>2. scene' = scene \/ scene' = [scene EXCEPT ![t].member = e]
    BY <1>3, <2>1 DEF ClaimJoins
  <2>3. CASE scene' = scene
    BY <2>3
  <2>4. CASE scene' = [scene EXCEPT ![t].member = e]
    <3>1. scene \in [Scenes -> SceneState]
      BY Types
    <3> QED
      BY <2>4, <3>1 DEF SceneState
  <2> QED
    BY <2>2, <2>3, <2>4
<1> QED
  BY <1>1, <1>2, <1>5, <1>6, <1>7, <1>8, <1>9, TakesOrderly

(* The activation keeps the order: the sealed source no longer writes. *)
LEMMA CommitActivatesOrderly == ASSUME SessionInv, Orderly, CommitActivates PROVE Orderly'
<1> USE DEF SessionInv
<1>1. job.stage = "activate" /\ job.call.type = "commit" /\ job # NoJob /\ job.stage # "idle"
  BY DEF CommitActivates, JobFits
<1>2. PICK h \in Gates : h = job.call.gate
  BY <1>1, OwnerOfJob
<1>3. PICK old \in Epochs : old = job.call.id
  BY <1>1, OwnerOfJob
<1>4. PICK e \in Epochs : e = job.call.fresh
  BY <1>1, JobInFlight DEF CallsFit, CallFits, JobFits
<1>5. /\ owner.id = old /\ owner.gate = h /\ Silent(old)
      /\ player[e].gate = h /\ PreparedFrom(old, e) /\ player[e].scene \in Scenes
  BY <1>1, <1>2, <1>3, <1>4, CommitIs
<1>6. PICK s \in Scenes : s = player[e].scene
  BY <1>5
<1>7. CASE SceneExits(s)
  BY <1>7, SceneExitsOrderly
<1>8. CASE job' = NoJob /\ conn' = Refuse(h, "committing") /\ UNCHANGED <<owner, calls, player, scene>>
  <2>1. /\ InFlight' \subseteq InFlight /\ job'.stage = "idle" /\ \A c \in InFlight' : c.gate # h
    BY <1>1, <1>2, <1>8, JobEnds
  <2> QED
    BY <1>8, <2>1, RefuseOrderly
<1>9. CASE /\ job' = NoJob /\ UNCHANGED <<calls, scene>>
           /\ player' = [player EXCEPT ![e].st = "live", ![e].owned = TRUE]
           /\ owner' = OwnerAfter(e, s)
           /\ conn' = ReplyTo(h, "committing", [conn[h] EXCEPT !.st = "open", !.id = e, !.pending = None])
  <2>1. PICK r : r = [conn[h] EXCEPT !.st = "open", !.id = e, !.pending = None]
    OBVIOUS
  <2>2. r.st = "open" /\ r.id = e
    BY <2>1, Types DEF Connection
  <2>3. conn' = ReplyTo(h, ReplyState(job.call.type), r)
    BY <1>1, <1>9, <2>1, ReplyStateIs
  <2>4. owner'.id = e /\ owner'.gate = h
    BY <1>5, <1>9, Types DEF OwnerAfter, OwnerType
  <2>5. \A f \in Epochs \ {e} : player'[f] = player[f] /\ ~Writes(f)
    <3>1. \A f \in Epochs \ {e} : player'[f] = player[f]
      BY <1>9, Types
    <3>2. \A f \in Epochs : Writes(f) => f = old
      BY <1>5 DEF Orderly, WriterOwns
    <3> QED
      BY <1>5, <3>1, <3>2 DEF Silent, Writes, Alive, Persists
  <2>6. \A g \in Gates \ {h} : conn[g].id # e
    <3>1. Known(e)
      BY <1>5 DEF PreparedFrom, Known
    <3> QED
      BY <1>5, <3>1 DEF ConnsFit, ConnFits
  <2>7. \A t \in Scenes : scene'[t].caller = scene[t].caller /\ scene'[t].drop = scene[t].drop
    BY <1>9
  <2>8. job' = NoJob /\ calls' = calls
    BY <1>9
  <2>9. \A g \in Gates \ {h} : conn[g].id = e => ~Writes(e)'
    BY <2>6
  <2> QED
    BY <1>1, <1>2, <2>8, <2>9, <2>2, <2>3, <2>4, <2>5, <2>6, <2>7, TakesOrderly
<1> QED
  BY <1>2, <1>4, <1>6, <1>7, <1>8, <1>9 DEF CommitActivates

(* A Scene that comes up again. *)
LEMMA SceneRestartsOrderly == ASSUME SessionInv, Orderly, NEW s \in Scenes, SceneRestarts(s) PROVE Orderly'
<1>1. UNCHANGED <<owner, job, calls, conn, player>>
  BY DEF SceneRestarts, registry, gateVars
<1>2. \A t \in Scenes : scene'[t].caller = scene[t].caller /\ scene'[t].drop = scene[t].drop
  BY Types DEF SceneRestarts, SceneState, SessionInv
<1>3. CallersWait' /\ \A e \in Epochs : Writes(e)' => Writes(e)
  BY <1>1, SameWrites DEF Orderly, CallersWait, InFlight
<1> QED
  BY <1>1, <1>2, <1>3, StaysOrderly

(* A stuttering step keeps the order of writers. *)
LEMMA StutterOrderly == ASSUME Orderly, UNCHANGED vars PROVE Orderly'
<1>1. UNCHANGED <<owner, job, calls, conn, scene, player>>
  BY DEF vars, registry, gateVars
<1>2. CallersWait' /\ \A e \in Epochs : Writes(e)' => Writes(e)
  BY <1>1, SameWrites DEF Orderly, CallersWait, InFlight
<1> QED
  BY <1>1, <1>2, StaysOrderly

(* Every step without a fault keeps the order of writers. *)
LEMMA NextOrderly ==
  ASSUME SessionInv, SessionInv', OneWriter, [Next]_vars PROVE OneWriter'
<1> SUFFICES ASSUME faults' = 0 PROVE Orderly'
  BY DEF OneWriter
<1> DEFINE Faults == (\E s \in Scenes : SceneFails(s)) \/ (\E e \in Epochs : PlayerFails(e))
                      \/ \E g \in Gates : GateKilled(g) \/ GateTimesOut(g)
<1>1. ~Faults
  <2>1. faults \in Nat
    BY Types, SessionAssumption DEF SessionInv
  <2>2. Faults => faults' = faults + 1
    BY DEF SceneFails, PlayerFails, GateKilled, GateTimesOut
  <2> QED
    BY <2>1, <2>2
<1>2. CASE faults = 0
  <2>1. Orderly
    BY <1>2 DEF OneWriter
  <2>2. CASE Registry
    BY <2>1, <2>2, RegistryTakesOrderly, ClaimLeavesOrderly, ClaimJoinsOrderly, PrepareEndpointOrderly,
       PrepareImportsOrderly, CommitDetachesOrderly, CommitActivatesOrderly, RegistryEndsOrderly DEF Registry
  <2>3. CASE WorldHeat \/ WorldForgets \/ \E e \in Epochs : WorldSteps(e)
    BY <2>1, <2>3, WorldOrderly
  <2>4. ASSUME NEW s \in Scenes, SceneSteps(s) PROVE Orderly'
    <3>1. SceneStopExits(s) => SceneExits(s)
      BY DEF SceneStopExits
    <3> QED
      BY <2>1, <2>4, <3>1, SceneDroppedOrderly, SceneExitsOrderly, SceneRestartsOrderly, SceneDropsOrderly
         DEF SceneSteps
  <2>5. ASSUME NEW e \in Epochs, PlayerSteps(e) \/ PlayerEffect(e) \/ PlayerTick(e) \/ PlayerCrosses(e)
        PROVE  Orderly'
    BY <2>1, <2>5, PlayersOrderly, DetachedOrderly
  <2>6. ASSUME NEW g \in Gates, GateSteps(g) \/ GateTerminates(g) \/ GateJoins(g) \/ ClientReady(g)
                                \/ ClientCommits(g)
        PROVE  Orderly'
    BY <2>1, <2>6, GateMovesOrderly, GateLeavesOrderly, GateGoneOrderly, ReadyOrderly DEF GateSteps
  <2>7. CASE UNCHANGED vars
    BY <2>1, <2>7, StutterOrderly
  <2> QED
    BY <1>1, <2>2, <2>3, <2>4, <2>5, <2>6, <2>7 DEF Next
<1>3. CASE faults # 0
  <2>1. faults' = faults
    <3>1. CASE Registry
      <4>1. CASE ClaimJoins \/ ClaimLeaves \/ PrepareEndpoint \/ PrepareImports \/ \E c \in calls : RegistryTakes(c)
        BY <4>1 DEF RegistryTakes, ClaimLeaves, ClaimJoins, PrepareEndpoint, PrepareImports, history
      <4>2. CASE CommitDetaches \/ CommitActivates \/ RegistryCallExits \/ RegistryDown
        BY <4>2 DEF CommitDetaches, CommitActivates, RegistryCallExits, RegistryDown, history
      <4> QED
        BY <3>1, <4>1, <4>2 DEF Registry
    <3>2. CASE WorldHeat \/ WorldForgets \/ \E e \in Epochs : WorldSteps(e)
      BY <3>2 DEF WorldHeat, WorldForgets, WorldSteps, WorldContact, WorldDetach, history
    <3>3. ASSUME NEW s \in Scenes, SceneSteps(s) PROVE faults' = faults
      BY <3>3 DEF SceneSteps, SceneDropped, SceneStopExits, SceneRestarts, SceneSeesPlayer, history
    <3>4. ASSUME NEW e \in Epochs, PlayerSteps(e) \/ PlayerEffect(e) \/ PlayerTick(e) \/ PlayerCrosses(e)
          PROVE  faults' = faults
      BY <3>4 DEF PlayerSteps, PlayerStop, PlayerGateDown, PlayerSeal, PlayerDetached, PlayerHeat, PlayerAnchor,
                  PlayerEffect, PlayerTick, PlayerCrosses, history
    <3>5. ASSUME NEW g \in Gates, GateSteps(g) \/ GateTerminates(g) \/ GateJoins(g) \/ ClientReady(g)
                                  \/ ClientCommits(g)
          PROVE  faults' = faults
      BY <3>5 DEF GateSteps, GateClose, GateTransfer, GateSealExits, GateLeaves, GateGone, GateTerminates,
                  GateJoins, ClientReady, ClientCommits, history
    <3>6. CASE UNCHANGED vars
      BY <3>6 DEF vars, history
    <3> QED
      BY <1>1, <3>1, <3>2, <3>3, <3>4, <3>5, <3>6 DEF Next
  <2> QED
    BY <1>3, <2>1
<1> QED
  BY <1>2, <1>3

(* NeverOvertaken: without a fault no session takes the stored body from    *)
(* a Player that still writes it (claim, commit_transfer). *)
THEOREM NoneOvertaken == Spec => []NeverOvertaken
<1>1. Init => OneWriter
  <2> SUFFICES ASSUME Init PROVE Orderly
    BY DEF OneWriter
  <2>1. /\ job = NoJob /\ calls = {} /\ owner = NoOwner
        /\ \A g \in Gates : conn[g].st = "new" /\ g # None /\ g # "none"
        /\ \A s \in Scenes : scene[s].caller = "none"
        /\ \A e \in Epochs : player[e] = NoPlayer
    BY SessionAssumption DEF Init, None
  <2>2. NoPlayer.st = "none" /\ NoOwner.gate = None /\ InFlight = {}
    BY <2>1 DEF NoPlayer, NoOwner, InFlight, NoJob
  <2>3. \A e \in Epochs : ~Writes(e)
    BY <2>1, <2>2 DEF Writes, Alive
  <2> QED
    BY <2>1, <2>2, <2>3 DEF Orderly, WriterOwns, CallersWait, OwnerServes, DeadAreSilent, LeaversWait
<1>2. SessionInv /\ SessionInv' /\ OneWriter /\ [Next]_vars => OneWriter'
  BY NextOrderly
<1>3. SessionInv /\ OneWriter => NeverOvertaken
  <2> SUFFICES ASSUME SessionInv, Orderly, NEW e \in Epochs, Writes(e) PROVE db.epoch = e
    BY DEF OneWriter, NeverOvertaken
  <2>1. owner.id = e
    BY DEF Orderly, WriterOwns
  <2> QED
    BY <2>1, EpochInts DEF SessionInv, OwnerFits, Known, Writes, Alive
<1> QED
  BY <1>1, <1>2, <1>3, SessionInvariance, PTL DEF Spec

-----------------------------------------------------------------------------
(* What becomes of a mailbox. *)

(* What becomes of a mailbox of heat: it stays as it is, its Player takes the *)
(* first message, or ends.                                                 *)
Settles(f) ==
  LET from == player[f].st
      to == player'[f].st
  IN
  \/ fromWorld'[f] = fromWorld[f] /\ to = from
  \/ /\ fromWorld'[f] = fromWorld[f] /\ from \in {"none", "prepared", "live", "requested", "stopping"}
     /\ to \in {"prepared", "live", "requested", "stopping"}
  \/ fromWorld'[f] = fromWorld[f] /\ from = "sealed" /\ to = "gone"
  \/ fromWorld'[f] = fromWorld[f] /\ fromWorld[f] = <<>> /\ contact # f /\ to = "gone"
  \/ fromWorld'[f] = <<>> /\ to = "crashed"
  \/ /\ fromWorld[f] # <<>> /\ fromWorld'[f] = Tail(fromWorld[f]) /\ to = from
     /\ Head(fromWorld[f]) # Detached
     /\ Head(fromWorld[f]).late \/ Head(fromWorld[f]) \in db'.body
  \/ /\ fromWorld[f] # <<>> /\ fromWorld'[f] = Tail(fromWorld[f]) /\ to \in {"sealed", "gone"}
     /\ Head(fromWorld[f]) = Detached

(* Taking the first message of a mailbox shifts the others. *)
LEMMA MailboxTail ==
  ASSUME TypeOK, NEW f \in Epochs, fromWorld[f] # <<>>
  PROVE  LET m == fromWorld[f] IN
         /\ Len(m) \in Nat \ {0} /\ Len(Tail(m)) = Len(m) - 1 /\ Head(m) = m[1]
         /\ \A i \in 1..Len(Tail(m)) : Tail(m)[i] = m[i + 1] /\ i + 1 \in 1..Len(m)
         /\ Tail(m) # m
<1>1. PICK m \in Seq(Item \cup {Detached}) : m = fromWorld[f]
  BY Types
<1>2. m # <<>>
  BY <1>1
<1>3. Len(m) \in Nat \ {0} /\ Len(Tail(m)) = Len(m) - 1 /\ Head(m) = m[1]
  BY <1>2, HeadTailProperties, EmptySeq
<1>4. \A i \in 1..Len(Tail(m)) : Tail(m)[i] = m[i + 1] /\ i + 1 \in 1..Len(m)
  BY <1>2, <1>3, HeadTailProperties
<1>5. Tail(m) # m
  <2>1. ASSUME NEW n \in Nat, NEW k, k = n - 1 PROVE k # n
    BY <2>1
  <2>2. Len(Tail(m)) # Len(m)
    BY <1>3, <2>1
  <2>3. ASSUME NEW t, Len(t) # Len(m) PROVE t # m
    BY <2>3
  <2> QED
    BY <2>2, <2>3, Zenon
<1> QED
  BY <1>1, <1>3, <1>4, <1>5

(* A mailbox that settles is fenced only if it was, or if its Player is     *)
(* not the contact. *)
LEMMA SettlesFenced ==
  ASSUME TypeOK, NEW f \in Epochs, Settles(f), Fenced(f)'
  PROVE  Fenced(f) \/ contact # f
<1>1. CASE player'[f].st \in {"sealed", "gone"}
  <2>1. CASE fromWorld[f] # <<>> /\ Head(fromWorld[f]) = Detached
    BY <2>1, MailboxTail DEF Fenced
  <2> QED
    BY <1>1, <2>1 DEF Settles, Fenced
<1>2. ASSUME NEW i \in 1..Len(fromWorld'[f]), fromWorld'[f][i] = Detached PROVE Fenced(f) \/ contact # f
  <2>1. CASE fromWorld'[f] = fromWorld[f]
    BY <1>2, <2>1 DEF Fenced
  <2>2. CASE fromWorld[f] # <<>> /\ fromWorld'[f] = Tail(fromWorld[f])
    BY <1>2, <2>2, MailboxTail DEF Fenced
  <2>3. CASE fromWorld'[f] = <<>>
    BY <1>2, <2>3
  <2> QED
    BY <2>1, <2>2, <2>3 DEF Settles
<1> QED
  BY <1>1, <1>2 DEF Fenced

(* In a mailbox that settles, the heat behind the fence is still late. *)
LEMMA SettlesBehind ==
  ASSUME TypeOK, NEW f \in Epochs, Settles(f), Behind(f)
  PROVE  Behind(f)'
<1> SUFFICES ASSUME NEW i \in 1..Len(fromWorld'[f]), NEW j \in 1..Len(fromWorld'[f]),
                    (i < j /\ fromWorld'[f][i] = Detached) \/ player'[f].st \in {"sealed", "gone"}
             PROVE  fromWorld'[f][j] = Detached \/ fromWorld'[f][j].late
  BY DEF Behind
<1>1. CASE fromWorld'[f] = fromWorld[f]
  <2>1. fromWorld[f] # <<>>
    BY <1>1
  <2>2. fromWorld'[f] # Tail(fromWorld[f])
    BY <1>1, <2>1, MailboxTail
  <2>3. player'[f].st \in {"sealed", "gone"} => player[f].st \in {"sealed", "gone"}
    BY <1>1, <2>1, <2>2 DEF Settles
  <2> QED
    BY <1>1, <2>3 DEF Behind
<1>2. CASE fromWorld[f] # <<>> /\ fromWorld'[f] = Tail(fromWorld[f])
  <2>1. /\ Len(fromWorld[f]) \in Nat /\ 1 \in 1..Len(fromWorld[f]) /\ Head(fromWorld[f]) = fromWorld[f][1]
        /\ fromWorld'[f][i] = fromWorld[f][i + 1] /\ i + 1 \in 1..Len(fromWorld[f])
        /\ fromWorld'[f][j] = fromWorld[f][j + 1] /\ j + 1 \in 1..Len(fromWorld[f])
    BY <1>2, MailboxTail
  <2>2. (i + 1 < j + 1 /\ fromWorld[f][i + 1] = Detached) \/ player[f].st \in {"sealed", "gone"}
        \/ (1 < j + 1 /\ fromWorld[f][1] = Detached)
    <3>1. Len(fromWorld'[f]) # Len(fromWorld[f])
      BY <1>2, MailboxTail
    <3>2. fromWorld'[f] # fromWorld[f] /\ fromWorld'[f] # <<>>
      BY <3>1
    <3>3. player'[f].st = player[f].st \/ fromWorld[f][1] = Detached
      BY <2>1, <3>2 DEF Settles
    <3> QED
      BY <2>1, <3>3
  <2> QED
    BY <2>1, <2>2 DEF Behind
<1>3. CASE fromWorld'[f] = <<>>
  BY <1>3
<1> QED
  BY <1>1, <1>2, <1>3 DEF Settles

(* Heat of a mailbox that settles waits on, is stored, was late, or its     *)
(* Player crashed. *)
LEMMA SettlesWaits ==
  ASSUME TypeOK, NEW f \in Epochs, Settles(f), Behind(f), NEW h \in Item, h.to = f, Waits(h)
  PROVE  h.late \/ h \in db'.body \/ Waits(h)' \/ player'[f].st = "crashed"
<1>1. PICK i \in 1..Len(fromWorld[f]) : fromWorld[f][i] = h
  BY DEF Waits
<1>2. h # Detached
  BY EpochInts DEF Item, Detached
<1>3. fromWorld[f] # <<>>
  BY <1>1
<1>4. Alive(f)
  BY DEF Waits
<1>5. CASE player[f].st = "sealed"
  BY <1>1, <1>2, <1>5 DEF Behind
<1>6. CASE fromWorld'[f] = fromWorld[f] /\ player[f].st # "sealed"
  <2>1. ~(fromWorld'[f] = Tail(fromWorld[f]))
    BY <1>3, <1>6, MailboxTail
  <2>2. Alive(f)' \/ player'[f].st = "crashed"
    BY <1>3, <1>4, <1>6, <2>1 DEF Settles, Alive
  <2> QED
    BY <1>1, <1>6, <2>2 DEF Waits
<1>7. CASE fromWorld'[f] = Tail(fromWorld[f]) /\ player[f].st # "sealed"
  <2>1. /\ Len(fromWorld[f]) \in Nat /\ Head(fromWorld[f]) = fromWorld[f][1]
        /\ Len(Tail(fromWorld[f])) = Len(fromWorld[f]) - 1
        /\ \A k \in 1..Len(Tail(fromWorld[f])) : Tail(fromWorld[f])[k] = fromWorld[f][k + 1]
    BY <1>3, MailboxTail
  <2>2. fromWorld'[f] # fromWorld[f]
    BY <1>3, <1>7, MailboxTail
  <2>3. CASE i = 1
    BY <1>1, <1>2, <1>3, <2>1, <2>2, <2>3 DEF Settles
  <2>4. CASE i # 1
    <3>1. i - 1 \in 1..Len(fromWorld'[f]) /\ fromWorld'[f][i - 1] = h
      BY <1>1, <1>7, <2>1, <2>4
    <3>2. CASE Head(fromWorld[f]) = Detached
      <4>1. 1 \in 1..Len(fromWorld[f]) /\ 1 < i
        BY <2>1, <2>4
      <4> QED
        BY <1>1, <1>2, <2>1, <3>2, <4>1 DEF Behind
    <3>3. CASE Head(fromWorld[f]) # Detached
      <4>1. Alive(f)' \/ player'[f].st = "crashed"
        BY <1>3, <1>4, <2>2, <3>3 DEF Settles, Alive
      <4> QED
        BY <3>1, <4>1 DEF Waits
    <3> QED
      BY <3>2, <3>3
  <2> QED
    BY <2>3, <2>4
<1>8. CASE fromWorld'[f] = <<>> /\ player'[f].st = "crashed"
  BY <1>8
<1> QED
  BY <1>3, <1>5, <1>6, <1>7, <1>8 DEF Settles

(* Mailboxes that settle keep the heat. *)
LEMMA AllSettle ==
  ASSUME TypeOK, HeatInv, \A f \in Epochs : Settles(f), UNCHANGED <<emitted, reopened>>,
         contact' \in {contact, None}, db.body \subseteq db'.body,
         \A f \in Epochs : player[f].st = "crashed" => player'[f].st = "crashed"
  PROVE  HeatInv'
<1>1. HeatFenced'
  <2>1. ASSUME NEW f \in Epochs, contact' = f, Fenced(f)' PROVE f \in reopened'
    <3>1. contact = f
      BY <2>1, EpochInts
    <3> QED
      BY <2>1, <3>1, SettlesFenced DEF HeatInv, HeatFenced
  <2> QED
    BY <2>1, SettlesBehind DEF HeatInv, HeatFenced
<1>2. HeatKept'
  <2> SUFFICES ASSUME NEW h \in emitted
               PROVE  h.late \/ h \in db'.body \/ Waits(h)' \/ player'[h.to].st = "crashed"
    BY DEF HeatKept, Waits, Alive
  <2>1. h \in Item /\ h.to \in Epochs
    BY Types DEF Item
  <2>2. h.late \/ h \in db.body \/ Waits(h) \/ player[h.to].st = "crashed"
    BY DEF HeatInv, HeatKept
  <2>3. PICK f \in Epochs : f = h.to
    BY <2>1
  <2>4. Behind(f) /\ Settles(f)
    BY DEF HeatInv, HeatFenced
  <2> QED
    BY <2>1, <2>2, <2>3, <2>4, SettlesWaits
<1> QED
  BY <1>1, <1>2 DEF HeatInv

-----------------------------------------------------------------------------
(* The Players. *)

(* A step of one Player, whose mailbox settles. *)
LEMMA OneSettles ==
  ASSUME SessionInv, HeatInv, NEW e \in Epochs, PlayerMoves(e), Settles(e),
         \A f \in Epochs \ {e} : fromWorld'[f] = fromWorld[f],
         UNCHANGED <<contact, emitted, reopened>>
  PROVE  HeatInv'
<1> USE DEF SessionInv
<1>1. db.body \subseteq db'.body
  BY MovesGrow
<1>2. \A f \in Epochs : player[f].st = "crashed" => player'[f].st = "crashed"
  BY MovesEvolve DEF Evolves
<1>3. PICK q \in PlayerState : player' = [player EXCEPT ![e] = q]
  BY DEF PlayerMoves
<1>4. \A f \in Epochs \ {e} : player'[f] = player[f]
  BY <1>3, Types
<1>5. \A f \in Epochs : Settles(f)
  BY <1>4 DEF Settles
<1> QED
  BY <1>1, <1>2, <1>5, AllSettle

(* No Player and no mailbox changes. *)
LEMMA QuietHeat ==
  ASSUME SessionInv, HeatInv, UNCHANGED <<player, fromWorld, emitted, reopened, db>>,
         contact' \in {contact, None}
  PROVE  HeatInv'
<1>1. \A f \in Epochs : Settles(f)
  BY DEF Settles
<1> QED
  BY <1>1, AllSettle DEF SessionInv

(* begin_body_detach leaves the mailbox alone and ends only a Player without *)
(* contact.                                                                *)
LEMMA StopHeat ==
  ASSUME SessionInv, HeatInv, NEW e \in Epochs, PlayerStop(e) \/ PlayerGateDown(e) \/ PlayerFails(e)
  PROVE  HeatInv'
<1> USE DEF SessionInv
<1>1. UNCHANGED <<contact, fromWorld, emitted, reopened>>
  BY DEF PlayerStop, PlayerGateDown, PlayerFails, history
<1>2. PlayerMoves(e)
  BY PlayerStopMoves
<1>3. player[e] \in PlayerState /\ Alive(e)
  BY Types DEF PlayerStop, PlayerGateDown, PlayerFails, Alive
<1>4. ASSUME NEW p \in PlayerState, p.st = player[e].st, BeginStop(e, p) PROVE Settles(e)
  <2>1. \/ player'[e].st = player[e].st
        \/ player'[e].st = "gone" /\ player[e].st \in {"prepared", "sealed"}
        \/ player'[e].st = "stopping" /\ player[e].st \notin {"prepared", "sealed"}
    <3>1. \/ player' = [player EXCEPT ![e] = [p EXCEPT !.fence = "stop"]]
          \/ player' = [player EXCEPT ![e] = [p EXCEPT !.st = "gone"]] /\ EndsAtOnce(p)
          \/ player' = [player EXCEPT ![e] = [p EXCEPT !.st = "stopping", !.fence = "stop"]] /\ ~EndsAtOnce(p)
      BY <1>4 DEF BeginStop
    <3>2. \/ player'[e] = [p EXCEPT !.fence = "stop"]
          \/ player'[e] = [p EXCEPT !.st = "gone"] /\ EndsAtOnce(p)
          \/ player'[e] = [p EXCEPT !.st = "stopping", !.fence = "stop"] /\ ~EndsAtOnce(p)
      BY <3>1, Types
    <3> QED
      BY <1>4, <3>2 DEF EndsAtOnce, PlayerState
  <2>2. player[e].st = "prepared" => fromWorld[e] = <<>> /\ contact # e
    BY DEF PlayersFit, PlayerFits
  <2> QED
    BY <1>1, <1>3, <2>1, <2>2 DEF Settles, Alive
<1>5. ASSUME player'[e].st = player[e].st PROVE Settles(e)
  BY <1>1, <1>5 DEF Settles
<1>6. /\ [player[e] EXCEPT !.watch = FALSE] \in PlayerState
      /\ [player[e] EXCEPT !.watch = FALSE].st = player[e].st
      /\ [player[e] EXCEPT !.failed = TRUE] \in PlayerState
      /\ [player[e] EXCEPT !.failed = TRUE].st = player[e].st
  BY <1>3 DEF PlayerState
<1>7. Settles(e)
  <2>1. CASE PlayerStop(e)
    BY <1>3, <1>4, <2>1 DEF PlayerStop
  <2>2. CASE PlayerFails(e)
    BY <1>4, <1>6, <2>2 DEF PlayerFails
  <2>3. CASE PlayerGateDown(e)
    <3>1. \/ BeginStop(e, [player[e] EXCEPT !.watch = FALSE])
          \/ player' = [player EXCEPT ![e] = [player[e] EXCEPT !.watch = FALSE]]
      BY <2>3 DEF PlayerGateDown
    <3>2. player' = [player EXCEPT ![e] = [player[e] EXCEPT !.watch = FALSE]] => player'[e].st = player[e].st
      BY <1>6, Types
    <3> QED
      BY <1>4, <1>5, <1>6, <3>1, <3>2
  <2> QED
    BY <2>1, <2>2, <2>3
<1>8. \A f \in Epochs \ {e} : fromWorld'[f] = fromWorld[f]
  BY <1>1
<1> QED
  BY <1>1, <1>2, <1>7, <1>8, OneSettles

(* The seal call keeps the heat, or crashes its Player. *)
LEMMA SealHeat == ASSUME SessionInv, HeatInv, NEW e \in Epochs, PlayerSeal(e) PROVE HeatInv'
<1> USE DEF SessionInv
<1>1. PlayerMoves(e) /\ UNCHANGED <<contact, emitted, reopened>>
  BY PlayerSealMoves DEF PlayerSeal, history
<1>2. player[e] \in PlayerState
  BY Types
<1>3. CASE fromWorld' = fromWorld /\ player' = [player EXCEPT ![e].fence = "seal", ![e].sealer = TRUE]
  <2>1. player'[e].st = player[e].st
    BY <1>2, <1>3, Types DEF PlayerState
  <2> QED
    BY <1>1, <1>3, <2>1, OneSettles DEF Settles
<1>4. CASE fromWorld' = [fromWorld EXCEPT ![e] = <<>>] /\ player' = [player EXCEPT ![e] = Crashed(@)]
  <2>1. player'[e].st = "crashed"
    BY <1>2, <1>4, Types DEF PlayerState, Crashed
  <2>2. fromWorld'[e] = <<>> /\ \A f \in Epochs \ {e} : fromWorld'[f] = fromWorld[f]
    BY <1>4, Types
  <2> QED
    BY <1>1, <2>1, <2>2, OneSettles DEF Settles
<1> QED
  BY <1>3, <1>4 DEF PlayerSeal

(* The answer to a fence is taken behind all the heat that is not late. *)
LEMMA DetachedHeat == ASSUME SessionInv, HeatInv, NEW e \in Epochs, PlayerDetached(e) PROVE HeatInv'
<1> USE DEF SessionInv
<1>1. PlayerMoves(e) /\ UNCHANGED <<contact, emitted, reopened>>
  BY PlayerDetachedMoves DEF PlayerDetached, history
<1> DEFINE p == [player[e] EXCEPT !.fence = "none", !.sealer = FALSE]
<1>2. p \in PlayerState
  <2>1. player[e] \in PlayerState
    BY Types
  <2> QED
    BY <2>1 DEF PlayerState
<1>3. fromWorld[e] # <<>> /\ Head(fromWorld[e]) = Detached
  BY DEF PlayerDetached
<1>4. \A f \in Epochs \ {e} : fromWorld'[f] = fromWorld[f]
  BY Types DEF PlayerDetached
<1>5. CASE ~SaveAccepted(e)
  <2>1. player' = [player EXCEPT ![e] = Crashed(p)] /\ fromWorld' = [fromWorld EXCEPT ![e] = <<>>]
    BY <1>5 DEF PlayerDetached
  <2>2. player'[e] = Crashed(p) /\ fromWorld'[e] = <<>>
    BY <2>1, Types
  <2>3. player'[e].st = "crashed"
    BY <1>2, <2>2 DEF PlayerState, Crashed
  <2> QED
    BY <1>1, <1>4, <2>2, <2>3, OneSettles DEF Settles
<1>6. CASE SaveAccepted(e)
  <2>1. /\ \/ player' = [player EXCEPT ![e] = [p EXCEPT !.st = "sealed"]]
           \/ player' = [player EXCEPT ![e] = [p EXCEPT !.st = "gone"]]
        /\ fromWorld' = [fromWorld EXCEPT ![e] = Tail(@)]
    BY <1>6 DEF PlayerDetached
  <2>2. player'[e] = [p EXCEPT !.st = "sealed"] \/ player'[e] = [p EXCEPT !.st = "gone"]
    BY <2>1, Types
  <2>3. player'[e].st \in {"sealed", "gone"}
    BY <1>2, <2>2 DEF PlayerState
  <2>4. fromWorld'[e] = Tail(fromWorld[e])
    BY <2>1, Types
  <2> QED
    BY <1>1, <1>3, <1>4, <2>3, <2>4, OneSettles DEF Settles
<1> QED
  BY <1>5, <1>6

(* Heat leaves the mailbox into the stored body, unless it is late or the   *)
(* Player crashes. *)
LEMMA PlayerHeatKept == ASSUME SessionInv, HeatInv, NEW e \in Epochs, PlayerHeat(e) PROVE HeatInv'
<1> USE DEF SessionInv
<1>1. PlayerMoves(e) /\ UNCHANGED <<contact, emitted, reopened>>
  BY PlayerHeatMoves DEF PlayerHeat, history
<1>2. PICK p : p = [player[e] EXCEPT !.body = @ \cup {Head(fromWorld[e])}]
  OBVIOUS
<1>3. p.st = player[e].st /\ p.owned = player[e].owned /\ p.body = player[e].body \cup {Head(fromWorld[e])}
  <2>1. player[e] \in PlayerState
    BY Types
  <2> QED
    BY <1>2, <2>1 DEF PlayerState
<1>4. Alive(e) /\ fromWorld[e] # <<>> /\ Head(fromWorld[e]) # Detached /\ PersistBody(e, p, Tail(fromWorld[e]))
  BY <1>2 DEF PlayerHeat
<1>5. \A f \in Epochs \ {e} : fromWorld'[f] = fromWorld[f]
  BY <1>4, Types DEF PersistBody
<1>6. CASE ~Persists(p)
  <2>1. player' = [player EXCEPT ![e] = p] /\ fromWorld' = [fromWorld EXCEPT ![e] = Tail(fromWorld[e])]
    BY <1>4, <1>6 DEF PersistBody
  <2>2. player'[e].st = player[e].st /\ fromWorld'[e] = Tail(fromWorld[e])
    BY <1>3, <2>1, Types
  <2>3. player[e].st = "sealed"
    BY <1>3, <1>4, <1>6 DEF Persists, PlayersFit, PlayerFits, Alive
  <2>4. 1 \in 1..Len(fromWorld[e]) /\ Head(fromWorld[e]) = fromWorld[e][1]
    BY <1>4, MailboxTail
  <2>5. Head(fromWorld[e]).late
    BY <1>4, <2>3, <2>4 DEF HeatInv, HeatFenced, Behind
  <2> QED
    BY <1>1, <1>4, <1>5, <2>2, <2>5, OneSettles DEF Settles
<1>7. CASE Persists(p) /\ SaveAccepted(e)
  <2>1. /\ player' = [player EXCEPT ![e] = p] /\ fromWorld' = [fromWorld EXCEPT ![e] = Tail(fromWorld[e])]
        /\ db' = [db EXCEPT !.body = p.body]
    BY <1>4, <1>7 DEF PersistBody
  <2>2. player'[e].st = player[e].st /\ fromWorld'[e] = Tail(fromWorld[e])
    BY <1>3, <2>1, Types
  <2>3. Head(fromWorld[e]) \in db'.body
    BY <1>3, <2>1, Types
  <2> QED
    BY <1>1, <1>4, <1>5, <2>2, <2>3, OneSettles DEF Settles
<1>8. CASE Persists(p) /\ ~SaveAccepted(e)
  <2>1. player' = [player EXCEPT ![e] = Crashed(p)] /\ fromWorld' = [fromWorld EXCEPT ![e] = <<>>]
    BY <1>4, <1>8 DEF PersistBody
  <2>2. player'[e] = Crashed(p) /\ fromWorld'[e] = <<>>
    BY <2>1, Types
  <2>3. Crashed(p).st = "crashed"
    <3>1. p \in PlayerState
      <4>1. player' \in [Epochs -> PlayerState] /\ player[e] \in PlayerState
        BY PlayerHeatType, Types DEF TypeOK
      <4>2. Head(fromWorld[e]) \in Item /\ player[e].body \in SUBSET Item
        BY <1>4, <4>1, Types DEF PlayerState
      <4> QED
        BY <1>2, <4>1, <4>2 DEF PlayerState
    <3> QED
      BY <3>1 DEF Crashed, PlayerState
  <2> QED
    BY <1>1, <1>5, <2>2, <2>3, OneSettles DEF Settles
<1> QED
  BY <1>6, <1>7, <1>8

(* A save that leaves the mailbox alone. *)
LEMMA SaveHeat ==
  ASSUME SessionInv, HeatInv, NEW e \in Epochs, PlayerMoves(e), NEW p \in PlayerState, p.st = player[e].st,
         PersistBody(e, p, fromWorld[e]), UNCHANGED <<contact, emitted, reopened>>
  PROVE  HeatInv'
<1> USE DEF SessionInv
<1>1. \A f \in Epochs \ {e} : fromWorld'[f] = fromWorld[f]
  BY Types DEF PersistBody
<1>2. CASE player' = [player EXCEPT ![e] = p] /\ fromWorld' = [fromWorld EXCEPT ![e] = fromWorld[e]]
  <2>1. player'[e].st = player[e].st /\ fromWorld'[e] = fromWorld[e]
    BY <1>2, Types
  <2> QED
    BY <1>1, <2>1, OneSettles DEF Settles
<1>3. CASE player' = [player EXCEPT ![e] = Crashed(p)] /\ fromWorld' = [fromWorld EXCEPT ![e] = <<>>]
  <2>1. player'[e] = Crashed(p) /\ fromWorld'[e] = <<>>
    BY <1>3, Types
  <2>2. player'[e].st = "crashed"
    BY <2>1 DEF Crashed, PlayerState
  <2> QED
    BY <1>1, <2>1, <2>2, OneSettles DEF Settles
<1> QED
  BY <1>2, <1>3 DEF PersistBody

(* An effect keeps the heat, or crashes its Player. *)
LEMMA EffectHeat == ASSUME SessionInv, HeatInv, NEW e \in Epochs, PlayerEffect(e) PROVE HeatInv'
<1> USE DEF SessionInv
<1>1. PlayerMoves(e) /\ UNCHANGED <<contact, emitted, reopened>>
  BY PlayerEffectMoves DEF PlayerEffect
<1>2. PICK p : p = [player[e] EXCEPT !.body = @ \cup {EffectOn(e)}]
  OBVIOUS
<1>3. p \in PlayerState /\ p.st = player[e].st
  <2>1. EffectOn(e) \in Item
    BY SessionAssumption DEF EffectOn, Item
  <2>2. player[e] \in PlayerState /\ player[e].body \in SUBSET Item
    BY Types DEF PlayerState
  <2> QED
    BY <1>2, <2>1, <2>2 DEF PlayerState
<1> QED
  BY <1>1, <1>2, <1>3, SaveHeat DEF PlayerEffect, EffectSaved

(* A body tick keeps the heat, or crashes its Player. *)
LEMMA TickHeat == ASSUME SessionInv, HeatInv, NEW e \in Epochs, PlayerTick(e) PROVE HeatInv'
<1> USE DEF SessionInv
<1>1. PlayerMoves(e) /\ UNCHANGED <<contact, emitted, reopened>>
  BY PlayerTickMoves DEF PlayerTick, history
<1>2. PICK p \in PlayerState : p = player[e]
  BY Types
<1> QED
  BY <1>1, <1>2, SaveHeat DEF PlayerTick

(* The anchor, a crossing and the first input leave the mailbox alone. *)
LEMMA LiveHeat ==
  ASSUME SessionInv, HeatInv, NEW e \in Epochs, PlayerAnchor(e) \/ PlayerCrosses(e) PROVE HeatInv'
<1> USE DEF SessionInv
<1>1. PlayerMoves(e) /\ UNCHANGED <<contact, fromWorld, emitted, reopened>>
  BY PlayerOtherMoves DEF PlayerAnchor, PlayerCrosses, history, world
<1>2. player[e] \in PlayerState
  BY Types
<1>3. \/ player'[e] = [player[e] EXCEPT !.anchored = TRUE]
      \/ player[e].st = "live" /\ player'[e] = [player[e] EXCEPT !.st = "requested"]
  BY Types DEF PlayerAnchor, PlayerCrosses
<1>4. player'[e].st = player[e].st \/ (player[e].st = "live" /\ player'[e].st = "requested")
  BY <1>2, <1>3 DEF PlayerState
<1> QED
  BY <1>1, <1>4, OneSettles DEF Settles

(* The first input keeps the heat. *)
LEMMA ReadyHeat == ASSUME SessionInv, HeatInv, NEW g \in Gates, ClientReady(g) PROVE HeatInv'
<1> USE DEF SessionInv
<1>1. PICK e \in Epochs : e = conn[g].id
  BY ClientReadyMoves
<1>2. PlayerMoves(e) /\ UNCHANGED <<contact, fromWorld, emitted, reopened>>
  BY <1>1, ClientReadyMoves DEF ClientReady, history, world
<1>3. player'[e] = [player[e] EXCEPT !.ready = TRUE] /\ player[e] \in PlayerState
  BY <1>1, Types DEF ClientReady
<1>4. player'[e].st = player[e].st
  BY <1>3 DEF PlayerState
<1> QED
  BY <1>2, <1>4, OneSettles DEF Settles

-----------------------------------------------------------------------------
(* The registry, the Scenes and the connections. *)

(* The Players of a Scene that exits crash with their mailboxes. *)
LEMMA ExitHeat == ASSUME SessionInv, HeatInv, NEW s \in Scenes, SceneExits(s) PROVE HeatInv'
<1> USE DEF SessionInv
<1>1. ASSUME NEW f \in Epochs PROVE Settles(f) /\ (player[f].st = "crashed" => player'[f].st = "crashed")
  <2>1. \/ player'[f] = player[f] /\ fromWorld'[f] = fromWorld[f]
        \/ player'[f] = Crashed(player[f]) /\ fromWorld'[f] = <<>>
    BY DEF SceneExits
  <2>2. Crashed(player[f]).st = "crashed"
    BY Types DEF Crashed, PlayerState
  <2> QED
    BY <2>1, <2>2 DEF Settles
<1>2. UNCHANGED <<contact, db, emitted, reopened>>
  BY DEF SceneExits
<1> QED
  BY <1>1, <1>2, AllSettle

(* One Player starts, ends sealed, or becomes live: no mailbox changes. *)
LEMMA BecomesHeat ==
  ASSUME SessionInv, HeatInv, NEW e \in Epochs, NEW q, player' = [player EXCEPT ![e] = q],
         UNCHANGED <<contact, fromWorld, emitted, reopened>>, db.body \subseteq db'.body,
         \/ player[e].st \in {"none", "prepared"} /\ q.st \in {"prepared", "live"}
         \/ player[e].st = "sealed" /\ q.st = "gone"
  PROVE  HeatInv'
<1>1. player'[e] = q /\ \A f \in Epochs \ {e} : player'[f] = player[f]
  BY Types DEF SessionInv
<1>2. \A f \in Epochs : Settles(f) /\ (player[f].st = "crashed" => player'[f].st = "crashed")
  BY <1>1 DEF Settles
<1> QED
  BY <1>2, AllSettle DEF SessionInv

(* The join of a claim keeps the heat. *)
LEMMA ClaimJoinsHeat == ASSUME SessionInv, HeatInv, ClaimJoins PROVE HeatInv'
<1> USE DEF SessionInv
<1>1. UNCHANGED <<contact, fromWorld, emitted, reopened>>
  BY DEF ClaimJoins, world, history
<1>2. job.call.type = "claim"
  BY DEF ClaimJoins, JobFits
<1>3. PICK e \in Epochs : e = job.epoch
  BY <1>2, NewEpoch
<1>4. player[e].st = "none"
  BY <1>2, <1>3, NewEpoch DEF Known
<1>5. PICK q : q = [NoPlayer EXCEPT !.st = "live", !.scene = job.call.scene, !.gate = job.call.gate, !.owned = TRUE,
                                     !.body = StoredBody, !.watch = TRUE]
  OBVIOUS
<1>6. q.st = "live"
  BY <1>5 DEF NoPlayer
<1>7. CASE player' = [player EXCEPT ![e] = q] /\ db' = [db EXCEPT !.epoch = e]
  <2>1. db'.body = db.body
    BY <1>7, Types
  <2> QED
    BY <1>1, <1>4, <1>6, <1>7, <2>1, BecomesHeat
<1>8. CASE UNCHANGED <<player, db>>
  BY <1>1, <1>8, QuietHeat
<1> QED
  BY <1>3, <1>5, <1>7, <1>8 DEF ClaimJoins

(* The import of a cut keeps the heat. *)
LEMMA PrepareImportsHeat == ASSUME SessionInv, HeatInv, PrepareImports PROVE HeatInv'
<1> USE DEF SessionInv
<1>1. UNCHANGED <<contact, fromWorld, emitted, reopened, db>>
  BY DEF PrepareImports, world, history
<1>2. job.call.type = "prepare"
  BY DEF PrepareImports, JobFits
<1>3. PICK e \in Epochs : e = job.epoch
  BY <1>2, NewEpoch
<1>4. player[e].st = "none"
  BY <1>2, <1>3, NewEpoch DEF Known
<1>5. PICK q : q = [NoPlayer EXCEPT !.st = "prepared", !.scene = job.call.scene, !.gate = job.call.gate,
                                     !.anchored = TRUE, !.ready = TRUE, !.body = job.call.body, !.watch = TRUE]
  OBVIOUS
<1>6. q.st = "prepared"
  BY <1>5 DEF NoPlayer
<1>7. CASE player' = [player EXCEPT ![e] = q]
  BY <1>1, <1>4, <1>6, <1>7, BecomesHeat
<1>8. CASE UNCHANGED player
  BY <1>1, <1>8, QuietHeat
<1> QED
  BY <1>3, <1>5, <1>7, <1>8 DEF PrepareImports

(* The detach stage keeps the heat: the sealed source has only late heat    *)
(* left. *)
LEMMA CommitDetachesHeat == ASSUME SessionInv, HeatInv, CommitDetaches PROVE HeatInv'
<1> USE DEF SessionInv
<1>1. job.stage = "detach" /\ job.call.type = "commit"
  BY DEF CommitDetaches, JobFits
<1>2. PICK h \in Gates : h = job.call.gate
  BY <1>1, OwnerOfJob
<1>3. PICK old \in Epochs : old = job.call.id
  BY <1>1, OwnerOfJob
<1>4. PICK e \in Epochs : e = job.call.fresh
  BY <1>1, JobInFlight DEF CallsFit, CallFits, JobFits
<1>5. Silent(old) /\ owner.scene \in Scenes
  BY <1>1, <1>2, <1>3, <1>4, CommitIs
<1>6. CASE SceneExits(owner.scene)
  BY <1>5, <1>6, ExitHeat
<1>7. ASSUME UNCHANGED <<world, db, history>>, Alive(old), player' = [player EXCEPT ![old].st = "gone"]
      PROVE  HeatInv'
  <2>1. PICK q : q = [player[old] EXCEPT !.st = "gone"]
    OBVIOUS
  <2>2. q.st = "gone" /\ player[old].st = "sealed"
    BY <1>5, <1>7, <2>1, Types DEF PlayerState, Silent, Alive
  <2>3. player' = [player EXCEPT ![old] = q]
    BY <1>7, <2>1
  <2>4. UNCHANGED <<contact, fromWorld, emitted, reopened, db>>
    BY <1>7 DEF world, history
  <2> QED
    BY <2>2, <2>3, <2>4, BecomesHeat
<1>8. ASSUME UNCHANGED <<world, db, history, player>> PROVE HeatInv'
  BY <1>8, QuietHeat DEF world, history
<1> QED
  BY <1>3, <1>6, <1>7, <1>8 DEF CommitDetaches

(* The activation keeps the heat. *)
LEMMA CommitActivatesHeat == ASSUME SessionInv, HeatInv, CommitActivates PROVE HeatInv'
<1> USE DEF SessionInv
<1>1. job.stage = "activate" /\ job.call.type = "commit"
  BY DEF CommitActivates, JobFits
<1>2. PICK h \in Gates : h = job.call.gate
  BY <1>1, OwnerOfJob
<1>3. PICK old \in Epochs : old = job.call.id
  BY <1>1, OwnerOfJob
<1>4. PICK e \in Epochs : e = job.call.fresh
  BY <1>1, JobInFlight DEF CallsFit, CallFits, JobFits
<1>5. db.epoch = old /\ PreparedFrom(old, e) /\ player[e].scene \in Scenes
  BY <1>1, <1>2, <1>3, <1>4, CommitIs
<1>6. CASE SceneExits(player[e].scene)
  BY <1>5, <1>6, ExitHeat
<1>7. ASSUME UNCHANGED <<contact, fromWorld, history>>, Alive(e),
             player' = [player EXCEPT ![e].st = "live", ![e].owned = TRUE],
             db' = [epoch |-> ClaimedBy(e), body |-> player[e].body]
      PROVE  HeatInv'
  <2>1. PICK q : q = [player[e] EXCEPT !.st = "live", !.owned = TRUE]
    OBVIOUS
  <2>2. q.st = "live" /\ player[e].st = "prepared"
    BY <1>5, <1>7, <2>1, Types DEF PlayerState, PreparedFrom, Alive
  <2>3. player' = [player EXCEPT ![e] = q]
    BY <1>7, <2>1
  <2>4. UNCHANGED <<contact, fromWorld, emitted, reopened>>
    BY <1>7 DEF history
  <2>5. db.body = player[e].body
    BY <1>5, <2>2 DEF PreparedFrom, CutIsStored
  <2>6. db.body \subseteq db'.body
    BY <1>7, <2>5
  <2> QED
    BY <2>2, <2>3, <2>4, <2>6, BecomesHeat
<1>8. ASSUME UNCHANGED <<contact, fromWorld, db, history, player>> PROVE HeatInv'
  BY <1>8, QuietHeat DEF history
<1>9. CASE scene[player[e].scene].member = e /\ ~Alive(e)
  BY <1>4, <1>6, <1>9 DEF CommitActivates
<1>10. CASE scene[player[e].scene].member = e /\ Alive(e)
  BY <1>4, <1>7, <1>10 DEF CommitActivates
<1>11. CASE scene[player[e].scene].member # e
  BY <1>4, <1>8, <1>11 DEF CommitActivates
<1> QED
  BY <1>9, <1>10, <1>11

(* Every step of the registry keeps the heat. *)
LEMMA RegistryHeat == ASSUME SessionInv, HeatInv, Registry PROVE HeatInv'
<1>1. CASE ClaimLeaves \/ PrepareEndpoint \/ RegistryCallExits \/ RegistryDown \/ \E c \in calls : RegistryTakes(c)
  <2>1. UNCHANGED <<player, contact, fromWorld, emitted, reopened, db>>
    BY <1>1 DEF ClaimLeaves, PrepareEndpoint, RegistryCallExits, RegistryDown, RegistryTakes, world, history
  <2> QED
    BY <2>1, QuietHeat
<1> QED
  BY <1>1, ClaimJoinsHeat, PrepareImportsHeat, CommitDetachesHeat, CommitActivatesHeat DEF Registry

(* Every step of a Scene keeps the heat, or crashes its Players. *)
LEMMA SceneHeat == ASSUME SessionInv, HeatInv, NEW s \in Scenes, SceneSteps(s) \/ SceneFails(s) PROVE HeatInv'
<1>1. CASE SceneStopExits(s)
  BY <1>1, ExitHeat DEF SceneStopExits
<1>2. CASE SceneDropped(s) \/ SceneRestarts(s) \/ SceneSeesPlayer(s) \/ SceneFails(s)
  <2>1. UNCHANGED <<player, contact, fromWorld, emitted, reopened, db>>
    BY <1>2 DEF SceneDropped, SceneRestarts, SceneSeesPlayer, SceneFails, world, history
  <2> QED
    BY <2>1, QuietHeat
<1> QED
  BY <1>1, <1>2 DEF SceneSteps

(* The steps of the connections keep the heat. *)
LEMMA GateHeat ==
  ASSUME SessionInv, HeatInv, NEW g \in Gates,
         GateSteps(g) \/ GateTerminates(g) \/ GateJoins(g) \/ ClientCommits(g) \/ GateKilled(g) \/ GateTimesOut(g)
  PROVE  HeatInv'
<1>1. UNCHANGED <<player, contact, fromWorld, emitted, reopened, db>>
  <2>1. CASE GateSteps(g) \/ GateTerminates(g)
    BY <2>1 DEF GateSteps, GateTerminates, GateClose, GateTransfer, GateSealExits, GateLeaves, GateGone, GateFrame,
                world, history
  <2>2. CASE GateJoins(g) \/ ClientCommits(g) \/ GateKilled(g) \/ GateTimesOut(g)
    BY <2>2 DEF GateJoins, ClientCommits, GateKilled, GateTimesOut, GateFrame, world, history
  <2> QED
    BY <2>1, <2>2
<1> QED
  BY <1>1, QuietHeat

-----------------------------------------------------------------------------
(* The World, and the theorem. *)

(* What the World sends lands behind what waits in the mailbox of a running  *)
(* Player.                                                                 *)
LEMMA Delivered ==
  ASSUME TypeOK, NEW e \in Epochs, NEW message \in Item \cup {Detached}, fromWorld' = Deliver(e, message),
         UNCHANGED player
  PROVE  /\ \A f \in Epochs \ {e} : fromWorld'[f] = fromWorld[f]
         /\ ~Alive(e) => fromWorld'[e] = fromWorld[e]
         /\ Alive(e) => /\ Len(fromWorld[e]) \in Nat /\ Len(fromWorld'[e]) = Len(fromWorld[e]) + 1
                        /\ \A i \in 1..Len(fromWorld[e]) : fromWorld'[e][i] = fromWorld[e][i]
                        /\ fromWorld'[e][Len(fromWorld[e]) + 1] = message
         /\ \A h : h.to \in Epochs /\ Waits(h) => Waits(h)'
<1>1. \A f \in Epochs \ {e} : fromWorld'[f] = fromWorld[f]
  BY Types DEF Deliver
<1>2. ~Alive(e) => fromWorld'[e] = fromWorld[e]
  BY DEF Deliver
<1>3. ASSUME Alive(e)
      PROVE  /\ Len(fromWorld[e]) \in Nat /\ Len(fromWorld'[e]) = Len(fromWorld[e]) + 1
             /\ \A i \in 1..Len(fromWorld[e]) : fromWorld'[e][i] = fromWorld[e][i]
             /\ fromWorld'[e][Len(fromWorld[e]) + 1] = message
  <2>1. PICK m \in Seq(Item \cup {Detached}) : m = fromWorld[e]
    BY Types
  <2>2. fromWorld'[e] = Append(m, message)
    BY <1>3, <2>1, Types DEF Deliver
  <2>3. Len(m) \in Nat /\ Len(Append(m, message)) = Len(m) + 1
    BY AppendProperties, LenProperties
  <2>4. \A i \in 1..Len(m) : Append(m, message)[i] = m[i]
    BY AppendProperties
  <2>5. Append(m, message)[Len(m) + 1] = message
    BY AppendProperties
  <2> QED
    BY <2>1, <2>2, <2>3, <2>4, <2>5
<1>4. ASSUME NEW h, h.to \in Epochs, Waits(h) PROVE Waits(h)'
  <2>1. PICK f \in Epochs : f = h.to
    BY <1>4
  <2>2. Alive(f) /\ Alive(f)' /\ \E i \in 1..Len(fromWorld[f]) : fromWorld[f][i] = h
    BY <1>4, <2>1 DEF Waits, Alive
  <2>3. \E i \in 1..Len(fromWorld'[f]) : fromWorld'[f][i] = h
    <3>1. CASE f # e
      BY <1>1, <2>2, <3>1
    <3>2. CASE f = e
      <4>1. PICK i \in 1..Len(fromWorld[e]) : fromWorld[e][i] = h
        BY <2>2, <3>2
      <4>2. i \in 1..Len(fromWorld'[e]) /\ fromWorld'[e][i] = h
        BY <1>3, <2>2, <3>2, <4>1
      <4> QED
        BY <3>2, <4>2
    <3> QED
      BY <3>1, <3>2
  <2> QED
    BY <2>1, <2>2, <2>3 DEF Waits
<1> QED
  BY <1>1, <1>2, <1>3, <1>4

(* A Player that becomes the contact behind its fence gets late heat from   *)
(* then on. *)
LEMMA ContactHeat == ASSUME SessionInv, HeatInv, NEW e \in Epochs, WorldContact(e) PROVE HeatInv'
<1>1. UNCHANGED <<player, fromWorld, db, emitted>> /\ contact' \in {e, None}
      /\ reopened' = IF Answered(e) THEN reopened \cup {e} ELSE reopened
  BY DEF WorldContact, WorldFrame
<1>2. Fenced(e) => Answered(e)
  BY DEF Fenced, Answered
<1>3. HeatFenced'
  <2>1. \A f \in Epochs : Behind(f) => Behind(f)'
    BY <1>1 DEF Behind
  <2>2. ASSUME NEW f \in Epochs, contact' = f, Fenced(f)' PROVE f \in reopened'
    <3>1. f = e /\ Fenced(f)
      BY <1>1, <2>2, EpochInts DEF Fenced
    <3> QED
      BY <1>1, <1>2, <3>1
  <2> QED
    BY <2>1, <2>2 DEF HeatInv, HeatFenced
<1>4. HeatKept'
  BY <1>1 DEF HeatInv, HeatKept, Waits, Alive
<1> QED
  BY <1>3, <1>4 DEF HeatInv

(* The answer to a detach follows every heat already sent, and ends the     *)
(* contact. *)
LEMMA DetachHeat == ASSUME SessionInv, HeatInv, NEW e \in Epochs, WorldDetach(e) PROVE HeatInv'
<1> USE DEF SessionInv
<1>1. /\ UNCHANGED <<player, db, emitted, reopened>> /\ fromWorld' = Deliver(e, Detached)
      /\ contact' \in {contact, None} /\ contact' # e
  BY EpochInts DEF WorldDetach, WorldFrame, history, DetachAnswer, WithoutContact
<1>2. /\ \A f \in Epochs \ {e} : fromWorld'[f] = fromWorld[f]
      /\ ~Alive(e) => fromWorld'[e] = fromWorld[e]
      /\ Alive(e) => /\ Len(fromWorld[e]) \in Nat /\ Len(fromWorld'[e]) = Len(fromWorld[e]) + 1
                     /\ \A i \in 1..Len(fromWorld[e]) : fromWorld'[e][i] = fromWorld[e][i]
                     /\ fromWorld'[e][Len(fromWorld[e]) + 1] = Detached
      /\ \A h : h.to \in Epochs /\ Waits(h) => Waits(h)'
  BY <1>1, Delivered
<1>3. HeatFenced'
  <2>1. ASSUME NEW f \in Epochs, contact' = f, Fenced(f)' PROVE f \in reopened'
    <3>1. f # e /\ contact = f
      BY <1>1, <2>1, EpochInts
    <3>2. Fenced(f)
      BY <1>1, <1>2, <2>1, <3>1 DEF Fenced
    <3> QED
      BY <1>1, <3>1, <3>2 DEF HeatInv, HeatFenced
  <2>2. ASSUME NEW f \in Epochs, f # e PROVE Behind(f)'
    BY <1>1, <1>2, <2>2 DEF HeatInv, HeatFenced, Behind
  <2>3. Behind(e)'
    <3>1. CASE ~Alive(e)
      BY <1>1, <1>2, <3>1 DEF HeatInv, HeatFenced, Behind
    <3>2. CASE Alive(e)
      <4> SUFFICES ASSUME NEW i \in 1..Len(fromWorld'[e]), NEW j \in 1..Len(fromWorld'[e]),
                          (i < j /\ fromWorld'[e][i] = Detached) \/ player[e].st \in {"sealed", "gone"}
                   PROVE  fromWorld'[e][j] = Detached \/ fromWorld'[e][j].late
        BY <1>1 DEF Behind
      <4>1. CASE j = Len(fromWorld[e]) + 1
        BY <1>2, <3>2, <4>1
      <4>2. CASE j # Len(fromWorld[e]) + 1
        <5>1. j \in 1..Len(fromWorld[e])
          BY <1>2, <3>2, <4>2
        <5>2. i < j => i \in 1..Len(fromWorld[e])
          BY <1>2, <3>2, <5>1
        <5>3. fromWorld'[e][j] = fromWorld[e][j] /\ (i < j => fromWorld'[e][i] = fromWorld[e][i])
          BY <1>2, <3>2, <5>1, <5>2
        <5>4. Behind(e)
          BY DEF HeatInv, HeatFenced
        <5> QED
          BY <5>1, <5>2, <5>3, <5>4 DEF Behind
      <4> QED
        BY <4>1, <4>2
    <3> QED
      BY <3>1, <3>2
  <2> QED
    BY <2>1, <2>2, <2>3 DEF HeatFenced
<1>4. HeatKept'
  <2>1. ASSUME NEW h \in emitted PROVE h.late \/ h \in db.body \/ Waits(h)' \/ player[h.to].st = "crashed"
    BY <1>2, Types DEF HeatInv, HeatKept, Item
  <2> QED
    BY <1>1, <2>1 DEF HeatKept, Waits, Alive
<1> QED
  BY <1>3, <1>4 DEF HeatInv

(* Heat reaches the mailbox of a running contact; a contact that is         *)
(* fenced gets it late. *)
LEMMA HeatSent == ASSUME SessionInv, TypeOK', HeatInv, WorldHeat PROVE HeatInv'
<1> USE DEF SessionInv
<1>1. PICK heat : heat = [n |-> Cardinality(emitted) + 1, to |-> contact, late |-> contact \in reopened]
  OBVIOUS
<1>2. PICK e \in Epochs : e = contact
  BY Types DEF WorldHeat, Session
<1>3. /\ UNCHANGED <<player, db, contact, reopened>> /\ fromWorld' = Deliver(e, heat)
      /\ emitted' = emitted \cup {heat}
  BY <1>1, <1>2 DEF WorldHeat, WorldFrame
<1>4. heat \in Item
  BY <1>3, Types DEF TypeOK
<1>5. heat.to = e /\ (e \in reopened => heat.late) /\ heat # Detached
  BY <1>1, <1>2, EpochInts DEF Detached
<1>6. /\ \A f \in Epochs \ {e} : fromWorld'[f] = fromWorld[f]
      /\ ~Alive(e) => fromWorld'[e] = fromWorld[e]
      /\ Alive(e) => /\ Len(fromWorld[e]) \in Nat /\ Len(fromWorld'[e]) = Len(fromWorld[e]) + 1
                     /\ \A i \in 1..Len(fromWorld[e]) : fromWorld'[e][i] = fromWorld[e][i]
                     /\ fromWorld'[e][Len(fromWorld[e]) + 1] = heat
      /\ \A h : h.to \in Epochs /\ Waits(h) => Waits(h)'
  BY <1>3, <1>4, Delivered
<1>7. Fenced(e) => heat.late
  BY <1>2, <1>5 DEF HeatInv, HeatFenced
<1>8. HeatFenced'
  <2>1. Fenced(e)' => Fenced(e)
    <3> SUFFICES ASSUME NEW i \in 1..Len(fromWorld'[e]), fromWorld'[e][i] = Detached PROVE Fenced(e)
      BY <1>3 DEF Fenced
    <3>1. CASE ~Alive(e)
      BY <1>6, <3>1 DEF Fenced
    <3>2. CASE Alive(e)
      <4>1. i # Len(fromWorld[e]) + 1
        BY <1>5, <1>6, <3>2
      <4>2. i \in 1..Len(fromWorld[e])
        BY <1>6, <3>2, <4>1
      <4> QED
        BY <1>6, <3>2, <4>2 DEF Fenced
    <3> QED
      BY <3>1, <3>2
  <2>2. ASSUME NEW f \in Epochs, contact' = f, Fenced(f)' PROVE f \in reopened'
    BY <1>2, <1>3, <2>1, <2>2 DEF HeatInv, HeatFenced
  <2>3. ASSUME NEW f \in Epochs, f # e PROVE Behind(f)'
    BY <1>3, <1>6, <2>3 DEF HeatInv, HeatFenced, Behind
  <2>4. Behind(e)'
    <3>1. CASE ~Alive(e)
      BY <1>3, <1>6, <3>1 DEF HeatInv, HeatFenced, Behind
    <3>2. CASE Alive(e)
      <4> SUFFICES ASSUME NEW i \in 1..Len(fromWorld'[e]), NEW j \in 1..Len(fromWorld'[e]),
                          (i < j /\ fromWorld'[e][i] = Detached) \/ player[e].st \in {"sealed", "gone"}
                   PROVE  fromWorld'[e][j] = Detached \/ fromWorld'[e][j].late
        BY <1>3 DEF Behind
      <4>1. i < j => i \in 1..Len(fromWorld[e]) /\ fromWorld'[e][i] = fromWorld[e][i]
        <5>1. ASSUME i < j PROVE i \in 1..Len(fromWorld[e])
          BY <1>6, <3>2, <5>1
        <5> QED
          BY <1>6, <3>2, <5>1
      <4>2. CASE j = Len(fromWorld[e]) + 1
        <5>1. Fenced(e)
          BY <4>1 DEF Fenced
        <5> QED
          BY <1>6, <1>7, <3>2, <4>2, <5>1
      <4>3. CASE j # Len(fromWorld[e]) + 1
        <5>1. j \in 1..Len(fromWorld[e])
          BY <1>6, <3>2, <4>3
        <5>2. fromWorld'[e][j] = fromWorld[e][j] /\ Len(fromWorld[e]) \in Nat
          BY <1>6, <3>2, <5>1
        <5>3. Behind(e)
          BY DEF HeatInv, HeatFenced
        <5> QED
          BY <4>1, <5>1, <5>2, <5>3 DEF Behind
      <4> QED
        BY <4>2, <4>3
    <3> QED
      BY <3>1, <3>2
  <2> QED
    BY <2>2, <2>3, <2>4 DEF HeatFenced
<1>9. HeatKept'
  <2>1. ASSUME NEW h \in emitted PROVE h.late \/ h \in db.body \/ Waits(h)' \/ player[h.to].st = "crashed"
    BY <1>6, Types DEF HeatInv, HeatKept, Item
  <2>2. heat.late \/ heat \in db.body \/ Waits(heat)' \/ player[heat.to].st = "crashed"
    <3>1. CASE Alive(e)
      <4>1. Len(fromWorld[e]) + 1 \in 1..Len(fromWorld'[e]) /\ fromWorld'[e][Len(fromWorld[e]) + 1] = heat
        BY <1>6, <3>1
      <4>2. Alive(e)'
        BY <1>3, <3>1 DEF Alive
      <4>3. Alive(heat.to)' /\ \E i \in 1..Len(fromWorld'[heat.to]) : fromWorld'[heat.to][i] = heat
        BY <1>5, <4>1, <4>2
      <4> QED
        BY <4>3 DEF Waits
    <3>2. CASE ~Alive(e)
      <4>1. player[e].st \in {"none", "gone", "crashed"}
        BY <3>2, Types DEF Alive, PlayerState
      <4>2. player[e].st # "none"
        BY <1>2 DEF PlayersFit, PlayerFits
      <4>3. player[e].st = "gone" => heat.late
        BY <1>7 DEF Fenced
      <4> QED
        BY <1>5, <4>1, <4>2, <4>3
    <3> QED
      BY <3>1, <3>2
  <2>3. \A h \in emitted' : h.late \/ h \in db.body \/ Waits(h)' \/ player[h.to].st = "crashed"
    BY <1>3, <2>1, <2>2
  <2> QED
    BY <1>3, <2>3 DEF HeatKept, Waits, Alive
<1> QED
  BY <1>8, <1>9 DEF HeatInv

(* Every step keeps the heat. *)
LEMMA NextHeat == ASSUME SessionInv, SessionInv', HeatInv, [Next]_vars PROVE HeatInv'
<1>1. CASE WorldForgets
  <2>1. UNCHANGED <<player, fromWorld, emitted, reopened, db>> /\ contact' = None
    BY <1>1 DEF WorldForgets, WorldFrame, history
  <2> QED
    BY <2>1, QuietHeat
<1>2. CASE UNCHANGED vars
  BY <1>2, QuietHeat DEF vars, world, history
<1>3. CASE WorldHeat
  BY <1>3, HeatSent DEF SessionInv
<1>4. ASSUME NEW e \in Epochs, PlayerSteps(e) \/ WorldSteps(e) \/ PlayerFails(e) \/ PlayerEffect(e)
                               \/ PlayerTick(e) \/ PlayerCrosses(e)
      PROVE  HeatInv'
  BY <1>4, StopHeat, SealHeat, DetachedHeat, PlayerHeatKept, EffectHeat, TickHeat, LiveHeat, ContactHeat, DetachHeat
     DEF PlayerSteps, WorldSteps
<1> QED
  BY <1>1, <1>2, <1>3, <1>4, RegistryHeat, SceneHeat, GateHeat, ReadyHeat DEF Next

(* HeatKept: heat the World sent before it answered the fence is stored,    *)
(* or waits in the mailbox of a Player that will still take it, unless      *)
(* the Player crashed (body_detach, body_detached). *)
THEOREM HeatIsKept == Spec => []HeatKept
<1>1. Init => HeatInv
  <2> SUFFICES ASSUME Init PROVE HeatInv
    OBVIOUS
  <2>1. emitted = {} /\ contact = None /\ \A e \in Epochs : fromWorld[e] = <<>>
    BY DEF Init
  <2>2. \A e \in Epochs : contact # e /\ 1..Len(fromWorld[e]) = {}
    BY <2>1, EpochInts
  <2> QED
    BY <2>1, <2>2 DEF HeatInv, HeatFenced, HeatKept, Behind
<1>2. SessionInv /\ SessionInv' /\ HeatInv /\ [Next]_vars => HeatInv'
  BY NextHeat
<1>3. HeatInv => HeatKept
  BY DEF HeatInv
<1> QED
  BY <1>1, <1>2, <1>3, SessionInvariance, PTL DEF Spec
===============================================================================
