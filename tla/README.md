# Verification of the voxim server and its Rust client

`ex_mmo_cluster` is an MMO server - an Elixir umbrella (`src/apps`) with Rust
natives for terrain, heat and movement - and clients for it. The Rust client
(`src/clients/bevy_client`) is kept as an archived implementation and tool (its
README says so; the crate `movement_core` it depends on is not in the repository);
it holds the client's side of each protocol: subscription, reconnection,
prediction, wire format. This directory holds TLA+ models of the parts of both
whose correctness depends on order, failure and recovery, the TLC runs that check
them on small instances, and the TLAPS proofs that hold for every instance.

## 1. The system

| Component | Where (`src/apps/…`) | State | Operations | Hard behaviour |
|---|---|---|---|---|
| World | `voxel_region/…/world.ex`, `world/*` | canonical voxel state, `seq`, dirty units, contacts | commit of edits, heat, liquids, prefabs, casting; publication of deltas | one process; everything that takes long runs beside it |
| Write-back | `world/page_cut.ex`, `page_writer.ex`, `log.ex`; `data_service/…/voxel/page_store.ex`, `overlay_log_store.ex` | overlay log, page segments, global rows, safe prefix; the cut under way | append, open a cut, batches with credits, publish, collect, compact, backlog levels, recovery | crash anywhere; lost answers; frozen against present state; back-pressure |
| On-demand pages | `world/page_load.ex`, `residency.ex`, `pages.ex` | resident pages, load tasks, held operations | request, stage, commit, retry, cancel, redo, evict | operations redone; ordering per body or action; cancelled loads |
| Session registry | `world_server/…/session.ex`, `movement.ex` | `cid -> owner`, `next_epoch` | claim, prepare, commit, DOWN | synchronous calls into Scenes; kills; its own restart |
| Scene | `scene_server/…/movement/scene.ex` | members, timeline | join, leave, prepare, detach, activate, drop, fail_source | waits for Players; failure of a Player or of the source |
| Player | `movement/player.ex`, `body.ex` | body, transfer state, heat fence | input, anchor, tick, effects, seal, stop, activate | fence with the World; hand-over; late messages |
| Body store | `data_service/…/body_store.ex` | `character_bodies` (owner_epoch, snapshot) | claim, save | an older session must not write |
| Gate connection | `gate_server/…/quic_connection.ex` | identity, pending hand-over, queues | join, ready, transfer, edits, terminate | kills without `terminate`; timeouts |
| Replicas, feed, collision | `replica.ex`, `canonical_feed.ex`, `collision_stream.ex`, `movement/collision_updates.ex` | deltas after a seq, windows | subscribe, apply, retire | gaps, retirement during hand-over |
| Replication / AOI | `movement/replication*.ex`, `aoi.ex` | interest and generations | join, leave, frame, handoff | ordering between four workers |
| Actions and casting | `movement/player.ex`, `world/casting.ex`, `interactions.ex`, `beacons.ex` | prepared actions, receipts | prepare, authorise, cancel, settle | late replies after death or transfer |
| NPCs | `npc_server` | bodies, memory, plans | perceive, decide, act | external models, slow replies |
| Accounts | `auth_server`, `data_service` | accounts, tokens | login, bind | request-response over tables |
| Numerics and contracts | `voxel_region/native`, `mmo_contracts` | - | kernels, codecs | floats, byte layouts |

The client (`src/clients/bevy_client/src/…`):

| Component | Where | State | Operations | Hard behaviour |
|---|---|---|---|---|
| Voxel truth | `voxel/authority.rs`, `authority_plugin.rs`, `chunk_render.rs`, `persistence.rs`, `net/plugin.rs` | chunks with versions, window, resync gate, mesh queue, cache on disk | subscribe, ingest, evict, resync, remesh, save, load | deltas against evicted or cached chunks; answers before the region is attached; neighbours |
| Link | `net/thread.rs`, `runtime.rs`, `fastlane.rs`, `login.rs`, `session/` | session phase, UDP lane, attempts, what the app believes | log in, serve, drop, back off, attach, retry | lost and late datagrams; commands across a drop; budgets |
| Prediction | `sim/`, `world/local_player.rs`, `movement/plugin.rs` | histories of inputs and states, tick, position | predict, send, reconcile, replay, snap | late, lost and doubled acks; stopping |
| Editor | `voxel/world`, `voxel/prefab`, `voxel/plugin.rs`, `voxel/cli.rs` | cells, micro cells, prefabs, slot on disk, drawn cubes | place, break, rasterise, snap, capture, import | a prefab over several cells; stale aim; refused import |
| Shells | `headless/`, `stdio/`, `skill/` | two views of one event stream, targets | lines, moves, waits, casts | a loop that blocks while events come |
| Codec | `protocol.rs`, `voxel/wire`, `movement_codec.rs` | the stream's buffer | frame, decode, encode | pieces; cut and overlong bodies |
| Meshes and fields | `voxel/mesher.rs`, `skylight.rs`, `surface_decal.rs`, `field_*`, `incandescence*`, `semiconductor_*`, `lightning*`, `heat_smoke*`, `debris*` | regions, dirty channels, entities, mesh queue, particle pools | snapshot, destroy, render, strike, spawn, age | several consumers of one change; caps |
| Not modelled | `voxel/layer3_pixel.rs`, `build_palette.rs`, `live_pick.rs`, `presentation/`, `camera/`, `hud/`, `app/` | - | drawing, picking, interface | floats, display |

```
client ── QUIC ── Gate connection ──claim/prepare/commit──> Session registry
                      │  seal, ready, input                    │ leave/join/detach/activate
                      v                                        v
                    Player <──── linked child, stop ───────  Scene
                   /   \
   body_contact, body_detach \ claim/save            World ── cast ──> Page writer ──> PostgreSQL
   body_heat, body_detached   v                        │  <── ack, published ──┘
                World      PostgreSQL (character_bodies) └── append ──> PostgreSQL (overlay log)
```

The client: `poll_network_events` and the headless loop take the events of one network
thread; `ingest_voxel_messages` drains what they put in the inbox; the renderers drain
the dirty channels of the stores.

`PROJECT.json` lists the hazards of this code, each at its line, with the
properties that cover it or the reason why none does.

What makes each component correct:

- **Write-back.** A restart at any moment rebuilds each committed transaction
  exactly once; a cut is a snapshot of one sequence number; a waiter is answered
  only when its transactions are published; the prefix never falls; back-pressure
  ends.
- **Sessions.** The durable body of a character passes from one ended Player to
  the next; an answered effect and heat sent before a fence are stored; no
  connection stays open without its Player, and every call between them ends (that
  no Player stays without its connection is not so, see section 5).
- **On-demand pages.** An operation sees a state in which every page it read is
  resident, and operations of one body or action run in arrival order.
- **Actions.** Each request gets exactly one final answer.
- **Input slots.** Each input is applied at most once and at its tick.
- **Feed.** Deltas are applied without a gap.
- **Voxel truth.** A chunk held is what the server had at its version; with nothing
  under way what is subscribed is current; what is drawn is current or queued; the
  window is complete in the end.
- **Link.** The app believes what is so; nothing is carried out in another session;
  a lane that is down is on its way up; the thread serves, gives up or quits.
- **Prediction.** When all answers are in, client and server are together and at rest.
- **Editor.** A prefab is merged whole or not at all, the cubes show the world.
- **Shells.** Both programs answer and send alike and report the end of retries.
- **Codec.** What is written is read; a body that is cut is refused.
- **Meshes and fields.** What is drawn is what is held, region by region, face by face,
  but for the chunks that wait in the queue; and the queue empties.

## 2. Modules

| Module | What it is |
|---|---|
| `PageStore` | the tables of the page store as operators: visible rows, the log suffix, recovery, clearing and collecting |
| `PageWriteback` | World, page writer, PostgreSQL, timers, thermal run, crash and restart |
| `WorldLedger` | abstract: a durable ledger that grows by one transaction at a time |
| `PageWriteback_proofs` | theorems about the tables, then about the write-back on them |
| `SessionTransfer` | registry, Scenes, Players, connections, World contact and `character_bodies` for one character |
| `BodyOwnership` | abstract: a stored body that only passes to newer sessions and never loses what it absorbed |
| `SessionInvariant` | the inductive invariant of `SessionTransfer`, and what is added to it without a fault and for heat |
| `SessionTransfer_proofs` | theorems about the sessions |
| `VoxelView` | voxel truth of the client, its cache, its mesh queue and the gate that streams |
| `VoxelInvariant` | the inductive invariant of `VoxelView` |
| `VoxelView_proofs` | theorems about the view, and about folds |
| `GateLink` | login, network thread, runtime, UDP lane, the app's phase, a gate and a remote actor |
| `LinkInvariant` | the inductive invariant of `GateLink` |
| `GateLink_proofs` | theorems about the link |
| `Prediction` | inputs, histories and reconciliation on a line, with a server that corrects |
| `PredictionInvariant` | the inductive invariant of `Prediction` |
| `Prediction_proofs` | theorems about the prediction |
| `VoxelEditor` | the offline world, prefabs, the save slot and the drawn cubes |
| `EditorInvariant` | the inductive invariant of `VoxelEditor` |
| `VoxelEditor_proofs` | theorems about the editor, and about turned and shifted prefabs |
| `ClientShell` | the windowed and the headless program over the same events |
| `ClientShell_proofs` | theorems about the two programs |
| `WireFrames` | layouts of all messages, framing, refusal |
| `ChunkMesh` | pure: faces, greedy merge, micro mesh, light and decals of a chunk |
| `FieldView` | the frame of the client over fields, built on `ChunkMesh` |
| `FieldInvariant` | the inductive invariant of `FieldView` |
| `FieldView_proofs` | theorems about the frame, the meshes and the effects, and about folds |
| `MC…` | instances for TLC |

Operators commented "Mutant", "As if …" or named for what they omit (`…Un…`, `Any…`,
`…Once`) are plausible wrong versions of the definition that follows them; each
shows that the property listed with it in `PROJECT.json` can fail.

### PageWriteback

State and code:

| Variables | Code |
|---|---|
| `log`, `segments`, `globals`, `prefix` | `voxel_overlay_log`, the page tables and `voxel_safe_prefix` |
| `mem`, `retained`, `dirty`, `seq` … | the World process (`world.ex`, `pages.ex`, `log.ex`) |
| `cut`, `waiters`, `level`, `wanted` … | `state.page_store` (`page_cut.ex`) |
| requests and replies | the cast queue of `PageWriter` and its messages back |

A unit stands for one row of a page (a chunk, an epoch cell, a damage record); its
content is the set of transactions that edited it, which is all that loss and
doubling can be told by. One action is one handler: `CommitOperation` appends,
applies, marks and reassesses, as `world.ex` does in one call; `PageAck` returns the
credit and pumps; `PagePublished` retires what the cut covered, answers waiters,
starts collection and opens the next cut when it is wanted. The writer's steps are
one database transaction each. `Crash` takes World and writer together (they are
linked), `CrashInAppend` between the append and its effect in memory, `Restart`
reads the prefix, clears what lies above it and replays the suffix.

### SessionTransfer

One character, because everything here is keyed by it. A session epoch is the
number the registry gave it; `Epochs` is bounded by the connections and hand-overs.

| Variables | Code |
|---|---|
| `nextEpoch`, `owner` | registry state; `job` is the handler it is in, with the nested call it waits for; `calls` its mailbox |
| `conn`, `mail` | the connection: identity, `pending_transfer`, `closing`, and the calls it waits in |
| `scene` | the member, and `drop`: the Player whose `stop` the Scene waits for, on behalf of `caller` |
| `player` | `transfer`, `body_owned`, `body_fence`, ready, the body |
| `contact`, `toWorld`, `fromWorld` | `bodies[cid]` of the World; messages to and from each Player, in order |
| `db` | the row of `character_bodies` |

A process that waits for a reply takes nothing else; between nested calls all others
step. Messages from different senders have no order; those between a Player and the
World keep theirs. A body is the set of effects and heat it has absorbed.

Left out: inputs and movement, casting, observers, the collision stream (its loss is
`SceneFails`), crashes of the World and errors of the database in these paths, 5 s
timeouts of nested calls, and more than one character per Scene. The clock that
seeds epochs does not step back. Only the streamed configuration with a World
(`authority_ref`) is modelled.

### The client's modules

**VoxelView.** `app` is `VoxelAuthority` with `NearFieldWindow` and the inbox; `queue` the
remesh queue; `disk` the map cache; `ver`, `subs`, `owed` the gate (external). A chunk's
content is the set of edits in it, so a delta applied to the wrong content shows. `Frame`
is one update of the app: every event that has arrived (`Polled`), the inbox (`Ingested`), one
request per forked chunk and remeshing, in the order of the schedule. `LoseLink` loses the
connection and what was under way; `RestartClient` keeps only the disk. Chunks lie on a line,
`FirstChunk..LastChunk`.

**GateLink.** `thread`, `attempt`, `rt` are the network thread and its `ClientRuntime`;
`evts` and `cmds` the two channels; `app` what the app shows; `up`, `down`, `dgrams` the
wires. One action takes one item of one source, as the loop of `run_session` does; what a
handler returns (`RuntimeOutcome`) is applied in the same action. Datagrams are lost,
delayed and overtaken, TCP loses only its end. Time is left out, so a command that waited
through a drop is discarded because the back-off is longer than a frame of the app.

**Prediction.** `c` is `LocalPredictionRuntime` with the session's ack watermark, `app` the
keys; `srv`, `inputs`, `acks`, `told` the server and the wires. Positions are numbers; the
integrator is external (`movement_core`): two units a move, a brake takes one unit of speed.
The server takes at most one input a tick, or idles.

**VoxelEditor.** `world` is `VoxelWorld` with its registry, `disk` the save file, `shown` the
cubes, `aim` the ray hit of the frame, which is older than the click that uses it.

**ClientShell.** `view[p]` is what program `p` knows; both take the same `inbox`. The
headless loop is at `scene`, `loop`, `moving`, `settle` or `waiting` and drains in each.
`GuiSends` and `HeadSends` are the two matches over console lines.

**WireFrames.** A layout is a sequence of fields, once as the decoder reads it and once as
the encoder writes it. The stream is cut into pieces of any of four sizes. This
module uses RECURSIVE operators and is for TLC only.

**ChunkMesh, FieldView.** A frame is `Ingest`, `Logic`, `Render` (sets of the schedule; inside a set
systems touch disjoint resources). Overlays, glow, readout and terrain are functions from
keys to what an entity shows; the renderers of overlays, glow and readout update exactly the
dirty keys, so what is not marked keeps its old picture. Terrain goes through `queue`
(`VoxelRemeshQueue`): a frame adds the chunks touched since the last one in the order of their
coordinates, each with its loaded neighbours, unless they wait already (`Pending`), meshes the
first `Budget` (`REMESH_BUDGET_PER_FRAME`) from what is held at that moment and leaves the
rest to later frames. Its early return while the material is missing is never taken: `Startup`
makes the material before the first frame. Chunks lie on a line, so a chunk has two neighbours
and not six. `quiet` and `rewired` are history variables for the properties.
Particle entities follow the live particles of a pool one by one and are not kept apart.
Where two regions give a cell opposite values of equal strength the hash map's order
decides; the model takes every order.

## 3. Runs

| Run | Question | Bounds, and why they suffice |
|---|---|---|
| `durability` | Is anything lost or doubled by cuts, collection, a crash and recovery? Are credits kept and the simulation woken? | two units (one in a cut, one edited beside it), two transactions, one crash, limits that are reached, legacy logs |
| `liveness` | Are waiters answered, is everything published, does back-pressure end? | one unit, three transactions: a cut, edits during it, a second cut |
| `late_loss` | Does recovery survive a dead writer's COMMIT that completes late? Violated | as `durability` |
| `transfer_faults` | Do claims and hand-overs overlap safely, with and without a fault? Is heat sent before a fence stored? | two connections, two Scenes, one hand-over, one fault; while only one connection was used, two hand-overs, two faults, an exchange of heat; with both, an effect goes with a hand-over or a fault (`AloneOrFew`) |
| `transfer_liveness` | Does every call end? | two connections, one hand-over, no fault |
| `voxel_view` | Is what is held, drawn and subscribed the truth, and is the window complete in the end? | three chunks, a window of three that moves, two events of edit, move, light, loss, save, restart: a fork and a fault, a save and a restart, two moves |
| `gate_link` | Does the app follow the link, and does the link serve, give up or quit? | two sessions, two reconnects, one retry of the lane, three events: a drop inside an attach, and one more |
| `prediction` | Are client and server together when all answers are in? | three inputs, four ticks, one correction, loss or rejoin; capacities that overflow, replay that is cut |
| `editor` | Is the world well formed and drawn? | two cells of 2 x 2 x 2, a prefab of three micro blocks that straddles them when turned, four edits |
| `harness` | Do the two programs agree? | two actors, four events, one command, one reconnect |
| `wire` | Is every message read back from a stream in pieces? | every kind of message, lists of none and two, every tag; two messages |
| `fields` | Does the frame show the fields, and the chunks that do not wait? Is a burst beyond the budget drawn in the end? | two chunks of 2 x 2 x 2, two regions in one of them, three messages, two in one drain; pools that overflow; one chunk meshed a frame, so that every change of a chunk with a neighbour leaves one in the queue |

Properties that are conjunctions (`StateKept`, `SchedulingKept`, `SessionsOK`, `StoreOK`,
`LinkOK`, `BufferOK`, `ShellOK`, `EffectsOK`) are made of named parts, each stated and
commented in its module.

Deadlock is checked wherever the system cannot stop by itself; session runs switch it
off, because a closed character has nothing left to do.

**Fairness.** For write-back: writer, message handlers, the cut timer, the restart by
the supervisor and the end of a thermal run are weakly fair - a process in its
receive loop, a `send_after`, a supervisor. Edits and crashes are not fair. For
sessions: registry, Scenes, Players, World and connections take their messages;
clients, effects, heat, ticks and hand-overs are free. For `voxel_view` the app's frames,
the keepalive timer, the gate's answers and the attaching of the region go on; edits,
moves and faults do not. For `gate_link` the thread's loop, its back-off, the gate's TCP
answers and the app's polling are fair; datagrams and the user are not. For `harness` the
headless loop runs; events and lines are free. For `fields` the sets of a frame are fair,
since the app runs its schedule again and again; messages are free. `prediction`, `editor` and
`wire` state safety only.

**Abstraction.** `LedgerSpec` is checked (and proved) with
`rebuilt` mapped to what a restart would recover from the tables at that moment, and
`safe` to the prefix: cuts, batches, collection, crash and recovery are all stutters
or one rise of the prefix. `OwnershipSpec` maps the epoch and body to the row of
`character_bodies`: every step of every process either takes the row for a newer session
or stores a body that lost nothing.

## 4. Proofs

### Write-back

Proved for every set of units and callers, every window, batch size and limit, with
no bound on transactions or crashes other than the named ones (which may be any
number):

| Theorem | Statement |
|---|---|
| `TypeCorrect` | `Spec => []TypeOK` |
| `Invariance` | `Spec => []IInv`, `LateCommit = FALSE` |
| `Durability` | `Spec => []Recoverable` |
| `Snapshots`, `NoneForgotten`, `MemoryCurrent`, `ConfirmedDurable`, together `StateIsKept` | `Spec => []StateKept`, from `IInv` |
| `CompactDurable` | an answer to `compact` means published |
| `PrefixNeverFalls` | `LateSpec => PrefixRises`: the prefix rises, late COMMITs included |
| `ImplementsLedger` | the write-back implements `WorldLedger` |
| `SchedulingIsKept` | `Spec => []SchedulingKept`, `LateCommit = FALSE`: no credit is lost or doubled, and a paused simulation waits for a backlog |
| `RecoveredIsComplete`, `CollectKeepsNewest` | the operators of the store |

Argument. `Recoverable` is not inductive: that the tables rebuild the world after a
publish depends on what the writer is about to write, and that on what the World froze
when it opened the cut. `IInv` adds this chain:
`CutFrozen` (the frozen content is the content at the cut's number), `WriterQueue` (requests
in the queue belong to the cut and come in order), `CutWritten` (a row already written
above the prefix is one of them, and whatever is not yet written is still dirty in the
cut), `LogKept` / `SegmentsKept` (log and rows below the prefix are whole),
`HeadReached` (the numbers agree), `Confirmation` (what the World has been told is true).
`PageWriteback_proofs` first proves types action by action, then for each action
one `…Keeps` lemma with a step per conjunct it can disturb, then `NextIInv` and the temporal
theorems. `RecoveredIsComplete` carries the step where a publish moves the prefix: the newest
visible row of a unit and the suffix together give all its transactions.

`SchedulingKept` counts credits over whole queues, so it needs to know what the queues hold.
`Pipeline` says it by the stage of the cut: until it has begun and again while it publishes there is one
message under way and every credit is at home; in between each message is a batch or
an answer to one, and credits and messages add up to the window; without a cut the queues are
empty. A message of another attempt, which the World would drop without taking
back its credit, is thereby excluded.

`Spec`, with `LateCommit = FALSE`, has PostgreSQL complete no COMMIT of a connection whose
owner died before the restarted World read the prefix. `LateSpec` adds that step
(`LatePublish`): there `Recoverable` is false (`late_loss`), and only `PrefixNeverFalls`
is claimed.

### Sessions

Proved for every finite set of connections, every set of Scenes and every bound on
crossings, effects, heat and faults (`SessionAssumption`); without the constraint
`AloneOrFew` that the run needs:

| Theorem | Statement |
|---|---|
| `SessionTypes` | `Spec => []TypeOK` |
| `SessionInvariance` | `Spec => []SessionInv` |
| `EffectsAreDurable` | `Spec => []EffectsDurable`: a receipt means stored |
| `SessionsAgree` | `Spec => []SessionsOK`: registry and connection name one session, and an open connection has a Player or learns that it has none |
| `ImplementsOwnership` | `Spec => OwnershipSpec`: refinement of `BodyOwnership` |
| `NoneOvertaken` | `Spec => []NeverOvertaken`: without a fault a writing Player is the owner of the row |
| `HeatIsKept` | `Spec => []HeatKept`: heat sent before the fence's answer is not lost |

Argument. Neither `EffectsDurable` nor `OwnershipSpec` is inductive: a body is written
as a whole, by a Player that read it once, so a write loses an effect unless its body
contains what the row has. `StoredIsKnown` says so of the Player whose session owns the
row. It survives a hand-over only because the target is prepared with the body of the
source (`PreparedFrom`, `CutIsStored`) and the source never writes again (`Silent`), which
must already hold while the call for it is in the registry's mailbox (`CallFits`). That the
target's epoch is newer than the source's, and any other in use, is
`EpochsAreNew` with `EpochsCounted`: an epoch is given to a claim or a hand-over, of
which there are finitely many, so `Epochs` is large enough for any of them. `MembersFit`,
`OwnerFits`, `ConnsFit`, `PlayersFit` and `JobFits` tie the views of the processes
together, and `SessionIsHeld` says that a connection whose Player is being dropped has
`mmo_close` in its mailbox; `SessionsOK` follows.

`NeverOvertaken` needs more, and only while nothing has failed: `OneWriter` adds that the only
writer is the owner, that a connection waits for the call it sent, that a Scene whose drop is
for a connection has that connection waiting, and that a connection is dead only behind its
Player. With a fault (a call that times out while the registry still serves it) each of these
is false, which is why the property has that premise. `HeatKept` needs `HeatFenced`:
behind the answer to a detach there is only late heat, and a World contact behind it has
been opened again.

`SessionTransfer_proofs` proves types first, then has for each action of each process
one lemma per part of `SessionInv` that the action can disturb, and `SessionStep` puts them
together. Many cases are alike, so the lemmas speak of what a step does (a Player
that ends, a call that is answered) before the actions are taken in turn.

`SessionInv`, `OneWriter` and `HeatInv` are no properties of the run, since the theorems cover
every instance; `MCSessionTransfer` has them, and as INVARIANTs of `SessionTransfer_faults.cfg`
they hold (two minutes).

The proofs corrected the model in one place: `Gates` must not contain the words that stand
in `caller` for the registry or nobody (`SessionAssumption`). They
strengthened `BodyOwnership`: a session takes the row only with a greater epoch.

### The link of the client

Proved for any reconnect budget, any number of lane retries, sessions, moves and events, and any
set of event kinds (`LinkAssumption`):

| Theorem | Statement |
|---|---|
| `LinkInvariantHolds` | `Spec => []LinkInv` |
| `LinkIsSafe` | `Spec => []LinkOK`: types and budgets; `SaidHere`, `NoRewind`, `AttachedIsMutual` |
| `AppFollowsThread` | `Spec => []AppFollows` |
| `LaneComesBack` | `Spec => []LaneIsDriven` |

Argument. Each of these speaks of a moment; what makes it true is what is under way. `LinkInv`
(`LinkInvariant`) says that of each queue, in the order the proofs need it:

- `AppStarts`, `Unused`: the thread starts from the login screen, and between two sessions
  nothing of the last one is left.
- `Handshake`: until the gate has put a session in its scene there is one message under
  way, so nothing but the answer to the request last made can arrive; ids of earlier attempts
  come only after it, from the lane.
- `AppAhead`: the last telling event under way, or what is shown if there is none, is what the
  thread is at. `AppFollows` is the case of an empty queue. It needs `QuitIsClosed`: the thread
  stops on a command only when the app is closed, and is then told nothing more.
- `CommandsFit`: a command that waits, an "entered" under way and the scene on screen are all
  of the present session, except between its end and the end of the back-off; with it
  `SaidHere` is inductive.
- `TicksRise`: moves under way rise between the events that set the actor's tick back, and what
  will be on screen is no newer than the runtime's mark. The mark belongs to the runtime and the
  tick to the app, and an unbounded queue is between them.
- `LaneInv`: ids rise. The gate's ticket is never newer than the one the lane waits for
  (`BootIsNewest`), so while the lane waits for an attach no other attach under way presents the
  ticket the gate has (`AttachIsNewest`), and only that one can be accepted. `LaneWaits`
  keeps in sight what the lane waits for.

`GateLink_proofs` first shows what one turn of the thread comes to: every handler of the runtime, with every
way `apply_runtime_outcome` can fail, is one of a dozen named effects (`Receives`, `SessionTurn`).
The parts of the invariant are then proved over those effects, so that none has to look into the
handlers again. The parts are INVARIANTs that hold on the instance of `gate_link` (`MCGateLink`
has them).

The proofs corrected the model: handlers whose alternatives overlap (`FailLane`, `OnEntered`,
`OnTicket`, `OnAttached`, `OnCommand`; in other modules `Reconcile`, `Compare` and `RegionMesh`) were
written with CASE, which does not say which alternative is taken; they are IF chains now, in the
order of the code.

### The two programs

Proved for any actors, NPCs, chunks, reconnect budget and bounds (`ShellAssumption`):

| Theorem | Statement |
|---|---|
| `ShellInvariance` | `Spec => []ShellInv` |
| `ProgramsAgree` | `Spec => []ShellOK`: answers, orders, Tab and the position of a move |
| `GivingUpIsSaid` | `Spec => []GaveUpIsSaid` |

Argument. The programs may be any number of events apart, so nothing relates their views
directly. `Story` says that there is one tale - a function from the number of events taken to what
they make known - which both follow: a program with `n` events before it holds what the tale
has at `events - n`, and each event before it leads from one place of the tale to the next. The
tale exists because each sent event extends it; no history variable and no induction is
needed. Two programs with the same events before them are at one place, hence `SameAnswers` and
`SameOrders`; the end of the tale is the giving up, hence `GaveUpIsSaid`.

### The voxel view of the client

Proved for any line of chunks, tile size, retry count, frame budget, spawns, cache and bounds
(`WindowAssumption`; the radius is that of the code, a tile and a half):

| Theorem | Statement |
|---|---|
| `ViewInvariance` | `Spec => []ViewInv` |
| `StoreHolds` | `Spec => []StoreOK`: types, and `ChunksAreTruth` |
| `MeshIsCurrent` | `Spec => []MeshCurrent` |
| `SubscribedHolds` | `Spec => []SubscribedIsCurrent` |

Argument. The app takes what is under way in whole frames, each any number of events followed by
any number of voxel messages, so between two frames nothing can be said of one message alone.
`ViewInv` (`VoxelInvariant`) speaks of what the app comes to when it has taken everything that is
under way (`Due`), and of the commands the server will then have before it (`Orders`):

- `ViewTypes`: a chunk in the store or the cache is one of `Truths`, the contents the server had;
  an empty app between frames (`Rests`).
- `AllFresh`: nothing held, kept or under way is ahead of the server, and no snapshot or delta
  under way is behind what is held. Were it behind, a late snapshot would take a chunk back.
- `Served`: without a session nobody is subscribed and no command is under way.
- `Believed`: a subscribed chunk that the server does not owe is settled in `Due` - held at the
  present version, behind the gate or outside the window - or a later one of `Orders` mends it, by
  having it sent or unsubscribed. The same goes for a chunk a command under way claims to know
  (`Trusted`), from the moment the server will serve that command. So a window that says "known"
  may be served long after the chunk was evicted: the unsubscription behind it mends that.
- `MeshCurrent` is inductive with the types, given that whatever a fold of the frame changes it marks
  (`Marks`), and that the queue of meshes keeps every chunk it is given.

`SubscribedIsCurrent` is `Believed` with nothing under way, when `Due` is the app and there are no
`Orders`. The proof that one more message keeps `Believed` is `IngestSettles`: a delta that fits
settles its chunk, any other shuts the gate. `Frame` changes nothing in it but `Orders`, since what the app
comes to is what it becomes.

The folds are proved about without an induction theorem: `Reached` takes the least number outside
a set, from the well-foundedness of `<`, and a fold is a run of a function on states
and messages (`RunExists`, `SameRun`, `RunKeeps`), of which each fold of the model is an instance.

For the proofs the folds got names (`Polled`, `Taken`, `Ingested`, `Marked`, `Queued`), and chunks, an
arbitrary set of numbers before, became the interval they stand for. `ViewInv` holds
as an INVARIANT on the instance of `voxel_view`, and was checked there before it was proved.

### Prediction

Proved for any capacities of the histories, any replay limits, distances and directions (the
assumption asks `BaseSoft <= MaxSoft < Hard` and that standing still is a direction), and any
number of inputs, ticks, losses, corrections and rejoins:

| Theorem | Statement |
|---|---|
| `PredictionInvariantHolds` | `Spec => []PredictionInv` |
| `BuffersBounded` | `Spec => []BufferOK` |
| `PredictionSettles` | `Spec => []SettlesTogether` |
| `PredictionStops` | `Spec => []StopsTogether` |

Argument. `SettlesTogether` speaks of the moment after the last ack; what makes it so is
`Heard`: at any time the last word of the server is lost, or on its way and newer than what
the client has applied, or applied, and then everything else under way is stale and the
prediction is at the server as soon as all inputs are done. That an ack which answers the last
input leaves the client at the server, whichever way `reconcile` takes, is the work: a snap
and an override take its state; a rewind replays what is pending, and nothing is pending
(`PendingOK`: what is pending ends with the last input sent); an accepted ack is the newest
state or leaves the newest prediction, which is older than the ack only if the clock is
(`TipOK`), so that the client has idled as the server did. `AheadOK` is what keeps a prediction
with nothing pending from running ahead of the ack it comes from. `AcksOK` orders what the
server has said: a later input number is said at a later tick, so `Stale` throws away no word that
is the last. The gap that `Accept` lets pass as noise is closed by then: `SettlesTogether` is
equality of place and velocity. `StopsTogether` follows with `ToldOK`, the app's velocity being
the prediction's unless a `LocalPosition` is under way; without it the last brake frame could be decided
on a velocity long corrected.

The histories are sequences cut at either end; the lemmas on `Push`, `RetainRecent`, `UpTo` and
`StillPending` say what is left, and the replays, which are folds, are runs of a function
as in `VoxelView_proofs`.

### Editor

Proved for any edge of a cell, materials, showcase plane, built-in prefabs, faces and commands
(the assumption gives them their types), with no bound on edits:

| Theorem | Statement |
|---|---|
| `EditorInvariantHolds` | `Spec => []EditorInv` |
| `EditorWorld` | `Spec => []WorldOK` |
| `EditorShowsWorld` | `Spec => []ShownIsWorld` |
| `PrefabPlacedWhole` | `Spec => PrefabWhole` |

Argument. `EditorInv` says of the saved world what `WorldOK` says of the present one, since a load
brings it back, and of prefabs and the ray hit that they are of the right shape, since a capture or a
click turns them into cells. A commit keeps it because the next id is above every one on record
(`NextFacts`), so no old record changes, and because the box of a record is around every cell of
the raster (`BoxFacts`); both need that worlds are finite, which the invariant therefore says.

`PrefabWhole` rests on geometry: a point is in one slot of one cell (`PointFacts`, division with
remainder), a quarter turn takes no two slots of a cell and no two cells of a box to the same
(`TurnsApart`), and so no two slots of a prefab land on one point however they are turned and
shifted (`LandsApart`); a raster has therefore as many points as the prefab has slots
(`RasterizeFull`). `CommitWhole` shows that exactly these are added, since `Conflicts` looked at all
of them first.

A refused import leaves pieces of a snapshot with the records of the old world, and a save after
it puts them in the slot: the invariant failed at the load of such a slot until `torn` was made part of
the snapshot. `WorldOK` excepts a torn world from nothing but the record of its cells.

### Fields and meshes

Proved for any size of chunk and micro grid, any chunks on the line and regions in them, any
messages, worlds to start from, caps, lives and frame times, any number of messages in a
frame and any budget of chunks a frame may mesh (`FieldAssumption`). The assumption asks of a snapshot that no cell is in it twice and that each
layer has a value for each cell, as the protocol document (2026-04-10-线协议规范.md:515) promises of
`macro_indices`; the decoder does not check the former.

| Theorem | Statement |
|---|---|
| `FieldInvariantHolds` | `Spec => []FieldInv` |
| `EffectsAreOK` | `Spec => []EffectsOK`: pools within caps and lives, bolts on channels, smoke only where it is hot |
| `OverlaysFollow` | `Spec => []OverlaysAreField` |
| `ReadoutIsField` | `Spec => []ReadoutFollowsField` |
| `TerrainShowsWorld` | `Spec => []TerrainIsWorld`: every open face of a chunk that does not wait is covered once, in its material and light |

Argument. The properties speak of the end of a frame; `FieldInv` says what holds between its
systems: a region or channel that is not marked, and a chunk that does not wait, is drawn as it
is held (`OverlaysDrawn`, `GlowDrawn`, `ReadoutDrawn`, `TerrainDrawn`), the marks are gone after `Render` and the events
after `Logic` (`Drained`). A frame folds over its messages, so the lemmas at the beginning say what holds
along a fold, and `Follows` what one message may change without a mark. A chunk waits
(`Waiting`) when it is in the queue, is marked, or is loaded beside a marked one: `Pending` holds
every such chunk, once (`PendingIs`, by `AscendingIs` and the fold over the marks), and after a
frame each is either meshed from what is held or still in the queue (`LeftIs`). So the
invariant needs no bound on how long the queue grows. Two of the parts are
weaker than one would first write. `TerrainDrawn` asks for the light of the loaded neighbours
and allows any for chunks that are not loaded, since a field message marks only what is loaded and the
light of a missing neighbour is read all the same where it decides nothing. `SmokeCools`
says, while the effects are due, that a region which has gone quiet will be cleared by the last
electric event about it, or by its destruction if there is none.

`ReadoutFollowsField` needs that the strongest value is found in whatever order the regions are
taken (`Stronger` keeps one of the values of greatest magnitude), and that a region gives a cell one
value. `TerrainIsWorld` needs greedy merging to be a tiling: `Run` and `Rows` bound a
rectangle of one value that lies in the mask, what is consumed is exactly that rectangle
(`ConsumeIs`), and along the fold each cell of the mask is either still in it or covered by one
quad (`Merging`, `Tiles`). A mask in turn holds the open faces of a slice, once each
(`MaskIs`, `OpenIs`).

`Only`, `ValueHere` and `Shifted` in the models are there for the proofs: a filter as a fold over
membership and a shift as a record can be reasoned about, a `SelectSeq` with a LAMBDA and a nested
EXCEPT cannot.

### Left to TLC

Liveness (`CompactAnswered`, `BacklogEnds`, `CallsEnd`, `WindowConverges`,
`ServesOrGivesUp`, `QuitStops`, `ResyncsAsked`, `QueueDrains`), which needs fairness and ENABLED and is out of
the prover's reach. `WireFrames` is recursive and stays with TLC.
Decals and the picture of micro cells (`SurfaceDecals`, `MicroMesh`) are modelled and drawn but no
property says which of them must be there; the proofs only use that they depend on the chunk.

## 5. Where the code and its documents disagree

`late_loss` is a `violation` run, with the quoted text in `PROJECT.json`: a publish in
flight when the writer dies can complete after the restart cleared its rows.

Four properties of `SessionTransfer` state what comments say and do not hold; they are
not among the runs, and a cfg with the constants given finds each (two Scenes each):

| Property | Constants | What happens |
|---|---|---|
| `JoinAdmitted` | two connections, one crossing | session.ex:61 has the old member leave first; a reconnect to the target of a pending hand-over is refused |
| `ScenesStay` | two connections, one crossing | `seal` on a stopping Player (player.ex:461) crashes it and its Scene |
| `NoHeatLost` | one connection, one heat | a first window during the stop registers the contact behind the fence (player.ex:814) |
| `PlayersEnd` | one connection, one crossing, one fault, `FairSpec` | a kill between `seal` and the fence leaves a sealed Player (player.ex:942) |

In the client, seen while modelling and excepted in the properties by name:

- authority_plugin.rs:115 has the gate of resyncs "Cleared on Applied/Dropped"; only
  Applied clears it: a Dropped message sets it (authority_plugin.rs:264), and the eviction of
  a chunk leaves it as it is.
- heat_smoke_render.rs:106-108 lets "no plume linger" over a region that is gone; a snapshot
  and the destruction in one drain leave one for the life of its particles.
- semiconductor_render.rs:11-12 has the readout despawned when the chunk holds no
  semiconductors; a chunk delta or an eviction does not mark it.
- runtime.rs:508 starts the count again after the cooldown, so one retry more than
  `MAX_FAST_LANE_REBOOTSTRAP_ATTEMPTS` is made; nothing repeats a lost attach (runtime.rs:490).
- headless/state.rs:128 lets a query tell "gave up" from "still retrying"; when the thread has
  gone the next drain ends the program before it (runner.rs:873).
- A chunk evicted while its snapshot is under way is held again outside the window
  (authority.rs:184-192 says eviction bounds the store).

## 6. Plan

1. Write-back and its proofs - done.
2. Sessions and hand-over and the proofs of all its safety properties - done.
3. The Rust client: truth, link, prediction, editor, shells, codec, meshes and fields -
   modelled and checked; all but the codec are proved too.
4. `PageLoad`: tasks, holds and redo of on-demand pages, staged install and the
   rebase of the overlay during it. Theorem: order per body.
5. `PlayerCast`: prepare, authorise, cancel, settle of an action across death and
   hand-over. Theorem: at most one final answer.
6. `InputSlots`, `CanonicalFeed`, AOI generations, unique identifiers.

## 7. Not modelled

Kernels and world generation (floats), `mmo_contracts` (byte layouts; the client's codec is
modelled), accounts, NPC decisions (external models), the web client, the client's pixel
layer, picking, presentation, camera and interface (floats and display), and the parts of the server
in the plan above. Strings and lists longer than 65535, whose u16 count wraps
(protocol.rs, subscribe.rs), are outside the enumerated messages.
