------------------------------ MODULE VoxelView ------------------------------
(* The voxel view of the client (src/clients/bevy_client): the window of        *)
(* chunks it subscribes to around the player (net/plugin.rs), the store of      *)
(* authoritative chunks with its version gate and resync gate (authority.rs,    *)
(* authority_plugin.rs), the light region of field_view.rs, the mesh queue of   *)
(* chunk_render.rs and the map cache of persistence.rs.                         *)
(*                                                                              *)
(* A chunk's content is the set of edits in it; its version is a number on the  *)
(* wire that only the server and the store keep in step.  Chunks lie on a line  *)
(* (the three axes are treated alike).  The server and the connection are       *)
(* external: messages arrive in order over one stream, a lost connection loses  *)
(* what was still under way.                                                    *)
EXTENDS Integers, FiniteSets, SequencesExt

CONSTANTS
  FirstChunk, LastChunk, \* coordinates of chunks, an interval
  TileSize,    \* VOXEL_TILE_SIZE_CHUNKS
  Radius,      \* VOXEL_SUBSCRIBE_RADIUS
  LightChunk,  \* the chunk that has the only light region
  MaxRetries,  \* MAX_SUBSCRIBE_RETRIES
  Budget,      \* REMESH_BUDGET_PER_FRAME
  MaxEvents,   \* bound: edits, moves, lights, faults, saves and restarts together
  Kinds,       \* bound: which of them happen
  NoCenter,    \* no window yet
  Spawns,      \* bound: the chunks the server lets a player enter at
  Cached       \* bound: chunks an earlier session may have left in the cache

Chunks == FirstChunk..LastChunk

ASSUME WindowAssumption ==
  /\ FirstChunk \in Int /\ LastChunk \in Int /\ LightChunk \in Chunks /\ NoCenter \notin Int
  /\ TileSize \in Nat \ {0} /\ Radius = TileSize + TileSize \div 2
  /\ {MaxRetries, Budget} \subseteq Nat \ {0}
  /\ MaxEvents \in Nat /\ Kinds \subseteq {"edit", "move", "light", "fault", "save", "restart"}
  /\ Spawns \cup Cached \subseteq Chunks

(* FoldLeft as a function of the position: TLC evaluates it in linear time. *)
Fold(op(_, _), base, s) ==
  LET f[i \in 0..Len(s)] == IF i = 0 THEN base ELSE op(f[i - 1], s[i]) IN f[Len(s)]

VARIABLES
  ver,      \* server: how many edits each chunk has had
  ready,    \* server: the region is attached, subscriptions are served
  subs,     \* server: chunks this client is subscribed to
  owed,     \* server: chunks whose snapshot it still has to send
  pos,      \* server: the chunk the player stands in
  linked,   \* network thread: the session is in its scene
  up,       \* commands under way to the server
  down,     \* events under way to the app
  app,      \* the app's resources between two frames, see EmptyApp
  queue,    \* VoxelRemeshQueue
  stale,    \* chunks whose entity does not show what is held, see Render
  disk,     \* the map cache
  spent     \* edits, moves, lights, faults, saves and restarts so far

server == <<ver, ready, subs, owed, pos>>
client == <<app, queue, stale, disk>>
vars == <<server, linked, up, down, client, spent>>

------------------------------------------------------------------------------
(* Geometry of the window. *)
TileOf(c) == c \div TileSize
CenterOf(tile) == tile * TileSize + TileSize \div 2
Window(k, r) == {c \in Chunks : k - r <= c /\ c <= k + r}
Near(c) == {c - 1, c + 1} \cap Chunks
Line == [i \in 1..LastChunk - FirstChunk + 1 |-> FirstChunk + i - 1]
InOrder(C) == Fold(LAMBDA s, c : IF c \in C THEN Append(s, c) ELSE s, << >>, Line)
FallingOut(from, to) == Window(from, Radius) \ Window(to, Radius)

------------------------------------------------------------------------------
(* The app.  held maps loaded chunks to version and edits (authority.rs), light *)
(* is the light region: 0 none, 1 one without a light layer, above that its     *)
(* light (field_view.rs); gate and wanted are resync_in_flight and              *)
(* resync_requests; inbox and out live within one frame.                        *)
EmptyApp == [joined |-> FALSE, center |-> NoCenter, attempts |-> 0,
             held |-> << >>, dirty |-> {}, light |-> 0,
             gate |-> {}, wanted |-> {}, inbox |-> << >>, out |-> << >>]
Held(a) == DOMAIN a.held
Drop(f, c) == [d \in DOMAIN f \ {c} |-> f[d]]
Put(f, c, x) == [d \in DOMAIN f \cup {c} |-> IF d = c THEN x ELSE f[d]]

MarkDirty(a, c) == IF c \in Held(a) THEN [a EXCEPT !.dirty = @ \cup {c}] ELSE a
Evict(a, C) == [a EXCEPT !.held = [c \in Held(a) \ C |-> @[c]],
                         !.dirty = @ \cup (Held(a) \cap C)]

Applied(a, c, x) == [a EXCEPT !.held = Put(@, c, x), !.dirty = @ \cup {c},
                              !.gate = @ \ {c}]
(* One request per fork: the gate stays shut until the chunk is applied again. *)
AskResync(a, c) == IF c \in a.gate THEN a
                   ELSE [a EXCEPT !.gate = @ \cup {c}, !.wanted = @ \cup {c}]
(* Mutant: a delta is applied to whatever version is held. *)
DeltaFitsAny(a, m) == m.chunk \in Held(a)
DeltaFits(a, m) == m.chunk \in Held(a) /\ a.held[m.chunk].version = m.base

(* Mutant: a snapshot of a chunk that is held counts as a duplicate. *)
SnapshotIfAbsent(a, m) ==
  IF m.chunk \in Held(a) THEN [a EXCEPT !.gate = @ \ {m.chunk}]
  ELSE Applied(a, m.chunk, [version |-> m.version, edits |-> 1..m.version])
IngestSnapshot(a, m) ==
  Applied(a, m.chunk, [version |-> m.version, edits |-> 1..m.version])
IngestDelta(a, m) ==
  IF DeltaFits(a, m)
  THEN Applied(a, m.chunk, [version |-> m.base + 1,
                            edits |-> a.held[m.chunk].edits \cup {m.base + 1}])
  ELSE AskResync(a, m.chunk)
IngestInvalidate(a, m) ==
  AskResync([a EXCEPT !.held = Drop(@, m.chunk), !.dirty = @ \cup {m.chunk}], m.chunk)

Lit(l) == l > 1
(* A chunk is baked again when its light really changed, or went out. *)
LightChanged(old, new) == (Lit(new) \/ Lit(old)) /\ old # new
IngestLight(a, m) ==
  LET b == [a EXCEPT !.light = m.light]
  IN  IF LightChanged(a.light, m.light) THEN MarkDirty(b, LightChunk) ELSE b

Ingest(a, m) ==
  CASE m.kind = "snapshot" -> IngestSnapshot(a, m)
    [] m.kind = "delta" -> IngestDelta(a, m)
    [] m.kind = "invalidate" -> IngestInvalidate(a, m)
    [] m.kind = "light" -> IngestLight(a, m)

Known(a, k) == [c \in Held(a) \cap Window(k, Radius) |-> a.held[c].version]

------------------------------------------------------------------------------
(* Commands of the app reach the server only while the session is in its scene. *)
Send(cmds) == up' = IF linked THEN up \o cmds ELSE up
WindowCommand(a, k) == [kind |-> "subscribe", center |-> k, radius |-> Radius,
                        known |-> Known(a, k)]
ChunkCommand(c) == [kind |-> "subscribe", center |-> c, radius |-> 0, known |-> << >>]

(* subscribe_voxel_around: the new window, and what falls out of the old one. *)
SubscribeAround(a, k) ==
  LET out == IF a.center \in {NoCenter, k} THEN {} ELSE FallingOut(a.center, k)
      leave == IF out = {} THEN << >> ELSE << [kind |-> "unsubscribe", chunks |-> out] >>
  IN  [Evict(a, out) EXCEPT !.out = @ \o <<WindowCommand(a, k)>> \o leave,
                            !.center = k]

(* poll_network_events, one event.  A voxel message waits in the inbox until    *)
(* the events of the frame are through.                                         *)
PollOne(a, m) ==
  CASE m.kind = "entered" ->
         SubscribeAround([a EXCEPT !.joined = TRUE, !.center = NoCenter],
                         CenterOf(TileOf(m.chunk)))
    [] m.kind = "position" ->
         IF a.center # NoCenter /\ TileOf(a.center) = TileOf(m.chunk) THEN a
         ELSE SubscribeAround(a, CenterOf(TileOf(m.chunk)))
    [] m.kind = "disconnected" -> [a EXCEPT !.joined = FALSE]
    [] OTHER -> [a EXCEPT !.inbox = Append(@, m)]

Polled(a, d) == Fold(PollOne, a, d)

(* ingest_voxel_messages: the whole inbox, then one request per forked chunk. *)
Taken(a, q) == Fold(Ingest, a, q)
Ingested(a) == Taken([a EXCEPT !.inbox = << >>], a.inbox)
IngestInbox(a) ==
  LET b == Ingested(a)
      asked == InOrder(b.wanted)
  IN  [b EXCEPT !.wanted = {},
                !.out = @ \o [i \in DOMAIN asked |-> ChunkCommand(asked[i])]]

------------------------------------------------------------------------------
(* The client starts from a cache (load_map_cache); what is in it has been      *)
(* edited since.                                                                *)
FromCache(cache) == [EmptyApp EXCEPT !.held = cache, !.dirty = DOMAIN cache]

Init ==
  /\ \E C \in SUBSET Cached :
       /\ disk = [c \in C |-> [version |-> 1, edits |-> {1}]]
       /\ ver = [c \in Chunks |-> IF c \in C THEN 2 ELSE 1]
  /\ ready = FALSE /\ subs = {} /\ owed = {} /\ pos \in Spawns
  /\ linked = FALSE /\ up = << >> /\ down = << >>
  /\ app = FromCache(disk) /\ queue = << >> /\ stale = DOMAIN disk
  /\ spent = 0

Happens(kind) == kind \in Kinds /\ spent < MaxEvents /\ spent' = spent + 1

(* External: the server. *)
Deliver(m) == down' = Append(down, m)

AttachRegion ==
  /\ ~ready
  /\ ready' = TRUE
  /\ UNCHANGED <<ver, subs, owed, pos, linked, up, down, client, spent>>

Edit(c) ==
  /\ Happens("edit")
  /\ ver' = [ver EXCEPT ![c] = @ + 1]
  /\ IF c \in subs THEN Deliver([kind |-> "delta", chunk |-> c, base |-> ver[c]])
                   ELSE UNCHANGED down
  /\ UNCHANGED <<ready, subs, owed, pos, linked, up, client>>

ServeCommand ==
  /\ up # << >>
  /\ LET cmd == Head(up) IN
     IF cmd.kind = "unsubscribe"
     THEN /\ subs' = subs \ cmd.chunks
          /\ owed' = owed \ cmd.chunks
     ELSE LET W == IF ready THEN Window(cmd.center, cmd.radius) ELSE {} IN
          /\ subs' = subs \cup W
          /\ owed' = owed \cup {c \in W : ~(c \in DOMAIN cmd.known /\ cmd.known[c] = ver[c])}
  /\ up' = Tail(up)
  /\ UNCHANGED <<ver, ready, pos, linked, down, client, spent>>

(* Snapshots go out in the order the window is enumerated. *)
SendSnapshot(c) ==
  /\ c \in owed /\ \A d \in owed : c <= d
  /\ owed' = owed \ {c}
  /\ Deliver([kind |-> "snapshot", chunk |-> c, version |-> ver[c]])
  /\ UNCHANGED <<ver, ready, subs, pos, linked, up, client, spent>>

(* The gate worker drops its own subscription (authority_plugin.rs:272). *)
Invalidate(c) ==
  /\ Happens("fault") /\ c \in subs
  /\ subs' = subs \ {c} /\ owed' = owed \ {c}
  /\ Deliver([kind |-> "invalidate", chunk |-> c])
  /\ UNCHANGED <<ver, ready, pos, linked, up, client>>

ChangeLight(l) ==
  /\ Happens("light") /\ linked
  /\ Deliver([kind |-> "light", light |-> l])
  /\ UNCHANGED <<server, linked, up, client>>

Move(c) ==
  /\ Happens("move") /\ linked /\ c \in Near(pos)
  /\ pos' = c
  /\ Deliver([kind |-> "position", chunk |-> c])
  /\ UNCHANGED <<ver, ready, subs, owed, linked, up, client>>

(* External: the network thread loses its session, with any part of what was    *)
(* under way, and enters the scene again, anywhere.                             *)
LoseLink ==
  /\ Happens("fault") /\ linked
  /\ linked' = FALSE /\ up' = << >> /\ subs' = {} /\ owed' = {}
  /\ \E n \in 0..Len(down) :
       down' = Append(SubSeq(down, 1, n), [kind |-> "disconnected"])
  /\ UNCHANGED <<ver, ready, pos, client>>

EnterScene(c) ==
  /\ ~linked /\ c \in Spawns
  /\ linked' = TRUE /\ pos' = c
  /\ Deliver([kind |-> "entered", chunk |-> c])
  /\ UNCHANGED <<ver, ready, subs, owed, up, client, spent>>

------------------------------------------------------------------------------
(* What a mesh is built from: the cells of the chunk and its neighbours and the *)
(* light of both; 0 for a chunk without an entity.  Light of a chunk that is    *)
(* not loaded is left out: nothing marks its neighbours (mark_dirty).           *)
VersionIn(a, c) == IF c \in Held(a) THEN a.held[c].version ELSE 0
LightOn(a, c) == LightChunk \in (Near(c) \cup {c}) \cap Held(a) /\ Lit(a.light)
Picture(a, c) ==
  IF c \in Held(a)
  THEN [cells |-> [n \in Near(c) \cup {c} |-> VersionIn(a, n)],
        light |-> IF LightOn(a, c) THEN a.light ELSE 0]
  ELSE [cells |-> [n \in Near(c) \cup {c} |-> 0], light |-> 0]

Enqueue(q, c) == IF Contains(q, c) THEN q ELSE Append(q, c)
(* Mutant: neighbours are not meshed again. *)
WithoutNeighbours(a, c) == <<c>>
WithNeighbours(a, c) == <<c>> \o InOrder(Near(c) \cap Held(a))

(* render_dirty_chunks *)
Marked(a, q) == Fold(LAMBDA s, c : s \o WithNeighbours(a, c), << >>, q)
Queued(q, s) == Fold(Enqueue, q, s)
Pending(a) == Queued(queue, Marked(a, InOrder(a.dirty)))
Render(a) ==
  LET pending == Pending(a)
      n == IF Budget < Len(pending) THEN Budget ELSE Len(pending)
      changed == {c \in Chunks : Picture(a, c) # Picture(app, c)}
  IN  /\ stale' = (stale \cup changed) \ ToSet(SubSeq(pending, 1, n))
      /\ queue' = SubSeq(pending, n + 1, Len(pending))
      /\ app' = [a EXCEPT !.dirty = {}, !.out = << >>]

(* One frame: every event that has arrived, the inbox, the dirty chunks.  What  *)
(* is sent but has not arrived is the same to the app as what is sent later.    *)
FrameDue == down # << >> \/ app.dirty # {} \/ queue # << >>
Frame ==
  /\ FrameDue
  /\ \E a \in {IngestInbox(Polled(app, down))} :
     /\ Render(a)
     /\ Send(a.out)
  /\ down' = << >>
  /\ UNCHANGED <<server, linked, disk, spent>>

(* voxel_subscribe_retry when its timer fires: chunks arrived, or try again.    *)
(* Bound: the timer, a second and more, fires when nothing is under way.        *)
RetrySubscribe ==
  /\ app.joined /\ app.center # NoCenter /\ up = << >> /\ down = << >>
  /\ \/ /\ Held(app) # {} /\ app.attempts # 0
        /\ app' = [app EXCEPT !.attempts = 0]
        /\ UNCHANGED up
     \/ /\ Held(app) = {} /\ app.attempts < MaxRetries
        /\ LET a == SubscribeAround(app, app.center) IN
           /\ app' = [a EXCEPT !.attempts = @ + 1, !.out = << >>]
           /\ Send(a.out)
  /\ UNCHANGED <<server, linked, down, queue, stale, disk, spent>>

(* The keepalive of the same system; a minute is longer than messages are under *)
(* way.                                                                         *)
Keepalive ==
  /\ app.joined /\ app.center # NoCenter
  /\ up = << >> /\ down = << >> /\ owed = {} /\ queue = << >>
  /\ Send(<<WindowCommand(app, app.center)>>)
  /\ UNCHANGED <<server, linked, down, client, spent>>

(* save_cache never replaces a good cache by an empty one. *)
Cache == IF Held(app) = {} THEN disk ELSE app.held
SaveCache ==
  /\ Happens("save")
  /\ disk' = Cache /\ disk' # disk
  /\ UNCHANGED <<server, linked, up, down, app, queue, stale>>

(* The client process ends, saving its cache (AppExit) or not (a crash), and    *)
(* starts again from the cache (load_map_cache).                                *)
RestartClient ==
  /\ Happens("restart")
  /\ disk' \in {disk, Cache}
  /\ linked' = FALSE /\ up' = << >> /\ down' = << >> /\ subs' = {} /\ owed' = {}
  /\ app' = FromCache(disk')
  /\ queue' = << >> /\ stale' = DOMAIN disk'
  /\ UNCHANGED <<ver, ready, pos>>

Next ==
  \/ AttachRegion \/ ServeCommand \/ LoseLink
  \/ \E c \in Chunks : Edit(c) \/ SendSnapshot(c) \/ Invalidate(c) \/ Move(c) \/ EnterScene(c)
  \/ \E l \in 0..2 : ChangeLight(l)
  \/ Frame \/ RetrySubscribe \/ Keepalive \/ SaveCache \/ RestartClient

Spec == Init /\ [][Next]_vars

(* Frames and timers of the app, the retries of the network thread and the      *)
(* server's own work go on for ever; edits, moves, lights, faults, saves and    *)
(* restarts need not happen.  The first conjunct but Spec is WF_vars(Frame)     *)
(* with ENABLED spelt out.                                                      *)
FairSpec ==
  /\ Spec
  /\ []<>~FrameDue \/ []<><<Frame>>_vars
  /\ WF_vars(AttachRegion) /\ WF_vars(ServeCommand)
  /\ WF_vars(\E c \in Chunks : SendSnapshot(c))
  /\ WF_vars(\E c \in Chunks : EnterScene(c))
  /\ WF_vars(Keepalive)

------------------------------------------------------------------------------
(* Types, and that the queue of meshes has no chunk twice. *)
TypeOK ==
  /\ DOMAIN ver = Chunks /\ subs \subseteq Chunks /\ owed \subseteq subs
  /\ linked \in BOOLEAN /\ app.joined \in BOOLEAN /\ ready \in BOOLEAN
  /\ app.center \in {NoCenter} \cup {CenterOf(TileOf(c)) : c \in Chunks}
  /\ Held(app) \cup app.dirty \cup app.gate \subseteq Chunks /\ app.wanted = {} /\ app.inbox = << >> /\ app.out = << >>
  /\ app.attempts \in 0..MaxRetries
  /\ IsInjective(queue) /\ stale \subseteq Chunks /\ DOMAIN disk \subseteq Chunks

(* What the client holds is what the server had at that version: no delta is    *)
(* ever applied to another content than the one it was made for, whatever was   *)
(* evicted, dropped, cached or requested in between (authority.rs apply_delta). *)
ChunksAreTruth ==
  /\ \A c \in Held(app) :
       app.held[c].edits = 1..app.held[c].version /\ app.held[c].version <= ver[c]
  /\ \A c \in DOMAIN disk : disk[c].edits = 1..disk[c].version

(* A chunk on screen shows the present cells of it and of its neighbours and    *)
(* the present light, or it is on its way to be built again: chunks that load,  *)
(* change or leave next to it are not forgotten (chunk_render.rs).              *)
WillRemesh(c) ==
  \/ c \in app.dirty
  \/ Contains(queue, c)
  \/ c \in Held(app) /\ Near(c) \cap app.dirty # {}
MeshCurrent == \A c \in stale : WillRemesh(c)

(* The server sends a subscribed chunk only when it changes, so once nothing is *)
(* under way the client must hold every chunk it is subscribed to as the server *)
(* has it: what it claimed to know it did know.  A chunk whose request waits    *)
(* behind the resync gate is the exception (authority_plugin.rs:273).           *)
Quiet == app.joined /\ linked /\ up = << >> /\ down = << >> /\ owed = {}
SubscribedIsCurrent ==
  Quiet => \A c \in (subs \cap Window(app.center, Radius)) \ app.gate :
             VersionIn(app, c) = ver[c]

(* Frames, timers and the server going on, the window of a joined player is in  *)
(* the end complete and current, after forks, invalidations, moves, a lost      *)
(* connection and a region that attaches late (voxel_subscribe_retry).          *)
WindowComplete ==
  app.joined /\ linked /\ \A c \in Window(CenterOf(TileOf(pos)), Radius) : VersionIn(app, c) = ver[c]
WindowConverges == <>[]WindowComplete

(* The store has its shape and every chunk in it is what the server had. *)
StoreOK == TypeOK /\ ChunksAreTruth
==============================================================================
