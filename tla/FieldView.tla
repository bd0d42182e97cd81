------------------------------ MODULE FieldView ------------------------------
(* What the client shows of the world between two frames, and the field stream  *)
(* behind it: the inbox of authority_plugin.rs, the field regions and their     *)
(* three dirty channels (field_view.rs), the field overlays (field_render.rs),  *)
(* the glow of hot cells (incandescence*.rs), the logic readout of circuits     *)
(* (semiconductor_*.rs), lightning, heat smoke and debris (lightning*.rs,       *)
(* heat_smoke*.rs, debris*.rs) and the terrain with its baked light and decals  *)
(* (chunk_render.rs over ChunkMesh).                                            *)
(*                                                                              *)
(* A frame is Ingest, Logic and Render: the systems of a set touch disjoint     *)
(* resources, or drain disjoint channels of the authority, so their order in    *)
(* the set does not matter and a set is one step.  Temperatures are in 1/10000  *)
(* degree, potentials in mV, currents in mA.  Where a particle flies to, the    *)
(* jitter of a bolt and the colors inside a ramp are left out.                  *)
EXTENDS ChunkMesh

CONSTANTS
  Chunks,       \* coordinates of chunks
  Regions,      \* ids of field regions
  ChunkOf,      \* the chunk a region lies in
  Messages,     \* bound: what the server tells of fields, objects and chunks
  Starts,       \* bound: the chunks that are loaded first
  Gone,         \* the content of a chunk that is dropped
  MaxEvents,    \* bound: messages of the server
  MaxInbox,     \* bound: messages between two frames
  Steps,        \* bound: how far time may move in a frame
  NaN,          \* a value of a field that is no number
  Budget,                              \* REMESH_BUDGET_PER_FRAME
  MaxBolts, BoltLife,                  \* DEFAULT_MAX_BOLTS, DEFAULT_TTL_MS
  MaxSmoke, SmokeLife, MaxSpawn,       \* MAX_LIVE_PARTICLES, PARTICLE_LIFETIME_MS, MAX_SPAWN_PER_SNAPSHOT
  MaxDebris, DebrisLife, BurstSize     \* DEFAULT_MAX_LIVE_PARTICLES, DEFAULT_PARTICLE_LIFETIME_MS, DEFAULT_BURST_SIZE

(* A field is what a snapshot of a region holds: the cells, no two the same (the *)
(* server sends their indices in ascending order), and for each layer of its     *)
(* mask the value of each cell.                                                 *)
Kinds == {"temperature", "potential", "current", "ionization", "light"}
IsField(f) ==
  /\ f.cells \in Seq(Nat)
  /\ \A i, j \in DOMAIN f.cells : CellOf(f.cells[i]) = CellOf(f.cells[j]) => i = j
  /\ DOMAIN f.layers \subseteq Kinds \cup {"color"}
  /\ \A layer \in DOMAIN f.layers :
       f.layers[layer] \in [DOMAIN f.cells -> IF layer \in {"temperature", "potential", "current"}
                                             THEN Int \cup {NaN} ELSE Nat]

ASSUME FieldAssumption ==
  /\ Chunks \subseteq Int /\ ChunkOf \in [Regions -> Chunks] /\ IsFiniteSet(Regions)
  /\ {MaxBolts, BoltLife, MaxSmoke, SmokeLife, MaxSpawn, MaxDebris, DebrisLife, BurstSize}
       \subseteq Nat \ {0}
  /\ Budget \in Nat \ {0}
  /\ NaN \notin Int
  /\ \A m \in Messages : \/ m.kind = "field" /\ m.region \in Regions /\ IsField(m.field)
                         \/ m.kind = "destroyed" /\ m.region \in Regions
                         \/ m.kind = "object" /\ m.chunks \in Seq(Int)
                         \/ m.kind = "chunk" /\ m.chunk \in Chunks
  /\ \A f \in Starts : DOMAIN f \subseteq Chunks /\ IsFiniteSet(DOMAIN f)
  /\ {MaxEvents, MaxInbox} \subseteq Nat /\ Steps \subseteq Nat \ {0}

VARIABLES
  phase,     \* the set of systems that runs next: "Net", "Logic", "Render"
  inbox,     \* messages since the last frame
  app,       \* VoxelAuthority, see EmptyApp
  overlays,  \* VoxelFieldEntities: <<region, kind>> to what is drawn
  glow,      \* IncandescenceEntities: region to what is drawn
  readout,   \* SemiconductorEntities: chunk to what is drawn
  terrain,   \* VoxelChunkEntities and VoxelDecalEntities: chunk to what is drawn
  queue,     \* VoxelRemeshQueue: chunks to mesh, in the order they came
  bolts, smoke, debris,  \* live bolts and particles, oldest first; an entity shows each
  spent,     \* messages of the server so far
  quiet,     \* history: regions the last drain left without active current
  rewired    \* history: chunks that changed after their readout was last asked for

effects == <<bolts, smoke, debris>>
shown == <<overlays, glow, readout, terrain, queue>>
vars == <<phase, inbox, app, effects, shown, spent, quiet, rewired>>

------------------------------------------------------------------------------
(* What a field says. *)
Has(f, layer) == layer \in DOMAIN f.layers
Layer(f, layer) == IF Has(f, layer) THEN f.layers[layer] ELSE << >>
Finite(v) == v # NaN
Magnitude(v) == IF v < 0 THEN -v ELSE v
AtLeast(v, threshold) == Finite(v) /\ Magnitude(v) >= threshold

EmptyApp == [held |-> << >>, remesh |-> {}, objects |-> << >>, regions |-> << >>,
             dirty |-> {}, glowDirty |-> {}, logicDirty |-> {},
             electric |-> << >>, discharges |-> << >>, destroyed |-> << >>, bursts |-> << >>]
Put(f, k, x) == [j \in DOMAIN f \cup {k} |-> IF j = k THEN x ELSE f[j]]
Drop(f, k) == [j \in DOMAIN f \ {k} |-> f[j]]
MarkDirty(a, k) == IF Loaded(a.held, k) THEN [a EXCEPT !.remesh = @ \cup {k}] ELSE a

(* The light a region gives, as far as the terrain is concerned. *)
LightOf(a, r) == IF r \in DOMAIN a.regions /\ Has(a.regions[r], "light")
                 THEN <<a.regions[r].cells, a.regions[r].layers["light"]>> ELSE << >>
Relit(a, b, r) == IF LightOf(a, r) # LightOf(b, r) THEN MarkDirty(b, ChunkOf[r]) ELSE b

(* Mutant: one channel serves the overlays and the glow. *)
MarkFieldOnce(a, r) ==
  [a EXCEPT !.dirty = @ \cup {r}, !.logicDirty = @ \cup {ChunkOf[r]}]
(* apply_snapshot and apply_destroyed mark all three channels. *)
MarkField(a, r) ==
  [a EXCEPT !.dirty = @ \cup {r}, !.glowDirty = @ \cup {r},
            !.logicDirty = @ \cup {ChunkOf[r]}]

OnField(a, m) ==
  LET event == [region |-> m.region, field |-> m.field]
      b == [MarkField(a, m.region) EXCEPT !.regions = Put(@, m.region, m.field),
              !.electric = IF Has(m.field, "potential") \/ Has(m.field, "current")
                           THEN Append(@, event) ELSE @,
              !.discharges = IF Has(m.field, "ionization") THEN Append(@, event) ELSE @]
  IN  Relit(a, b, m.region)
OnDestroyed(a, m) ==
  LET b == [MarkField(a, m.region) EXCEPT !.regions = Drop(@, m.region),
                                          !.destroyed = Append(@, m.region)]
  IN  Relit(a, b, m.region)
(* An object state counts once: versions of an object only grow. *)
OnObject(a, m) ==
  IF m.object \in DOMAIN a.objects /\ a.objects[m.object] >= m.version THEN a
  ELSE [a EXCEPT !.objects = Put(@, m.object, m.version), !.remesh = @ \cup Range(m.chunks),
                 !.bursts = Append(@, [flags |-> m.flags, chunks |-> m.chunks])]
(* Chunk truth, as VoxelView details it: a chunk is applied, or dropped. *)
OnChunk(a, m) ==
  [a EXCEPT !.held = IF m.content = Gone THEN Drop(@, m.chunk) ELSE Put(@, m.chunk, m.content),
            !.remesh = @ \cup {m.chunk}]

OnMessage(a, m) == CASE m.kind = "field" -> OnField(a, m)
                     [] m.kind = "destroyed" -> OnDestroyed(a, m)
                     [] m.kind = "object" -> OnObject(a, m)
                     [] m.kind = "chunk" -> OnChunk(a, m)

------------------------------------------------------------------------------
(* Markers.  A marker id tells the ramp and the bucket; FieldColor reads it     *)
(* back.                                                                        *)
HeatBase == 10000
ColdBase == 10010
PotentialBase == 10100
CurrentBase == 10200
IonizationBase == 10300
IncandescenceBase == 10400
LightBase == 10500
SemiconductorBase == 10600
PackedBase == 16777216
Buckets == 8

Baseline == 200000
(* Where the nearest opacity of 0.08, 0.16, 0.28, 0.42, 0.62 changes on the     *)
(* curve 0.62 (deviation / 20) ^ 0.25.                                          *)
OpacityEdges == {281, 3171, 20312, 98963}
TemperatureMarker(v) ==
  IF ~Finite(v) \/ v = Baseline THEN {}
  ELSE LET deviation == v - Baseline
           bucket == Cardinality({e \in OpacityEdges : e <= Magnitude(deviation)})
       IN  {(IF deviation > 0 THEN HeatBase ELSE ColdBase) + bucket}

RampBucket(v, ramp, count) ==
  LET b == (Magnitude(v) * count) \div ramp IN IF b < count THEN b ELSE count - 1
PotentialMarker(v) ==
  IF AtLeast(v, 500) THEN {PotentialBase + RampBucket(v, 100000, Buckets)} ELSE {}
CurrentMarker(v) ==
  IF AtLeast(v, 1) THEN {CurrentBase + RampBucket(v, 20000, Buckets)} ELSE {}
IonizationMarker(v) == IF v >= 8 THEN {IonizationBase + RampBucket(v, 255, Buckets)} ELSE {}
LightMarker(v) == IF v >= 8 THEN {LightBase + RampBucket(v, 255, Buckets)} ELSE {}

Draper == 5250000
WhiteHot == 22000000
GlowBuckets == 12
GlowMarker(v) ==
  IF ~Finite(v) \/ v < Draper THEN {}
  ELSE {IncandescenceBase + RampBucket(v - Draper, WhiteHot - Draper, GlowBuckets)}

InRamp(id, base, count) == id \in base..base + count - 1
FieldColor(id) ==
  IF id >= PackedBase THEN [ramp |-> "packed", level |-> id - PackedBase]
  ELSE IF InRamp(id, HeatBase, 5) THEN [ramp |-> "heat", level |-> id - HeatBase]
  ELSE IF InRamp(id, ColdBase, 5) THEN [ramp |-> "cold", level |-> id - ColdBase]
  ELSE IF InRamp(id, PotentialBase, Buckets) THEN [ramp |-> "potential", level |-> id - PotentialBase]
  ELSE IF InRamp(id, CurrentBase, Buckets) THEN [ramp |-> "current", level |-> id - CurrentBase]
  ELSE IF InRamp(id, IonizationBase, Buckets) THEN [ramp |-> "ionization", level |-> id - IonizationBase]
  ELSE IF InRamp(id, LightBase, Buckets) THEN [ramp |-> "light", level |-> id - LightBase]
  ELSE [ramp |-> "white", level |-> 0]
GlowColor(id) ==
  IF InRamp(id, IncandescenceBase, GlowBuckets)
  THEN [ramp |-> "glow", level |-> id - IncandescenceBase] ELSE [ramp |-> "black", level |-> 0]

(* Overlays: a cube per cell that has a marker. *)
Marker(kind, v) == CASE kind = "temperature" -> TemperatureMarker(v)
                     [] kind = "potential" -> PotentialMarker(v)
                     [] kind = "current" -> CurrentMarker(v)
                     [] kind = "ionization" -> IonizationMarker(v)
                     [] kind = "light" -> LightMarker(v)
                     [] kind = "glow" -> GlowMarker(v)
OverlayFromValues(f, layer, kind) ==
  UNION {{[cell |-> CellOf(f.cells[i]),
           color |-> IF kind = "glow" THEN GlowColor(id) ELSE FieldColor(id)] :
             id \in Marker(kind, f.layers[layer][i])} :
           i \in IF Has(f, layer) THEN DOMAIN f.cells ELSE {}}
PackedOverlay(f) ==
  {[cell |-> CellOf(f.cells[i]), color |-> FieldColor(PackedBase + f.layers["color"][i])] :
     i \in {j \in DOMAIN f.cells : f.layers["light"][j] >= 8}}
OverlayMesh(f, kind) ==
  IF kind = "light" /\ Has(f, "light") /\ Has(f, "color") THEN PackedOverlay(f)
  ELSE OverlayFromValues(f, kind, kind)
IncandescenceMesh(f) == OverlayFromValues(f, "temperature", "glow")

(* Entities by key: upsert what has a mesh, despawn what has none. *)
Upsert(entities, mesh) ==
  [k \in {j \in DOMAIN entities \cup DOMAIN mesh : j \in DOMAIN mesh => mesh[j] # {}} |->
     IF k \in DOMAIN mesh THEN mesh[k] ELSE entities[k]]

RegionMesh(a, r, kind) ==
  IF r \notin DOMAIN a.regions THEN {}
  ELSE IF kind = "glow" THEN IncandescenceMesh(a.regions[r])
  ELSE OverlayMesh(a.regions[r], kind)
RenderDirtyFieldRegions ==
  overlays' = Upsert(overlays, [key \in app.dirty \X Kinds |-> RegionMesh(app, key[1], key[2])])
RenderDirtyIncandescence ==
  glow' = Upsert(glow, [r \in app.glowDirty |-> RegionMesh(app, r, "glow")])

------------------------------------------------------------------------------
(* Logic readout.  The grids of a chunk hold, at each cell, the value of the    *)
(* largest magnitude any of its regions has there; regions is a hash map, so    *)
(* which of two opposite values comes first is open.                            *)
Resistor == 20
Comparator == 21
Orders == {s \in [1..Cardinality(Regions) -> Regions] :
             \A i, j \in 1..Cardinality(Regions) : s[i] = s[j] => i = j}
(* Mutant: a value replaces what is there when it is larger, sign and all. *)
StrongerSigned(v, than) == Finite(v) /\ v > than
Stronger(v, than) == Finite(v) /\ Magnitude(v) > Magnitude(than)
ValueHere(a, k, layer, cell, r) ==
  LET f == a.regions[r]
      at == IF r \in DOMAIN a.regions /\ ChunkOf[r] = k /\ Has(f, layer)
            THEN {i \in DOMAIN f.cells : CellOf(f.cells[i]) = cell} ELSE {}
  IN  IF at = {} THEN 0 ELSE f.layers[layer][CHOOSE i \in at : TRUE]
ElectricGrid(a, k, layer, order, cell) ==
  LET Here(r) == ValueHere(a, k, layer, cell, r)
  IN  Fold(LAMBDA v, r : IF Stronger(Here(r), v) THEN Here(r) ELSE v, 0, order)

Classify(material, current, potential) ==
  IF material = Resistor
  THEN IF Magnitude(current) >= 1 THEN "ResistorActive" ELSE "ResistorIdle"
  ELSE IF potential >= 500 THEN "ComparatorHigh" ELSE "ComparatorLow"
MarkerId(state) == SemiconductorBase + CASE state = "ResistorIdle" -> 0
                                        [] state = "ResistorActive" -> 1
                                        [] state = "ComparatorLow" -> 2
                                        [] state = "ComparatorHigh" -> 3
SemiconductorColor(id) ==
  <<"ResistorIdle", "ResistorActive", "ComparatorLow", "ComparatorHigh">>[id - SemiconductorBase + 1]

SemiconductorCells(a, k) ==
  {c \in Cells : Loaded(a.held, k) /\ a.held[k].cells[c].kind = "solid"
                 /\ a.held[k].cells[c].material \in {Resistor, Comparator}}
ReadoutMesh(a, k, order) ==
  {[cell |-> c, color |->
      SemiconductorColor(MarkerId(Classify(a.held[k].cells[c].material,
        ElectricGrid(a, k, "current", order, c), ElectricGrid(a, k, "potential", order, c))))] :
     c \in SemiconductorCells(a, k)}
RenderDirtySemiconductorChunks(order) ==
  readout' = Upsert(readout, [k \in app.logicDirty |-> ReadoutMesh(app, k, order)])

------------------------------------------------------------------------------
BlockGrid(a, k) ==
  LET lit == {r \in DOMAIN a.regions : ChunkOf[r] = k /\ Has(a.regions[r], "light")}
      At(f, c) == {f.layers["light"][i] : i \in {j \in DOMAIN f.cells : CellOf(f.cells[j]) = c}}
  IN  [c \in Cells |-> Max({0} \cup UNION {At(a.regions[r], c) : r \in lit})]
Grids(a, k) == [j \in k - 1..k + 1 |-> BlockGrid(a, j)]
TerrainMesh(a, k, part) ==
  IF ~Loaded(a.held, k) THEN {}
  ELSE IF part = "decals" THEN SurfaceDecals(a.held, k)
  ELSE LET m == ChunkRenderMesh(a.held, k, Grids(a, k)) IN m.quads \cup m.micro

(* Chunks touched since the last frame go into the queue, with their loaded     *)
(* neighbours, in the order of their coordinates, unless they wait already; a   *)
(* frame meshes the first Budget of the queue.  The material is there, since    *)
(* Startup comes before the first frame.                                        *)
Ascending(S) ==
  CHOOSE s \in [1..Cardinality(S) -> S] :
    Range(s) = S /\ \A i, j \in DOMAIN s : i < j => s[i] < s[j]
Enqueue(q, k) == IF k \in Range(q) THEN q ELSE Append(q, k)
EnqueueLoaded(q, k) == IF Loaded(app.held, k) THEN Enqueue(q, k) ELSE q
EnqueueAround(q, k) == EnqueueLoaded(EnqueueLoaded(Enqueue(q, k), k + 1), k - 1)
Pending == Fold(EnqueueAround, queue, Ascending(app.remesh))
(* Mutant: a frame that touches no chunk does not work at the queue. *)
InBudgetOnceTouched(q) == IF app.remesh = {} THEN 0 ELSE IF Budget < Len(q) THEN Budget ELSE Len(q)
InBudget(q) == IF Budget < Len(q) THEN Budget ELSE Len(q)
RenderDirtyChunks ==
  LET pending == Pending
      n == InBudget(pending)
      now == {pending[i] : i \in 1..n}
  IN  /\ terrain' = Upsert(terrain, [key \in now \X {"mesh", "decals"} |->
                                       TerrainMesh(app, key[1], key[2])])
      /\ queue' = SubSeq(pending, n + 1, Len(pending))

------------------------------------------------------------------------------
(* What of s lies in T, in its order. *)
Only(s, T) == Fold(LAMBDA kept, x : IF x \in T THEN Append(kept, x) ELSE kept, << >>, s)

(* Pools: what is born goes to the end, what exceeds the cap goes from the      *)
(* front, what is as old as its life goes.                                      *)
Newest(s, n) == IF Len(s) > n THEN SubSeq(s, Len(s) - n + 1, Len(s)) ELSE s
Aged(s, life, dt) ==
  LET older == [i \in DOMAIN s |-> [s[i] EXCEPT !.age = @ + dt]]
  IN  Only(older, {p \in Range(older) : p.age < life})

(* Lightning: from the highest to the lowest potential of the ionized cells, or *)
(* between the two that lie farthest apart when the potentials do not tell.     *)
(* Mutant: every cell of the snapshot belongs to the channel. *)
ChannelOfAll(f) ==
  [i \in DOMAIN f.cells |->
     [cell |-> CellOf(f.cells[i]), ionization |-> f.layers["ionization"][i],
      potential |-> IF Has(f, "potential") THEN f.layers["potential"][i] ELSE NaN]]
Channel(f) ==
  LET all == [i \in DOMAIN f.cells |->
                [cell |-> CellOf(f.cells[i]), ionization |-> f.layers["ionization"][i],
                 potential |-> IF Has(f, "potential") THEN f.layers["potential"][i] ELSE NaN]]
  IN  Only(all, {c \in Range(all) : c.ionization >= 8})
Square(n) == n * n
Distance2(a, b) == Square(a[1] - b[1]) + Square(a[2] - b[2]) + Square(a[3] - b[3])
FarthestPair(ch) ==
  LET pairs == {p \in (DOMAIN ch) \X (DOMAIN ch) : p[1] < p[2]}
      d2(p) == Distance2(ch[p[1]].cell, ch[p[2]].cell)
      Before(p, q) == p[1] < q[1] \/ (p[1] = q[1] /\ p[2] <= q[2])
  IN  CHOOSE p \in pairs : \A q \in pairs : d2(q) < d2(p) \/ (d2(q) = d2(p) /\ Before(p, q))
Highest(ch) == CHOOSE i \in DOMAIN ch : \A j \in DOMAIN ch :
                 /\ ch[j].potential <= ch[i].potential
                 /\ j < i => ch[j].potential < ch[i].potential
Lowest(ch) == CHOOSE i \in DOMAIN ch : \A j \in DOMAIN ch :
                /\ ch[j].potential >= ch[i].potential
                /\ j < i => ch[j].potential > ch[i].potential
InferStrike(f) ==
  LET ch == Channel(f)
      told == \A i \in DOMAIN ch : Finite(ch[i].potential)
      flat == told => ch[Highest(ch)].potential = ch[Lowest(ch)].potential
      ends == IF flat THEN FarthestPair(ch) ELSE <<Highest(ch), Lowest(ch)>>
  IN  IF Len(ch) < 2 THEN << >> ELSE << <<ch[ends[1]].cell, ch[ends[2]].cell>> >>
Strike(s, e) ==
  IF InferStrike(e.field) = << >> THEN s
  ELSE LET ends == InferStrike(e.field)[1]
       IN  Newest(Append(s, [chunk |-> ChunkOf[e.region], source |-> ends[1],
                             target |-> ends[2], age |-> 0]), MaxBolts)
SpawnLightning == bolts' = Fold(Strike, bolts, app.discharges)

(* Heat smoke: particles over the cells that carry current, or that are under   *)
(* potential when none does, as many as the heat of the strongest current is    *)
(* worth; a snapshot without active cells clears the region.                    *)
ActiveIn(f, layer, threshold) ==
  Only([i \in DOMAIN Layer(f, layer) |-> i],
       {i \in DOMAIN Layer(f, layer) : AtLeast(f.layers[layer][i], threshold)})
ActiveCells(f) == LET byCurrent == ActiveIn(f, "current", 1)
                  IN  IF byCurrent # << >> THEN byCurrent ELSE ActiveIn(f, "potential", 500)
(* Heat of the strongest current, in particles of 240 J per cell times 20000. *)
Heat(f) == Max({0} \cup {Magnitude(v) : v \in {w \in Range(Layer(f, "current")) : Finite(w)}})
SpawnCount(n, heat) ==
  LET c == (n * heat + 19999) \div 20000 IN IF c < 1 THEN 1 ELSE IF c > MaxSpawn THEN MaxSpawn ELSE c
FairSelection(n, count) ==
  [i \in 1..count |-> IF count >= n THEN ((i - 1) % n) + 1
                      ELSE ((2 * i - 1) * n) \div (2 * count) + 1]
ClearRegion(s, r) == Only(s, {p \in Range(s) : p.region # r})
(* Mutant: a snapshot without active cells is skipped. *)
SpawnFromActive(s, e) ==
  LET active == ActiveCells(e.field)
      chosen == IF active = << >> THEN << >>
                ELSE FairSelection(Len(active), SpawnCount(Len(active), Heat(e.field)))
      born == [i \in DOMAIN chosen |->
                 [region |-> e.region, cell |-> CellOf(e.field.cells[active[chosen[i]]]), age |-> 0]]
  IN  IF active = << >> \/ Heat(e.field) = 0 THEN s ELSE Newest(s \o born, MaxSmoke)
SpawnFromElectric(s, e) ==
  IF ActiveCells(e.field) = << >> THEN ClearRegion(s, e.region) ELSE SpawnFromActive(s, e)
SpawnHeatSmoke ==
  smoke' = Fold(SpawnFromElectric, Fold(ClearRegion, smoke, app.destroyed), app.electric)

(* Debris: a burst at the center of each chunk a damaged object touches. *)
DebrisKind(flags) == flags \cap {"damaged", "destroyed", "part_destroyed"}
Burst(s, b) ==
  IF DebrisKind(b.flags) = {} THEN s
  ELSE LET born == [i \in 1..Len(b.chunks) * BurstSize |->
                      [chunk |-> b.chunks[((i - 1) \div BurstSize) + 1], age |-> 0]]
       IN  Newest(s \o born, MaxDebris)
SpawnDebris == debris' = Fold(Burst, debris, app.bursts)

------------------------------------------------------------------------------
(* Each plugin starts with its entities and its pool empty. *)
NoOverlays == overlays = << >>
NoGlow == glow = << >>
NoReadout == readout = << >>
NoTerrain == terrain = << >> /\ queue = << >>
NoBolts == bolts = << >>
NoSmoke == smoke = << >>
NoDebris == debris = << >>
Init ==
  /\ phase = "Net" /\ inbox = << >>
  /\ \E f \in Starts : app = [EmptyApp EXCEPT !.held = f, !.remesh = DOMAIN f]
  /\ NoOverlays /\ NoGlow /\ NoReadout /\ NoTerrain /\ NoBolts /\ NoSmoke /\ NoDebris
  /\ spent = 0 /\ quiet = Regions /\ rewired = Chunks

(* External: the server tells. *)
Receive(m) ==
  /\ phase = "Net" /\ spent < MaxEvents /\ Len(inbox) < MaxInbox
  /\ inbox' = Append(inbox, m) /\ spent' = spent + 1
  /\ UNCHANGED <<phase, app, effects, shown, quiet, rewired>>

(* History: a region is quiet once the drain leaves it without active cells. *)
ActiveField(f) == \/ \E v \in Range(Layer(f, "current")) : AtLeast(v, 1)
                  \/ \E v \in Range(Layer(f, "potential")) : AtLeast(v, 500)
Electric(m) == m.kind = "field" /\ (Has(m.field, "potential") \/ Has(m.field, "current"))
QuietAfter(r) ==
  LET told == {i \in DOMAIN inbox : Electric(inbox[i]) /\ inbox[i].region = r}
      gone == \E i \in DOMAIN inbox : inbox[i].kind = "destroyed" /\ inbox[i].region = r
  IN  IF told = {} THEN gone \/ r \in quiet
      ELSE \E i \in told : (\A j \in told : j <= i) /\ ~ActiveField(inbox[i].field)

(* drain_inbox *)
Ingest ==
  /\ phase = "Net"
  /\ app' = Fold(OnMessage, app, inbox)
  /\ inbox' = << >> /\ phase' = "Logic"
  /\ quiet' = {r \in Regions : QuietAfter(r)}
  /\ rewired' = rewired \cup {k \in Chunks : \E i \in DOMAIN inbox :
                                inbox[i].kind = "chunk" /\ inbox[i].chunk = k}
  /\ UNCHANGED <<effects, shown, spent>>

Logic ==
  /\ phase = "Logic"
  /\ SpawnLightning /\ SpawnHeatSmoke /\ SpawnDebris
  /\ app' = [app EXCEPT !.discharges = << >>, !.electric = << >>, !.destroyed = << >>,
                        !.bursts = << >>]
  /\ phase' = "Render"
  /\ UNCHANGED <<inbox, shown, spent, quiet, rewired>>

(* Each pool ages by the frame; the entities follow what is left, one by one. *)
AdvanceLightning(dt) == bolts' = Aged(bolts, BoltLife, dt)
AdvanceHeatSmoke(dt) == smoke' = Aged(smoke, SmokeLife, dt)
AdvanceDebris(dt) == debris' = Aged(debris, DebrisLife, dt)
Advance(dt) == AdvanceLightning(dt) /\ AdvanceHeatSmoke(dt) /\ AdvanceDebris(dt)

Render ==
  /\ phase = "Render"
  /\ RenderDirtyChunks /\ RenderDirtyFieldRegions /\ RenderDirtyIncandescence
  /\ \E order \in Orders : RenderDirtySemiconductorChunks(order)
  /\ \E dt \in Steps : Advance(dt)
  /\ app' = [app EXCEPT !.dirty = {}, !.glowDirty = {}, !.logicDirty = {}, !.remesh = {}]
  /\ rewired' = rewired \ app.logicDirty
  /\ phase' = "Net"
  /\ UNCHANGED <<inbox, spent, quiet>>

Next == \/ \E m \in Messages : Receive(m)
        \/ Ingest
        \/ Logic
        \/ Render

Spec == Init /\ [][Next]_vars

(* Frames go on: the app runs its schedule again and again, set after set.  A   *)
(* set can always run in its phase, so this is its weak fairness, said without  *)
(* ENABLED.                                                                     *)
FairSpec == Spec /\ []<>(phase = "Net") /\ []<>(phase = "Render")

------------------------------------------------------------------------------
ShownAt(entities, key) == IF key \in DOMAIN entities THEN entities[key] ELSE {}
Settled == phase = "Net" /\ app.remesh = {}

OldestFirst(s, life, cap) ==
  /\ Len(s) <= cap
  /\ \A i \in DOMAIN s : s[i].age \in 0..life - 1 /\ (i > 1 => s[i - 1].age >= s[i].age)
TypeOK ==
  /\ phase \in {"Net", "Logic", "Render"} /\ inbox \in Seq(Messages) /\ spent \in 0..MaxEvents
  /\ DOMAIN app.regions \subseteq Regions /\ DOMAIN app.held \subseteq Chunks
  /\ DOMAIN overlays \subseteq Regions \X Kinds /\ DOMAIN glow \subseteq Regions
  /\ DOMAIN readout \subseteq Chunks /\ DOMAIN terrain \subseteq Chunks \X {"mesh", "decals"}
  /\ quiet \subseteq Regions /\ rewired \subseteq Chunks
  /\ queue \in Seq(Int) /\ IsInjective(queue)

(* Lightning, smoke and debris stay within their caps, nothing outlives its     *)
(* life, and each pool is in order of age (strike, spawn_from_electric, spawn,  *)
(* update).                                                                     *)
PoolsOK ==
  /\ TypeOK
  /\ OldestFirst(bolts, BoltLife, MaxBolts)
  /\ OldestFirst(smoke, SmokeLife, MaxSmoke)
  /\ OldestFirst(debris, DebrisLife, MaxDebris)

(* Between two frames the terrain of a loaded chunk that does not wait in the   *)
(* queue shows its world, whichever others wait: each face of a solid cell that *)
(* nothing occupied touches, in the chunk or across its side, lies in exactly   *)
(* one quad, of the material of the cell and the light before the face, no      *)
(* other face lies in one, and no quad leaves the chunk; a chunk that is gone   *)
(* shows nothing once it had its turn (drain_inbox, render_dirty_chunks,        *)
(* greedy_mesh_chunk_with_neighbors_lit).  Light that comes from a region in a  *)
(* chunk that is not loaded is excepted.                                        *)
Across(k, cell) == IF cell[1] < 0 THEN k - 1 ELSE IF cell[1] >= ChunkSize THEN k + 1 ELSE k
Folded(cell) == [cell EXCEPT ![1] = @ % ChunkSize]
Open(k, cell) == \/ ~Within(Folded(cell)) \/ ~Loaded(app.held, Across(k, cell))
                 \/ ~Occupies(app.held[Across(k, cell)].cells[Folded(cell)])
Lies(q, cell) ==
  LET s == cell[q.axis + 1]  u == cell[((q.axis + 1) % 3) + 1]  v == cell[((q.axis + 2) % 3) + 1]
  IN  /\ q.plane = IF q.sign > 0 THEN s + 1 ELSE s
      /\ u \in q.u..q.u + q.w - 1 /\ v \in q.v..q.v + q.h - 1
ChunkShown(k) ==
  LET drawn == ShownAt(terrain, <<k, "mesh">>)
      quads == {q \in drawn : "plane" \in DOMAIN q}
      sky == Skylight(app.held[k].cells)
      grids == Grids(app, k)
      LitRight(q, facing) == Loaded(app.held, Across(k, facing)) =>
                               q.light = LightAt(sky, grids, k, facing)
  IN  /\ \A q \in quads : q.u + q.w <= ChunkSize /\ q.v + q.h <= ChunkSize
      /\ \A cell \in Cells, d \in 0..2, sign \in {1, -1} :
           LET state == app.held[k].cells[cell]
               facing == NextTo(cell, d, sign)
               over == {q \in quads : q.axis = d /\ q.sign = sign /\ Lies(q, cell)}
           IN  IF state.kind = "solid" /\ Open(k, facing)
               THEN /\ Cardinality(over) = 1
                    /\ \A q \in over : q.material = state.material /\ LitRight(q, facing)
               ELSE over = {}
TerrainIsWorld ==
  Settled => /\ \A key \in DOMAIN terrain : Loaded(app.held, key[1]) \/ key[1] \in Range(queue)
             /\ \A k \in DOMAIN app.held \ Range(queue) : ChunkShown(k)

(* A burst that leaves chunks in the queue is drawn in the end: later frames    *)
(* work at it although they touch nothing (render_dirty_chunks: the rest        *)
(* remeshes over subsequent frames).                                            *)
QueueDrains == []<>(Settled /\ queue = << >>)

(* Between two frames the overlays and the glow show the regions that are held, *)
(* and no other; a cell is drawn on the ramp of its layer, above that only on   *)
(* the side of its sign, and a stronger cell never on a lower step.  Two        *)
(* consumers drain the same changes (apply_snapshot, apply_destroyed,           *)
(* render_dirty_field_regions, render_dirty_incandescence).                     *)
RampsOf(kind) == CASE kind = "temperature" -> {"heat", "cold"}
                   [] kind = "light" -> {"light", "packed"}
                   [] OTHER -> {kind}
ValueAt(f, layer, cell) == f.layers[layer][CHOOSE i \in DOMAIN f.cells : CellOf(f.cells[i]) = cell]
Strength(kind, v) == Magnitude(IF kind \in {"temperature", "glow"} THEN v - Baseline ELSE v)
ColorsTell(marks, f, layer, ramps) ==
  \A m \in marks :
    /\ m.color.ramp \in ramps
    /\ layer = "temperature" /\ "glow" \notin ramps =>
         (m.color.ramp = "heat" <=> ValueAt(f, layer, m.cell) > Baseline)
    /\ \A n \in marks :
         (m.color.ramp = n.color.ramp /\ m.color.ramp # "packed"
            /\ Strength(layer, ValueAt(f, layer, m.cell)) <= Strength(layer, ValueAt(f, layer, n.cell)))
         => m.color.level <= n.color.level
OverlaysAreField ==
  phase = "Net" =>
    \A r \in Regions :
      IF r \notin DOMAIN app.regions
      THEN r \notin DOMAIN glow /\ \A kind \in Kinds : <<r, kind>> \notin DOMAIN overlays
      ELSE LET f == app.regions[r] IN
           /\ ShownAt(glow, r) = IncandescenceMesh(f)
           /\ ColorsTell(ShownAt(glow, r), f, "temperature", {"glow"})
           /\ \A kind \in Kinds :
                /\ ShownAt(overlays, <<r, kind>>) = OverlayMesh(f, kind)
                /\ ColorsTell(ShownAt(overlays, <<r, kind>>), f, kind, RampsOf(kind))

(* Between two frames the readout of a chunk that did not change since it was   *)
(* last asked for shows each of its semiconductors as the fields of all its     *)
(* regions have it: a resistor active when any current flows in it, a           *)
(* comparator high when the strongest potential there is high (electric_grids,  *)
(* render_dirty_semiconductor_chunks).  Opposite potentials of the same         *)
(* strength leave it open.                                                      *)
ValuesAt(k, layer, cell) ==
  {ValueAt(app.regions[r], layer, cell) :
     r \in {q \in DOMAIN app.regions : /\ ChunkOf[q] = k /\ Has(app.regions[q], layer)
                                       /\ \E i \in DOMAIN app.regions[q].cells :
                                            CellOf(app.regions[q].cells[i]) = cell}}
Readings(k, cell) ==
  LET material == app.held[k].cells[cell].material
      currents == {v \in ValuesAt(k, "current", cell) : Finite(v)}
      potentials == {v \in ValuesAt(k, "potential", cell) : Finite(v)}
      strongest == {v \in potentials : \A w \in potentials : Magnitude(w) <= Magnitude(v)}
  IN  IF material = Resistor
      THEN {IF \E v \in currents : v # 0 THEN "ResistorActive" ELSE "ResistorIdle"}
      ELSE {IF v >= 500 THEN "ComparatorHigh" ELSE "ComparatorLow" :
              v \in IF strongest = {} THEN {0} ELSE strongest}
ReadoutShown(k) ==
  LET cells == SemiconductorCells(app, k)
      marks == ShownAt(readout, k)
  IN  /\ {m.cell : m \in marks} = cells /\ Cardinality(marks) = Cardinality(cells)
      /\ \A m \in marks : m.color \in Readings(k, m.cell)
ReadoutFollowsField == phase = "Net" => \A k \in Chunks \ rewired : ReadoutShown(k)

(* Smoke only rises over a region that was last seen with active cells: a       *)
(* snapshot that finds it cold clears it, whatever came before it in the same   *)
(* drain, and so does its end, unless a snapshot of the same drain still finds  *)
(* it active (spawn_heat_smoke, spawn_from_electric).                           *)
SmokeIsWarm == phase # "Logic" => \A i \in DOMAIN smoke : smoke[i].region \notin quiet

(* A bolt runs between two different ionized cells of one snapshot, from the    *)
(* higher potential to the lower where it has them all (infer_strike).          *)
BoltOnChannel ==
  \A i \in DOMAIN bolts :
    \E f \in {m.field : m \in {n \in Messages : n.kind = "field"}} :
      LET ionized == {j \in DOMAIN f.cells : Has(f, "ionization") /\ f.layers["ionization"][j] >= 8}
          volts == {ValueAt(f, "potential", CellOf(f.cells[j])) :
                      j \in IF Has(f, "potential") THEN ionized ELSE {}}
      IN  /\ bolts[i].source # bolts[i].target
          /\ {bolts[i].source, bolts[i].target} \subseteq {CellOf(f.cells[j]) : j \in ionized}
          /\ Has(f, "potential") /\ NaN \notin volts =>
               /\ ValueAt(f, "potential", bolts[i].source) = Max(volts)
               /\ ValueAt(f, "potential", bolts[i].target) = Min(volts)

(* Lightning, smoke and debris obey their caps, lives, channels and heat. *)
EffectsOK == PoolsOK /\ BoltOnChannel /\ SmokeIsWarm
==============================================================================
