---------------------------- MODULE VoxelEditor ----------------------------
(***************************************************************************)
(* The client's own voxel world before a scene is joined: macro cells that *)
(* hold one block or a refined grid of micro blocks, prefabs, the hot bar, *)
(* the save slot and the cubes drawn for it (src/clients/bevy_client/src:  *)
(* voxel/world, voxel/prefab, voxel/cli.rs, voxel/plugin.rs).  Typed       *)
(* commands and clicks interleave; a click uses the ray hit computed       *)
(* earlier in the frame.  Health, flags and part numbers of blocks and the *)
(* counters of rejected edits are left out: nothing depends on them.       *)
(***************************************************************************)
EXTENDS Integers, FiniteSets, SequencesExt

CONSTANTS
    Edge,        \* micro cells along an edge of a macro cell
    Materials,
    First,       \* the hot bar's first entry
    Floor,       \* [macro coordinate -> material]: the showcase plane
    Cells,       \* macro coordinates that commands name
    Pokes,       \* micro coordinates that commands name
    Builtins,    \* [name -> [slots, mat]]: the built-in prefabs
    Captures,    \* names given to captured prefabs
    Turns,       \* quarter turns that commands name, a subset of 0..3
    Normals,     \* faces a ray can hit, a set of unit vectors
    MaxEdits     \* bound on the commands and clicks of a behaviour

Micros == (0..Edge - 1) \X (0..Edge - 1) \X (0..Edge - 1)
Axis == 1..3
Vectors == [Axis -> Int]

ASSUME EditorAssumption ==
    /\ Edge \in Nat \ {0} /\ MaxEdits \in Nat
    /\ Turns \subseteq 0..3
    /\ Cells \cup Normals \cup DOMAIN Floor \subseteq Vectors /\ Pokes \subseteq Micros
    /\ IsFiniteSet(DOMAIN Floor) /\ \A c \in DOMAIN Floor : Floor[c] \in Materials
    /\ First \in Materials \cup DOMAIN Builtins
    /\ \A n \in DOMAIN Builtins : /\ Builtins[n].slots \in SUBSET Micros \ {{}}
                                  /\ Builtins[n].mat \in Materials

Add(a, b) == [i \in Axis |-> a[i] + b[i]]
Sub(a, b) == [i \in Axis |-> a[i] - b[i]]
Zero == <<0, 0, 0>>
None == <<>>

\* A point of the world's micro grid, and the cell and slot it falls in.
Point(cell, micro) == [i \in Axis |-> Edge * cell[i] + micro[i]]
CellOf(p) == [i \in Axis |-> p[i] \div Edge]
MicroOf(p) == [i \in Axis |-> p[i] % Edge]

Block(m) == [refined |-> FALSE, mat |-> [u \in Micros |-> m], ids |-> {}]
Hollow == [refined |-> TRUE, mat |-> <<>>, ids |-> {}]
Refine(cell) == [cell EXCEPT !.refined = TRUE]

\* A prefab is a box of macro cells, some of them filled in part or whole.
FromMask(slots, m) == [u \in slots |-> m]
Builtin(b) == [bounds |-> <<1, 1, 1>>,
               cells |-> [o \in {Zero} |-> FromMask(b.slots, b.mat)]]
BuiltinRegistry == [n \in DOMAIN Builtins |-> Builtin(Builtins[n])]

VARIABLES
    cells,      \* [macro coordinate -> cell], the occupied ones
    instances,  \* [instance id -> [prefab, low, high]]
    nextId,
    registry,   \* [name -> prefab]
    selected,   \* the hot bar's entry: a material or a built-in's name
    placed,     \* EditStats.prefab_placed
    aim,        \* the last ray hit: [cell, normal, near], or None
    disk,       \* the save slot: a snapshot, or None when absent or damaged
    joined,     \* a scene is joined: the server's voxels are shown instead
    shown,      \* [<<cell, micro or None>> -> material]: the cubes drawn
    said,       \* the id in the last command's result, 0 when it placed none
    torn,       \* a refused import left part of a snapshot behind, or a
                \* snapshot of such a world was loaded
    synced,     \* the cubes were drawn since the last edit
    edits       \* commands and clicks so far, for the bound MaxEdits

world == <<cells, instances, nextId, placed>>
vars == <<world, registry, selected, aim, disk, joined, shown, said, torn, synced, edits>>

Occupied(p) == CellOf(p) \in DOMAIN cells /\ MicroOf(p) \in DOMAIN cells[CellOf(p)].mat

Highest(ids) == IF ids = {} THEN 0 ELSE CHOOSE i \in ids : \A j \in ids : j <= i
NextAfter(ids) == Highest(ids) + 1
----------------------------------------------------------------------------
(* Quarter turns about the vertical, of a slot and of a cell in its box.    *)

TurnMicro(u, turn) ==
    CASE turn = 0 -> u
      [] turn = 1 -> <<Edge - 1 - u[3], u[2], u[1]>>
      [] turn = 2 -> <<Edge - 1 - u[1], u[2], Edge - 1 - u[3]>>
      [] turn = 3 -> <<u[3], u[2], Edge - 1 - u[1]>>

TurnOffset(o, bounds, turn) ==
    CASE turn = 0 -> o
      [] turn = 1 -> <<bounds[3] - 1 - o[3], o[2], o[1]>>
      [] turn = 2 -> <<bounds[1] - 1 - o[1], o[2], bounds[3] - 1 - o[3]>>
      [] turn = 3 -> <<o[3], o[2], bounds[1] - 1 - o[1]>>

\* Where each filled slot lands: turned, moved to the origin and shifted by a
\* number of micro cells, which may carry it into a neighbouring cell.
Landing(prefab, origin, turn, shift, o, u) ==
    Add(Point(Add(origin, TurnOffset(o, prefab.bounds, turn)), TurnMicro(u, turn)), shift)

Slots(prefab) == UNION {{<<o, u>> : u \in DOMAIN prefab.cells[o]} : o \in DOMAIN prefab.cells}

Rasterize(prefab, origin, turn, shift) ==
    LET lands(s) == Landing(prefab, origin, turn, shift, s[1], s[2])
    IN  [p \in {lands(s) : s \in Slots(prefab)} |->
            LET s == CHOOSE t \in Slots(prefab) : lands(t) = p
            IN  prefab.cells[s[1]][s[2]]]

RasterCells(raster) == {CellOf(p) : p \in DOMAIN raster}
----------------------------------------------------------------------------
(* Placing a prefab where it is told, and next to what a click hit.         *)

\* As if only refined cells could be in the way.
ConflictsRefined(raster) ==
    \E p \in DOMAIN raster : Occupied(p) /\ cells[CellOf(p)].refined
Conflicts(raster) == \E p \in DOMAIN raster : Occupied(p)

\* An existing block is refined before it takes the prefab's slots.
Merged(cell, c, raster, id) ==
    LET mine == {p \in DOMAIN raster : CellOf(p) = c}
        new == {MicroOf(p) : p \in mine}
    IN  [refined |-> TRUE,
         mat |-> [u \in DOMAIN cell.mat \cup new |->
                     IF u \in new THEN raster[Point(c, u)] ELSE cell.mat[u]],
         ids |-> cell.ids \cup {id}]

CellAt(c) == IF c \in DOMAIN cells THEN cells[c] ELSE Hollow

Low(S) == [i \in Axis |-> CHOOSE v \in {c[i] : c \in S} : \A c \in S : v <= c[i]]
\* As if a prefab covered only the cell its lowest slot is in.
LowForHigh(S) == Low(S)
High(S) == [i \in Axis |-> CHOOSE v \in {c[i] : c \in S} : \A c \in S : v >= c[i]]

Record(name, raster) ==
    [prefab |-> name, low |-> Low(RasterCells(raster)), high |-> High(RasterCells(raster))]

NoChange == UNCHANGED world /\ said' = 0

\* All or nothing: every slot is checked before the first one is written.
CommitRaster(name, raster) ==
    IF DOMAIN raster = {} \/ Conflicts(raster)
    THEN NoChange
    ELSE /\ cells' = [c \in DOMAIN cells \cup RasterCells(raster) |->
                         IF c \in RasterCells(raster)
                         THEN Merged(CellAt(c), c, raster, nextId) ELSE cells[c]]
         /\ instances' = [i \in DOMAIN instances \cup {nextId} |->
                             IF i = nextId THEN Record(name, raster) ELSE instances[i]]
         /\ nextId' = nextId + 1
         /\ placed' = placed + 1
         /\ said' = nextId

PlaceAt(name, origin, turn) ==
    IF name \notin DOMAIN registry THEN NoChange
    ELSE CommitRaster(name, Rasterize(registry[name], origin, turn, Zero))

AxisNormals == {<<-1, 0, 0>>, <<1, 0, 0>>, <<0, -1, 0>>, <<0, 1, 0>>, <<0, 0, -1>>, <<0, 0, 1>>}

\* The middle of the side that faces the clicked one, turned only for a
\* prefab of one cell.
FaceCenter(prefab, normal, turn) ==
    LET top == [i \in Axis |-> prefab.bounds[i] * Edge - 1]
        local == [i \in Axis |-> IF normal[i] = 1 THEN 0
                                 ELSE IF normal[i] = -1 THEN top[i] ELSE top[i] \div 2]
    IN  IF prefab.bounds = <<1, 1, 1>> THEN TurnMicro(local, turn) ELSE local

\* Slots of the unturned prefab on the face towards the clicked cell.
ContactFace(prefab, normal) ==
    {s \in Slots(prefab) : \E i \in Axis : \/ normal[i] = 1 /\ s[2][i] = 0
                                           \/ normal[i] = -1 /\ s[2][i] = Edge - 1}

\* Slots that will rest against something of the world.
Touching(raster, normal) == {p \in DOMAIN raster : Occupied(Sub(p, normal))}

\* What a request would do: the reason it is refused for, and the raster.
Preview(q) ==
    LET refused(why) == [why |-> why, raster |-> <<>>]
        origin == Add(q.hit, q.normal)
        judge(raster, contact) ==
            [raster |-> raster,
             why |-> IF Conflicts(raster) THEN "micro_overlap"
                     ELSE IF contact = {} THEN "no_contact" ELSE "ok"]
        prefab == registry[q.prefab]
        shift == Sub(q.anchor, Point(origin, FaceCenter(prefab, q.normal, q.turn)))
        anchored == Rasterize(prefab, origin, q.turn, shift)
    IN  IF q.prefab \notin DOMAIN registry THEN refused("unknown_prefab")
        ELSE IF q.normal \notin AxisNormals THEN refused("invalid_face_normal")
        ELSE IF q.anchor # None THEN judge(anchored, Touching(anchored, q.normal))
        ELSE IF q.hit \notin DOMAIN cells THEN refused("no_target_boundary")
        ELSE judge(Rasterize(prefab, origin, q.turn, Zero), ContactFace(prefab, q.normal))

\* A refused snap falls back to the macro grid when the shape merely did not
\* touch, never when it overlapped.
FallsBack(why) == why \in {"no_target_boundary", "no_contact", "empty_prefab"}
----------------------------------------------------------------------------
(* The program's steps.                                                     *)

FreshWorld ==
    /\ cells = [c \in DOMAIN Floor |-> Block(Floor[c])]
    /\ instances = <<>> /\ nextId = 1 /\ placed = 0
    /\ registry = BuiltinRegistry
    /\ selected = First

Init ==
    /\ FreshWorld
    /\ aim = None /\ disk = None /\ joined = FALSE /\ shown = <<>>
    /\ said = 0 /\ torn = FALSE /\ synced = FALSE /\ edits = 0

Edit ==
    /\ edits < MaxEdits
    /\ edits' = edits + 1
    /\ synced' = FALSE

Without(f, k) == [x \in DOMAIN f \ {k} |-> f[x]]
With(f, k, v) == [x \in DOMAIN f \cup {k} |-> IF x = k THEN v ELSE f[x]]

Aside == UNCHANGED <<registry, selected, aim, disk, joined, shown, torn>>
OnlyCells == UNCHANGED <<instances, nextId, placed>> /\ said' = 0

SetBlock(c, m) ==
    IF c \in DOMAIN cells THEN NoChange ELSE cells' = With(cells, c, Block(m)) /\ OnlyCells

ClearBlock(c) ==
    IF c \in DOMAIN cells THEN cells' = Without(cells, c) /\ OnlyCells ELSE NoChange

PlaceBlock == Edit /\ Aside /\ \E c \in Cells, m \in Materials : SetBlock(c, m)

BreakBlock == Edit /\ Aside /\ \E c \in Cells : ClearBlock(c)

SetMicro ==
    /\ Edit /\ Aside /\ OnlyCells
    /\ \E c \in Cells, u \in Pokes, m \in Materials :
          cells' = With(cells, c, [Refine(CellAt(c)) EXCEPT !.mat = With(@, u, m)])

\* Clearing the last slot removes the cell; a miss still leaves it refined.
ClearMicro ==
    /\ Edit /\ Aside /\ OnlyCells
    /\ \E c \in Cells \cap DOMAIN cells, u \in Pokes :
          LET left == Without(cells[c].mat, u)
          IN  cells' = IF left = <<>> THEN Without(cells, c)
                       ELSE With(cells, c, [Refine(cells[c]) EXCEPT !.mat = left])

\* Only cells that hold a plain block are captured.
Capture ==
    /\ Edit /\ NoChange
    /\ UNCHANGED <<selected, aim, disk, joined, shown, torn>>
    /\ \E name \in Captures, a, b \in Cells :
          LET low == Low({a, b})
              high == High({a, b})
              solid == {c \in DOMAIN cells : ~cells[c].refined
                           /\ \A i \in Axis : low[i] <= c[i] /\ c[i] <= high[i]}
          IN  registry' = With(registry, name,
                 [bounds |-> Add(Sub(high, low), <<1, 1, 1>>),
                  cells |-> [o \in {Sub(c, low) : c \in solid} |-> cells[Add(o, low)].mat]])

PlacePrefab ==
    /\ Edit /\ Aside
    /\ \E name \in DOMAIN registry, c \in Cells, turn \in Turns : PlaceAt(name, c, turn)

Snap(q) == IF Preview(q).why = "ok" THEN CommitRaster(q.prefab, Preview(q).raster) ELSE NoChange

\* A typed snap has no anchor and takes the macro grid.
SnapPrefab ==
    /\ Edit /\ Aside
    /\ \E name \in DOMAIN registry, c \in Cells, n \in Normals, turn \in Turns :
          Snap([prefab |-> name, hit |-> c, normal |-> n, turn |-> turn, anchor |-> None])

Select ==
    /\ Edit /\ NoChange /\ UNCHANGED <<registry, aim, disk, joined, shown, torn>>
    /\ selected' \in Materials \cup DOMAIN Builtins

\* The ray meets a filled slot through a face with nothing in front of it; the
\* slot in front is where a prefab will be anchored.
Aim ==
    /\ ~joined /\ Edit /\ NoChange
    /\ UNCHANGED <<registry, selected, disk, joined, shown, torn>>
    /\ \/ \E c \in DOMAIN cells : \E u \in DOMAIN cells[c].mat, n \in Normals :
             LET near == Add(Point(c, u), n)
             IN  ~Occupied(near) /\ aim' = [cell |-> c, normal |-> n, near |-> near]
       \/ cells = <<>> /\ aim' = None

ClickBreak == ~joined /\ aim # None /\ Edit /\ Aside /\ ClearBlock(aim.cell)

ClickPlace ==
    /\ ~joined /\ aim # None /\ Edit /\ Aside
    /\ LET beside == Add(aim.cell, aim.normal)
           q == [prefab |-> selected, hit |-> aim.cell, normal |-> aim.normal,
                 turn |-> 0, anchor |-> aim.near]
       IN  IF selected \in Materials THEN SetBlock(beside, selected)
           ELSE IF FallsBack(Preview(q).why) THEN PlaceAt(selected, beside, 0)
           ELSE Snap(q)
----------------------------------------------------------------------------
(* Snapshots: saved, loaded, refused, and a process that dies.              *)

\* What a refused import left behind is saved with the rest.
Snapshot == [cells |-> cells, instances |-> instances, placed |-> placed, torn |-> torn]

Save ==
    /\ Edit /\ NoChange /\ UNCHANGED <<registry, selected, aim, joined, shown, torn>>
    /\ disk' = Snapshot

\* The registry and the hot bar are no part of a snapshot.
Import(s) ==
    /\ cells' = s.cells
    /\ instances' = s.instances
    /\ nextId' = NextAfter(DOMAIN s.instances)
    /\ placed' = s.placed
    /\ torn' = s.torn /\ said' = 0

Load ==
    /\ disk # None /\ Edit /\ Import(disk)
    /\ UNCHANGED <<registry, selected, aim, disk, joined, shown>>

\* A snapshot with a cell that has no payload: the old cells are gone, those
\* before the bad one are in, and the instances are the old world's.
RefusedImport ==
    /\ disk # None /\ Edit
    /\ \E read \in SUBSET DOMAIN disk.cells :
          /\ read # DOMAIN disk.cells
          /\ cells' = [c \in read |-> disk.cells[c]]
    /\ torn' = TRUE /\ OnlyCells
    /\ UNCHANGED <<registry, selected, aim, disk, joined, shown>>

\* The process ends, perhaps while it writes the slot, and starts again.
Restart ==
    /\ Edit
    /\ cells' = [c \in DOMAIN Floor |-> Block(Floor[c])]
    /\ instances' = <<>> /\ nextId' = 1 /\ placed' = 0 /\ registry' = BuiltinRegistry
    /\ selected' = First
    /\ disk' \in {disk, None}
    /\ aim' = None /\ joined' = FALSE /\ shown' = <<>> /\ said' = 0 /\ torn' = FALSE
----------------------------------------------------------------------------
(* The cubes on the screen.                                                 *)

SceneChanges ==
    /\ joined' = ~joined
    /\ Edit /\ NoChange /\ UNCHANGED <<registry, selected, aim, disk, shown, torn>>

\* One cube per block, one small cube per slot of a refined cell.
Cubes ==
    LET whole == {c \in DOMAIN cells : ~cells[c].refined}
        small == UNION {{<<c, u>> : u \in DOMAIN cells[c].mat} : c \in DOMAIN cells \ whole}
    IN  [k \in {<<c, None>> : c \in whole} \cup small |->
            IF k[2] = None THEN cells[k[1]].mat[Zero] ELSE cells[k[1]].mat[k[2]]]

\* As if a cube kept the material it was spawned with.
KeptCube(k, cubes) == IF k \in DOMAIN shown THEN shown[k] ELSE cubes[k]
\* A cube that is still wanted takes its cell's material again.
Redrawn(k, cubes) == cubes[k]

\* Cubes no longer wanted are despawned, missing ones spawned.
SyncVisuals ==
    /\ ~synced /\ synced' = TRUE
    /\ shown' = IF joined THEN <<>>
                ELSE LET cubes == Cubes
                         stay == DOMAIN shown \cap DOMAIN cubes
                         spawn == DOMAIN cubes \ stay
                     IN  [k \in stay \cup spawn |->
                            IF k \in stay THEN Redrawn(k, cubes) ELSE cubes[k]]
    /\ UNCHANGED <<world, registry, selected, aim, disk, joined, said, torn, edits>>

Next ==
    \/ PlaceBlock \/ BreakBlock \/ SetMicro \/ ClearMicro
    \/ Capture \/ PlacePrefab \/ SnapPrefab
    \/ Select \/ Aim \/ ClickBreak \/ ClickPlace
    \/ Save \/ Load \/ RefusedImport \/ Restart
    \/ SceneChanges \/ SyncVisuals

Spec == Init /\ [][Next]_vars
----------------------------------------------------------------------------
IsCell(cell) ==
    /\ DOMAIN cell.mat \subseteq Micros /\ DOMAIN cell.mat # {}
    /\ \A u \in DOMAIN cell.mat : cell.mat[u] \in Materials
    /\ cell.refined \/ DOMAIN cell.mat = Micros

TypeOK ==
    /\ \A c \in DOMAIN cells : IsCell(cells[c])
    /\ nextId \in Nat \ {0} /\ said \in Nat /\ placed \in Nat
    /\ DOMAIN instances \subseteq Nat
    /\ selected \in Materials \cup DOMAIN Builtins
    /\ {torn, synced, joined} \subseteq BOOLEAN

\* A cell names only instances that are recorded and whose box it lies in.
Named(cs, is) ==
    \A c \in DOMAIN cs : \A i \in cs[c].ids :
        /\ i \in DOMAIN is
        /\ \A a \in Axis : is[i].low[a] <= c[a] /\ c[a] <= is[i].high[a]

\* No id is ever given twice, the next one being above every instance's, and
\* the counter the snapshots carry is the number of the recorded instances.
Counted == nextId = NextAfter(DOMAIN instances) /\ placed = Cardinality(DOMAIN instances)

\* Whatever was edited, saved, loaded, refused or restarted: every cell is well
\* formed and the instances are counted, and unless a refused import left its
\* pieces behind, every prefab a cell came from is on record, in a box that
\* covers it.
WorldOK == TypeOK /\ Counted /\ (torn \/ Named(cells, instances))

\* A prefab that is reported as placed has added exactly its own slots, none
\* folded onto another by a turn or lost over a cell's edge, and has changed
\* no slot that was filled before (commit_prefab_raster, shift and rotation).
Filled(cs) == UNION {{<<c, u, cs[c].mat[u]>> : u \in DOMAIN cs[c].mat} : c \in DOMAIN cs}
SizeOf(prefab) == Cardinality(UNION {{<<o, u>> : u \in DOMAIN prefab.cells[o]} :
                                        o \in DOMAIN prefab.cells})
Whole ==
    said' # 0 /\ nextId' = nextId + 1 =>
        /\ Filled(cells) \subseteq Filled(cells')
        /\ Cardinality(Filled(cells')) =
              Cardinality(Filled(cells)) + SizeOf(registry[instances'[said'].prefab])
PrefabWhole == [][Whole]_vars

\* Once drawn, the cubes are the world's: none is left from a cell that was
\* broken, refined or replaced in between, nor any once a scene is joined.
ShownIsWorld == synced => shown = IF joined THEN <<>> ELSE Cubes
============================================================================
