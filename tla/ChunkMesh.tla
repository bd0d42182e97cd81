------------------------------ MODULE ChunkMesh ------------------------------
(* The geometry the client draws of one chunk: the skylight of its columns      *)
(* (voxel/skylight.rs), the greedy mesh of its solid cells and the micro mesh   *)
(* of its refined ones (voxel/mesher.rs), the light of a face                   *)
(* (voxel/chunk_render.rs) and the decals on its faces                          *)
(* (voxel/surface_decal.rs).  Pure functions of the loaded chunks and of the    *)
(* light levels of the field regions.                                           *)
(*                                                                              *)
(* A quad is the record of the rectangle it fills: axis, sign and plane, corner *)
(* and extent in the plane, material and light; vertices, winding, texture      *)
(* coordinates and the size of a voxel are left out.  Light is in 1/255, and    *)
(* skylight in 1/1000 before it is rounded.  Chunks lie on a line along the     *)
(* first axis; ChunkSize and MicroSize stand for 16 and 8.                      *)
EXTENDS Integers, FiniteSets, SequencesExt

CONSTANTS ChunkSize,  \* chunk_size_in_macro
          MicroSize   \* MICRO_RES

ASSUME SizeAssumption == {ChunkSize, MicroSize} \subseteq Nat \ {0}

(* FoldLeft as a function of the position: TLC evaluates it in linear time. *)
Fold(op(_, _), base, s) ==
  LET f[i \in 0..Len(s)] == IF i = 0 THEN base ELSE op(f[i - 1], s[i]) IN f[Len(s)]

Span == 0..ChunkSize - 1
Cells == Span \X Span \X Span
(* Cells are numbered row by row: the macro index of the wire. *)
CellOf(i) == <<i % ChunkSize, (i \div ChunkSize) % ChunkSize, i \div (ChunkSize * ChunkSize)>>

Empty == [kind |-> "empty"]
Solid(material) == [kind |-> "solid", material |-> material]
Refined(occupied, layers) == [kind |-> "refined", occupied |-> occupied, layers |-> layers]
Occupies(state) == state.kind # "empty"

(* held maps a loaded chunk to its cells and surface elements. *)
Loaded(held, k) == k \in DOMAIN held

(* The cell with coordinate s on axis d, u on the next axis and v on the one after. *)
CellAt(d, s, u, v) ==
  LET on(a) == IF a = d THEN s ELSE IF a = (d + 1) % 3 THEN u ELSE v
  IN  <<on(0), on(1), on(2)>>
NextTo(cell, d, sign) == [cell EXCEPT ![d + 1] = @ + sign]
Around == Cells \cup {NextTo(c, d, sign) : c \in Cells, d \in 0..2, sign \in {1, -1}}
Within(cell) == \A a \in 1..3 : cell[a] \in Span

(* The chunk across the side of k; beyond the line nothing is loaded. *)
OccludedAcross(held, k, d, sign, u, v) ==
  /\ d = 0 /\ Loaded(held, k + sign)
  /\ Occupies(held[k + sign].cells[CellAt(d, IF sign > 0 THEN 0 ELSE ChunkSize - 1, u, v)])

------------------------------------------------------------------------------
(* Skylight of a column, from the top down: full above the first occupied cell, *)
(* 35% of it passes an occupied cell and 82% a cell of air under cover.         *)
FloorLight == 120
Reaching(cells, x, z) ==
  LET Covered(y) == \E above \in Span : above >= y /\ Occupies(cells[<<x, above, z>>])
      light[y \in Span] ==
        IF y = ChunkSize - 1 THEN 1000
        ELSE IF Occupies(cells[<<x, y + 1, z>>]) THEN (light[y + 1] * 350) \div 1000
        ELSE IF Covered(y + 1) THEN (light[y + 1] * 820) \div 1000
        ELSE light[y + 1]
  IN  light
Skylight(cells) ==
  [c \in Cells |-> LET l == Reaching(cells, c[1], c[3])[c[2]]
                   IN  IF l < FloorLight THEN FloorLight ELSE l]
Quantize(l) == (l * 255 + 500) \div 1000

(* Light of a cell or of one just outside: open sky above the chunk, the        *)
(* nearest column otherwise, or the light of a field region if that is more.    *)
Clamp(i) == IF i < 0 THEN 0 ELSE IF i >= ChunkSize THEN ChunkSize - 1 ELSE i
LightAt(sky, grid, k, cell) ==
  LET inner == [a \in 1..3 |-> Clamp(cell[a])]
      skyLight == IF cell[2] >= ChunkSize THEN 255 ELSE Quantize(sky[inner])
      block == IF Within(cell) THEN grid[k][cell]
               ELSE IF cell[1] >= ChunkSize THEN grid[k + 1][NextTo(cell, 0, -ChunkSize)]
               ELSE IF cell[1] < 0 THEN grid[k - 1][NextTo(cell, 0, ChunkSize)]
               ELSE 0
  IN  IF block > skyLight THEN block ELSE skyLight

------------------------------------------------------------------------------
(* Greedy mesh.  The mask of a slice of the chunk is the set of its solid faces *)
(* that nothing covers, each with its value: material and light, where light    *)
(* is that of each cell in and next to the chunk.                               *)
Slice == Span \X Span
Mask(held, k, d, sign, s, light) ==
  LET Facing(p) == NextTo(CellAt(d, s, p[1], p[2]), d, sign)
      StateAt(p) == held[k].cells[CellAt(d, s, p[1], p[2])]
      Occluded(p) == IF Within(Facing(p)) THEN Occupies(held[k].cells[Facing(p)])
                     ELSE OccludedAcross(held, k, d, sign, p[1], p[2])
  IN  {[u |-> p[1], v |-> p[2], value |-> <<StateAt(p).material, light[Facing(p)]>>] :
         p \in {q \in Slice : StateAt(q).kind = "solid" /\ ~Occluded(q)}}

(* The widest run of one value, then as many equal rows as follow it. *)
Shifted(f, i, j) == [u |-> f.u + i, v |-> f.v + j, value |-> f.value]
Run(mask, f) == Max({w \in 1..ChunkSize - f.u : \A i \in 0..w - 1 : Shifted(f, i, 0) \in mask})
(* Mutant: rows are compared at their first cell only. *)
RowsByFirst(mask, f, w) ==
  Max({h \in 1..ChunkSize - f.v : \A j \in 0..h - 1 : Shifted(f, 0, j) \in mask})
Rows(mask, f, w) ==
  Max({h \in 1..ChunkSize - f.v :
         \A j \in 0..h - 1, i \in 0..w - 1 : Shifted(f, i, j) \in mask})

Merge(st, f) ==
  LET w == Run(st.mask, f)
      h == Rows(st.mask, f, w)
      In(m) == m.u \in f.u..f.u + w - 1 /\ m.v \in f.v..f.v + h - 1
  IN  [mask |-> {m \in st.mask : ~In(m)},
       rects |-> st.rects \cup {[u |-> f.u, v |-> f.v, w |-> w, h |-> h, value |-> f.value]}]
(* The slice is scanned row by row; what is merged is taken out of it. *)
Consume(st, p) ==
  LET here == {m \in st.mask : m.u = p[1] /\ m.v = p[2]}
  IN  IF here = {} THEN st ELSE Merge(st, CHOOSE m \in here : TRUE)
GreedyMerge(mask) ==
  LET scan == [i \in 1..ChunkSize * ChunkSize |->
                 <<(i - 1) % ChunkSize, (i - 1) \div ChunkSize>>]
  IN  Fold(Consume, [mask |-> mask, rects |-> {}], scan).rects

Quad(d, sign, s, r) ==
  [axis |-> d, sign |-> sign, plane |-> IF sign > 0 THEN s + 1 ELSE s,
   u |-> r.u, v |-> r.v, w |-> r.w, h |-> r.h, material |-> r.value[1], light |-> r.value[2]]
GreedyMesh(held, k, light) ==
  UNION {{Quad(d, sign, s, r) : r \in GreedyMerge(Mask(held, k, d, sign, s, light))} :
           d \in 0..2, sign \in {1, -1}, s \in Span}

(* Micro mesh of a refined cell: the faces of its occupied slots that no slot   *)
(* of the cell covers, of the first layer that has the slot, else of none (0).  *)
MicroMaterial(state, m) ==
  LET owners == SelectSeq(state.layers, LAMBDA layer : m \in layer.mask)
  IN  IF owners = << >> THEN 0 ELSE Head(owners).material
MicroMesh(state, cell, light) ==
  {[cell |-> cell, slot |-> f[1], axis |-> f[2], sign |-> f[3],
    material |-> MicroMaterial(state, f[1]), light |-> light] :
     f \in {g \in state.occupied \X (0..2) \X {1, -1} :
              NextTo(g[1], g[2], g[3]) \notin state.occupied}}

(* chunk_render_mesh_lit: both parts; a refined cell is lit by its own cell. *)
ChunkRenderMesh(held, k, grid) ==
  LET sky == Skylight(held[k].cells)
      light == [c \in Around |-> LightAt(sky, grid, k, c)]
      refined == {c \in Cells : held[k].cells[c].kind = "refined"}
  IN  [quads |-> GreedyMesh(held, k, light),
       micro |-> UNION {MicroMesh(held[k].cells[c], c, light[c]) : c \in refined}]

------------------------------------------------------------------------------
(* Decals.  A surface element is bound to a face of a macro cell: gone with its *)
(* host, and, but for fixtures, hidden by what stands before the face.          *)
HidesWhenCovered(type) == type \in 1..3
FaceDirection(face) == CASE face = 0 -> <<0, -1>> [] face = 1 -> <<0, 1>>
                         [] face = 2 -> <<1, -1>> [] face = 3 -> <<1, 1>>
                         [] face = 4 -> <<2, -1>> [] face = 5 -> <<2, 1>>
NeighborOccupied(held, k, cell, d, sign) ==
  LET facing == NextTo(cell, d, sign)
  IN  IF Within(facing) THEN Occupies(held[k].cells[facing])
      ELSE OccludedAcross(held, k, d, sign, cell[((d + 1) % 3) + 1], cell[((d + 2) % 3) + 1])
SurfaceDecals(held, k) ==
  {e \in held[k].elements :
     /\ e.face \in 0..5 /\ Within(CellOf(e.index))
     /\ Occupies(held[k].cells[CellOf(e.index)])
     /\ LET dir == FaceDirection(e.face)
        IN  ~(HidesWhenCovered(e.type)
              /\ NeighborOccupied(held, k, CellOf(e.index), dir[1], dir[2]))}
==============================================================================
