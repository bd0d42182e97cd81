-------------------------- MODULE EditorInvariant --------------------------
(***************************************************************************)
(* The inductive invariant of VoxelEditor.                                 *)
(***************************************************************************)
EXTENDS VoxelEditor

\* Materials of some slots of a cell, and a cell of the world.
Grid(f) == DOMAIN f \subseteq Micros /\ f \in [DOMAIN f -> Materials]
CellOK(cell) ==
    /\ cell \in [refined : BOOLEAN, mat : {cell.mat}, ids : {cell.ids}]
    /\ Grid(cell.mat) /\ DOMAIN cell.mat # {}
    /\ cell.refined \/ DOMAIN cell.mat = Micros
PrefabOK(prefab) ==
    /\ prefab.bounds \in Vectors
    /\ DOMAIN prefab.cells \subseteq Vectors /\ IsFiniteSet(DOMAIN prefab.cells)
    /\ \A o \in DOMAIN prefab.cells : Grid(prefab.cells[o])

\* A world, in use or saved.
CellsOK(cs) ==
    DOMAIN cs \subseteq Vectors /\ IsFiniteSet(DOMAIN cs) /\ \A c \in DOMAIN cs : CellOK(cs[c])
RecordsOK(is, count) ==
    DOMAIN is \subseteq Nat /\ IsFiniteSet(DOMAIN is) /\ count = Cardinality(DOMAIN is)
WorldIs(cs, is, count, pieces) ==
    /\ CellsOK(cs) /\ RecordsOK(is, count)
    /\ pieces \in BOOLEAN /\ (pieces \/ Named(cs, is))

WorldNow ==
    WorldIs(cells, instances, placed, torn) /\ nextId = NextAfter(DOMAIN instances) /\ said \in Nat
SavedOK == disk # None => WorldIs(disk.cells, disk.instances, disk.placed, disk.torn)
RegistryOK == \A name \in DOMAIN registry : PrefabOK(registry[name])
HandOK ==
    /\ selected \in Materials \cup DOMAIN Builtins
    /\ aim # None => aim.cell \in Vectors /\ aim.normal \in Vectors /\ aim.near \in Vectors
    /\ synced \in BOOLEAN /\ joined \in BOOLEAN

EditorInv == WorldNow /\ SavedOK /\ RegistryOK /\ HandOK /\ ShownIsWorld
============================================================================
