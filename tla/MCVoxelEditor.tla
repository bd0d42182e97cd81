--------------------------- MODULE MCVoxelEditor ---------------------------
EXTENDS VoxelEditor

CONSTANTS dirt, stone

Plane == [c \in {<<0, 0, 0>>, <<0, 0, 1>>} |-> IF c[3] = 0 THEN dirt ELSE stone]
Near == {<<0, 0, 0>>, <<0, 0, 1>>}
Corners == {<<0, 0, 0>>}
Shapes == [n \in {"stairs"} |->
             [slots |-> {<<0, 0, 0>>, <<1, 0, 0>>, <<1, 1, 0>>}, mat |-> stone]]
Mine == {"mine"}
Up == {<<0, 1, 0>>}
============================================================================
