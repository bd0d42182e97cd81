---------------------------- MODULE MCFieldView ----------------------------
(* Two chunks of 2 x 2 x 2 cells, side by side, and two field regions in the    *)
(* first of them.                                                               *)
EXTENDS FieldView, TLC

MCChunks == {0, 1}
CONSTANTS r1, r2
MCRegions == {r1, r2}
MCChunkOf == [r \in MCRegions |-> 0]

(* Hot and cold cells with light; a breakdown under potential, one without a    *)
(* potential; a circuit in one direction, the other, at rest, and with values   *)
(* that are no numbers.  Cell 5 is the resistor, cell 7 the comparator.         *)
Hot == [cells |-> <<5, 7>>,
        layers |-> [temperature |-> <<9000000, 150000>>, light |-> <<200, 4>>]]
Lamp == [cells |-> <<5, 7>>,
         layers |-> [temperature |-> <<NaN, 200050>>, light |-> <<90, 255>>,
                     color |-> <<255, 65280>>]]
Breakdown == [cells |-> <<1, 2, 7>>,
              layers |-> [ionization |-> <<9, 255, 200>>, potential |-> <<-20000, 100000, 800>>]]
Arc == [cells |-> <<0, 1, 7>>,
        layers |-> [ionization |-> <<7, 30, 200>>, current |-> <<0, 20000, -40000>>,
                    potential |-> <<400, NaN, 100>>]]
Backward == [cells |-> <<5, 7>>,
             layers |-> [current |-> <<-3, 0>>, potential |-> <<100000, -900>>]]
Forward == [cells |-> <<5, 7>>,
            layers |-> [current |-> <<0, 2>>, potential |-> <<0, 900>>]]
Rest == [cells |-> <<5, 7>>, layers |-> [current |-> <<0, 0>>, potential |-> <<100, NaN>>]]

Ground(top) ==
  [c \in Cells |-> CASE c = <<1, 0, 1>> -> Solid(20) [] c = <<1, 1, 1>> -> top
                     [] c[2] = 0 -> Solid(1) [] OTHER -> Empty]
Stairs == Refined({<<0, 0, 0>>, <<1, 0, 0>>, <<0, 1, 0>>},
                  << [material |-> 2, mask |-> {<<0, 0, 0>>}],
                     [material |-> 3, mask |-> {<<0, 0, 0>>, <<1, 0, 0>>}] >>)
Circuit == [cells |-> Ground(Solid(21)),
            elements |-> {[index |-> 5, face |-> 1, type |-> 2], [index |-> 7, face |-> 3, type |-> 4],
                          [index |-> 8, face |-> 3, type |-> 4]}]
Steps2 == [cells |-> Ground(Stairs), elements |-> {}]
MCStarts == {<< >>, [k \in {0, 1} |-> IF k = 0 THEN Circuit ELSE Steps2]}

MCMessages ==
  [kind : {"field"}, region : {r1}, field : {Hot, Lamp, Breakdown, Arc, Backward, Rest}]
    \cup [kind : {"field"}, region : {r2}, field : {Hot, Forward}]
    \cup [kind : {"destroyed"}, region : {r1}]
    \cup [kind : {"object"}, object : {1}, version : {1, 2}, flags : {{"damaged"}}, chunks : {<<0, 1>>}]
    \cup [kind : {"chunk"}, chunk : {0}, content : {Circuit, Steps2}]
    \cup [kind : {"chunk"}, chunk : {1}, content : {Gone}]
==============================================================================
