---------------------------- MODULE MCWireFrames ----------------------------
(***************************************************************************)
(* One message of every kind for WireFrames, with a different byte in      *)
(* every field, and lists of two and of no items.                          *)
(***************************************************************************)
EXTENDS WireFrames

Fill(n, k) == [j \in 1..n |-> (7 * k + j) % 256]

RECURSIVE SampleOf(_, _, _)
\* size: items of a list and bytes of a blob; tag: of the sections or cells;
\* a number's bytes start with the place of its field.
FieldSample(fd, k, size, tag) ==
    CASE fd.op = "num" /\ fd.f \in {"section_type", "kind", "schema_kind", "field_mask", "ok"} -> fd.f :> <<tag>>
      [] fd.op = "num" /\ fd.f = "movement_mode" -> fd.f :> <<tag % 4>>
      [] fd.op = "num" /\ fd.f = "value_type" -> fd.f :> <<(tag % 5) + 1>>
      [] fd.op = "num" /\ fd.f \in {"known_ref_count", "known_object_count", "known_cell_ref_count"} -> fd.f :> <<0, 0>>
      [] fd.op = "num" -> fd.f :> Fill(fd.n, k)
      [] fd.op \in {"many", "rest"} -> fd.f :> [j \in 1..size |-> SampleOf(fd.of, size, tag)]
      [] fd.op = "blob" -> fd.f :> Fill(size, k)
      [] fd.op = "sized" -> fd.f :> IF tag \in DOMAIN fd.of THEN SampleOf(fd.of[tag], size, tag) ELSE Fill(size, k)
      [] fd.op = "choice" -> fd.f :> SampleOf(fd.of[(tag % 5) + 1], size, tag)
      [] fd.op \in {"masked", "flipped"} ->
            fd.f :> IF Bit(tag, fd.bit) THEN [j \in 1..size |-> Fill(fd.n, k + j)] ELSE <<>>
      [] fd.op = "if" -> IF tag = fd.byte THEN SampleOf(fd.then, size, tag) ELSE <<>>
      [] fd.op = "oneof" -> <<>>
SampleOf(layout, size, tag) ==
    LET parts == [k \in DOMAIN layout |-> FieldSample(layout[k], k, size, tag)]
    IN  FoldLeft(LAMBDA m, part : m @@ part, <<>>, parts)

Of(layouts, op, size, tag) == [op |-> op, body |-> SampleOf(layouts[op], size, tag)]
\* Sections 1..8 and an unknown one, cells 0..2 and an unknown one, two masks.
TagsOf(op) ==
    CASE op = \h62 -> 1..9
      [] op = \h63 -> 0..3
      [] op = \h71 -> {1}
      [] op = \h73 -> {0, 21, 42, 63}
      [] op \in {\h84, \h87} -> {0, 1}
      [] op \in {\h83, \h8B} -> 0..3
      [] OTHER -> {2}
MCMessages ==
    UNION {{Of(ControlReads, op, 2, tag) : tag \in TagsOf(op)} : op \in DOMAIN ControlReads}
    \cup UNION {{Of(VoxelReads, op, size, tag) : size \in {0, 2}, tag \in TagsOf(op)} : op \in DOMAIN VoxelReads}
MCFollowers == {Of(ControlReads, \h86, 2, 2)}
MCRequests ==
    UNION {{Of(RequestReads, op, size, 2) : size \in {0, 2}} : op \in DOMAIN RequestReads}
    \cup {Of(ClientWrites, op, 2, 2) : op \in DOMAIN ClientWrites}
============================================================================
