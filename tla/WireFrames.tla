----------------------------- MODULE WireFrames -----------------------------
(***************************************************************************)
(* The bytes between the client and the gate (src/clients/bevy_client/src: *)
(* protocol.rs, voxel/wire, movement_codec.rs): frames with a length in    *)
(* front, cut out of a TCP stream that comes in pieces of any size, and    *)
(* the layout of every message.  A layout is the sequence of fields that a *)
(* decode function reads (Reads) or an encode function writes (Writes);    *)
(* the two are written down separately, as they are in the code.  A field  *)
(* is the sequence of its bytes; what a number means is left out, but for  *)
(* the lengths, counts, tags and masks that say how to read on.            *)
(***************************************************************************)
EXTENDS Integers, Sequences, SequencesExt, TLC

CONSTANTS
    Messages,  \* server messages of a behaviour: [op, body], body by field name
    Requests,  \* client messages: [op, body]
    Followers, \* what may follow the first
    MaxSent,   \* bound on the messages the server sends
    Pieces     \* sizes of the pieces the stream comes in

ASSUME WireAssumption == MaxSent \in Nat /\ Pieces \subseteq Nat \ {0}
----------------------------------------------------------------------------
(* Fields of a layout.                                                      *)

Num(n, f) == [op |-> "num", n |-> n, f |-> f]
Many(w, f, of) == [op |-> "many", w |-> w, f |-> f, of |-> of]
Rest(f, of) == [op |-> "rest", f |-> f, of |-> of]         \* to the end, no count
Blob(w, f) == [op |-> "blob", w |-> w, f |-> f]            \* bytes or a string
Sized(w, tag, of, f) == [op |-> "sized", w |-> w, tag |-> tag, of |-> of, f |-> f]
Choice(tag, of, f) == [op |-> "choice", tag |-> tag, of |-> of, f |-> f]
Masked(bit, n, f) == [op |-> "masked", bit |-> bit, n |-> n, f |-> f]
Flipped(bit, n, f) == [op |-> "flipped", bit |-> bit, n |-> n, f |-> f]  \* little endian
If(f, byte, room, then) == [op |-> "if", f |-> f, byte |-> byte, room |-> room, then |-> then]
OneOf(f, bytes) == [op |-> "oneof", f |-> f, bytes |-> bytes]

Coord(f) == Num(12, f)     \* i32 x 3
Vec3(f) == Num(24, f)      \* f64 x 3
Mask(f) == Num(64, f)      \* u64 x 8
----------------------------------------------------------------------------
(* What Snapshot and Delta are made of: each struct's decode and encode.    *)

NormalBlockReads == <<Num(2, "material_id"), Num(4, "state_flags"), Num(2, "health"),
    Num(2, "temperature_delta"), Num(2, "moisture_delta"), Num(4, "attribute_set_ref"),
    Num(4, "tag_set_ref")>>
NormalBlockWrites == <<Num(2, "material_id"), Num(4, "state_flags"), Num(2, "health"),
    Num(2, "temperature_delta"), Num(2, "moisture_delta"), Num(4, "attribute_set_ref"),
    Num(4, "tag_set_ref")>>

MicroLayerReads == <<Mask("mask_words"), Num(2, "material_id"), Num(4, "state_flags"),
    Num(2, "health"), Num(4, "attribute_set_ref"), Num(4, "tag_set_ref"),
    Num(8, "owner_object_id"), Num(4, "owner_part_id")>>
MicroLayerWrites == <<Mask("mask_words"), Num(2, "material_id"), Num(4, "state_flags"),
    Num(2, "health"), Num(4, "attribute_set_ref"), Num(4, "tag_set_ref"),
    Num(8, "owner_object_id"), Num(4, "owner_part_id")>>

ObjectCoverReads == <<Num(8, "owner_object_id"), Num(4, "owner_part_id"), Mask("mask_words")>>
ObjectCoverWrites == <<Num(8, "owner_object_id"), Num(4, "owner_part_id"), Mask("mask_words")>>

RefinedCellReads == <<Mask("occupancy_words"), Num(8, "boundary_cache"),
    Many(2, "layers", MicroLayerReads), Many(2, "object_refs", ObjectCoverReads)>>
RefinedCellWrites == <<Mask("occupancy_words"), Num(8, "boundary_cache"),
    Many(2, "layers", MicroLayerWrites), Many(2, "object_refs", ObjectCoverWrites)>>

MacroHeaderReads == <<Num(1, "mode"), Num(2, "flags"), Num(4, "payload_index"),
    Num(4, "environment_index"), Num(4, "cell_version"), Num(4, "cell_hash")>>
MacroHeaderWrites == <<Num(1, "mode"), Num(2, "flags"), Num(4, "payload_index"),
    Num(4, "environment_index"), Num(4, "cell_version"), Num(4, "cell_hash")>>

\* An unknown value_type is an error: its width is not known.
AttributeValue == (1 :> <<Num(2, "v")>>) @@ (2 :> <<Num(2, "v")>>) @@ (3 :> <<Num(4, "v")>>)
                  @@ (4 :> <<Num(1, "v")>>) @@ (5 :> <<Num(4, "v")>>)
AttributeEntry == <<Num(4, "key_id"), Num(1, "value_type"), Choice("value_type", AttributeValue, "value")>>
AttributeSet == <<Many(2, "entries", AttributeEntry)>>
TagSet == <<Many(2, "tag_ids", <<Num(4, "id")>>)>>

EnvironmentReads == <<Num(2, "default_temperature"), Num(2, "default_moisture"),
    Num(2, "current_temperature"), Num(2, "current_moisture"), Num(2, "summary_mask"),
    Num(4, "source_hash")>>
EnvironmentWrites == <<Num(2, "default_temperature"), Num(2, "default_moisture"),
    Num(2, "current_temperature"), Num(2, "current_moisture"), Num(2, "summary_mask"),
    Num(4, "source_hash")>>

ObjectRefReads == <<Num(8, "object_id"), Num(8, "object_version"), Num(3, "covered_min"),
    Num(3, "covered_max"), Num(8, "cover_hash")>>
ObjectRefWrites == <<Num(8, "object_id"), Num(8, "object_version"), Num(3, "covered_min"),
    Num(3, "covered_max"), Num(8, "cover_hash")>>

SurfaceReads == <<Num(2, "macro_index"), Num(1, "face"), Num(2, "surface_type_id"),
    Num(4, "attribute_set_ref"), Num(4, "tag_set_ref"), Num(8, "owner_actor_id")>>
SurfaceWrites == <<Num(2, "macro_index"), Num(1, "face"), Num(2, "surface_type_id"),
    Num(4, "attribute_set_ref"), Num(4, "tag_set_ref"), Num(8, "owner_actor_id")>>

Pool(of) == <<Many(4, "items", of)>>
SectionReads == (1 :> <<Rest("items", MacroHeaderReads)>>) @@ (2 :> Pool(NormalBlockReads))
    @@ (3 :> Pool(RefinedCellReads)) @@ (4 :> Pool(AttributeSet)) @@ (5 :> Pool(TagSet))
    @@ (6 :> Pool(EnvironmentReads)) @@ (7 :> Pool(ObjectRefReads)) @@ (8 :> Pool(SurfaceReads))
SectionWrites == (1 :> <<Rest("items", MacroHeaderWrites)>>) @@ (2 :> Pool(NormalBlockWrites))
    @@ (3 :> Pool(RefinedCellWrites)) @@ (4 :> Pool(AttributeSet)) @@ (5 :> Pool(TagSet))
    @@ (6 :> Pool(EnvironmentWrites)) @@ (7 :> Pool(ObjectRefWrites)) @@ (8 :> Pool(SurfaceWrites))

SnapshotHead == <<Num(8, "request_id"), Num(8, "logical_scene_id"), Coord("chunk_coord"),
    Num(2, "schema_version"), Num(1, "chunk_size_in_macro"), Num(1, "micro_resolution"),
    Num(8, "chunk_version"), Num(8, "chunk_hash")>>
Sections(of) == Many(2, "sections", <<Num(1, "section_type"), Sized(4, "section_type", of, "data")>>)
SnapshotReads == SnapshotHead \o <<Sections(SectionReads)>>
SnapshotWrites == SnapshotHead \o <<Sections(SectionWrites)>>

\* A cell's payload by delta_kind; an unknown kind is kept as it came.
CellReads == (0 :> <<>>) @@ (1 :> NormalBlockReads) @@ (2 :> RefinedCellReads)
CellWrites == (0 :> <<>>) @@ (1 :> NormalBlockWrites) @@ (2 :> RefinedCellWrites)
DeltaOp(of) == <<Num(1, "kind"), Num(2, "macro_index"), Num(4, "cell_version"), Num(4, "cell_hash"),
    Sized(2, "kind", of, "cell")>>
DeltaReads == <<Num(8, "logical_scene_id"), Coord("chunk_coord"), Num(8, "base_chunk_version"),
    Num(8, "new_chunk_version"), Many(2, "ops", DeltaOp(CellReads))>>
DeltaWrites == <<Num(8, "logical_scene_id"), Coord("chunk_coord"), Num(8, "base_chunk_version"),
    Num(8, "new_chunk_version"), Many(2, "ops", DeltaOp(CellWrites))>>

AuthCell == <<Coord("chunk_coord"), Num(8, "chunk_version"), Num(2, "macro_index"),
    Num(4, "cell_version"), Num(4, "cell_hash"), Num(1, "payload_kind"), Blob(4, "cell_payload")>>
IntentResultReads == <<Num(8, "request_id"), Num(4, "client_intent_seq"), Num(8, "logical_scene_id"),
    Num(1, "result_code"), Num(8, "result_ref"), Many(2, "authoritative", AuthCell), Blob(2, "reason")>>
IntentResultWrites == <<Num(8, "request_id"), Num(4, "client_intent_seq"), Num(8, "logical_scene_id"),
    Num(1, "result_code"), Num(8, "result_ref"), Many(2, "authoritative", AuthCell), Blob(2, "reason")>>
InvalidateReads == <<Num(8, "logical_scene_id"), Coord("chunk_coord"), Num(1, "reason")>>
InvalidateWrites == <<Num(8, "logical_scene_id"), Coord("chunk_coord"), Num(1, "reason")>>
Chunks(f) == Many(2, f, <<Coord("chunk")>>)
ObjectStateReads == <<Num(8, "logical_scene_id"), Num(8, "object_id"), Num(8, "object_version"),
    Num(4, "state_flags"), Num(2, "attribute_patch_count"), Num(2, "tag_patch_count"), Chunks("affected")>>
ObjectStateWrites == <<Num(8, "logical_scene_id"), Num(8, "object_id"), Num(8, "object_version"),
    Num(4, "state_flags"), Num(2, "attribute_patch_count"), Num(2, "tag_patch_count"), Chunks("affected")>>
\* Ops are opaque, known or not; the schema_kind is not.
PatchOp == <<Num(1, "op_kind"), Num(4, "entry_id"), Blob(2, "payload")>>
PatchReads == <<Num(1, "schema_kind"), OneOf("schema_kind", {1, 2}), Num(8, "base_version"),
    Num(8, "new_version"), Many(2, "ops", PatchOp)>>
PatchWrites == <<Num(1, "schema_kind"), Num(8, "base_version"), Num(8, "new_version"),
    Many(2, "ops", PatchOp)>>
\* The arrays come in an order of their own, not in that of their mask bits.
FieldReads == <<Num(8, "logical_scene_id"), Coord("chunk_coord"), Num(8, "region_id"),
    Num(4, "tick_count"), Num(1, "field_mask"), Many(2, "macro_indices", <<Num(2, "i")>>),
    Flipped(0, 4, "temperature"), Flipped(1, 4, "potential"), Flipped(3, 4, "current"),
    Masked(2, 1, "ionization"), Masked(4, 1, "light"), Masked(5, 3, "light_color")>>
FieldWrites == <<Num(8, "logical_scene_id"), Coord("chunk_coord"), Num(8, "region_id"),
    Num(4, "tick_count"), Num(1, "field_mask"), Many(2, "macro_indices", <<Num(2, "i")>>),
    Flipped(0, 4, "temperature"), Flipped(1, 4, "potential"), Flipped(3, 4, "current"),
    Masked(2, 1, "ionization"), Masked(4, 1, "light"), Masked(5, 3, "light_color")>>
DestroyedReads == <<Num(8, "logical_scene_id"), Coord("chunk_coord"), Num(8, "region_id"),
    Num(1, "destroy_reason")>>
DestroyedWrites == <<Num(8, "logical_scene_id"), Coord("chunk_coord"), Num(8, "region_id"),
    Num(1, "destroy_reason")>>

\* Requests.  A prefab names no known references, and a decoder takes none.
Known == <<Coord("chunk_coord"), Num(8, "chunk_version")>>
SubscribeReads == <<Num(8, "request_id"), Num(8, "logical_scene_id"), Coord("center_chunk"),
    Num(1, "radius_l_inf"), Num(1, "want_snapshot"), Many(2, "known", Known)>>
SubscribeWrites == <<Num(8, "request_id"), Num(8, "logical_scene_id"), Coord("center_chunk"),
    Num(1, "radius_l_inf"), Num(1, "want_snapshot"), Many(2, "known", Known)>>
UnsubscribeReads == <<Num(8, "request_id"), Num(8, "logical_scene_id"), Chunks("chunks")>>
UnsubscribeWrites == <<Num(8, "request_id"), Num(8, "logical_scene_id"), Chunks("chunks")>>
IntentHead == <<Num(8, "request_id"), Num(4, "client_intent_seq"), Num(8, "logical_scene_id")>>
EditReads == IntentHead \o <<Num(1, "action"), Num(1, "target_granularity"), Vec3("target_world_micro"),
    Num(3, "face_normal"), Num(2, "material_id"), Num(4, "blueprint_ref"), Num(8, "object_ref"),
    Num(4, "part_ref"), Num(4, "attribute_patch_ref"), Num(8, "expected_chunk_version"),
    Num(4, "expected_cell_hash"), Num(8, "client_hint_hash")>>
EditWrites == IntentHead \o <<Num(1, "action"), Num(1, "target_granularity"), Vec3("target_world_micro"),
    Num(3, "face_normal"), Num(2, "material_id"), Num(4, "blueprint_ref"), Num(8, "object_ref"),
    Num(4, "part_ref"), Num(4, "attribute_patch_ref"), Num(8, "expected_chunk_version"),
    Num(4, "expected_cell_hash"), Num(8, "client_hint_hash")>>
NoRefs == <<OneOf("known_ref_count", {0}), OneOf("known_object_count", {0}), OneOf("known_cell_ref_count", {0})>>
PrefabWrites == IntentHead \o <<Num(8, "parcel_id"), Num(8, "known_parcel_build_epoch"),
    Num(8, "blueprint_id"), Num(4, "blueprint_version"), Vec3("anchor_world_micro"), Num(1, "rotation"),
    Num(2, "known_ref_count"), Num(2, "known_object_count"), Num(2, "known_cell_ref_count"),
    Num(4, "placement_flags")>>
PrefabReads == IntentHead \o <<Num(8, "parcel_id"), Num(8, "known_parcel_build_epoch"),
    Num(8, "blueprint_id"), Num(4, "blueprint_version"), Vec3("anchor_world_micro"), Num(1, "rotation"),
    Num(2, "known_ref_count"), Num(2, "known_object_count"), Num(2, "known_cell_ref_count")>>
    \o NoRefs \o <<Num(4, "placement_flags")>>
SurfaceIntentReads == IntentHead \o <<Num(1, "action"), Vec3("target_world_micro"), Num(1, "face"),
    Num(2, "surface_type_id"), Num(4, "attribute_set_ref"), Num(4, "tag_set_ref")>>
SurfaceIntentWrites == IntentHead \o <<Num(1, "action"), Vec3("target_world_micro"), Num(1, "face"),
    Num(2, "surface_type_id"), Num(4, "attribute_set_ref"), Num(4, "tag_set_ref")>>

VoxelReads ==
    (\h62 :> SnapshotReads) @@ (\h63 :> DeltaReads) @@ (\h68 :> IntentResultReads)
    @@ (\h69 :> InvalidateReads) @@ (\h6C :> ObjectStateReads) @@ (\h71 :> PatchReads)
    @@ (\h73 :> FieldReads) @@ (\h74 :> DestroyedReads)
VoxelWrites ==
    (\h62 :> SnapshotWrites) @@ (\h63 :> DeltaWrites) @@ (\h68 :> IntentResultWrites)
    @@ (\h69 :> InvalidateWrites) @@ (\h6C :> ObjectStateWrites) @@ (\h71 :> PatchWrites)
    @@ (\h73 :> FieldWrites) @@ (\h74 :> DestroyedWrites)
RequestReads ==
    (\h60 :> SubscribeReads) @@ (\h61 :> UnsubscribeReads) @@ (\h66 :> SurfaceIntentReads)
    @@ (\h67 :> PrefabReads) @@ (\h70 :> EditReads)
RequestWrites ==
    (\h60 :> SubscribeWrites) @@ (\h61 :> UnsubscribeWrites) @@ (\h66 :> SurfaceIntentWrites)
    @@ (\h67 :> PrefabWrites) @@ (\h70 :> EditWrites)
----------------------------------------------------------------------------
(* The other messages: the server's are only decoded here, the client's     *)
(* only encoded.  Shortest is what require_body_len asks of a body.         *)

EnterResult == <<Num(8, "packet_id"), Num(1, "ok"),
    If("ok", 0, 0, <<Vec3("location"), Num(4, "expected_seq")>>)>>
\* A ticket is looked for only where there is room for a port and a length.
LaneResult == <<Num(8, "packet_id"), Num(1, "ok"), If("ok", 0, 13, <<Num(2, "udp_port"), Blob(2, "ticket")>>)>>
Effect == <<Num(8, "source_cid"), Num(2, "skill_id"), Num(1, "cue_kind"), Num(8, "target_cid"),
    Vec3("origin"), Vec3("target_position"), Num(8, "radius"), Num(4, "duration_ms")>>
MoveFields == <<Vec3("location"), Vec3("velocity"), Vec3("acceleration"), Num(1, "movement_mode")>>
SessionReads ==
    (\h80 :> <<Num(8, "packet_id"), Num(1, "ok")>>)
    @@ (\h8B :> <<Num(4, "ack_seq"), Num(4, "auth_tick"), Num(8, "cid")>> \o MoveFields
               \o <<Num(4, "correction_flags"), Num(2, "fixed_dt_ms"), Num(8, "ground_z")>>)
    @@ (\h81 :> <<Num(8, "cid"), Vec3("location")>>)
    @@ (\h82 :> <<Num(8, "cid")>>)
    @@ (\h83 :> <<Num(8, "cid"), Num(4, "server_tick")>> \o MoveFields)
    @@ (\h84 :> EnterResult) @@ (\h87 :> LaneResult)
    @@ (\h88 :> <<Num(8, "packet_id"), Num(1, "ok")>>)
    @@ (\h85 :> <<Num(8, "packet_id"), Num(8, "client_send"), Num(8, "server_recv"), Num(8, "server_send")>>)
    @@ (\h86 :> <<Num(8, "timestamp")>>)
ActorReads ==
    (\h89 :> <<Num(8, "cid"), Blob(2, "username"), Blob(2, "text")>>)
    @@ (\h8A :> <<Num(8, "cid"), Num(2, "skill_id"), Vec3("location")>>)
    @@ (\h8C :> <<Num(8, "cid"), Num(2, "hp"), Num(2, "max_hp"), Num(1, "alive")>>)
    @@ (\h8D :> <<Num(8, "source_cid"), Num(8, "target_cid"), Num(2, "skill_id"), Num(2, "damage"),
                 Num(2, "hp_after"), Vec3("location")>>)
    @@ (\h8E :> <<Num(8, "cid"), Num(1, "kind"), Blob(2, "name")>>)
    @@ (\h8F :> Effect)
ControlReads == SessionReads @@ ActorReads
Shortest ==
    (\h80 :> 9) @@ (\h81 :> 32) @@ (\h82 :> 8) @@ (\h83 :> 85) @@ (\h84 :> 9) @@ (\h85 :> 32)
    @@ (\h86 :> 8) @@ (\h87 :> 9) @@ (\h88 :> 9) @@ (\h89 :> 10) @@ (\h8A :> 34) @@ (\h8B :> 103)
    @@ (\h8C :> 13) @@ (\h8D :> 46) @@ (\h8E :> 11) @@ (\h8F :> 79)
ClientWrites ==
    (1 :> <<Num(4, "seq"), Num(4, "client_tick"), Num(2, "dt_ms"), Num(4, "dir_x"), Num(4, "dir_y"),
           Num(4, "speed_scale"), Num(2, "movement_flags")>>)
    @@ (2 :> <<Num(8, "request_id"), Num(8, "cid")>>)
    @@ (3 :> <<Num(8, "request_id"), Num(8, "client_send_ts")>>)
    @@ (4 :> <<Num(8, "timestamp")>>)
    @@ (5 :> <<Num(8, "request_id"), Blob(2, "username"), Blob(2, "token")>>)
    @@ (6 :> <<Num(8, "request_id")>>)
    @@ (7 :> <<Num(8, "request_id"), Blob(2, "ticket")>>)
    @@ (8 :> <<Num(8, "request_id"), Blob(2, "text")>>)
    @@ (9 :> <<Num(8, "request_id"), Num(2, "skill_id"), Num(1, "target_kind"), Num(8, "target_cid"),
              Vec3("target_position")>>)

\* What either side may say at all.
ServerOps == DOMAIN ControlReads \cup DOMAIN VoxelReads
ClientOps == DOMAIN ClientWrites \cup DOMAIN RequestWrites
ASSUME OpsAssumption == /\ \A m \in Messages \cup Followers : m.op \in ServerOps
                        /\ \A m \in Requests : m.op \in ClientOps
----------------------------------------------------------------------------
(* Writing a layout.                                                        *)

BE(n, w) == [k \in 1..w |-> (n \div 256^(w - k)) % 256]
Bit(mask, bit) == (mask \div 2^bit) % 2 = 1

RECURSIVE Written(_, _)
WriteField(fd, m) ==
    CASE fd.op = "num" -> m[fd.f]
      [] fd.op = "many" -> BE(Len(m[fd.f]), fd.w)
                           \o FlattenSeq([k \in DOMAIN m[fd.f] |-> Written(fd.of, m[fd.f][k])])
      [] fd.op = "rest" -> FlattenSeq([k \in DOMAIN m[fd.f] |-> Written(fd.of, m[fd.f][k])])
      [] fd.op = "blob" -> BE(Len(m[fd.f]), fd.w) \o m[fd.f]
      [] fd.op = "sized" ->
            LET tag == m[fd.tag][1]
                data == IF tag \in DOMAIN fd.of THEN Written(fd.of[tag], m[fd.f]) ELSE m[fd.f]
            IN  BE(Len(data), fd.w) \o data
      [] fd.op = "choice" -> Written(fd.of[m[fd.tag][1]], m[fd.f])
      [] fd.op = "masked" -> IF Bit(m["field_mask"][1], fd.bit) THEN FlattenSeq(m[fd.f]) ELSE <<>>
      [] fd.op = "flipped" -> IF Bit(m["field_mask"][1], fd.bit)
                              THEN FlattenSeq([k \in DOMAIN m[fd.f] |-> Reverse(m[fd.f][k])]) ELSE <<>>
      [] fd.op = "if" -> IF m[fd.f][1] = fd.byte THEN Written(fd.then, m) ELSE <<>>
      [] fd.op = "oneof" -> <<>>
Written(layout, m) == FlattenSeq([k \in DOMAIN layout |-> WriteField(layout[k], m)])

(* Reading a layout: a cursor [ok, at, m] moves over the bytes and nothing  *)
(* is read past their end.                                                  *)

Bad == [ok |-> FALSE, at |-> 0, m |-> <<>>]
From(at) == [ok |-> TRUE, at |-> at, m |-> <<>>]
Number(bytes) == FoldLeft(LAMBDA acc, b : IF acc > 65535 THEN acc ELSE 256 * acc + b, 0, bytes)

\* As if what is missing were zero.
TakeShort(b, c, n, f) ==
    [c EXCEPT !.at = c.at + n,
              !.m = c.m @@ (f :> [k \in 1..n |-> IF c.at + k > Len(b) THEN 0 ELSE b[c.at + k]])]
Take(b, c, n, f) ==
    IF c.at + n > Len(b) THEN Bad
    ELSE [c EXCEPT !.at = c.at + n, !.m = c.m @@ (f :> SubSeq(b, c.at + 1, c.at + n))]
Count(b, c, w) == Number(SubSeq(b, c.at + 1, c.at + w))

RECURSIVE ReadAll(_, _, _)
RECURSIVE ReadItems(_, _, _, _)
\* n of them, or as many as there is room for where n is below 0.
ReadItems(of, b, c, n) ==
    IF ~c.ok \/ n = 0 \/ (n < 0 /\ c.at = Len(b)) THEN c
    ELSE LET item == ReadAll(of, b, From(c.at))
         IN  IF item.ok
             THEN ReadItems(of, b, [c EXCEPT !.at = item.at, !.m = Append(c.m, item.m)], n - 1)
             ELSE Bad

Keep(c, inner, f, v) == IF inner.ok THEN [c EXCEPT !.at = inner.at, !.m = c.m @@ (f :> v)] ELSE Bad
Items(of, b, c, from, n, f) ==
    LET items == ReadItems(of, b, From(from), n) IN Keep(c, items, f, items.m)
Array(b, c, size, n, f, flipped) ==
    LET all == ReadItems(<<Num(size, "x")>>, b, From(c.at), n)
        v == [k \in DOMAIN all.m |-> IF flipped THEN Reverse(all.m[k]["x"]) ELSE all.m[k]["x"]]
    IN  Keep(c, all, f, v)

ReadField(fd, b, c) ==
    CASE fd.op = "num" -> Take(b, c, fd.n, fd.f)
      [] fd.op = "many" ->
            IF c.at + fd.w > Len(b) THEN Bad
            ELSE Items(fd.of, b, c, c.at + fd.w, Count(b, c, fd.w), fd.f)
      [] fd.op = "rest" -> Items(fd.of, b, c, c.at, -1, fd.f)
      [] fd.op = "blob" ->
            IF c.at + fd.w > Len(b) THEN Bad
            ELSE Take(b, [c EXCEPT !.at = @ + fd.w], Count(b, c, fd.w), fd.f)
      [] fd.op = "sized" ->
            IF c.at + fd.w > Len(b) THEN Bad
            ELSE LET data == Take(b, [c EXCEPT !.at = @ + fd.w], Count(b, c, fd.w), fd.f)
                     tag == c.m[fd.tag][1]
                 IN  IF ~data.ok \/ tag \notin DOMAIN fd.of THEN data
                     ELSE LET inner == ReadAll(fd.of[tag], data.m[fd.f], From(0))
                          IN  IF inner.ok /\ inner.at = Len(data.m[fd.f])
                              THEN Keep(c, data, fd.f, inner.m) ELSE Bad
      [] fd.op = "choice" ->
            IF c.m[fd.tag][1] \notin DOMAIN fd.of THEN Bad
            ELSE LET inner == ReadAll(fd.of[c.m[fd.tag][1]], b, From(c.at)) IN Keep(c, inner, fd.f, inner.m)
      [] fd.op \in {"masked", "flipped"} ->
            IF Bit(c.m["field_mask"][1], fd.bit)
            THEN Array(b, c, fd.n, Len(c.m["macro_indices"]), fd.f, fd.op = "flipped")
            ELSE [c EXCEPT !.m = @ @@ (fd.f :> <<>>)]
      [] fd.op = "if" ->
            IF c.m[fd.f][1] = fd.byte /\ Len(b) >= fd.room THEN ReadAll(fd.then, b, c) ELSE c
      [] fd.op = "oneof" -> IF Number(c.m[fd.f]) \in fd.bytes THEN c ELSE Bad

ReadAll(layout, b, c) ==
    FoldLeft(LAMBDA d, fd : IF d.ok THEN ReadField(fd, b, d) ELSE d, c, layout)

\* The payload's first byte says what it is.  A voxel message has to end where
\* its payload does, another one may be followed by anything.
Refused == [ok |-> FALSE, op |-> 0, body |-> <<>>]
DecodeBody(op, body) ==
    IF op \in DOMAIN ControlReads
    THEN IF Len(body) < Shortest[op] \/ (op = \h80 /\ Len(body) # 9) THEN Bad
         ELSE ReadAll(ControlReads[op], body, From(0))
    ELSE IF op \in DOMAIN VoxelReads
    THEN LET c == ReadAll(VoxelReads[op], body, From(0)) IN IF c.at = Len(body) THEN c ELSE Bad
    ELSE Bad
DecodePayload(payload) ==
    IF payload = <<>> THEN Refused
    ELSE LET c == DecodeBody(payload[1], Tail(payload))
         IN  IF c.ok THEN [ok |-> TRUE, op |-> payload[1], body |-> c.m] ELSE Refused

\* What the gate sends, and what the client does.
ServerPayload(msg) ==
    <<msg.op>> \o Written(IF msg.op \in DOMAIN ControlReads THEN ControlReads[msg.op]
                          ELSE VoxelWrites[msg.op], msg.body)
ClientPayload(msg) ==
    <<msg.op>> \o Written(IF msg.op \in DOMAIN ClientWrites THEN ClientWrites[msg.op]
                          ELSE RequestWrites[msg.op], msg.body)
Frame(payload) == BE(Len(payload), 4) \o payload
----------------------------------------------------------------------------
(* A movement message as prediction and the remote actors take it.          *)

Modes == <<"grounded", "airborne", "disabled", "scripted">>
\* As if the server's own mode for a displaced actor were not known.
DecodeModeOfOld(raw) == IF raw \in 1..2 THEN Modes[raw + 1] ELSE "grounded"
DecodeMode(raw) == IF raw \in 1..3 THEN Modes[raw + 1] ELSE "grounded"
MoveOf(m) == [location |-> m["location"], velocity |-> m["velocity"],
              acceleration |-> m["acceleration"], mode |-> DecodeMode(m["movement_mode"][1])]
AckFromServer(msg) ==
    IF msg.op = \h8B
    THEN <<[seq |-> msg.body["ack_seq"], tick |-> msg.body["auth_tick"],
            flags |-> msg.body["correction_flags"], move |-> MoveOf(msg.body)]>>
    ELSE <<>>
RemoteMoveFromServer(msg) ==
    IF msg.op = \h83
    THEN <<[cid |-> msg.body["cid"], tick |-> msg.body["server_tick"], move |-> MoveOf(msg.body)]>>
    ELSE <<>>
----------------------------------------------------------------------------
(* The stream.  The gate writes frames; a read brings some piece of what is *)
(* under way, and then every frame that is whole is cut out and decoded.    *)

VARIABLES
    sent,    \* messages the gate sent, in order
    wire,    \* bytes under way
    buffer,  \* bytes read and not yet cut into frames
    got      \* what the frames were decoded to, in order

vars == <<sent, wire, buffer, got>>

Whole(b) == Len(b) >= 4 /\ Len(b) >= Number(SubSeq(b, 1, 4)) + 4
FrameEnd(b) == Number(SubSeq(b, 1, 4)) + 4

\* As if one frame were cut out of each piece.
TakeOne(b, taken) ==
    IF Whole(b) THEN [rest |-> SubSeq(b, FrameEnd(b) + 1, Len(b)),
                      taken |-> Append(taken, DecodePayload(SubSeq(b, 5, FrameEnd(b))))]
    ELSE [rest |-> b, taken |-> taken]
RECURSIVE TakeFrames(_, _)
TakeFrames(b, taken) ==
    IF ~Whole(b) THEN [rest |-> b, taken |-> taken]
    ELSE TakeFrames(SubSeq(b, FrameEnd(b) + 1, Len(b)),
                    Append(taken, DecodePayload(SubSeq(b, 5, FrameEnd(b)))))

Send ==
    /\ Len(sent) < MaxSent
    /\ \E msg \in IF sent = <<>> THEN Messages ELSE Followers :
          /\ sent' = Append(sent, msg)
          /\ wire' = wire \o Frame(ServerPayload(msg))
    /\ UNCHANGED <<buffer, got>>

Arrive ==
    /\ wire # <<>>
    /\ \E n \in Pieces :
          LET size == IF n > Len(wire) THEN Len(wire) ELSE n
              out == TakeFrames(buffer \o SubSeq(wire, 1, size), got)
          IN  /\ wire' = SubSeq(wire, size + 1, Len(wire))
              /\ buffer' = out.rest /\ got' = out.taken
    /\ UNCHANGED sent

Init == sent = <<>> /\ wire = <<>> /\ buffer = <<>> /\ got = <<>>
Next == Send \/ Arrive
Spec == Init /\ [][Next]_vars
----------------------------------------------------------------------------
Right(k) == got[k] = [ok |-> TRUE, op |-> sent[k].op, body |-> sent[k].body]

\* However the stream is cut, frames come out whole and in order, each decoded
\* to the message it was made of, and as soon as its last byte is read: with
\* nothing under way nothing is left over (take_frame, decode_server_payload).
FramesInOrder ==
    /\ Len(got) <= Len(sent) /\ \A k \in DOMAIN got : Right(k)
    /\ wire = <<>> => Len(got) = Len(sent) /\ buffer = <<>>

\* What is cut short is refused, never read past its end, except a lane's
\* answer, which may go without a port and a ticket; a voxel payload longer
\* than its message is refused, too (require_body_len, Reader, expect_end).
CutIsRefused ==
    Len(sent) = 1 /\ got = <<>> /\ buffer = <<>> =>
        LET payload == ServerPayload(sent[1])
        IN  /\ \A n \in 0..Len(payload) - 1 :
                  DecodePayload(SubSeq(payload, 1, n)).ok => sent[1].op = \h87 /\ n \in 10..13
            /\ sent[1].op \in DOMAIN VoxelReads => ~DecodePayload(Append(payload, 0)).ok

\* What the client asks for is what the mirrored decoders read; and modes come
\* back as the gate meant them, so that an actor the server displaces is not
\* taken for one that walks (decode_mode).
ReadBack ==
    /\ sent = <<>> =>
        \A msg \in Requests : msg.op \in DOMAIN RequestReads =>
            LET body == Tail(ClientPayload(msg))
                c == ReadAll(RequestReads[msg.op], body, From(0))
            IN  c.ok /\ c.at = Len(body) /\ c.m = msg.body
    /\ \A k \in DOMAIN got : got[k].ok =>
        \A move \in ToSet(AckFromServer(got[k])) \cup ToSet(RemoteMoveFromServer(got[k])) :
            move.move.mode = Modes[sent[k].body["movement_mode"][1] + 1]
============================================================================
