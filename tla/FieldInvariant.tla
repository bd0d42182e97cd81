---------------------------- MODULE FieldInvariant ----------------------------
(* The inductive invariant of FieldView: what holds between the systems of a    *)
(* frame, where the field store has changed and the entities have not yet.      *)
EXTENDS FieldView

(* What the server tells. *)
FieldsTold == {m.field : m \in {n \in Messages : n.kind = "field"}}
Events == [region : Regions, field : FieldsTold]
Bursts == {[flags |-> m.flags, chunks |-> m.chunks] : m \in {n \in Messages : n.kind = "object"}}

(* An authority. *)
AppOK(a) ==
  /\ DOMAIN a = DOMAIN EmptyApp
  /\ DOMAIN a.held \subseteq Chunks /\ a.remesh \subseteq Int /\ IsFiniteSet(a.remesh)
  /\ DOMAIN a.regions \subseteq Regions /\ \A r \in DOMAIN a.regions : IsField(a.regions[r])
  /\ a.dirty \subseteq Regions /\ a.glowDirty \subseteq Regions /\ a.logicDirty \subseteq Chunks
  /\ a.electric \in Seq(Events) /\ a.discharges \in Seq(Events)
  /\ \A i \in DOMAIN a.discharges : Has(a.discharges[i].field, "ionization")
  /\ a.destroyed \in Seq(Regions) /\ a.bursts \in Seq(Bursts)

(* A pool of records with these fields, in order of age. *)
PoolOK(s, fields, life, cap) ==
  /\ s \in Seq(Range(s)) /\ \A i \in DOMAIN s : fields \subseteq DOMAIN s[i]
  /\ OldestFirst(s, life, cap)

Types ==
  /\ TypeOK /\ AppOK(app)
  /\ PoolOK(bolts, {"source", "target", "age"}, BoltLife, MaxBolts)
  /\ PoolOK(smoke, {"region", "age"}, SmokeLife, MaxSmoke)
  /\ PoolOK(debris, {"age"}, DebrisLife, MaxDebris)

(* The events of a frame are gone once the effects took them, and its marks     *)
(* once it is drawn; the chunks that were loaded first are still to be drawn.   *)
Drained ==
  /\ phase # "Logic" => /\ app.electric = << >> /\ app.discharges = << >>
                        /\ app.destroyed = << >> /\ app.bursts = << >>
  /\ phase = "Net" => app.dirty = {} /\ app.glowDirty = {} /\ app.logicDirty = {}

(* What is not marked is drawn as it is. *)
OverlaysDrawn ==
  /\ \A key \in DOMAIN overlays : overlays[key] # {}
  /\ \A r \in Regions \ app.dirty, kind \in Kinds :
       ShownAt(overlays, <<r, kind>>) = RegionMesh(app, r, kind)
GlowDrawn ==
  /\ \A r \in DOMAIN glow : glow[r] # {}
  /\ \A r \in Regions \ app.glowDirty : ShownAt(glow, r) = RegionMesh(app, r, "glow")
ReadoutDrawn == \A k \in Chunks \ (rewired \cup app.logicDirty) : ReadoutShown(k)

(* A chunk that does not wait, in the queue or to be put there, is drawn with   *)
(* the light of its loaded neighbours, and with any light of those that are not *)
(* loaded.                                                                      *)
Waiting == Range(queue) \cup app.remesh \cup {k \in DOMAIN app.held : {k - 1, k + 1} \cap app.remesh # {}}
LitBy(a, k, g) == \A j \in k - 1..k + 1 : Loaded(a.held, j) => g[j] = BlockGrid(a, j)
MeshWith(a, k, g) == LET m == ChunkRenderMesh(a.held, k, g) IN m.quads \cup m.micro
TerrainDrawn ==
  /\ \A key \in DOMAIN terrain : key[1] \in DOMAIN app.held \cup app.remesh \cup Range(queue)
  /\ \A k \in DOMAIN app.held \ Waiting :
       \E g : LitBy(app, k, g) /\ ShownAt(terrain, <<k, "mesh">>) = MeshWith(app, k, g)

(* While the effects are due, a region that is quiet is one whose smoke they    *)
(* clear.                                                                       *)
LastOf(events, r, i) == events[i].region = r /\ \A j \in DOMAIN events : events[j].region = r => j <= i
Clears(r) ==
  \/ \E i \in DOMAIN app.electric : LastOf(app.electric, r, i) /\ ~ActiveField(app.electric[i].field)
  \/ /\ \A i \in DOMAIN app.electric : app.electric[i].region # r
     /\ \/ \E i \in DOMAIN app.destroyed : app.destroyed[i] = r
        \/ \A i \in DOMAIN smoke : smoke[i].region # r
SmokeCools == phase = "Logic" => \A r \in quiet : Clears(r)

FieldInv ==
  /\ Types /\ Drained /\ OverlaysDrawn /\ GlowDrawn /\ ReadoutDrawn /\ TerrainDrawn
  /\ BoltOnChannel /\ SmokeIsWarm /\ SmokeCools
==============================================================================
