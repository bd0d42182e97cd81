---------------------------- MODULE VoxelView_proofs ----------------------------
(* Proofs about VoxelView.  A frame takes any number of messages at once, in    *)
(* two folds, so the module begins with what a fold keeps.  Each conjunct of    *)
(* ViewInv is then kept by every step; the theorems are at the end.             *)
EXTENDS VoxelInvariant, FiniteSetTheorems, SequenceTheorems, WellFoundedInduction, TLAPS

--------------------------------------------------------------------------------
(* Induction over a set of numbers, and the runs of a step function.            *)

(* Every natural number is in a set that goes on from zero. *)
LEMMA Reached ==
  ASSUME NEW T, 0 \in T, \A k \in Nat : k \in T => k + 1 \in T
  PROVE  \A k \in Nat : k \in T
<1> SUFFICES ASSUME NEW k \in Nat, k \notin T PROVE FALSE
  OBVIOUS
<1> DEFINE R == OpToRel(<, Nat)
<1> DEFINE W == {n \in Nat : n \notin T}
<1>1. IsWellFoundedOn(R, Nat)
  BY NatLessThanWellFounded
<1>2. W \subseteq Nat /\ W # {}
  OBVIOUS
<1>3. PICK n \in W : \A m \in W : ~(<<m, n>> \in R)
  <2> HIDE DEF R, W
  <2> QED
    BY <1>1, <1>2, WFMin
<1>4. \A m \in Nat : m < n => m \in T
  <2> SUFFICES ASSUME NEW m \in Nat, m < n, m \notin T PROVE FALSE
    OBVIOUS
  <2>1. <<m, n>> \in R
    BY DEF OpToRel
  <2> QED
    BY <1>3, <2>1
<1>5. n \in Nat /\ n # 0
  OBVIOUS
<1>6. n - 1 \in Nat /\ n - 1 < n
  BY <1>5
<1>7. n - 1 \in T
  BY <1>4, <1>6
<1>8. n - 1 + 1 \in T
  BY <1>6, <1>7
<1> QED
  BY <1>5, <1>6, <1>8

(* By g every step from S with a message of M ends in S. *)
Closed(g, S, M) == \A x \in S, m \in M : g[<<x, m>>] \in S

(* f goes through q from b, by g. *)
Goes(g, b, q, f) == f[0] = b /\ \A i \in 1..Len(q) : f[i] = g[<<f[i - 1], q[i]>>]
(* Such an f with all its values in S. *)
IsRun(S, g, b, q, f) == f \in [0..Len(q) -> S] /\ Goes(g, b, q, f)

(* There is a run. *)
LEMMA RunExists ==
  ASSUME NEW S, NEW M, NEW g, Closed(g, S, M), NEW b \in S, NEW q \in Seq(M)
  PROVE  \E f : IsRun(S, g, b, q, f)
<1> DEFINE upto(f, k) == f \in [0..k -> S] /\ f[0] = b /\ \A i \in 1..k : f[i] = g[<<f[i - 1], q[i]>>]
<1> DEFINE T == {k \in Nat : k <= Len(q) => \E f : upto(f, k)}
<1>1. Len(q) \in Nat
  BY LenProperties
<1>2. 0 \in T
  <2> DEFINE f == [i \in 0..0 |-> b]
  <2>1. f \in [0..0 -> S] /\ f[0] = b /\ 1..0 = {}
    OBVIOUS
  <2>2. upto(f, 0)
    BY <2>1
  <2> QED
    BY <2>2
<1>3. ASSUME NEW k \in Nat, k \in T PROVE k + 1 \in T
  <2> SUFFICES ASSUME k + 1 <= Len(q) PROVE \E f : upto(f, k + 1)
    OBVIOUS
  <2>1. k <= Len(q)
    BY <1>1
  <2>2. PICK f : upto(f, k)
    BY <1>3, <2>1
  <2>3. q[k + 1] \in M /\ f[k] \in S
    <3>1. k + 1 \in 1..Len(q) /\ k \in 0..k
      BY <1>1
    <3> QED
      BY <2>2, <3>1, ElementOfSeq
  <2> DEFINE y == g[<<f[k], q[k + 1]>>]
  <2> DEFINE h == [i \in 0..k + 1 |-> IF i = k + 1 THEN y ELSE f[i]]
  <2>4. y \in S
    BY <2>3 DEF Closed
  <2>5. \A i \in 0..k : h[i] = f[i] /\ i \in 0..k + 1
    OBVIOUS
  <2>6. h[k + 1] = y /\ h[k] = f[k] /\ h[0] = b
    BY <2>2, <2>5
  <2>7. h \in [0..k + 1 -> S]
    <3>1. \A i \in 0..k + 1 : i = k + 1 \/ i \in 0..k
      OBVIOUS
    <3>2. \A i \in 0..k : f[i] \in S
      BY <2>2
    <3> HIDE DEF y
    <3> QED
      BY <2>4, <3>1, <3>2
  <2>8. ASSUME NEW i \in 1..k + 1 PROVE h[i] = g[<<h[i - 1], q[i]>>]
    <3>1. CASE i = k + 1
      <4>1. i - 1 = k
        BY <3>1
      <4> HIDE DEF h
      <4> QED
        BY <2>6, <3>1, <4>1
    <3>2. CASE i # k + 1
      <4>1. i \in 1..k /\ i \in 0..k /\ i - 1 \in 0..k
        BY <3>2
      <4> HIDE DEF h
      <4> QED
        BY <2>2, <2>5, <4>1
    <3> QED
      BY <3>1, <3>2
  <2> HIDE DEF h, y
  <2> QED
    BY <2>6, <2>7, <2>8
<1> HIDE DEF upto
<1>4. Len(q) \in T
  <2> HIDE DEF T
  <2> QED
    BY <1>1, <1>2, <1>3, Reached
<1>5. PICK f : upto(f, Len(q))
  BY <1>1, <1>4
<1> QED
  BY <1>5 DEF upto, IsRun, Goes

(* What goes on along a run holds at its end. *)
LEMMA RunKeeps ==
  ASSUME NEW S, NEW M, NEW g, Closed(g, S, M), NEW b \in S, NEW q \in Seq(M), NEW f,
         IsRun(S, g, b, q, f), NEW T, b \in T,
         \A i \in 1..Len(q), x \in S : x \in T => g[<<x, q[i]>>] \in T
  PROVE  f[Len(q)] \in T /\ f[Len(q)] \in S
<1> DEFINE U == {k \in Nat : k <= Len(q) => f[k] \in T}
<1>1. Len(q) \in Nat /\ Len(q) \in 0..Len(q)
  BY LenProperties
<1>2. 0 \in U
  BY DEF IsRun, Goes
<1>3. ASSUME NEW k \in Nat, k \in U PROVE k + 1 \in U
  <2> SUFFICES ASSUME k + 1 <= Len(q) PROVE f[k + 1] \in T
    OBVIOUS
  <2>1. k \in 0..Len(q) /\ k <= Len(q) /\ k + 1 \in 1..Len(q) /\ k + 1 - 1 = k
    BY <1>1
  <2>2. f[k] \in T /\ f[k] \in S /\ f[k + 1] = g[<<f[k], q[k + 1]>>]
    BY <1>3, <2>1 DEF IsRun, Goes
  <2> QED
    BY <2>1, <2>2
<1>4. Len(q) \in U
  <2> HIDE DEF U
  <2> QED
    BY <1>1, <1>2, <1>3, Reached
<1>5. f[Len(q)] \in S
  BY <1>1 DEF IsRun, Goes
<1> QED
  BY <1>1, <1>4, <1>5

(* There is one run only. *)
LEMMA SameRun ==
  ASSUME NEW n \in Nat, NEW f, NEW h, h[0] = f[0],
         \A i \in 1..n : h[i - 1] = f[i - 1] => h[i] = f[i]
  PROVE  \A k \in 0..n : h[k] = f[k]
<1> DEFINE U == {k \in Nat : k <= n => h[k] = f[k]}
<1>1. 0 \in U
  OBVIOUS
<1>2. ASSUME NEW k \in Nat, k \in U PROVE k + 1 \in U
  <2> SUFFICES ASSUME k + 1 <= n PROVE h[k + 1] = f[k + 1]
    OBVIOUS
  <2>1. k <= n /\ k + 1 \in 1..n /\ k + 1 - 1 = k
    OBVIOUS
  <2>2. h[k] = f[k]
    BY <1>2, <2>1
  <2>3. h[k + 1 - 1] = f[k + 1 - 1] => h[k + 1] = f[k + 1]
    BY <2>1
  <2> QED
    BY <2>1, <2>2, <2>3
<1>3. \A k \in Nat : k \in U
  <2> HIDE DEF U
  <2> QED
    BY <1>1, <1>2, Reached
<1> QED
  BY <1>3

(* One step more. *)
LEMMA RunAppends ==
  ASSUME NEW S, NEW M, NEW g, Closed(g, S, M), NEW b \in S, NEW q \in Seq(M), NEW m \in M,
         NEW f, NEW h, IsRun(S, g, b, q, f), IsRun(S, g, b, Append(q, m), h)
  PROVE  h[Len(q) + 1] = g[<<f[Len(q)], m>>] /\ Len(Append(q, m)) = Len(q) + 1
<1>1. /\ Len(q) \in Nat /\ Len(Append(q, m)) = Len(q) + 1 /\ Append(q, m)[Len(q) + 1] = m
      /\ \A i \in 1..Len(q) : Append(q, m)[i] = q[i]
  BY LenProperties
<1>2. \A i \in 1..Len(q) : i \in 1..Len(q) + 1
  BY <1>1
<1>3. \A i \in 1..Len(q) : h[i - 1] = f[i - 1] => h[i] = f[i]
  BY <1>1, <1>2 DEF IsRun, Goes
<1>4. h[0] = f[0]
  BY DEF IsRun, Goes
<1>5. h[Len(q)] = f[Len(q)]
  <2>1. \A k \in 0..Len(q) : h[k] = f[k]
    BY <1>1, <1>3, <1>4, SameRun
  <2> QED
    BY <1>1, <2>1
<1>6. Len(q) + 1 \in 1..Len(q) + 1 /\ Len(q) + 1 - 1 = Len(q)
  BY <1>1
<1>7. \A i \in 1..Len(q) + 1 : h[i] = g[<<h[i - 1], Append(q, m)[i]>>]
  BY <1>1 DEF IsRun, Goes
<1> DEFINE before == h[Len(q) + 1 - 1]
<1> DEFINE last == Append(q, m)[Len(q) + 1]
<1>8. h[Len(q) + 1] = g[<<before, last>>]
  BY <1>6, <1>7
<1>9. before = f[Len(q)] /\ last = m
  BY <1>1, <1>5, <1>6
<1> HIDE DEF before, last
<1>10. h[Len(q) + 1] = g[<<f[Len(q)], m>>]
  BY <1>8, <1>9
<1>11. Len(Append(q, m)) = Len(q) + 1
  BY <1>1
<1> QED
  BY <1>10, <1>11

--------------------------------------------------------------------------------
(* Types. *)

(* Numbers and constants. *)
LEMMA Constants ==
  /\ FirstChunk \in Int /\ LastChunk \in Int /\ Chunks \subseteq Int /\ LightChunk \in Chunks
  /\ NoCenter \notin Int /\ TileSize \in Nat \ {0} /\ Radius \in Nat
  /\ MaxRetries \in Nat \ {0} /\ Budget \in Nat \ {0} /\ Spawns \subseteq Chunks /\ Cached \subseteq Chunks
<1>1. /\ FirstChunk \in Int /\ LastChunk \in Int /\ LightChunk \in Chunks
      /\ NoCenter \notin Int /\ TileSize \in Nat \ {0} /\ Radius = TileSize + TileSize \div 2
      /\ MaxRetries \in Nat \ {0} /\ Budget \in Nat \ {0} /\ Spawns \subseteq Chunks /\ Cached \subseteq Chunks
  BY WindowAssumption
<1>2. Chunks \subseteq Int
  BY <1>1 DEF Chunks
<1>3. Radius \in Nat
  BY <1>1
<1> QED
  BY <1>1, <1>2, <1>3

(* Centers of tiles are coordinates. *)
LEMMA CenterInts == Centers \subseteq Int /\ NoCenter \notin Centers /\ \A c \in Chunks : CenterOf(TileOf(c)) \in Centers
<1>1. ASSUME NEW c \in Chunks PROVE CenterOf(TileOf(c)) \in Int
  <2>1. c \in Int /\ TileSize \in Nat \ {0}
    BY Constants
  <2>2. c \div TileSize \in Int /\ TileSize \div 2 \in Int
    BY <2>1
  <2>3. \A k \in Int, t \in Int : k * t \in Int
    OBVIOUS
  <2> QED
    BY <2>1, <2>2, <2>3 DEF CenterOf, TileOf
<1> QED
  BY <1>1, Constants DEF Centers

(* Entries of the store. *)
LEMMA StoreFacts ==
  ASSUME NEW f \in Stores
  PROVE  /\ DOMAIN f \subseteq Chunks
         /\ \A c \in DOMAIN f : f[c] \in Truths /\ f[c].version \in Versions /\ f[c].edits = 1..f[c].version
         /\ \A c \in Chunks, x \in Truths : Put(f, c, x) \in Stores
         /\ \A c \in Chunks : Drop(f, c) \in Stores
         /\ \A C : [c \in DOMAIN f \ C |-> f[c]] \in Stores
<1>1. PICK D \in SUBSET Chunks : f \in [D -> Truths]
  BY DEF Stores
<1>2. DOMAIN f = D /\ \A c \in D : f[c] \in Truths
  BY <1>1
<1>3. ASSUME NEW c \in Chunks, NEW x \in Truths PROVE Put(f, c, x) \in Stores
  <2>1. Put(f, c, x) \in [D \cup {c} -> Truths] /\ D \cup {c} \in SUBSET Chunks
    BY <1>2 DEF Put
  <2> QED
    BY <2>1 DEF Stores
<1>4. ASSUME NEW C PROVE [c \in DOMAIN f \ C |-> f[c]] \in Stores
  <2>1. [c \in DOMAIN f \ C |-> f[c]] \in [D \ C -> Truths] /\ D \ C \in SUBSET Chunks
    BY <1>2
  <2> QED
    BY <2>1 DEF Stores
<1>5. \A x \in Truths : x.version \in Versions /\ x.edits = 1..x.version
  BY DEF Truths
<1> QED
  BY <1>2, <1>3, <1>4, <1>5 DEF Drop

(* The members of an app. *)
LEMMA AppFacts ==
  ASSUME NEW a \in Apps
  PROVE  /\ a.joined \in BOOLEAN /\ a.center \in {NoCenter} \cup Centers /\ a.attempts \in 0..MaxRetries
         /\ a.held \in Stores /\ a.dirty \subseteq Chunks /\ a.light \in 0..2 /\ a.gate \subseteq Chunks
         /\ a.wanted \subseteq Chunks /\ a.inbox \in Seq(Payloads) /\ a.out \in Seq(Commands)
         /\ Held(a) \subseteq Chunks /\ Held(a) = DOMAIN a.held
<1>1. /\ a.joined \in BOOLEAN /\ a.center \in {NoCenter} \cup Centers /\ a.attempts \in 0..MaxRetries
      /\ a.held \in Stores /\ a.dirty \subseteq Chunks /\ a.light \in 0..2 /\ a.gate \subseteq Chunks
      /\ a.wanted \subseteq Chunks /\ a.inbox \in Seq(Payloads) /\ a.out \in Seq(Commands)
  BY DEF Apps
<1> QED
  BY <1>1, StoreFacts DEF Held

(* An app takes a voxel message. *)
LEMMA IngestTyped ==
  ASSUME NEW a \in Apps, NEW m \in Payloads
  PROVE  /\ Ingest(a, m) \in Apps
         /\ Ingest(a, m).joined = a.joined /\ Ingest(a, m).center = a.center
         /\ Ingest(a, m).attempts = a.attempts /\ Ingest(a, m).out = a.out /\ Ingest(a, m).inbox = a.inbox
         /\ m.kind = "snapshot" => Ingest(a, m) = IngestSnapshot(a, m) /\ m.chunk \in Chunks /\ m.version \in Versions
         /\ m.kind = "delta" => Ingest(a, m) = IngestDelta(a, m) /\ m.chunk \in Chunks /\ m.base \in Versions
         /\ m.kind = "invalidate" => Ingest(a, m) = IngestInvalidate(a, m) /\ m.chunk \in Chunks
         /\ m.kind = "light" => Ingest(a, m) = IngestLight(a, m) /\ m.light \in 0..2
         /\ m.kind \in {"snapshot", "delta", "invalidate", "light"}
<1> DEFINE b == Ingest(a, m)
<1> DEFINE ok(x) == x \in Apps /\ x.joined = a.joined /\ x.center = a.center
                      /\ x.attempts = a.attempts /\ x.out = a.out /\ x.inbox = a.inbox
<1>f. /\ a.held \in Stores /\ a.dirty \subseteq Chunks /\ a.light \in 0..2 /\ a.gate \subseteq Chunks
      /\ a.wanted \subseteq Chunks /\ LightChunk \in Chunks
  BY AppFacts, Constants
<1>a. ASSUME NEW c \in Chunks, NEW x \in Truths PROVE ok(Applied(a, c, x))
  <2>1. Put(a.held, c, x) \in Stores
    BY <1>f, StoreFacts
  <2> QED
    BY <1>f, <2>1 DEF Applied, Apps
<1>b. ASSUME NEW c \in Chunks PROVE ok(AskResync(a, c))
  BY <1>f DEF AskResync, Apps
<1>1. CASE m.kind = "snapshot"
  <2>1. m.chunk \in Chunks /\ m.version \in Versions
    BY <1>1 DEF Payloads
  <2>2. b = IngestSnapshot(a, m)
    BY <1>1 DEF Ingest
  <2>3. ok(b)
    BY <1>a, <2>1, <2>2 DEF IngestSnapshot, Truths
  <2> QED
    BY <1>1, <2>1, <2>2, <2>3
<1>2. CASE m.kind = "delta"
  <2>1. m.chunk \in Chunks /\ m.base \in Versions
    BY <1>2 DEF Payloads
  <2>2. b = IngestDelta(a, m)
    BY <1>2 DEF Ingest
  <2>3. CASE DeltaFits(a, m)
    <3>1. m.chunk \in DOMAIN a.held /\ a.held[m.chunk].version = m.base
      BY <2>3 DEF DeltaFits, Held
    <3>2. a.held[m.chunk].edits = 1..m.base
      BY <1>f, <3>1, StoreFacts
    <3>3. a.held[m.chunk].edits \cup {m.base + 1} = 1..m.base + 1 /\ m.base + 1 \in Versions
      BY <2>1, <3>2 DEF Versions
    <3>4. [version |-> m.base + 1, edits |-> a.held[m.chunk].edits \cup {m.base + 1}] \in Truths
      BY <3>3 DEF Truths
    <3> QED
      BY <1>2, <1>a, <2>1, <2>2, <2>3, <3>4 DEF IngestDelta
  <2>4. CASE ~DeltaFits(a, m)
    BY <1>2, <1>b, <2>1, <2>2, <2>4 DEF IngestDelta
  <2> QED
    BY <2>3, <2>4
<1>3. CASE m.kind = "invalidate"
  <2>1. m.chunk \in Chunks
    BY <1>3 DEF Payloads
  <2>2. b = IngestInvalidate(a, m)
    BY <1>3 DEF Ingest
  <2> DEFINE e == [a EXCEPT !.held = Drop(@, m.chunk), !.dirty = @ \cup {m.chunk}]
  <2>3. Drop(a.held, m.chunk) \in Stores
    BY <1>f, <2>1, StoreFacts
  <2>4. ok(e) /\ e.gate \subseteq Chunks /\ e.wanted \subseteq Chunks
    BY <1>f, <2>1, <2>3 DEF Apps
  <2>5. ok(AskResync(e, m.chunk))
    <3> HIDE DEF e
    <3> QED
      BY <2>1, <2>4 DEF AskResync, Apps
  <2> QED
    BY <1>3, <2>1, <2>2, <2>5 DEF IngestInvalidate
<1>4. CASE m.kind = "light"
  <2>1. m.light \in 0..2
    BY <1>4 DEF Payloads
  <2>2. b = IngestLight(a, m)
    BY <1>4 DEF Ingest
  <2> DEFINE e == [a EXCEPT !.light = m.light]
  <2>3. ok(e) /\ e.dirty \subseteq Chunks
    BY <1>f, <2>1 DEF Apps
  <2>4. b = e \/ b = [e EXCEPT !.dirty = @ \cup {LightChunk}]
    BY <2>2 DEF IngestLight, MarkDirty
  <2>5. ok([e EXCEPT !.dirty = @ \cup {LightChunk}])
    <3> HIDE DEF e
    <3> QED
      BY <1>f, <2>3 DEF Apps
  <2>6. ok(b)
    <3> HIDE DEF e
    <3> QED
      BY <2>3, <2>4, <2>5
  <2> QED
    BY <1>4, <2>1, <2>2, <2>6
<1>5. m.kind \in {"snapshot", "delta", "invalidate", "light"}
  BY DEF Payloads
<1> QED
  BY <1>1, <1>2, <1>3, <1>4, <1>5

(* The steps of the two folds over messages. *)
IngestMap == [p \in Apps \X Payloads |-> Ingest(p[1], p[2])]
PollMap == [p \in Apps \X Messages |-> PollOne(p[1], p[2])]

(* Taking the messages one after another is a run. *)
LEMMA IngestRuns ==
  ASSUME NEW a \in Apps, NEW q \in Seq(Payloads)
  PROVE  /\ Closed(IngestMap, Apps, Payloads)
         /\ \A x \in Apps, m \in Payloads : IngestMap[<<x, m>>] = Ingest(x, m)
         /\ \E f : IsRun(Apps, IngestMap, a, q, f) /\ Taken(a, q) = f[Len(q)]
<1>1. \A x \in Apps, m \in Payloads : IngestMap[<<x, m>>] = Ingest(x, m)
  BY DEF IngestMap
<1>2. Closed(IngestMap, Apps, Payloads)
  BY <1>1, IngestTyped DEF Closed
<1>3. PICK f : IsRun(Apps, IngestMap, a, q, f)
  BY <1>2, RunExists
<1> DEFINE steps(h) == [i \in 0..Len(q) |-> IF i = 0 THEN a ELSE Ingest(h[i - 1], q[i])]
<1>4. Len(q) \in Nat /\ \A i \in 1..Len(q) : q[i] \in Payloads
  BY LenProperties, ElementOfSeq
<1>5. f = steps(f)
  <2>1. f \in [0..Len(q) -> Apps] /\ f[0] = a
    BY <1>3 DEF IsRun, Goes
  <2>2. ASSUME NEW i \in 1..Len(q) PROVE f[i] = Ingest(f[i - 1], q[i])
    <3>1. i - 1 \in 0..Len(q)
      BY <1>4
    <3>2. f[i] = IngestMap[<<f[i - 1], q[i]>>] /\ f[i - 1] \in Apps /\ q[i] \in Payloads
      BY <1>3, <1>4, <2>1, <3>1 DEF IsRun, Goes
    <3> QED
      BY <1>1, <3>2
  <2> QED
    BY <1>4, <2>1, <2>2
<1> DEFINE h == CHOOSE h : h = steps(h)
<1>6. h = steps(h)
  <2> HIDE DEF steps
  <2> QED
    BY <1>5
<1>7. \A k \in 0..Len(q) : h[k] = f[k]
  <2>1. h[0] = f[0]
    <3> HIDE DEF h
    <3> QED
      BY <1>4, <1>5, <1>6
  <2>2. ASSUME NEW i \in 1..Len(q), h[i - 1] = f[i - 1] PROVE h[i] = f[i]
    <3> HIDE DEF h
    <3>1. i \in 0..Len(q) /\ i # 0
      BY <1>4
    <3>2. steps(h)[i] = Ingest(h[i - 1], q[i]) /\ steps(f)[i] = Ingest(f[i - 1], q[i])
      BY <3>1
    <3> QED
      BY <1>5, <1>6, <2>2, <3>2
  <2> HIDE DEF h
  <2> QED
    BY <1>4, <2>1, <2>2, SameRun
<1>8. Taken(a, q) = h[Len(q)]
  BY DEF Taken, Fold
<1>9. h[Len(q)] = f[Len(q)]
  <2> HIDE DEF h
  <2> QED
    BY <1>4, <1>7
<1> QED
  BY <1>1, <1>2, <1>3, <1>8, <1>9

(* What falls out of the window when it moves to k. *)
Left(a, k) == IF a.center \in {NoCenter, k} THEN {} ELSE FallingOut(a.center, k)
(* What the client says of it. *)
Leave(a, k) == IF Left(a, k) = {} THEN << >> ELSE << [kind |-> "unsubscribe", chunks |-> Left(a, k)] >>

(* A window moves. *)
LEMMA SubscribeTyped ==
  ASSUME NEW a \in Apps, NEW k \in Centers
  PROVE  /\ SubscribeAround(a, k) \in Apps
         /\ SubscribeAround(a, k).center = k /\ SubscribeAround(a, k).joined = a.joined
         /\ SubscribeAround(a, k).inbox = a.inbox /\ SubscribeAround(a, k).gate = a.gate
         /\ SubscribeAround(a, k).wanted = a.wanted /\ SubscribeAround(a, k).attempts = a.attempts
         /\ SubscribeAround(a, k).light = a.light
         /\ SubscribeAround(a, k).dirty = a.dirty \cup (Held(a) \cap Left(a, k))
         /\ SubscribeAround(a, k).held = [c \in Held(a) \ Left(a, k) |-> a.held[c]]
         /\ SubscribeAround(a, k).out = a.out \o (<<WindowCommand(a, k)>> \o Leave(a, k))
         /\ <<WindowCommand(a, k)>> \in Seq(Commands) /\ Leave(a, k) \in Seq(Commands)
         /\ Left(a, k) \subseteq Chunks /\ WindowCommand(a, k) \in Commands
<1> DEFINE b == SubscribeAround(a, k)
<1>f. /\ a.held \in Stores /\ a.dirty \subseteq Chunks /\ a.out \in Seq(Commands) /\ Radius \in Nat
      /\ Held(a) = DOMAIN a.held /\ k \in Int /\ Held(a) \subseteq Chunks
      /\ a.center \in {NoCenter} \cup Centers
  BY AppFacts, Constants, CenterInts
<1>1. Left(a, k) \subseteq Chunks
  BY DEF Left, FallingOut, Window
<1>2. WindowCommand(a, k) \in Commands
  <2>1. Known(a, k) \in [Held(a) \cap Window(k, Radius) -> Versions]
    BY <1>f, StoreFacts DEF Known
  <2>2. Known(a, k) \in Claimed
    BY <1>f, <2>1 DEF Claimed
  <2> QED
    BY <1>f, <2>2 DEF WindowCommand, Commands
<1>3. <<WindowCommand(a, k)>> \in Seq(Commands)
  BY <1>2
<1>4. Leave(a, k) \in Seq(Commands)
  <2>1. [kind |-> "unsubscribe", chunks |-> Left(a, k)] \in Commands
    BY <1>1 DEF Commands
  <2> QED
    BY <2>1 DEF Leave
<1> DEFINE h == [c \in Held(a) \ Left(a, k) |-> a.held[c]]
<1> DEFINE d == a.dirty \cup (Held(a) \cap Left(a, k))
<1> DEFINE o == a.out \o <<WindowCommand(a, k)>> \o Leave(a, k)
<1>5. h \in Stores /\ d \subseteq Chunks
  BY <1>1, <1>f, StoreFacts
<1>6. o \in Seq(Commands) /\ o = a.out \o (<<WindowCommand(a, k)>> \o Leave(a, k))
  <2>1. \A x, y, z \in Seq(Commands) : x \o y \o z \in Seq(Commands) /\ x \o y \o z = x \o (y \o z)
    BY ConcatProperties, ConcatAssociative
  <2> QED
    BY <1>3, <1>4, <1>f, <2>1
<1>7. b = [a EXCEPT !.held = h, !.dirty = d, !.out = o, !.center = k]
  BY DEF SubscribeAround, Evict, Left, Leave, WindowCommand
<1> HIDE DEF h, d, o, b
<1>8. b \in Apps
  BY <1>5, <1>6, <1>7 DEF Apps
<1>9. /\ b.center = k /\ b.joined = a.joined /\ b.inbox = a.inbox /\ b.gate = a.gate /\ b.wanted = a.wanted
      /\ b.attempts = a.attempts /\ b.light = a.light /\ b.dirty = d /\ b.held = h /\ b.out = o
  BY <1>7 DEF Apps
<1> QED
  BY <1>1, <1>2, <1>3, <1>4, <1>6, <1>8, <1>9 DEF h, d, b

(* What a window that moves does to the store. *)
LEMMA SubscribeDrops ==
  ASSUME NEW a \in Apps, NEW k \in Centers
  PROVE  /\ SubscribeAround(a, k) \in Apps
         /\ SubscribeAround(a, k).held = [c \in Held(a) \ Left(a, k) |-> a.held[c]]
         /\ SubscribeAround(a, k).dirty = a.dirty \cup (Held(a) \cap Left(a, k))
BY SubscribeTyped

(* The app a scene is entered with. *)
Joining(a) == [a EXCEPT !.joined = TRUE, !.center = NoCenter]
LEMMA JoiningTyped ==
  ASSUME NEW a \in Apps
  PROVE  /\ Joining(a) \in Apps /\ Joining(a).joined = TRUE /\ Joining(a).center = NoCenter
         /\ Joining(a).held = a.held /\ Joining(a).dirty = a.dirty /\ Joining(a).light = a.light
         /\ Joining(a).gate = a.gate /\ Joining(a).wanted = a.wanted /\ Joining(a).inbox = a.inbox
         /\ Joining(a).out = a.out /\ Joining(a).attempts = a.attempts
BY DEF Joining, Apps

(* An app polls an event. *)
LEMMA PollTyped ==
  ASSUME NEW a \in Apps, NEW m \in Messages
  PROVE  /\ PollOne(a, m) \in Apps
         /\ m \in Payloads => PollOne(a, m) = [a EXCEPT !.inbox = Append(@, m)]
         /\ m.kind = "disconnected" => PollOne(a, m) = [a EXCEPT !.joined = FALSE]
         /\ m.kind \in {"entered", "position"} => m.chunk \in Chunks /\ CenterOf(TileOf(m.chunk)) \in Centers
         /\ m.kind = "entered" => PollOne(a, m) = SubscribeAround(Joining(a), CenterOf(TileOf(m.chunk)))
         /\ m.kind = "position" => \/ PollOne(a, m) = a /\ a.center # NoCenter
                                   \/ PollOne(a, m) = SubscribeAround(a, CenterOf(TileOf(m.chunk)))
         /\ m \in Payloads \/ m.kind \in {"entered", "position", "disconnected"}
<1> DEFINE b == PollOne(a, m)
<1>1. CASE m \in Payloads
  <2>1. m.kind \in {"snapshot", "delta", "invalidate", "light"}
    BY <1>1 DEF Payloads
  <2>2. b = [a EXCEPT !.inbox = Append(@, m)]
    BY <2>1 DEF PollOne
  <2>3. Append(a.inbox, m) \in Seq(Payloads)
    BY <1>1, AppFacts
  <2>4. b \in Apps
    BY <2>2, <2>3 DEF Apps
  <2> HIDE DEF b
  <2> QED
    BY <1>1, <2>1, <2>2, <2>4 DEF b
<1>2. CASE m \in Notices
  <2>1. m.kind \in {"entered", "position", "disconnected"} /\ m \notin Payloads
    BY <1>2 DEF Notices, Payloads
  <2>2. CASE m.kind = "disconnected"
    <3>1. b = [a EXCEPT !.joined = FALSE]
      BY <2>2 DEF PollOne
    <3>2. b \in Apps
      BY <3>1 DEF Apps
    <3> QED
      BY <2>1, <2>2, <3>1, <3>2
  <2>3. CASE m.kind \in {"entered", "position"}
    <3>1. m.chunk \in Chunks
      BY <1>2, <2>3 DEF Notices
    <3> DEFINE k == CenterOf(TileOf(m.chunk))
    <3>2. k \in Centers
      BY <3>1, CenterInts
    <3>3. m.kind = "entered" => b = SubscribeAround(Joining(a), k)
      BY DEF PollOne, Joining
    <3>4. m.kind = "position" => \/ b = a /\ a.center # NoCenter
                                 \/ b = SubscribeAround(a, k)
      BY DEF PollOne
    <3> HIDE DEF k, b
    <3>5. b \in Apps
      <4>1. SubscribeAround(a, k) \in Apps
        BY <3>2, SubscribeTyped
      <4>2. SubscribeAround(Joining(a), k) \in Apps
        <5>1. Joining(a) \in Apps
          BY JoiningTyped
        <5> QED
          BY <3>2, <5>1, SubscribeTyped
      <4> QED
        BY <2>3, <3>3, <3>4, <4>1, <4>2
    <3> QED
      BY <2>1, <2>3, <3>1, <3>2, <3>3, <3>4, <3>5 DEF k, b
  <2> QED
    BY <2>1, <2>2, <2>3
<1> QED
  BY <1>1, <1>2 DEF Messages

(* Polling the events one after another is a run. *)
LEMMA PollRuns ==
  ASSUME NEW a \in Apps, NEW q \in Seq(Messages)
  PROVE  /\ Closed(PollMap, Apps, Messages)
         /\ \A x \in Apps, m \in Messages : PollMap[<<x, m>>] = PollOne(x, m)
         /\ \E f : IsRun(Apps, PollMap, a, q, f) /\ Polled(a, q) = f[Len(q)]
<1>1. \A x \in Apps, m \in Messages : PollMap[<<x, m>>] = PollOne(x, m)
  BY DEF PollMap
<1>2. Closed(PollMap, Apps, Messages)
  <2>1. \A x \in Apps, m \in Messages : PollOne(x, m) \in Apps
    BY PollTyped
  <2> QED
    BY <1>1, <2>1 DEF Closed
<1>3. PICK f : IsRun(Apps, PollMap, a, q, f)
  BY <1>2, RunExists
<1> DEFINE steps(h) == [i \in 0..Len(q) |-> IF i = 0 THEN a ELSE PollOne(h[i - 1], q[i])]
<1>4. Len(q) \in Nat /\ \A i \in 1..Len(q) : q[i] \in Messages
  BY LenProperties, ElementOfSeq
<1>5. f = steps(f)
  <2>1. f \in [0..Len(q) -> Apps] /\ f[0] = a
    BY <1>3 DEF IsRun, Goes
  <2>2. ASSUME NEW i \in 1..Len(q) PROVE f[i] = PollOne(f[i - 1], q[i])
    <3>1. i - 1 \in 0..Len(q)
      BY <1>4
    <3>2. f[i] = PollMap[<<f[i - 1], q[i]>>] /\ f[i - 1] \in Apps /\ q[i] \in Messages
      BY <1>3, <1>4, <2>1, <3>1 DEF IsRun, Goes
    <3> QED
      BY <1>1, <3>2
  <2> QED
    BY <1>4, <2>1, <2>2
<1> DEFINE h == CHOOSE h : h = steps(h)
<1>6. h = steps(h)
  <2> HIDE DEF steps
  <2> QED
    BY <1>5
<1>7. \A k \in 0..Len(q) : h[k] = f[k]
  <2>1. h[0] = f[0]
    <3> HIDE DEF h
    <3> QED
      BY <1>4, <1>5, <1>6
  <2>2. ASSUME NEW i \in 1..Len(q), h[i - 1] = f[i - 1] PROVE h[i] = f[i]
    <3> HIDE DEF h
    <3>1. i \in 0..Len(q) /\ i # 0
      BY <1>4
    <3>2. steps(h)[i] = (PollOne(h[i - 1], q[i])) /\ steps(f)[i] = (PollOne(f[i - 1], q[i]))
      BY <3>1
    <3> QED
      BY <1>5, <1>6, <2>2, <3>2
  <2> HIDE DEF h
  <2> QED
    BY <1>4, <2>1, <2>2, SameRun
<1>8. Polled(a, q) = h[Len(q)]
  BY DEF Polled, Fold
<1>9. h[Len(q)] = f[Len(q)]
  <2> HIDE DEF h
  <2> QED
    BY <1>4, <1>7
<1> QED
  BY <1>1, <1>2, <1>3, <1>8, <1>9

(* The folds over lists of chunks. *)
PickMap(C) == [p \in Seq(Chunks) \X Chunks |-> IF p[2] \in C THEN Append(p[1], p[2]) ELSE p[1]]
SpreadMap(e) == [p \in Seq(Chunks) \X Chunks |-> p[1] \o WithNeighbours(e, p[2])]
EnqueueMap == [p \in Seq(Chunks) \X Chunks |-> Enqueue(p[1], p[2])]

(* A chunk is picked or left. *)
LEMMA PickTyped ==
  ASSUME NEW C, NEW x \in Seq(Chunks), NEW m \in Chunks
  PROVE  (IF m \in C THEN Append(x, m) ELSE x) \in Seq(Chunks)
BY AppendProperties

(* The chunks of a set, in order. *)
LEMMA LineTyped == Line \in Seq(Chunks) /\ \A c \in Chunks : \E i \in 1..Len(Line) : Line[i] = c
<1> DEFINE n == IF FirstChunk <= LastChunk THEN LastChunk - FirstChunk + 1 ELSE 0
<1>1. FirstChunk \in Int /\ LastChunk \in Int
  BY Constants
<1>2. n \in Nat /\ 1..LastChunk - FirstChunk + 1 = 1..n
  BY <1>1
<1>3. Line \in [1..n -> Chunks]
  BY <1>1, <1>2 DEF Line, Chunks
<1>4. Line \in Seq(Chunks) /\ Len(Line) = n
  <2> HIDE DEF n
  <2> QED
    BY <1>2, <1>3, IsASeq
<1>5. ASSUME NEW c \in Chunks PROVE \E i \in 1..n : Line[i] = c
  <2>1. c - FirstChunk + 1 \in 1..n
    BY <1>1 DEF Chunks
  <2>2. Line[c - FirstChunk + 1] = FirstChunk + (c - FirstChunk + 1) - 1
    BY <1>2, <2>1 DEF Line
  <2>3. c \in Int
    BY Constants
  <2> QED
    BY <1>1, <2>1, <2>2, <2>3
<1> QED
  BY <1>4, <1>5

(* Picking the chunks of a set is a run. *)
LEMMA PickRuns ==
  ASSUME NEW C
  PROVE  /\ Closed(PickMap(C), Seq(Chunks), Chunks)
         /\ \A x \in Seq(Chunks), m \in Chunks : PickMap(C)[<<x, m>>] = (IF m \in C THEN Append(x, m) ELSE x)
         /\ \E f : IsRun(Seq(Chunks), PickMap(C), << >>, Line, f) /\ InOrder(C) = f[Len(Line)]
<1>1. ASSUME NEW x \in Seq(Chunks), NEW m \in Chunks
      PROVE  PickMap(C)[<<x, m>>] = (IF m \in C THEN Append(x, m) ELSE x)
  <2> DEFINE p == <<x, m>>
  <2>1. p \in Seq(Chunks) \X Chunks /\ p[1] = x /\ p[2] = m
    OBVIOUS
  <2> HIDE DEF p
  <2>2. PickMap(C)[p] = (IF p[2] \in C THEN Append(p[1], p[2]) ELSE p[1])
    BY <2>1 DEF PickMap
  <2> QED
    BY <2>1, <2>2, Zenon DEF p
<1>2. Closed(PickMap(C), Seq(Chunks), Chunks)
  <2>1. ASSUME NEW x \in Seq(Chunks), NEW m \in Chunks PROVE PickMap(C)[<<x, m>>] \in Seq(Chunks)
    <3> DEFINE y == IF m \in C THEN Append(x, m) ELSE x
    <3>1. y \in Seq(Chunks)
      BY PickTyped
    <3>2. PickMap(C)[<<x, m>>] = y
      BY <1>1
    <3> HIDE DEF y
    <3> QED
      BY <3>1, <3>2
  <2> QED
    BY <2>1, Zenon DEF Closed
<1>0. << >> \in Seq(Chunks) /\ Line \in Seq(Chunks)
  BY LineTyped
<1>3. PICK f : IsRun(Seq(Chunks), PickMap(C), << >>, Line, f)
  BY <1>0, <1>2, RunExists
<1> DEFINE step(x, m) == IF m \in C THEN Append(x, m) ELSE x
<1> DEFINE steps(h) == [i \in 0..Len(Line) |-> IF i = 0 THEN << >> ELSE step(h[i - 1], Line[i])]
<1>4. Len(Line) \in Nat /\ \A i \in 1..Len(Line) : Line[i] \in Chunks
  BY <1>0, LenProperties, ElementOfSeq
<1>5. f = steps(f)
  <2>1. f \in [0..Len(Line) -> Seq(Chunks)] /\ f[0] = << >>
    BY <1>3 DEF IsRun, Goes
  <2>2. ASSUME NEW i \in 1..Len(Line) PROVE f[i] = step(f[i - 1], Line[i])
    <3>1. i - 1 \in 0..Len(Line)
      BY <1>4
    <3>2. f[i] = PickMap(C)[<<f[i - 1], Line[i]>>] /\ f[i - 1] \in Seq(Chunks) /\ Line[i] \in Chunks
      BY <1>3, <1>4, <2>1, <3>1 DEF IsRun, Goes
    <3> QED
      BY <1>1, <3>2
  <2> HIDE DEF step
  <2> QED
    BY <1>4, <2>1, <2>2
<1> DEFINE h == CHOOSE h : h = steps(h)
<1>6. h = steps(h)
  <2> HIDE DEF steps
  <2> QED
    BY <1>5
<1>7. \A k \in 0..Len(Line) : h[k] = f[k]
  <2>1. h[0] = f[0]
    <3> HIDE DEF h
    <3> QED
      BY <1>4, <1>5, <1>6
  <2>2. ASSUME NEW i \in 1..Len(Line), h[i - 1] = f[i - 1] PROVE h[i] = f[i]
    <3> HIDE DEF h
    <3>1. i \in 0..Len(Line) /\ i # 0
      BY <1>4
    <3>2. steps(h)[i] = step(h[i - 1], Line[i]) /\ steps(f)[i] = step(f[i - 1], Line[i])
      BY <3>1
    <3> QED
      BY <1>5, <1>6, <2>2, <3>2
  <2> HIDE DEF h
  <2> QED
    BY <1>4, <2>1, <2>2, SameRun
<1>8. InOrder(C) = h[Len(Line)]
  BY DEF InOrder, Fold
<1>9. h[Len(Line)] = f[Len(Line)]
  <2> HIDE DEF h
  <2> QED
    BY <1>4, <1>7
<1> QED
  BY <1>1, <1>2, <1>3, <1>8, <1>9

(* A run that comes to T and stays there ends there. *)
LEMMA RunReaches ==
  ASSUME NEW S, NEW M, NEW g, Closed(g, S, M), NEW b \in S, NEW q \in Seq(M), NEW f,
         IsRun(S, g, b, q, f), NEW T, NEW k \in 1..Len(q),
         \A x \in S : g[<<x, q[k]>>] \in T,
         \A i \in 1..Len(q), x \in S : x \in T => g[<<x, q[i]>>] \in T
  PROVE  f[Len(q)] \in T
<1> DEFINE U == {n \in Nat : n <= Len(q) /\ k <= n => f[n] \in T}
<1>1. Len(q) \in Nat /\ k \in Nat /\ k >= 1
  BY LenProperties
<1>2. 0 \in U
  BY <1>1
<1>3. ASSUME NEW n \in Nat, n \in U PROVE n + 1 \in U
  <2> SUFFICES ASSUME n + 1 <= Len(q), k <= n + 1 PROVE f[n + 1] \in T
    OBVIOUS
  <2>1. n \in 0..Len(q) /\ n <= Len(q) /\ n + 1 \in 1..Len(q) /\ n + 1 - 1 = n
    BY <1>1
  <2>2. f[n] \in S /\ f[n + 1] = g[<<f[n], q[n + 1]>>]
    BY <2>1 DEF IsRun, Goes
  <2>3. CASE k = n + 1
    BY <2>2, <2>3
  <2>4. CASE k # n + 1
    <3>1. k <= n
      BY <1>1, <2>4
    <3>2. f[n] \in T
      BY <1>3, <2>1, <3>1
    <3> QED
      BY <2>1, <2>2, <3>2
  <2> QED
    BY <2>3, <2>4
<1>4. Len(q) \in U
  <2> HIDE DEF U
  <2> QED
    BY <1>1, <1>2, <1>3, Reached
<1> QED
  BY <1>1, <1>4

(* The chunks of a set, listed. *)
LEMMA InOrderFacts ==
  ASSUME NEW C
  PROVE  /\ InOrder(C) \in Seq(Chunks)
         /\ \A c \in C \cap Chunks : Contains(InOrder(C), c)
         /\ \A c : Contains(InOrder(C), c) => c \in C
<1> DEFINE S == Seq(Chunks)
<1> DEFINE g == PickMap(C)
<1>1. << >> \in S /\ Line \in Seq(Chunks)
  BY LineTyped
<1>2. /\ Closed(g, S, Chunks)
      /\ \A x \in S, m \in Chunks : g[<<x, m>>] = (IF m \in C THEN Append(x, m) ELSE x)
      /\ \E f : IsRun(S, g, << >>, Line, f) /\ InOrder(C) = f[Len(Line)]
  BY <1>1, PickRuns
<1>3. PICK f : IsRun(S, g, << >>, Line, f) /\ InOrder(C) = f[Len(Line)]
  BY <1>2
<1>4. \A i \in 1..Len(Line) : Line[i] \in Chunks
  BY <1>1, ElementOfSeq
<1>a. \A x \in S, m \in Chunks : /\ Append(x, m) \in S /\ Contains(Append(x, m), m)
                               /\ \A c : Contains(x, c) => Contains(Append(x, m), c)
  BY AppendProperties, LenProperties DEF Contains
<1>b. \A x \in S, m \in Chunks : \A c : Contains(Append(x, m), c) => c = m \/ Contains(x, c)
  BY AppendProperties, LenProperties DEF Contains
<1> HIDE DEF g
<1>5. InOrder(C) \in S /\ \A c : Contains(InOrder(C), c) => c \in C
  <2> DEFINE T == {x \in S : \A c : Contains(x, c) => c \in C}
  <2>1. << >> \in T
    BY <1>1 DEF Contains
  <2>2. \A i \in 1..Len(Line), x \in S : x \in T => g[<<x, Line[i]>>] \in T
    <3> SUFFICES ASSUME NEW i \in 1..Len(Line), NEW x \in S, x \in T PROVE g[<<x, Line[i]>>] \in T
      OBVIOUS
    <3>1. Line[i] \in Chunks
      BY <1>4
    <3>2. g[<<x, Line[i]>>] = x \/ (Line[i] \in C /\ g[<<x, Line[i]>>] = Append(x, Line[i]))
      BY <1>2, <3>1
    <3>3. ASSUME Line[i] \in C PROVE Append(x, Line[i]) \in T
      <4>1. Append(x, Line[i]) \in S /\ \A c : Contains(Append(x, Line[i]), c) => c = Line[i] \/ Contains(x, c)
        <5> HIDE DEF S
        <5> QED
          BY <1>a, <1>b, <3>1
      <4> HIDE DEF S
      <4> QED
        BY <3>3, <4>1
    <3> HIDE DEF T
    <3> QED
      BY <3>2, <3>3
  <2> HIDE DEF S
  <2>3. f[Len(Line)] \in T
    <3> HIDE DEF T
    <3> QED
      BY <1>1, <1>2, <1>3, <2>1, <2>2, RunKeeps
  <2> QED
    BY <1>3, <2>3
<1>6. ASSUME NEW c \in C \cap Chunks PROVE Contains(InOrder(C), c)
  <2> DEFINE T == {x \in S : Contains(x, c)}
  <2>1. PICK k \in 1..Len(Line) : Line[k] = c
    BY LineTyped
  <2>2. ASSUME NEW x \in S PROVE g[<<x, Line[k]>>] \in T
    <3>1. g[<<x, c>>] = Append(x, c)
      BY <1>2
    <3>2. Append(x, c) \in S /\ Contains(Append(x, c), c)
      BY <1>a
    <3> QED
      BY <2>1, <3>1, <3>2
  <2>3. \A i \in 1..Len(Line), x \in S : x \in T => g[<<x, Line[i]>>] \in T
    <3> SUFFICES ASSUME NEW i \in 1..Len(Line), NEW x \in S, x \in T PROVE g[<<x, Line[i]>>] \in T
      OBVIOUS
    <3>1. Line[i] \in Chunks
      BY <1>4
    <3>2. g[<<x, Line[i]>>] = x \/ g[<<x, Line[i]>>] = Append(x, Line[i])
      BY <1>2, <3>1
    <3> QED
      BY <1>a, <3>1, <3>2
  <2> HIDE DEF S
  <2>4. f[Len(Line)] \in T
    <3> HIDE DEF T
    <3> QED
      BY <1>1, <1>2, <1>3, <2>2, <2>3, RunReaches
  <2> QED
    BY <1>3, <2>4
<1> QED
  BY <1>5, <1>6

(* A chunk to be built and its neighbours are added. *)
LEMMA SpreadTyped ==
  ASSUME NEW e, NEW x \in Seq(Chunks), NEW m \in Chunks
  PROVE  /\ x \o WithNeighbours(e, m) \in Seq(Chunks)
         /\ \A c : Contains(x, c) => Contains(x \o WithNeighbours(e, m), c)
         /\ Contains(x \o WithNeighbours(e, m), m)
         /\ \A c \in Near(m) \cap Held(e) : Contains(x \o WithNeighbours(e, m), c)
<1> DEFINE z == InOrder(Near(m) \cap Held(e))
<1> DEFINE w == <<m>> \o z
<1>1. z \in Seq(Chunks) /\ \A c \in Near(m) \cap Held(e) : Contains(z, c)
  <2>1. Near(m) \subseteq Chunks
    BY DEF Near
  <2> QED
    BY <2>1, InOrderFacts
<1>a. \A s, t \in Seq(Chunks) : /\ s \o t \in Seq(Chunks)
                              /\ \A c : Contains(s, c) \/ Contains(t, c) => Contains(s \o t, c)
  <2> SUFFICES ASSUME NEW s \in Seq(Chunks), NEW t \in Seq(Chunks), NEW c, Contains(s, c) \/ Contains(t, c)
               PROVE  Contains(s \o t, c)
    BY ConcatProperties
  <2>1. Len(s) \in Nat /\ Len(t) \in Nat /\ DOMAIN s = 1..Len(s) /\ DOMAIN t = 1..Len(t)
        /\ DOMAIN (s \o t) = 1..Len(s) + Len(t)
    BY ConcatProperties, LenProperties
  <2>2. CASE Contains(s, c)
    <3>1. PICK i \in 1..Len(s) : s[i] = c
      BY <2>1, <2>2 DEF Contains
    <3>2. i \in 1..Len(s) + Len(t) /\ (s \o t)[i] = c
      BY <2>1, <3>1, ConcatProperties
    <3> QED
      BY <2>1, <3>2 DEF Contains
  <2>3. CASE Contains(t, c)
    <3>1. PICK i \in 1..Len(t) : t[i] = c
      BY <2>1, <2>3 DEF Contains
    <3>2. Len(s) + i \in 1..Len(s) + Len(t) /\ Len(s) + i > Len(s) /\ Len(s) + i - Len(s) = i
      BY <2>1
    <3>3. (s \o t)[Len(s) + i] = c
      BY <2>1, <3>1, <3>2, ConcatProperties
    <3> QED
      BY <2>1, <3>2, <3>3 DEF Contains
  <2> QED
    BY <2>2, <2>3
<1>2. <<m>> \in Seq(Chunks) /\ Contains(<<m>>, m)
  BY DEF Contains
<1> HIDE DEF z
<1>3. w \in Seq(Chunks) /\ Contains(w, m) /\ \A c \in Near(m) \cap Held(e) : Contains(w, c)
  BY <1>1, <1>2, <1>a
<1>4. WithNeighbours(e, m) = w
  BY DEF WithNeighbours, z
<1> HIDE DEF w
<1> QED
  BY <1>3, <1>4, <1>a

(* Adding chunks with their neighbours is a run. *)
LEMMA SpreadRuns ==
  ASSUME NEW e, NEW q \in Seq(Chunks)
  PROVE  /\ Closed(SpreadMap(e), Seq(Chunks), Chunks)
         /\ \A x \in Seq(Chunks), m \in Chunks : SpreadMap(e)[<<x, m>>] = x \o WithNeighbours(e, m)
         /\ \E f : IsRun(Seq(Chunks), SpreadMap(e), << >>, q, f) /\ Marked(e, q) = f[Len(q)]
<1>1. \A x \in Seq(Chunks), m \in Chunks : SpreadMap(e)[<<x, m>>] = x \o WithNeighbours(e, m)
  BY DEF SpreadMap
<1>2. Closed(SpreadMap(e), Seq(Chunks), Chunks)
  <2>1. \A x \in Seq(Chunks), m \in Chunks : (x \o WithNeighbours(e, m)) \in Seq(Chunks)
    BY SpreadTyped
  <2> QED
    BY <1>1, <2>1 DEF Closed
<1>0. << >> \in Seq(Chunks)
  OBVIOUS
<1>3. PICK f : IsRun(Seq(Chunks), SpreadMap(e), << >>, q, f)
  BY <1>0, <1>2, RunExists
<1> DEFINE steps(h) == [i \in 0..Len(q) |-> IF i = 0 THEN << >> ELSE h[i - 1] \o WithNeighbours(e, q[i])]
<1>4. Len(q) \in Nat /\ \A i \in 1..Len(q) : q[i] \in Chunks
  BY LenProperties, ElementOfSeq
<1>5. f = steps(f)
  <2>1. f \in [0..Len(q) -> Seq(Chunks)] /\ f[0] = << >>
    BY <1>3 DEF IsRun, Goes
  <2>2. ASSUME NEW i \in 1..Len(q) PROVE f[i] = f[i - 1] \o WithNeighbours(e, q[i])
    <3>1. i - 1 \in 0..Len(q)
      BY <1>4
    <3>2. f[i] = SpreadMap(e)[<<f[i - 1], q[i]>>] /\ f[i - 1] \in Seq(Chunks) /\ q[i] \in Chunks
      BY <1>3, <1>4, <2>1, <3>1 DEF IsRun, Goes
    <3> QED
      BY <1>1, <3>2
  <2> QED
    BY <1>4, <2>1, <2>2
<1> DEFINE h == CHOOSE h : h = steps(h)
<1>6. h = steps(h)
  <2> HIDE DEF steps
  <2> QED
    BY <1>5
<1>7. \A k \in 0..Len(q) : h[k] = f[k]
  <2>1. h[0] = f[0]
    <3> HIDE DEF h
    <3> QED
      BY <1>4, <1>5, <1>6
  <2>2. ASSUME NEW i \in 1..Len(q), h[i - 1] = f[i - 1] PROVE h[i] = f[i]
    <3> HIDE DEF h
    <3>1. i \in 0..Len(q) /\ i # 0
      BY <1>4
    <3>2. steps(h)[i] = (h[i - 1] \o WithNeighbours(e, q[i])) /\ steps(f)[i] = (f[i - 1] \o WithNeighbours(e, q[i]))
      BY <3>1
    <3> QED
      BY <1>5, <1>6, <2>2, <3>2
  <2> HIDE DEF h
  <2> QED
    BY <1>4, <2>1, <2>2, SameRun
<1>8. Marked(e, q) = h[Len(q)]
  BY DEF Marked, Fold
<1>9. h[Len(q)] = f[Len(q)]
  <2> HIDE DEF h
  <2> QED
    BY <1>4, <1>7
<1> QED
  BY <1>1, <1>2, <1>3, <1>8, <1>9

(* A chunk joins the queue, but once. *)
LEMMA EnqueueTyped ==
  ASSUME NEW x \in Seq(Chunks), NEW m \in Chunks
  PROVE  /\ Enqueue(x, m) \in Seq(Chunks) /\ Contains(Enqueue(x, m), m)
         /\ \A c : Contains(x, c) => Contains(Enqueue(x, m), c)
         /\ IsInjective(x) => IsInjective(Enqueue(x, m))
<1>1. CASE Contains(x, m)
  BY <1>1 DEF Enqueue
<1>2. CASE ~Contains(x, m)
  <2>1. Enqueue(x, m) = Append(x, m)
    BY <1>2 DEF Enqueue
  <2>2. /\ Append(x, m) \in Seq(Chunks) /\ Len(x) \in Nat /\ Append(x, m)[Len(x) + 1] = m
        /\ DOMAIN x = 1..Len(x) /\ DOMAIN Append(x, m) = 1..Len(x) + 1
        /\ \A i \in 1..Len(x) : Append(x, m)[i] = x[i]
    BY AppendProperties, LenProperties
  <2>3. \A i \in 1..Len(x) + 1 : i = Len(x) + 1 \/ i \in 1..Len(x)
    BY <2>2
  <2>4. IsInjective(x) => IsInjective(Append(x, m))
    BY <1>2, <2>2, <2>3 DEF IsInjective, Contains
  <2>5. Contains(Append(x, m), m) /\ \A c : Contains(x, c) => Contains(Append(x, m), c)
    BY <2>2 DEF Contains
  <2> QED
    BY <2>1, <2>2, <2>4, <2>5
<1> QED
  BY <1>1, <1>2

(* Filling the queue is a run. *)
LEMMA EnqueueRuns ==
  ASSUME NEW a \in Seq(Chunks), NEW q \in Seq(Chunks)
  PROVE  /\ Closed(EnqueueMap, Seq(Chunks), Chunks)
         /\ \A x \in Seq(Chunks), m \in Chunks : EnqueueMap[<<x, m>>] = Enqueue(x, m)
         /\ \E f : IsRun(Seq(Chunks), EnqueueMap, a, q, f) /\ Queued(a, q) = f[Len(q)]
<1>1. \A x \in Seq(Chunks), m \in Chunks : EnqueueMap[<<x, m>>] = Enqueue(x, m)
  BY DEF EnqueueMap
<1>2. Closed(EnqueueMap, Seq(Chunks), Chunks)
  <2>1. \A x \in Seq(Chunks), m \in Chunks : (Enqueue(x, m)) \in Seq(Chunks)
    BY EnqueueTyped
  <2> QED
    BY <1>1, <2>1 DEF Closed
<1>3. PICK f : IsRun(Seq(Chunks), EnqueueMap, a, q, f)
  BY <1>2, RunExists
<1> DEFINE steps(h) == [i \in 0..Len(q) |-> IF i = 0 THEN a ELSE Enqueue(h[i - 1], q[i])]
<1>4. Len(q) \in Nat /\ \A i \in 1..Len(q) : q[i] \in Chunks
  BY LenProperties, ElementOfSeq
<1>5. f = steps(f)
  <2>1. f \in [0..Len(q) -> Seq(Chunks)] /\ f[0] = a
    BY <1>3 DEF IsRun, Goes
  <2>2. ASSUME NEW i \in 1..Len(q) PROVE f[i] = Enqueue(f[i - 1], q[i])
    <3>1. i - 1 \in 0..Len(q)
      BY <1>4
    <3>2. f[i] = EnqueueMap[<<f[i - 1], q[i]>>] /\ f[i - 1] \in Seq(Chunks) /\ q[i] \in Chunks
      BY <1>3, <1>4, <2>1, <3>1 DEF IsRun, Goes
    <3> QED
      BY <1>1, <3>2
  <2> QED
    BY <1>4, <2>1, <2>2
<1> DEFINE h == CHOOSE h : h = steps(h)
<1>6. h = steps(h)
  <2> HIDE DEF steps
  <2> QED
    BY <1>5
<1>7. \A k \in 0..Len(q) : h[k] = f[k]
  <2>1. h[0] = f[0]
    <3> HIDE DEF h
    <3> QED
      BY <1>4, <1>5, <1>6
  <2>2. ASSUME NEW i \in 1..Len(q), h[i - 1] = f[i - 1] PROVE h[i] = f[i]
    <3> HIDE DEF h
    <3>1. i \in 0..Len(q) /\ i # 0
      BY <1>4
    <3>2. steps(h)[i] = (Enqueue(h[i - 1], q[i])) /\ steps(f)[i] = (Enqueue(f[i - 1], q[i]))
      BY <3>1
    <3> QED
      BY <1>5, <1>6, <2>2, <3>2
  <2> HIDE DEF h
  <2> QED
    BY <1>4, <2>1, <2>2, SameRun
<1>8. Queued(a, q) = h[Len(q)]
  BY DEF Queued, Fold
<1>9. h[Len(q)] = f[Len(q)]
  <2> HIDE DEF h
  <2> QED
    BY <1>4, <1>7
<1> QED
  BY <1>1, <1>2, <1>3, <1>8, <1>9

(* The chunks to be built: those that changed and their neighbours.             *)
LEMMA MarkedFacts ==
  ASSUME NEW e, NEW q \in Seq(Chunks)
  PROVE  /\ Marked(e, q) \in Seq(Chunks)
         /\ \A m : Contains(q, m) => /\ Contains(Marked(e, q), m)
                                     /\ \A c \in Near(m) \cap Held(e) : Contains(Marked(e, q), c)
<1> DEFINE S == Seq(Chunks)
<1> DEFINE g == SpreadMap(e)
<1>1. << >> \in S
  OBVIOUS
<1>2. /\ Closed(g, S, Chunks)
      /\ \A x \in S, m \in Chunks : g[<<x, m>>] = x \o WithNeighbours(e, m)
      /\ \E f : IsRun(S, g, << >>, q, f) /\ Marked(e, q) = f[Len(q)]
  BY SpreadRuns
<1>3. PICK f : IsRun(S, g, << >>, q, f) /\ Marked(e, q) = f[Len(q)]
  BY <1>2
<1> HIDE DEF g
<1>4. Marked(e, q) \in S
  <2>1. Len(q) \in 0..Len(q)
    BY LenProperties
  <2> QED
    BY <1>3, <2>1 DEF IsRun
<1>5. ASSUME NEW k \in 1..Len(q), NEW c, c = q[k] \/ c \in Near(q[k]) \cap Held(e)
      PROVE  Contains(Marked(e, q), c)
  <2> DEFINE T == {x \in S : Contains(x, c)}
  <2>1. \A i \in 1..Len(q) : q[i] \in Chunks
    BY ElementOfSeq
  <2>2. ASSUME NEW x \in S PROVE g[<<x, q[k]>>] \in T
    <3>1. q[k] \in Chunks
      BY <2>1
    <3>2. g[<<x, q[k]>>] = x \o WithNeighbours(e, q[k])
      BY <1>2, <3>1
    <3>3. x \o WithNeighbours(e, q[k]) \in S /\ Contains(x \o WithNeighbours(e, q[k]), c)
      BY <1>5, <3>1, SpreadTyped
    <3> QED
      BY <3>2, <3>3
  <2>3. ASSUME NEW i \in 1..Len(q), NEW x \in S, x \in T PROVE g[<<x, q[i]>>] \in T
    <3>1. q[i] \in Chunks
      BY <2>1
    <3>2. g[<<x, q[i]>>] = x \o WithNeighbours(e, q[i])
      BY <1>2, <3>1
    <3>3. x \o WithNeighbours(e, q[i]) \in S /\ Contains(x \o WithNeighbours(e, q[i]), c)
      BY <2>3, <3>1, SpreadTyped
    <3> QED
      BY <3>2, <3>3
  <2> HIDE DEF S
  <2>4. f[Len(q)] \in T
    <3> HIDE DEF T
    <3>1. q \in Seq(Chunks) /\ << >> \in S
      BY <1>1
    <3> QED
      BY <3>1, <1>2, <1>3, <2>2, <2>3, RunReaches
  <2> QED
    BY <1>3, <2>4
<1>6. ASSUME NEW m, Contains(q, m)
      PROVE  Contains(Marked(e, q), m) /\ \A c \in Near(m) \cap Held(e) : Contains(Marked(e, q), c)
  <2>1. PICK k \in 1..Len(q) : q[k] = m
    BY <1>6 DEF Contains
  <2> QED
    BY <1>5, <2>1
<1> QED
  BY <1>4, <1>6

(* The queue takes every chunk it is given, and none twice. *)
LEMMA QueuedFacts ==
  ASSUME NEW a \in Seq(Chunks), IsInjective(a), NEW q \in Seq(Chunks)
  PROVE  /\ Queued(a, q) \in Seq(Chunks) /\ IsInjective(Queued(a, q))
         /\ \A c : Contains(a, c) \/ Contains(q, c) => Contains(Queued(a, q), c)
<1> DEFINE S == Seq(Chunks)
<1> DEFINE g == EnqueueMap
<1>2. /\ Closed(g, S, Chunks)
      /\ \A x \in S, m \in Chunks : g[<<x, m>>] = Enqueue(x, m)
      /\ \E f : IsRun(S, g, a, q, f) /\ Queued(a, q) = f[Len(q)]
  BY EnqueueRuns
<1>3. PICK f : IsRun(S, g, a, q, f) /\ Queued(a, q) = f[Len(q)]
  BY <1>2
<1> HIDE DEF g
<1>4. \A i \in 1..Len(q) : q[i] \in Chunks
  BY ElementOfSeq
<1>5. Queued(a, q) \in S /\ IsInjective(Queued(a, q)) /\ \A c : Contains(a, c) => Contains(Queued(a, q), c)
  <2> DEFINE T == {x \in S : IsInjective(x) /\ \A c : Contains(a, c) => Contains(x, c)}
  <2>1. a \in T
    OBVIOUS
  <2>2. ASSUME NEW i \in 1..Len(q), NEW x \in S, x \in T PROVE g[<<x, q[i]>>] \in T
    <3>1. q[i] \in Chunks
      BY <1>4
    <3>2. g[<<x, q[i]>>] = Enqueue(x, q[i])
      BY <1>2, <3>1
    <3>3. /\ Enqueue(x, q[i]) \in S /\ \A c : Contains(x, c) => Contains(Enqueue(x, q[i]), c)
          /\ IsInjective(x) => IsInjective(Enqueue(x, q[i]))
      BY <3>1, EnqueueTyped
    <3> HIDE DEF S
    <3> QED
      BY <2>2, <3>2, <3>3
  <2>3. f[Len(q)] \in T
    <3>1. q \in Seq(Chunks) /\ a \in S
      OBVIOUS
    <3> HIDE DEF T, S
    <3> QED
      BY <3>1, <1>2, <1>3, <2>1, <2>2, RunKeeps
  <2> HIDE DEF S
  <2> QED
    BY <1>3, <2>3
<1>6. ASSUME NEW c, Contains(q, c) PROVE Contains(Queued(a, q), c)
  <2> DEFINE T == {x \in S : Contains(x, c)}
  <2>1. PICK k \in 1..Len(q) : q[k] = c
    BY <1>6 DEF Contains
  <2>2. ASSUME NEW x \in S PROVE g[<<x, q[k]>>] \in T
    <3>1. q[k] \in Chunks
      BY <1>4
    <3>2. g[<<x, q[k]>>] = Enqueue(x, q[k])
      BY <1>2, <3>1
    <3>3. Enqueue(x, q[k]) \in S /\ Contains(Enqueue(x, q[k]), q[k])
      BY <3>1, EnqueueTyped
    <3> QED
      BY <2>1, <3>2, <3>3
  <2>3. ASSUME NEW i \in 1..Len(q), NEW x \in S, x \in T PROVE g[<<x, q[i]>>] \in T
    <3>1. q[i] \in Chunks
      BY <1>4
    <3>2. g[<<x, q[i]>>] = Enqueue(x, q[i])
      BY <1>2, <3>1
    <3>3. Enqueue(x, q[i]) \in S /\ Contains(Enqueue(x, q[i]), c)
      BY <2>3, <3>1, EnqueueTyped
    <3> QED
      BY <3>2, <3>3
  <2>4. f[Len(q)] \in T
    <3>1. q \in Seq(Chunks) /\ a \in S
      OBVIOUS
    <3> HIDE DEF T, S
    <3> QED
      BY <3>1, <1>2, <1>3, <2>2, <2>3, RunReaches
  <2> QED
    BY <1>3, <2>4
<1> QED
  BY <1>5, <1>6

(* Every marked chunk is pending, and its neighbours that are held. *)
LEMMA PendingFacts ==
  ASSUME NEW a \in Apps, queue \in Seq(Chunks), IsInjective(queue)
  PROVE  /\ Pending(a) \in Seq(Chunks) /\ IsInjective(Pending(a))
         /\ \A c : Contains(queue, c) => Contains(Pending(a), c)
         /\ \A d \in a.dirty : /\ Contains(Pending(a), d)
                               /\ \A c \in Near(d) \cap Held(a) : Contains(Pending(a), c)
<1> DEFINE o == InOrder(a.dirty)
<1> DEFINE w == Marked(a, o)
<1>1. o \in Seq(Chunks) /\ \A d \in a.dirty : Contains(o, d)
  BY AppFacts, InOrderFacts
<1> HIDE DEF o
<1>2. w \in Seq(Chunks) /\ \A d \in a.dirty : Contains(w, d) /\ \A c \in Near(d) \cap Held(a) : Contains(w, c)
  BY <1>1, MarkedFacts
<1>3. Pending(a) = Queued(queue, w)
  BY DEF Pending, o
<1> HIDE DEF w
<1> QED
  BY <1>2, <1>3, QueuedFacts

--------------------------------------------------------------------------------
(* What a frame does to the app.                                                *)

(* Whatever in x shows otherwise than in a is marked. *)
Marks(a, x) ==
  /\ a.dirty \subseteq x.dirty
  /\ \A c \in Chunks : VersionIn(x, c) # VersionIn(a, c) => c \in x.dirty
  /\ \A c \in Chunks : c \in Held(a) /\ c \notin Held(x) => c \in x.dirty
  /\ LightChunk \in Held(x) /\ x.light # a.light /\ (Lit(x.light) \/ Lit(a.light)) => LightChunk \in x.dirty

(* Polling takes chunks away at most. *)
Within(a, x) ==
  /\ Held(x) \subseteq Held(a) /\ \A c \in Held(x) : x.held[c] = a.held[c]
  /\ x.gate = a.gate /\ x.wanted = a.wanted /\ x.light = a.light /\ x.attempts = a.attempts
  /\ x.joined => x.center # NoCenter

(* Nothing has changed yet. *)
LEMMA MarksItself == \A a : Marks(a, a)
BY DEF Marks

(* The version of a chunk, 0 when it is not held. *)
LEMMA VersionFacts ==
  ASSUME NEW a \in Apps, NEW c \in Chunks
  PROVE  /\ c \in Held(a) => VersionIn(a, c) = a.held[c].version /\ VersionIn(a, c) \in Versions
         /\ c \notin Held(a) => VersionIn(a, c) = 0
BY AppFacts, StoreFacts DEF VersionIn

(* A window that moves marks what it drops. *)
LEMMA SubscribeMarks ==
  ASSUME NEW a \in Apps, NEW x \in Apps, Marks(a, x), NEW k \in Centers
  PROVE  Marks(a, SubscribeAround(x, k))
<1> DEFINE y == SubscribeAround(x, k)
<1> DEFINE O == Left(x, k)
<1>1. /\ y.dirty = x.dirty \cup (Held(x) \cap O) /\ y.light = x.light
      /\ y.held = [c \in Held(x) \ O |-> x.held[c]]
  BY SubscribeTyped
<1> HIDE DEF y, O
<1>2. Held(y) = Held(x) \ O /\ \A c \in Held(y) : y.held[c] = x.held[c]
  BY <1>1 DEF Held
<1>3. \A c \in Chunks : c \notin Held(x) \cap O => VersionIn(y, c) = VersionIn(x, c)
  BY <1>2 DEF VersionIn
<1>4. Marks(a, y)
  BY <1>1, <1>2, <1>3 DEF Marks
<1> QED
  BY <1>4 DEF y

(* A window that moves takes chunks away at most. *)
LEMMA SubscribeWithin ==
  ASSUME NEW a \in Apps, NEW x \in Apps, Within(a, x), NEW k \in Centers
  PROVE  Within(a, SubscribeAround(x, k))
<1> DEFINE y == SubscribeAround(x, k)
<1> DEFINE O == Left(x, k)
<1>1. /\ y.held = [c \in Held(x) \ O |-> x.held[c]] /\ y.gate = x.gate /\ y.wanted = x.wanted
      /\ y.light = x.light /\ y.attempts = x.attempts /\ y.center = k
  BY SubscribeTyped
<1> HIDE DEF y, O
<1>2. Held(y) = Held(x) \ O /\ \A c \in Held(y) : y.held[c] = x.held[c]
  BY <1>1 DEF Held
<1>3. k # NoCenter
  BY CenterInts
<1>4. Within(a, y)
  BY <1>1, <1>2, <1>3 DEF Within
<1> QED
  BY <1>4 DEF y

(* One event. *)
LEMMA PollStep ==
  ASSUME NEW a \in Apps, NEW x \in Apps, Marks(a, x), Within(a, x), NEW m \in Messages
  PROVE  /\ Marks(a, PollOne(x, m)) /\ Within(a, PollOne(x, m))
         /\ m \in Payloads => PollOne(x, m).inbox = Append(x.inbox, m)
         /\ m \notin Payloads => PollOne(x, m).inbox = x.inbox
<1> DEFINE y == PollOne(x, m)
<1>0. \A z : z.held = x.held => Held(z) = Held(x) /\ \A c : VersionIn(z, c) = VersionIn(x, c)
  BY DEF Held, VersionIn
<1>1. CASE m \in Payloads
  <2>1. y = [x EXCEPT !.inbox = Append(@, m)]
    BY <1>1, PollTyped
  <2>2. /\ y.held = x.held /\ y.dirty = x.dirty /\ y.light = x.light /\ y.gate = x.gate /\ y.wanted = x.wanted
        /\ y.attempts = x.attempts /\ y.joined = x.joined /\ y.center = x.center /\ y.inbox = Append(x.inbox, m)
    BY <2>1 DEF Apps
  <2> HIDE DEF y
  <2>3. Marks(a, y) /\ Within(a, y)
    BY <1>0, <2>2 DEF Marks, Within
  <2> QED
    BY <1>1, <2>2, <2>3 DEF y
<1>2. CASE m \notin Payloads /\ m.kind = "disconnected"
  <2>1. y = [x EXCEPT !.joined = FALSE]
    BY <1>2, PollTyped
  <2>2. /\ y.held = x.held /\ y.dirty = x.dirty /\ y.light = x.light /\ y.gate = x.gate /\ y.wanted = x.wanted
        /\ y.attempts = x.attempts /\ y.joined = FALSE /\ y.inbox = x.inbox
    BY <2>1 DEF Apps
  <2> HIDE DEF y
  <2>3. Marks(a, y) /\ Within(a, y)
    BY <1>0, <2>2 DEF Marks, Within
  <2> QED
    BY <1>2, <2>2, <2>3 DEF y
<1>3. CASE m \notin Payloads /\ m.kind \in {"entered", "position"}
  <2> DEFINE k == CenterOf(TileOf(m.chunk))
  <2>1. k \in Centers
    BY <1>3, PollTyped
  <2> HIDE DEF k
  <2>2. ASSUME NEW z \in Apps, Marks(a, z), Within(a, z), z.inbox = x.inbox
        PROVE  Marks(a, SubscribeAround(z, k)) /\ Within(a, SubscribeAround(z, k)) /\ SubscribeAround(z, k).inbox = x.inbox
    BY <2>1, <2>2, SubscribeMarks, SubscribeWithin, SubscribeTyped
  <2>3. CASE m.kind = "entered"
    <3> DEFINE j == Joining(x)
    <3>1. j \in Apps /\ j.held = x.held /\ j.dirty = x.dirty /\ j.light = x.light /\ j.gate = x.gate
          /\ j.wanted = x.wanted /\ j.attempts = x.attempts /\ j.inbox = x.inbox
      BY JoiningTyped
    <3>2. y = SubscribeAround(j, k)
      BY <2>3, PollTyped DEF k
    <3> HIDE DEF j, y
    <3>3. Marks(a, j)
      BY <1>0, <3>1 DEF Marks
    <3> DEFINE z == [j EXCEPT !.center = k]
    <3>4. y.inbox = x.inbox /\ Marks(a, y)
      BY <2>1, <3>1, <3>2, <3>3, SubscribeMarks, SubscribeTyped
    <3>5. Within(a, y)
      <4>1. /\ y.held = [c \in Held(j) \ Left(j, k) |-> j.held[c]] /\ y.gate = j.gate /\ y.wanted = j.wanted
            /\ y.light = j.light /\ y.attempts = j.attempts /\ y.center = k
        BY <2>1, <3>1, <3>2, SubscribeTyped
      <4>2. Held(y) \subseteq Held(x) /\ \A c \in Held(y) : y.held[c] = x.held[c]
        BY <1>0, <3>1, <4>1 DEF Held
      <4>3. k # NoCenter
        BY <2>1, CenterInts
      <4> QED
        BY <3>1, <4>1, <4>2, <4>3 DEF Within
    <3> QED
      BY <1>3, <3>4, <3>5 DEF y
  <2>4. CASE m.kind = "position"
    <3>1. y = x \/ y = SubscribeAround(x, k)
      BY <2>4, PollTyped DEF k
    <3> QED
      BY <1>3, <2>2, <3>1
  <2> QED
    BY <1>3, <2>3, <2>4
<1> QED
  BY <1>1, <1>2, <1>3, PollTyped

(* Every event of a frame. *)
LEMMA PolledFacts ==
  ASSUME NEW a \in Apps, Rests(a), NEW d \in Seq(Messages)
  PROVE  /\ Polled(a, d) \in Apps /\ Marks(a, Polled(a, d)) /\ Within(a, Polled(a, d))
         /\ \A i \in 1..Len(Polled(a, d).inbox) : \E j \in 1..Len(d) : Polled(a, d).inbox[i] = d[j]
<1> DEFINE T == {x \in Apps : /\ Marks(a, x) /\ Within(a, x)
                              /\ \A i \in 1..Len(x.inbox) : \E j \in 1..Len(d) : x.inbox[i] = d[j]}
<1>1. a \in T
  <2>1. Within(a, a) /\ a.inbox = << >>
    BY DEF Within, Rests
  <2> QED
    BY <2>1, MarksItself
<1>2. /\ Closed(PollMap, Apps, Messages)
      /\ \A x \in Apps, m \in Messages : PollMap[<<x, m>>] = PollOne(x, m)
      /\ \E f : IsRun(Apps, PollMap, a, d, f) /\ Polled(a, d) = f[Len(d)]
  BY PollRuns
<1>3. PICK f : IsRun(Apps, PollMap, a, d, f) /\ Polled(a, d) = f[Len(d)]
  BY <1>2
<1>4. ASSUME NEW i \in 1..Len(d), NEW x \in Apps, x \in T PROVE PollMap[<<x, d[i]>>] \in T
  <2>1. d[i] \in Messages
    BY ElementOfSeq
  <2> DEFINE y == PollOne(x, d[i])
  <2>2. PollMap[<<x, d[i]>>] = y
    BY <1>2, <2>1
  <2>3. /\ y \in Apps /\ Marks(a, y) /\ Within(a, y)
        /\ y.inbox = Append(x.inbox, d[i]) \/ y.inbox = x.inbox
    BY <1>4, <2>1, PollStep, PollTyped
  <2>4. x.inbox \in Seq(Payloads) /\ Len(x.inbox) \in Nat
    BY AppFacts, LenProperties
  <2>5. /\ Len(Append(x.inbox, d[i])) = Len(x.inbox) + 1 /\ Append(x.inbox, d[i])[Len(x.inbox) + 1] = d[i]
        /\ \A j \in 1..Len(x.inbox) : Append(x.inbox, d[i])[j] = x.inbox[j]
    BY <2>4
  <2>6. \A j \in 1..Len(x.inbox) + 1 : j = Len(x.inbox) + 1 \/ j \in 1..Len(x.inbox)
    BY <2>4
  <2> HIDE DEF y
  <2>7. \A j \in 1..Len(y.inbox) : \E n \in 1..Len(d) : y.inbox[j] = d[n]
    BY <1>4, <2>3, <2>5, <2>6
  <2> QED
    BY <2>2, <2>3, <2>7
<1>5. f[Len(d)] \in T
  <2> HIDE DEF T
  <2> QED
    BY <1>1, <1>2, <1>3, <1>4, RunKeeps
<1> QED
  BY <1>3, <1>5

(* One voxel message. *)
LEMMA AppliedMarks ==
  ASSUME NEW a \in Apps, NEW x \in Apps, Marks(a, x), NEW c \in Chunks, NEW y,
         y.dirty = x.dirty \cup {c}, y.light = x.light, Held(x) \ {c} \subseteq Held(y), Held(y) \subseteq Held(x) \cup {c},
         \A d \in Held(y) : d # c => y.held[d] = x.held[d]
  PROVE  Marks(a, y)
<1>1. \A d \in Chunks : d # c => VersionIn(y, d) = VersionIn(x, d)
  BY DEF VersionIn
<1>2. \A d \in Chunks : d # c => (d \in Held(y) <=> d \in Held(x))
  OBVIOUS
<1>3. LightChunk \in Chunks
  BY Constants
<1> QED
  BY <1>1, <1>2, <1>3 DEF Marks

(* A voxel message marks what it changes. *)
LEMMA IngestMarks ==
  ASSUME NEW a \in Apps, NEW x \in Apps, Marks(a, x), NEW m \in Payloads
  PROVE  Marks(a, Ingest(x, m))
<1> DEFINE y == Ingest(x, m)
<1>0. \A z : z.held = x.held => Held(z) = Held(x) /\ \A c : VersionIn(z, c) = VersionIn(x, c)
  BY DEF Held, VersionIn
<1>a. ASSUME NEW c \in Chunks, NEW e PROVE Marks(a, Applied(x, c, e))
  <2> DEFINE z == Applied(x, c, e)
  <2>1. z.dirty = x.dirty \cup {c} /\ z.light = x.light /\ z.held = Put(x.held, c, e)
    BY DEF Applied, Apps
  <2> HIDE DEF z
  <2>2. Held(z) = Held(x) \cup {c} /\ \A d \in Held(z) : d # c => z.held[d] = x.held[d]
    BY <2>1 DEF Held, Put
  <2>3. Marks(a, z)
    BY <2>1, <2>2, AppliedMarks
  <2> QED
    BY <2>3 DEF z
<1>b. ASSUME NEW z \in Apps, Marks(a, z), NEW c PROVE Marks(a, AskResync(z, c))
  <2> DEFINE r == AskResync(z, c)
  <2>1. r.dirty = z.dirty /\ r.light = z.light /\ r.held = z.held
    BY DEF AskResync, Apps
  <2> HIDE DEF r
  <2>2. Held(r) = Held(z) /\ \A d : VersionIn(r, d) = VersionIn(z, d)
    BY <2>1 DEF Held, VersionIn
  <2>3. Marks(a, r)
    BY <1>b, <2>1, <2>2 DEF Marks
  <2> QED
    BY <2>3 DEF r
<1>1. CASE m.kind = "snapshot"
  <2>1. y = IngestSnapshot(x, m) /\ m.chunk \in Chunks
    BY <1>1, IngestTyped
  <2> QED
    BY <1>a, <2>1 DEF IngestSnapshot
<1>2. CASE m.kind = "delta"
  <2>1. y = IngestDelta(x, m) /\ m.chunk \in Chunks
    BY <1>2, IngestTyped
  <2> QED
    BY <1>a, <1>b, <2>1 DEF IngestDelta
<1>3. CASE m.kind = "invalidate"
  <2>1. y = IngestInvalidate(x, m) /\ m.chunk \in Chunks
    BY <1>3, IngestTyped
  <2> DEFINE e == [x EXCEPT !.held = Drop(@, m.chunk), !.dirty = @ \cup {m.chunk}]
  <2>2. e.dirty = x.dirty \cup {m.chunk} /\ e.light = x.light /\ e.held = Drop(x.held, m.chunk)
    BY DEF Apps
  <2>3. e \in Apps
    <3>1. Drop(x.held, m.chunk) \in Stores /\ x.dirty \cup {m.chunk} \subseteq Chunks
      BY <2>1, AppFacts, StoreFacts
    <3> QED
      BY <3>1 DEF Apps
  <2>4. y = AskResync(e, m.chunk)
    BY <2>1 DEF IngestInvalidate
  <2> HIDE DEF e, y
  <2>5. Held(e) = Held(x) \ {m.chunk} /\ \A d \in Held(e) : d # m.chunk => e.held[d] = x.held[d]
    BY <2>2 DEF Held, Drop
  <2>6. Marks(a, e)
    BY <2>1, <2>2, <2>5, AppliedMarks
  <2> QED
    BY <1>b, <2>3, <2>4, <2>6 DEF y
<1>4. CASE m.kind = "light"
  <2>1. y = IngestLight(x, m)
    BY <1>4, IngestTyped
  <2> DEFINE e == [x EXCEPT !.light = m.light]
  <2>2. e.dirty = x.dirty /\ e.light = m.light /\ e.held = x.held
    BY DEF Apps
  <2>3. y = IF LightChanged(x.light, m.light) /\ LightChunk \in Held(e) THEN [e EXCEPT !.dirty = @ \cup {LightChunk}] ELSE e
    BY <2>1 DEF IngestLight, MarkDirty
  <2>4. /\ y.light = m.light /\ y.held = x.held /\ x.dirty \subseteq y.dirty
        /\ LightChanged(x.light, m.light) /\ LightChunk \in Held(x) => LightChunk \in y.dirty
    <3>1. Held(e) = Held(x)
      BY <1>0, <2>2
    <3>2. [e EXCEPT !.dirty = @ \cup {LightChunk}].dirty = e.dirty \cup {LightChunk}
          /\ [e EXCEPT !.dirty = @ \cup {LightChunk}].light = e.light
          /\ [e EXCEPT !.dirty = @ \cup {LightChunk}].held = e.held
      BY DEF Apps
    <3> HIDE DEF e, y
    <3> QED
      BY <2>2, <2>3, <3>1, <3>2
  <2> HIDE DEF y
  <2>5. Held(y) = Held(x) /\ \A c : VersionIn(y, c) = VersionIn(x, c)
    BY <1>0, <2>4
  <2>6. LightChunk \in Held(y) /\ y.light # a.light /\ (Lit(y.light) \/ Lit(a.light)) => LightChunk \in y.dirty
    BY <2>4, <2>5 DEF Marks, LightChanged
  <2>7. Marks(a, y)
    BY <2>4, <2>5, <2>6 DEF Marks
  <2> QED
    BY <2>7 DEF y
<1> QED
  BY <1>1, <1>2, <1>3, <1>4, IngestTyped

(* The app whose inbox is being ingested. *)
Emptied(a) == [a EXCEPT !.inbox = << >>]
(* Nothing but its inbox differs. *)
LEMMA EmptiedFacts ==
  ASSUME NEW a \in Apps
  PROVE  /\ Emptied(a) \in Apps /\ Emptied(a).inbox = << >> /\ Emptied(a).out = a.out
         /\ Emptied(a).joined = a.joined /\ Emptied(a).center = a.center /\ Emptied(a).attempts = a.attempts
         /\ Emptied(a).held = a.held /\ Emptied(a).dirty = a.dirty /\ Emptied(a).light = a.light
         /\ Emptied(a).gate = a.gate /\ Emptied(a).wanted = a.wanted
         /\ Ingested(a) = Taken(Emptied(a), a.inbox)
         /\ a.inbox = << >> => Emptied(a) = a
<1>1. Emptied(a) \in Apps
  <2>1. << >> \in Seq(Payloads)
    OBVIOUS
  <2> QED
    BY <2>1 DEF Emptied, Apps
<1>2. /\ Emptied(a).inbox = << >> /\ Emptied(a).out = a.out
      /\ Emptied(a).joined = a.joined /\ Emptied(a).center = a.center /\ Emptied(a).attempts = a.attempts
      /\ Emptied(a).held = a.held /\ Emptied(a).dirty = a.dirty /\ Emptied(a).light = a.light
      /\ Emptied(a).gate = a.gate /\ Emptied(a).wanted = a.wanted
  BY DEF Emptied, Apps
<1>3. Ingested(a) = Taken(Emptied(a), a.inbox)
  BY DEF Emptied, Ingested
<1>4. a.inbox = << >> => Emptied(a) = a
  BY DEF Emptied, Apps
<1> QED
  BY <1>1, <1>2, <1>3, <1>4

(* What every voxel message keeps the whole inbox keeps.                        *)
LEMMA TakenKeeps ==
  ASSUME NEW a \in Apps, NEW q \in Seq(Payloads), NEW T, a \in T,
         \A i \in 1..Len(q), x \in Apps : x \in T => Ingest(x, q[i]) \in T
  PROVE  Taken(a, q) \in T /\ Taken(a, q) \in Apps
<1>1. /\ Closed(IngestMap, Apps, Payloads)
      /\ \A x \in Apps, m \in Payloads : IngestMap[<<x, m>>] = Ingest(x, m)
      /\ \E f : IsRun(Apps, IngestMap, a, q, f) /\ Taken(a, q) = f[Len(q)]
  BY IngestRuns
<1>2. PICK f : IsRun(Apps, IngestMap, a, q, f) /\ Taken(a, q) = f[Len(q)]
  BY <1>1
<1>3. ASSUME NEW i \in 1..Len(q), NEW x \in Apps, x \in T PROVE IngestMap[<<x, q[i]>>] \in T
  <2>1. q[i] \in Payloads
    BY ElementOfSeq
  <2> QED
    BY <1>1, <1>3, <2>1
<1>4. f[Len(q)] \in T /\ f[Len(q)] \in Apps
  BY <1>1, <1>2, <1>3, RunKeeps
<1> QED
  BY <1>2, <1>4

(* Ingesting says nothing and leaves the window alone. *)
LEMMA IngestedFacts ==
  ASSUME NEW a \in Apps
  PROVE  /\ Ingested(a) \in Apps /\ Ingested(a).inbox = << >> /\ Ingested(a).out = a.out
         /\ Ingested(a).joined = a.joined /\ Ingested(a).center = a.center /\ Ingested(a).attempts = a.attempts
<1> DEFINE e == Emptied(a)
<1> DEFINE T == {x \in Apps : /\ x.inbox = << >> /\ x.out = a.out
                              /\ x.joined = a.joined /\ x.center = a.center /\ x.attempts = a.attempts}
<1>1. e \in T /\ e \in Apps /\ a.inbox \in Seq(Payloads) /\ Ingested(a) = Taken(e, a.inbox)
  BY EmptiedFacts, AppFacts
<1>2. ASSUME NEW i \in 1..Len(a.inbox), NEW x \in Apps, x \in T PROVE Ingest(x, a.inbox[i]) \in T
  <2>1. a.inbox[i] \in Payloads
    BY <1>1, ElementOfSeq
  <2> QED
    BY <1>2, <2>1, IngestTyped
<1>3. Ingested(a) \in T
  <2> HIDE DEF T, e
  <2> QED
    BY <1>1, <1>2, TakenKeeps
<1> QED
  BY <1>3

(* The inbox marks what it changes. *)
LEMMA IngestedMarks ==
  ASSUME NEW b \in Apps, NEW a \in Apps, Marks(b, a)
  PROVE  Marks(b, Ingested(a))
<1> DEFINE e == Emptied(a)
<1> DEFINE T == {x \in Apps : Marks(b, x)}
<1>1. e \in Apps /\ a.inbox \in Seq(Payloads) /\ Ingested(a) = Taken(e, a.inbox)
  BY EmptiedFacts, AppFacts
<1>2. e \in T
  <2>1. e.held = a.held /\ e.dirty = a.dirty /\ e.light = a.light
    BY EmptiedFacts
  <2> HIDE DEF e
  <2>2. Held(e) = Held(a) /\ \A c : VersionIn(e, c) = VersionIn(a, c)
    BY <2>1 DEF Held, VersionIn
  <2> QED
    BY <1>1, <2>1, <2>2 DEF Marks
<1>3. ASSUME NEW i \in 1..Len(a.inbox), NEW x \in Apps, x \in T PROVE Ingest(x, a.inbox[i]) \in T
  <2>1. a.inbox[i] \in Payloads
    BY <1>1, ElementOfSeq
  <2> QED
    BY <1>3, <2>1, IngestTyped, IngestMarks
<1>4. Ingested(a) \in T
  <2> HIDE DEF T, e
  <2> QED
    BY <1>1, <1>2, <1>3, TakenKeeps
<1> QED
  BY <1>4

(* Nothing taken, and one message more. *)
LEMMA TakenOne ==
  ASSUME NEW a \in Apps, NEW q \in Seq(Payloads), NEW m \in Payloads
  PROVE  Taken(a, << >>) = a /\ Taken(a, Append(q, m)) = Ingest(Taken(a, q), m)
<1>1. ASSUME NEW p \in Seq(Payloads)
      PROVE  /\ Closed(IngestMap, Apps, Payloads)
             /\ \A x \in Apps, n \in Payloads : IngestMap[<<x, n>>] = Ingest(x, n)
             /\ \E f : IsRun(Apps, IngestMap, a, p, f) /\ Taken(a, p) = f[Len(p)]
  BY IngestRuns
<1>2. Append(q, m) \in Seq(Payloads) /\ << >> \in Seq(Payloads) /\ Len(<< >>) = 0 /\ Len(q) \in 0..Len(q)
  BY LenProperties
<1>3. PICK f : IsRun(Apps, IngestMap, a, q, f) /\ Taken(a, q) = f[Len(q)]
  BY <1>1
<1>4. PICK h : IsRun(Apps, IngestMap, a, Append(q, m), h) /\ Taken(a, Append(q, m)) = h[Len(Append(q, m))]
  BY <1>1, <1>2
<1>5. PICK e : IsRun(Apps, IngestMap, a, << >>, e) /\ Taken(a, << >>) = e[Len(<< >>)]
  BY <1>1, <1>2
<1>6. Closed(IngestMap, Apps, Payloads) /\ \A x \in Apps, n \in Payloads : IngestMap[<<x, n>>] = Ingest(x, n)
  BY <1>1, <1>2
<1>7. Taken(a, << >>) = a
  BY <1>2, <1>5 DEF IsRun, Goes
<1>8. h[Len(q) + 1] = IngestMap[<<f[Len(q)], m>>] /\ Len(Append(q, m)) = Len(q) + 1
  BY <1>3, <1>4, <1>6, RunAppends
<1>9. f[Len(q)] \in Apps
  BY <1>2, <1>3 DEF IsRun
<1> QED
  BY <1>3, <1>4, <1>6, <1>7, <1>8, <1>9

(* Nothing polled, and one event more. *)
LEMMA PolledOne ==
  ASSUME NEW a \in Apps, NEW q \in Seq(Messages), NEW m \in Messages
  PROVE  /\ Polled(a, << >>) = a /\ Polled(a, Append(q, m)) = PollOne(Polled(a, q), m)
         /\ Polled(a, q) \in Apps
<1>1. ASSUME NEW p \in Seq(Messages)
      PROVE  /\ Closed(PollMap, Apps, Messages)
             /\ \A x \in Apps, n \in Messages : PollMap[<<x, n>>] = PollOne(x, n)
             /\ \E f : IsRun(Apps, PollMap, a, p, f) /\ Polled(a, p) = f[Len(p)]
  BY PollRuns
<1>2. Append(q, m) \in Seq(Messages) /\ << >> \in Seq(Messages) /\ Len(<< >>) = 0 /\ Len(q) \in 0..Len(q)
  BY LenProperties
<1>3. PICK f : IsRun(Apps, PollMap, a, q, f) /\ Polled(a, q) = f[Len(q)]
  BY <1>1
<1>4. PICK h : IsRun(Apps, PollMap, a, Append(q, m), h) /\ Polled(a, Append(q, m)) = h[Len(Append(q, m))]
  BY <1>1, <1>2
<1>5. PICK e : IsRun(Apps, PollMap, a, << >>, e) /\ Polled(a, << >>) = e[Len(<< >>)]
  BY <1>1, <1>2
<1>6. Closed(PollMap, Apps, Messages) /\ \A x \in Apps, n \in Messages : PollMap[<<x, n>>] = PollOne(x, n)
  BY <1>1, <1>2
<1>7. Polled(a, << >>) = a
  BY <1>2, <1>5 DEF IsRun, Goes
<1>8. h[Len(q) + 1] = PollMap[<<f[Len(q)], m>>] /\ Len(Append(q, m)) = Len(q) + 1
  BY <1>3, <1>4, <1>6, RunAppends
<1>9. f[Len(q)] \in Apps
  BY <1>2, <1>3 DEF IsRun
<1> QED
  BY <1>3, <1>4, <1>6, <1>7, <1>8, <1>9

(* A voxel message waits behind the others in the inbox.                        *)
LEMMA IngestedOne ==
  ASSUME NEW a \in Apps, NEW m \in Payloads
  PROVE  Ingested(PollOne(a, m)) = Ingest(Ingested(a), m)
<1> DEFINE b == PollOne(a, m)
<1>1. m \in Messages
  BY DEF Messages
<1>2. b \in Apps /\ b = [a EXCEPT !.inbox = Append(@, m)]
  BY <1>1, PollTyped
<1>3. b.inbox = Append(a.inbox, m) /\ Emptied(b) = Emptied(a)
  BY <1>2 DEF Apps, Emptied
<1>4. Ingested(b) = Taken(Emptied(a), Append(a.inbox, m)) /\ Ingested(a) = Taken(Emptied(a), a.inbox)
  BY <1>2, <1>3, EmptiedFacts
<1>5. Emptied(a) \in Apps /\ a.inbox \in Seq(Payloads)
  BY EmptiedFacts, AppFacts
<1> QED
  BY <1>4, <1>5, TakenOne

(* An empty inbox changes nothing. *)
LEMMA IngestedNothing ==
  ASSUME NEW a \in Apps, a.inbox = << >>
  PROVE  Ingested(a) = a
<1>1. Ingested(a) = Taken(a, << >>)
  BY EmptiedFacts
<1>2. << >> \in Seq(Payloads) /\ [kind |-> "light", light |-> 0] \in Payloads
  BY DEF Payloads
<1> QED
  BY <1>1, <1>2, TakenOne

(* What is ingested is not ahead of what it was made from.                      *)
LEMMA IngestedBehind ==
  ASSUME NEW v, NEW a \in Apps, \A c \in Held(a) : a.held[c].version <= v[c],
         v \in [Chunks -> Versions],
         \A i \in 1..Len(a.inbox) : /\ a.inbox[i].kind = "snapshot" => a.inbox[i].version <= v[a.inbox[i].chunk]
                                    /\ a.inbox[i].kind = "delta" => a.inbox[i].base < v[a.inbox[i].chunk]
  PROVE  \A c \in Held(Ingested(a)) : Ingested(a).held[c].version <= v[c]
<1> DEFINE e == Emptied(a)
<1> DEFINE T == {x \in Apps : \A c \in Held(x) : x.held[c].version <= v[c]}
<1>1. e \in Apps /\ a.inbox \in Seq(Payloads) /\ Ingested(a) = Taken(e, a.inbox)
  BY EmptiedFacts, AppFacts
<1>2. e \in T
  <2>1. e.held = a.held
    BY EmptiedFacts
  <2> HIDE DEF e
  <2> QED
    BY <1>1, <2>1 DEF Held
<1>3. ASSUME NEW i \in 1..Len(a.inbox), NEW x \in Apps, x \in T PROVE Ingest(x, a.inbox[i]) \in T
  <2> DEFINE m == a.inbox[i]
  <2> DEFINE y == Ingest(x, m)
  <2>1. m \in Payloads /\ (m.kind = "snapshot" => m.version <= v[m.chunk]) /\ (m.kind = "delta" => m.base < v[m.chunk])
    BY <1>1, ElementOfSeq
  <2> SUFFICES y \in T
    OBVIOUS
  <2> HIDE DEF m
  <2>a. ASSUME NEW c \in Chunks, NEW t, t.version <= v[c] PROVE \A d \in Held(Applied(x, c, t)) : Applied(x, c, t).held[d].version <= v[d]
    <3> DEFINE z == Applied(x, c, t)
    <3>1. z.held = Put(x.held, c, t)
      BY DEF Applied, Apps
    <3> HIDE DEF z
    <3>2. \A d \in Held(z) : (d = c /\ z.held[d] = t) \/ (d \in Held(x) /\ z.held[d] = x.held[d])
      BY <3>1 DEF Held, Put
    <3>3. \A d \in Held(z) : z.held[d].version <= v[d]
      BY <1>3, <2>a, <3>2
    <3> QED
      BY <3>3 DEF z
  <2>2. y \in Apps
    BY <2>1, IngestTyped
  <2>3. CASE m.kind = "snapshot"
    <3>1. y = Applied(x, m.chunk, [version |-> m.version, edits |-> 1..m.version]) /\ m.chunk \in Chunks
      BY <2>1, <2>3, IngestTyped DEF IngestSnapshot
    <3> HIDE DEF y
    <3> QED
      BY <2>1, <2>2, <2>3, <2>a, <3>1
  <2>4. CASE m.kind = "delta" /\ DeltaFits(x, m)
    <3>1. /\ m.chunk \in Chunks /\ m.base \in Versions
          /\ y = Applied(x, m.chunk, [version |-> m.base + 1, edits |-> x.held[m.chunk].edits \cup {m.base + 1}])
      BY <2>1, <2>4, IngestTyped DEF IngestDelta
    <3>2. m.base + 1 <= v[m.chunk]
      BY <2>1, <2>4, <3>1 DEF Versions
    <3> HIDE DEF y
    <3> QED
      BY <2>2, <2>a, <3>1, <3>2
  <2>5. CASE m.kind = "delta" /\ ~DeltaFits(x, m)
    <3>1. y = AskResync(x, m.chunk)
      BY <2>1, <2>5, IngestTyped DEF IngestDelta
    <3>2. y.held = x.held
      BY <3>1 DEF AskResync, Apps
    <3> HIDE DEF y
    <3> QED
      BY <1>3, <2>2, <3>2 DEF Held
  <2>6. CASE m.kind = "invalidate"
    <3>1. y = IngestInvalidate(x, m)
      BY <2>1, <2>6, IngestTyped
    <3>2. y.held = Drop(x.held, m.chunk)
      BY <3>1 DEF IngestInvalidate, AskResync, Apps
    <3> HIDE DEF y
    <3>3. Held(y) \subseteq Held(x) /\ \A d \in Held(y) : y.held[d] = x.held[d]
      BY <3>2 DEF Held, Drop
    <3> QED
      BY <1>3, <2>2, <3>3
  <2>7. CASE m.kind = "light"
    <3>1. y = IngestLight(x, m)
      BY <2>1, <2>7, IngestTyped
    <3>2. y.held = x.held
      BY <3>1 DEF IngestLight, MarkDirty, Apps
    <3> HIDE DEF y
    <3> QED
      BY <1>3, <2>2, <3>2 DEF Held
  <2> QED
    BY <2>1, <2>3, <2>4, <2>5, <2>6, <2>7, IngestTyped
<1>4. Ingested(a) \in T
  <2> HIDE DEF T, e
  <2> QED
    BY <1>1, <1>2, <1>3, TakenKeeps
<1> QED
  BY <1>4

(* A chunk known as the server has it stays so, or forks.                       *)
LEMMA IngestedKnown ==
  ASSUME NEW a \in Apps, NEW c \in Chunks, NEW v \in Versions, c \in Held(a), a.held[c].version = v,
         \A i \in 1..Len(a.inbox) : a.inbox[i].kind \in {"snapshot", "delta"} /\ a.inbox[i].chunk = c
                                      => a.inbox[i].kind = "snapshot" /\ a.inbox[i].version = v
  PROVE  c \in Ingested(a).gate \/ (c \in Held(Ingested(a)) /\ Ingested(a).held[c].version = v)
<1> DEFINE e == Emptied(a)
<1> DEFINE good(x) == c \in x.gate \/ (c \in Held(x) /\ x.held[c].version = v)
<1> DEFINE T == {x \in Apps : good(x)}
<1>1. e \in Apps /\ a.inbox \in Seq(Payloads) /\ Ingested(a) = Taken(e, a.inbox)
  BY EmptiedFacts, AppFacts
<1>2. e \in T
  <2>1. e.held = a.held
    BY EmptiedFacts
  <2> HIDE DEF e
  <2> QED
    BY <1>1, <2>1 DEF Held
<1>3. ASSUME NEW i \in 1..Len(a.inbox), NEW x \in Apps, x \in T PROVE Ingest(x, a.inbox[i]) \in T
  <2> DEFINE m == a.inbox[i]
  <2> DEFINE y == Ingest(x, m)
  <2>1. m \in Payloads /\ (m.kind \in {"snapshot", "delta"} /\ m.chunk = c => m.kind = "snapshot" /\ m.version = v)
    BY <1>1, ElementOfSeq
  <2> SUFFICES y \in T
    OBVIOUS
  <2> HIDE DEF m
  <2>a. ASSUME NEW d \in Chunks, NEW t, d = c => t.version = v PROVE good(Applied(x, d, t))
    <3> DEFINE z == Applied(x, d, t)
    <3>1. z.held = Put(x.held, d, t) /\ z.gate = x.gate \ {d}
      BY DEF Applied, Apps
    <3> HIDE DEF z
    <3>2. d \in Held(z) /\ z.held[d] = t /\ \A k \in Held(x) : k \in Held(z) /\ (k # d => z.held[k] = x.held[k])
      BY <3>1 DEF Held, Put
    <3>3. good(z)
      BY <1>3, <2>a, <3>1, <3>2
    <3> QED
      BY <3>3 DEF z
  <2>2. y \in Apps
    BY <2>1, IngestTyped
  <2>3. CASE m.kind = "snapshot"
    <3>1. y = Applied(x, m.chunk, [version |-> m.version, edits |-> 1..m.version]) /\ m.chunk \in Chunks
      BY <2>1, <2>3, IngestTyped DEF IngestSnapshot
    <3> HIDE DEF y
    <3> QED
      BY <2>1, <2>2, <2>3, <2>a, <3>1
  <2>4. CASE m.kind = "delta" /\ DeltaFits(x, m)
    <3>1. /\ m.chunk \in Chunks /\ m.chunk # c
          /\ y = Applied(x, m.chunk, [version |-> m.base + 1, edits |-> x.held[m.chunk].edits \cup {m.base + 1}])
      BY <2>1, <2>4, IngestTyped DEF IngestDelta
    <3> HIDE DEF y
    <3> QED
      BY <2>2, <2>a, <3>1
  <2>5. CASE m.kind = "delta" /\ ~DeltaFits(x, m)
    <3>1. y = AskResync(x, m.chunk)
      BY <2>1, <2>5, IngestTyped DEF IngestDelta
    <3>2. y.held = x.held /\ x.gate \subseteq y.gate
      BY <3>1 DEF AskResync, Apps
    <3> HIDE DEF y
    <3> QED
      BY <1>3, <2>2, <3>2 DEF Held
  <2>6. CASE m.kind = "invalidate"
    <3>1. y = IngestInvalidate(x, m)
      BY <2>1, <2>6, IngestTyped
    <3>2. y.held = Drop(x.held, m.chunk) /\ y.gate = x.gate \cup {m.chunk}
      BY <3>1 DEF IngestInvalidate, AskResync, Apps
    <3> HIDE DEF y
    <3>3. \A d \in Held(x) : d # m.chunk => d \in Held(y) /\ y.held[d] = x.held[d]
      BY <3>2 DEF Held, Drop
    <3> QED
      BY <1>3, <2>2, <3>2, <3>3
  <2>7. CASE m.kind = "light"
    <3>1. y = IngestLight(x, m)
      BY <2>1, <2>7, IngestTyped
    <3>2. y.held = x.held /\ y.gate = x.gate
      BY <3>1 DEF IngestLight, MarkDirty, Apps
    <3> HIDE DEF y
    <3> QED
      BY <1>3, <2>2, <3>2 DEF Held
  <2> QED
    BY <2>1, <2>3, <2>4, <2>5, <2>6, <2>7, IngestTyped
<1>4. Ingested(a) \in T
  <2> HIDE DEF T, e
  <2> QED
    BY <1>1, <1>2, <1>3, TakenKeeps
<1> QED
  BY <1>4

--------------------------------------------------------------------------------
(* What the client claims to know.                                              *)

(* A new window has every chunk in it sent that is not held as the server has   *)
(* it.                                                                          *)
LEMMA Subscribed ==
  ASSUME NEW v \in [Chunks -> Versions], NEW z \in Apps, Behind(v, z.held), NEW k \in Centers,
         NEW o \in Seq(Commands)
  PROVE  LET y == SubscribeAround(z, k)
             p == o \o (<<WindowCommand(z, k)>> \o Leave(z, k))
         IN  /\ p \in Seq(Commands) /\ Len(p) \in Nat /\ Len(p) >= Len(o) + 1 /\ \A n \in 1..Len(o) : p[n] = o[n]
             /\ \A n \in 1..Len(p) : n > Len(o) =>
                  /\ NeverAhead(v, p[n])
                  /\ \A c \in Chunks : Claims(v, p[n], c) => c \in Held(y) /\ c \in Held(z) /\ z.held[c].version = v[c]
             /\ \A c \in Chunks : \/ c \notin Window(k, Radius)
                                  \/ c \in Held(y) /\ c \in Held(z) /\ z.held[c].version = v[c]
                                  \/ \E j \in Len(o) + 1..Len(p) : Mends(v, p[j], c)
<1> DEFINE y == SubscribeAround(z, k)
<1> DEFINE W == WindowCommand(z, k)
<1> DEFINE l == Leave(z, k)
<1> DEFINE p == o \o (<<W>> \o l)
<1>1. /\ l \in Seq(Commands) /\ W \in Commands
      /\ y.held = [c \in Held(z) \ Left(z, k) |-> z.held[c]]
  BY SubscribeTyped
<1>2. Left(z, k) \cap Window(k, Radius) = {}
  BY DEF Left, FallingOut
<1>3. Held(y) = Held(z) \ Left(z, k)
  BY <1>1 DEF Held
<1>4. /\ W.kind = "subscribe" /\ W.center = k /\ W.radius = Radius /\ DOMAIN W.known = Held(z) \cap Window(k, Radius)
      /\ \A c \in DOMAIN W.known : W.known[c] = z.held[c].version
  BY DEF WindowCommand, Known
<1>5. l = << >> \/ (Len(l) = 1 /\ l[1].kind = "unsubscribe")
  BY DEF Leave
<1> HIDE DEF y, W, l
<1>6. Len(o) \in Nat /\ Len(l) \in Nat /\ Len(l) <= 1
  <2>1. Len(<< >>) = 0
    OBVIOUS
  <2>2. Len(l) = 0 \/ Len(l) = 1
    BY <1>5, <2>1
  <2>3. Len(o) \in Nat
    BY LenProperties
  <2>4. \A n : n = 0 \/ n = 1 => n \in Nat /\ n <= 1
    OBVIOUS
  <2>5. Len(l) \in Nat /\ Len(l) <= 1
    BY <2>2, <2>4, Zenon
  <2> QED
    BY <2>3, <2>5
<1>7. /\ <<W>> \o l \in Seq(Commands) /\ Len(<<W>> \o l) = 1 + Len(l) /\ (<<W>> \o l)[1] = W
      /\ \A i \in 2..1 + Len(l) : (<<W>> \o l)[i] = l[1]
  <2>1. <<W>> \in Seq(Commands) /\ Len(<<W>>) = 1 /\ <<W>>[1] = W
    BY <1>1
  <2>2. /\ <<W>> \o l \in Seq(Commands) /\ Len(<<W>> \o l) = 1 + Len(l)
        /\ \A i \in 1..1 + Len(l) : (<<W>> \o l)[i] = IF i <= 1 THEN <<W>>[i] ELSE l[i - 1]
    BY <1>1, <2>1, ConcatProperties
  <2>3. \A i \in 2..1 + Len(l) : i = 2
    BY <1>6
  <2>4. (<<W>> \o l)[1] = W
    BY <1>6, <2>1, <2>2
  <2>5. \A i \in 2..1 + Len(l) : (<<W>> \o l)[i] = l[1]
    <3>1. \A i \in 2..1 + Len(l) : i \in 1..1 + Len(l) /\ ~(i <= 1) /\ i - 1 = 1
      BY <1>6, <2>3
    <3> QED
      BY <2>2, <3>1
  <2> QED
    BY <2>2, <2>4, <2>5
<1>8. /\ p \in Seq(Commands) /\ Len(p) = Len(o) + 1 + Len(l)
      /\ \A i \in 1..Len(p) : p[i] = IF i <= Len(o) THEN o[i] ELSE (<<W>> \o l)[i - Len(o)]
  <2> DEFINE t == <<W>> \o l
  <2>1. t \in Seq(Commands) /\ Len(t) = 1 + Len(l)
    BY <1>7
  <2> HIDE DEF t
  <2>2. o \o t \in Seq(Commands) /\ Len(o \o t) = Len(o) + Len(t)
        /\ \A i \in 1..Len(o) + Len(t) : (o \o t)[i] = IF i <= Len(o) THEN o[i] ELSE t[i - Len(o)]
    <3>1. o \in Seq(Commands)
      OBVIOUS
    <3>2. \A r, s \in Seq(Commands) :
            /\ r \o s \in Seq(Commands) /\ Len(r \o s) = Len(r) + Len(s)
            /\ \A i \in 1..Len(r) + Len(s) : (r \o s)[i] = IF i <= Len(r) THEN r[i] ELSE s[i - Len(r)]
      BY ConcatProperties
    <3> QED
      BY ONLY <3>1, <3>2, <2>1
  <2>3. Len(o) + Len(t) = Len(o) + 1 + Len(l)
    BY <1>6, <2>1
  <2> QED
    BY <2>2, <2>3 DEF t
<1>9. \A n \in 1..Len(o) : p[n] = o[n] /\ n \in 1..Len(p)
  <2>1. \A n \in 1..Len(o) : n \in 1..Len(p) /\ n <= Len(o)
    BY <1>6, <1>8
  <2> QED
    BY <1>8, <2>1
<1>10. Len(o) + 1 \in Len(o) + 1..Len(p) /\ p[Len(o) + 1] = W
  <2>1. Len(o) + 1 \in 1..Len(p) /\ ~(Len(o) + 1 <= Len(o)) /\ Len(o) + 1 - Len(o) = 1 /\ Len(o) + 1 \in Len(o) + 1..Len(p)
    BY <1>6, <1>8
  <2> QED
    BY <1>7, <1>8, <2>1
<1>11. ASSUME NEW n \in 1..Len(p), n > Len(o) PROVE p[n] = W \/ p[n].kind = "unsubscribe"
  <2>1. CASE n = Len(o) + 1
    BY <1>10, <2>1
  <2>2. CASE n # Len(o) + 1
    <3>1. n - Len(o) \in 2..1 + Len(l) /\ ~(n <= Len(o)) /\ Len(l) # 0
      BY <1>11, <1>6, <1>8, <2>2
    <3>2. p[n] = l[1]
      BY <1>7, <1>8, <3>1
    <3> QED
      BY <1>5, <3>1, <3>2
  <2> QED
    BY <2>1, <2>2
<1>12. NeverAhead(v, W) /\ \A c \in Chunks : Claims(v, W, c) => c \in Held(y) /\ c \in Held(z) /\ z.held[c].version = v[c]
  <2>1. \A c \in Held(z) : z.held[c].version <= v[c]
    BY DEF Behind, Held
  <2>2. NeverAhead(v, W)
    BY <1>4, <2>1 DEF NeverAhead
  <2> QED
    BY <1>2, <1>3, <1>4, <2>2 DEF Claims
<1>13. \A c \in Chunks : \/ c \notin Window(k, Radius) \/ Mends(v, W, c)
                         \/ c \in Held(y) /\ c \in Held(z) /\ z.held[c].version = v[c]
  BY <1>2, <1>3, <1>4 DEF Mends, Covers
<1>14. /\ \A c \in Chunks, n \in 1..Len(p) : p[n].kind = "unsubscribe" => ~Claims(v, p[n], c) /\ NeverAhead(v, p[n])
  BY DEF Claims, Covers, NeverAhead
<1>15. Len(p) \in Nat /\ Len(p) >= Len(o) + 1
  BY <1>6, <1>8
<1>16. LightChunk \in Chunks
  BY Constants
<1> HIDE DEF p
<1>17. \A n \in 1..Len(p) : n > Len(o) =>
         /\ NeverAhead(v, p[n])
         /\ \A c \in Chunks : Claims(v, p[n], c) => c \in Held(y) /\ c \in Held(z) /\ z.held[c].version = v[c]
  BY <1>11, <1>12, <1>14, <1>16
<1>18. \A c \in Chunks : \/ c \notin Window(k, Radius)
                         \/ c \in Held(y) /\ c \in Held(z) /\ z.held[c].version = v[c]
                         \/ \E j \in Len(o) + 1..Len(p) : Mends(v, p[j], c)
  BY <1>10, <1>13
<1> QED
  BY <1>8, <1>9, <1>15, <1>17, <1>18 DEF p, y, W, l

(* The known chunks of an app are what it held, and the inbox what arrived.     *)
LEMMA PolledKnown ==
  ASSUME NEW v \in [Chunks -> Versions], NEW a \in Apps, Rests(a), Behind(v, a.held),
         NEW d \in Seq(Messages), \A i \in 1..Len(d) : Fresh(v, a, d[i]), NEW c \in Chunks
  PROVE  LET x == Polled(a, d)
         IN  c \in Held(x) /\ x.held[c].version = v[c]
               => c \in Ingested(x).gate \/ (c \in Held(Ingested(x)) /\ Ingested(x).held[c].version = v[c])
<1> DEFINE x == Polled(a, d)
<1>1. /\ x \in Apps /\ Held(x) \subseteq Held(a) /\ \A e \in Held(x) : x.held[e] = a.held[e]
      /\ \A i \in 1..Len(x.inbox) : \E j \in 1..Len(d) : x.inbox[i] = d[j]
  BY PolledFacts DEF Within
<1> HIDE DEF x
<1> SUFFICES ASSUME c \in Held(x), x.held[c].version = v[c]
             PROVE  c \in Ingested(x).gate \/ (c \in Held(Ingested(x)) /\ Ingested(x).held[c].version = v[c])
  BY DEF x
<1>2. c \in Held(a) /\ a.held[c].version = v[c] /\ v[c] \in Versions
  BY <1>1
<1>3. ASSUME NEW i \in 1..Len(x.inbox), x.inbox[i].kind \in {"snapshot", "delta"}, x.inbox[i].chunk = c
      PROVE  x.inbox[i].kind = "snapshot" /\ x.inbox[i].version = v[c]
  <2> DEFINE m == x.inbox[i]
  <2>1. PICK j \in 1..Len(d) : m = d[j]
    BY <1>1
  <2>2. m \in Payloads
    BY <1>1, AppFacts, ElementOfSeq
  <2>3. Fresh(v, a, m)
    BY <2>1
  <2> HIDE DEF m
  <2>4. m.kind = "snapshot" => m.version \in Versions /\ m.version <= v[c] /\ v[c] <= m.version
    BY <1>2, <1>3, <2>2, <2>3, IngestTyped DEF Fresh, m
  <2>5. m.kind = "delta" => m.base \in Versions /\ m.base < v[c] /\ v[c] <= m.base
    BY <1>2, <1>3, <2>2, <2>3, IngestTyped DEF Fresh, m
  <2>6. m.kind # "delta" /\ (m.kind = "snapshot" => m.version = v[c])
    BY <1>2, <2>4, <2>5 DEF Versions
  <2> QED
    BY <1>3, <2>6 DEF m
<1> QED
  BY <1>1, <1>2, <1>3, IngestedKnown

(* The same of an app given by name. *)
LEMMA PolledStays ==
  ASSUME NEW v \in [Chunks -> Versions], NEW a \in Apps, Rests(a), Behind(v, a.held),
         NEW d \in Seq(Messages), \A i \in 1..Len(d) : Fresh(v, a, d[i]), NEW c \in Chunks,
         NEW x, x = Polled(a, d), c \in Held(x), x.held[c].version = v[c]
  PROVE  c \in Ingested(x).gate \/ (c \in Held(Ingested(x)) /\ Ingested(x).held[c].version = v[c])
<1>1. /\ Polled(a, d) = x /\ c \in Held(Polled(a, d)) /\ Polled(a, d).held[c].version = v[c]
  OBVIOUS
<1>2. \/ c \in Ingested(Polled(a, d)).gate
      \/ c \in Held(Ingested(Polled(a, d))) /\ Ingested(Polled(a, d)).held[c].version = v[c]
  BY <1>1, PolledKnown
<1> QED
  BY <1>1, <1>2

(* What an app says of itself while it polls is true, or mended by what it says *)
(* later.                                                                       *)
Says(v, x) ==
  \A n \in 1..Len(x.out) :
    /\ NeverAhead(v, x.out[n])
    /\ \A c \in Chunks : Claims(v, x.out[n], c) =>
         \/ c \in Held(x) /\ x.held[c].version = v[c]
         \/ x.center = NoCenter \/ c \notin Window(x.center, Radius)
         \/ \E j \in n + 1..Len(x.out) : Mends(v, x.out[j], c)

(* A window says what is held at that moment. *)
LEMMA SubscribeSays ==
  ASSUME NEW v \in [Chunks -> Versions], NEW z \in Apps, Behind(v, z.held), NEW k \in Centers,
         NEW o \in Seq(Commands), z.out = o,
         \A n \in 1..Len(o) : NeverAhead(v, o[n])
  PROVE  Says(v, SubscribeAround(z, k))
<1> DEFINE y == SubscribeAround(z, k)
<1> DEFINE p == o \o (<<WindowCommand(z, k)>> \o Leave(z, k))
<1>1. /\ p \in Seq(Commands) /\ Len(p) \in Nat /\ Len(p) >= Len(o) + 1 /\ \A n \in 1..Len(o) : p[n] = o[n]
      /\ \A n \in 1..Len(p) : n > Len(o) =>
           /\ NeverAhead(v, p[n])
           /\ \A c \in Chunks : Claims(v, p[n], c) => c \in Held(y) /\ c \in Held(z) /\ z.held[c].version = v[c]
      /\ \A c \in Chunks : \/ c \notin Window(k, Radius)
                           \/ c \in Held(y) /\ c \in Held(z) /\ z.held[c].version = v[c]
                           \/ \E j \in Len(o) + 1..Len(p) : Mends(v, p[j], c)
  BY Subscribed
<1>2. y.out = p /\ y.center = k /\ y.held = [c \in Held(z) \ Left(z, k) |-> z.held[c]]
  BY SubscribeTyped
<1>3. Len(o) \in Nat
  BY LenProperties
<1> HIDE DEF y, p
<1>4. \A c \in Held(y) : y.held[c] = z.held[c]
  BY <1>2 DEF Held
<1>5. ASSUME NEW n \in 1..Len(p), NEW c \in Chunks, Claims(v, p[n], c)
      PROVE  \/ c \in Held(y) /\ y.held[c].version = v[c]
             \/ c \notin Window(k, Radius)
             \/ \E j \in n + 1..Len(p) : Mends(v, p[j], c)
  <2>1. CASE n > Len(o)
    BY <1>1, <1>4, <1>5, <2>1
  <2>2. CASE ~(n > Len(o))
    <3>1. \A j \in Len(o) + 1..Len(p) : j \in n + 1..Len(p)
      BY <1>1, <1>3, <2>2
    <3> QED
      BY <1>1, <1>4, <3>1
  <2> QED
    BY <2>1, <2>2
<1>6. ASSUME NEW n \in 1..Len(p) PROVE NeverAhead(v, p[n])
  <2>1. CASE n > Len(o)
    BY <1>1, <2>1
  <2>2. CASE ~(n > Len(o))
    <3>1. n \in 1..Len(o)
      BY <1>1, <1>3, <2>2
    <3> QED
      BY <1>1, <3>1
  <2> QED
    BY <2>1, <2>2
<1>7. Says(v, y)
  BY <1>2, <1>5, <1>6 DEF Says
<1> QED
  BY <1>7 DEF y

(* What an app said in a frame is true of what it comes to, or mended. *)
LEMMA PolledTrusted ==
  ASSUME NEW v \in [Chunks -> Versions], NEW a \in Apps, Rests(a), Behind(v, a.held),
         NEW d \in Seq(Messages), \A i \in 1..Len(d) : Fresh(v, a, d[i])
  PROVE  Trusted(v, Ingested(Polled(a, d)), Ingested(Polled(a, d)).out)
<1> DEFINE T == {x \in Apps : Marks(a, x) /\ Within(a, x) /\ Says(v, x)}
<1>1. a \in T
  <2>1. Within(a, a) /\ Len(a.out) = 0
    BY DEF Within, Rests
  <2> QED
    BY <2>1, MarksItself DEF Says
<1>2. /\ Closed(PollMap, Apps, Messages)
      /\ \A x \in Apps, m \in Messages : PollMap[<<x, m>>] = PollOne(x, m)
      /\ \E f : IsRun(Apps, PollMap, a, d, f) /\ Polled(a, d) = f[Len(d)]
  BY PollRuns
<1>3. PICK f : IsRun(Apps, PollMap, a, d, f) /\ Polled(a, d) = f[Len(d)]
  BY <1>2
<1>4. ASSUME NEW i \in 1..Len(d), NEW x \in Apps, x \in T PROVE PollMap[<<x, d[i]>>] \in T
  <2> DEFINE m == d[i]
  <2> DEFINE y == PollOne(x, m)
  <2> SUFFICES y \in T
    <3>1. m \in Messages
      BY ElementOfSeq
    <3> QED
      BY <1>2, <3>1
  <2>1. m \in Messages
    BY ElementOfSeq
  <2> HIDE DEF m
  <2>2. y \in Apps /\ Marks(a, y) /\ Within(a, y)
    BY <1>4, <2>1, PollStep, PollTyped
  <2>3. ASSUME y.out = x.out, y.held = x.held, y.center = x.center PROVE Says(v, y)
    <3> HIDE DEF y
    <3>1. Held(y) = Held(x)
      BY <2>3 DEF Held
    <3> QED
      BY <1>4, <2>3, <3>1 DEF Says
  <2>4. Behind(v, x.held) /\ x.out \in Seq(Commands) /\ \A n \in 1..Len(x.out) : NeverAhead(v, x.out[n])
    <3>1. Behind(v, x.held)
      BY <1>4 DEF Behind, Within, Held
    <3> QED
      BY <1>4, <3>1, AppFacts DEF Says
  <2>5. CASE m \in Payloads
    <3>1. y = [x EXCEPT !.inbox = Append(@, m)]
      BY <2>1, <2>5, PollTyped
    <3>2. y.out = x.out /\ y.held = x.held /\ y.center = x.center
      BY <3>1 DEF Apps
    <3> HIDE DEF y
    <3> QED
      BY <2>2, <2>3, <3>2
  <2>6. CASE m.kind = "disconnected"
    <3>1. y = [x EXCEPT !.joined = FALSE]
      BY <2>1, <2>6, PollTyped
    <3>2. y.out = x.out /\ y.held = x.held /\ y.center = x.center
      BY <3>1 DEF Apps
    <3> HIDE DEF y
    <3> QED
      BY <2>2, <2>3, <3>2
  <2>7. CASE m.kind = "entered"
    <3> DEFINE k == CenterOf(TileOf(m.chunk))
    <3> DEFINE z == Joining(x)
    <3>1. k \in Centers /\ y = SubscribeAround(z, k)
      BY <2>1, <2>7, PollTyped
    <3>2. z \in Apps /\ z.held = x.held /\ z.out = x.out
      BY JoiningTyped
    <3> HIDE DEF y, z, k
    <3>3. Says(v, y)
      BY <2>4, <3>1, <3>2, SubscribeSays
    <3> QED
      BY <2>2, <3>3
  <2>8. CASE m.kind = "position"
    <3> DEFINE k == CenterOf(TileOf(m.chunk))
    <3>1. k \in Centers /\ (y = x \/ y = SubscribeAround(x, k))
      BY <2>1, <2>8, PollTyped
    <3> HIDE DEF k
    <3>2. Says(v, SubscribeAround(x, k))
      BY <2>4, <3>1, SubscribeSays
    <3> HIDE DEF y
    <3> QED
      BY <1>4, <2>2, <3>1, <3>2
  <2> QED
    BY <2>1, <2>5, <2>6, <2>7, <2>8, PollTyped
<1>5. f[Len(d)] \in T
  <2> HIDE DEF T
  <2> QED
    BY <1>1, <1>2, <1>3, <1>4, RunKeeps
<1> DEFINE x == Polled(a, d)
<1> DEFINE y == Ingested(x)
<1>6. x \in Apps /\ Says(v, x)
  BY <1>3, <1>5
<1>7. y.out = x.out /\ y.center = x.center
  BY <1>6, IngestedFacts
<1>8. \A c \in Chunks : c \in Held(x) /\ x.held[c].version = v[c]
                           => c \in y.gate \/ (c \in Held(y) /\ y.held[c].version = v[c])
  BY PolledKnown
<1> HIDE DEF x, y
<1>9. Trusted(v, y, y.out)
  BY <1>6, <1>7, <1>8 DEF Trusted, Provided, Settled, Says
<1> QED
  BY <1>9 DEF x, y

(* What the app is after its inbox. *)
LEMMA InboxFacts ==
  ASSUME NEW a \in Apps
  PROVE  LET b == Ingested(a)
             y == IngestInbox(a)
         IN  /\ y \in Apps /\ y.wanted = {} /\ y.inbox = << >>
             /\ y.held = b.held /\ y.dirty = b.dirty /\ y.light = b.light /\ y.gate = b.gate
             /\ y.center = a.center /\ y.joined = a.joined /\ y.attempts = a.attempts
             /\ \E s \in Seq(Commands) :
                  /\ y.out = a.out \o s
                  /\ \A i \in 1..Len(s) : s[i].kind = "subscribe" /\ DOMAIN s[i].known = {}
<1> DEFINE b == Ingested(a)
<1> DEFINE y == IngestInbox(a)
<1> DEFINE asked == InOrder(b.wanted)
<1> DEFINE s == [i \in DOMAIN asked |-> ChunkCommand(asked[i])]
<1>1. /\ b \in Apps /\ b.inbox = << >> /\ b.out = a.out
      /\ b.joined = a.joined /\ b.center = a.center /\ b.attempts = a.attempts
  BY IngestedFacts
<1>2. asked \in Seq(Chunks)
  BY InOrderFacts
<1>3. y = [b EXCEPT !.wanted = {}, !.out = @ \o s]
  BY DEF IngestInbox
<1>4. ASSUME NEW c \in Chunks
      PROVE  ChunkCommand(c) \in Commands /\ ChunkCommand(c).kind = "subscribe" /\ DOMAIN ChunkCommand(c).known = {}
  <2>1. << >> \in [{} -> Versions] /\ DOMAIN << >> = {} /\ {} \in SUBSET Chunks
    OBVIOUS
  <2>2. << >> \in Claimed
    BY <2>1 DEF Claimed
  <2>3. c \in Int /\ 0 \in Nat
    BY Constants
  <2> QED
    BY <2>1, <2>2, <2>3 DEF ChunkCommand, Commands
<1> HIDE DEF b, asked
<1>5. Len(asked) \in Nat /\ DOMAIN asked = 1..Len(asked) /\ \A i \in 1..Len(asked) : asked[i] \in Chunks
  BY <1>2, LenProperties, ElementOfSeq
<1>6. s \in Seq(Commands) /\ Len(s) = Len(asked)
  <2>1. s \in [1..Len(asked) -> Commands]
    BY <1>4, <1>5
  <2> HIDE DEF s
  <2> QED
    BY <1>5, <2>1, IsASeq
<1>7. \A i \in 1..Len(s) : s[i].kind = "subscribe" /\ DOMAIN s[i].known = {}
  <2>1. \A i \in 1..Len(asked) : s[i] = ChunkCommand(asked[i])
    BY <1>5
  <2> HIDE DEF s
  <2> QED
    BY <1>4, <1>5, <1>6, <2>1
<1> HIDE DEF s, y
<1>8. a.out \o s \in Seq(Commands)
  BY <1>6, AppFacts, ConcatProperties
<1>9. y \in Apps
  BY <1>1, <1>3, <1>8 DEF Apps
<1>10. /\ y.wanted = {} /\ y.inbox = << >> /\ y.out = a.out \o s
       /\ y.held = b.held /\ y.dirty = b.dirty /\ y.light = b.light /\ y.gate = b.gate
       /\ y.center = a.center /\ y.joined = a.joined /\ y.attempts = a.attempts
  BY <1>1, <1>3 DEF Apps
<1>11. \E r \in Seq(Commands) : y.out = a.out \o r /\ \A i \in 1..Len(r) : r[i].kind = "subscribe" /\ DOMAIN r[i].known = {}
  BY <1>6, <1>7, <1>10
<1> QED
  BY <1>9, <1>10, <1>11 DEF y, b

(* A sequence cut in two. *)
LEMMA CutFacts ==
  ASSUME NEW S, NEW q \in Seq(S), NEW n \in Nat, n <= Len(q)
  PROVE  /\ SubSeq(q, 1, n) \in Seq(S) /\ Len(SubSeq(q, 1, n)) = n /\ \A i \in 1..n : SubSeq(q, 1, n)[i] = q[i]
         /\ SubSeq(q, n + 1, Len(q)) \in Seq(S) /\ Len(SubSeq(q, n + 1, Len(q))) = Len(q) - n
         /\ \A i \in 1..Len(q) - n : SubSeq(q, n + 1, Len(q))[i] = q[n + i]
  <1>1. Len(q) \in Nat /\ \A i \in 1..Len(q) : q[i] \in S
    BY LenProperties, ElementOfSeq
  <1>2. \A i \in 1..n : i \in 1..Len(q)
    BY <1>1
  <1>3. \A i \in n + 1..Len(q) : i \in 1..Len(q)
    OBVIOUS
  <1>4. SubSeq(q, 1, n) \in Seq(S) /\ Len(SubSeq(q, 1, n)) = n /\ \A i \in 1..n : SubSeq(q, 1, n)[i] = q[i]
    BY <1>1, <1>2, SubSeqProperties
  <1>5. /\ SubSeq(q, n + 1, Len(q)) \in Seq(S) /\ Len(SubSeq(q, n + 1, Len(q))) = Len(q) - n
        /\ \A i \in 1..Len(q) - n : SubSeq(q, n + 1, Len(q))[i] = q[n + i]
    <2>1. \A i \in n + 1..Len(q) : q[i] \in S
      BY <1>1, <1>3
    <2> QED
      BY <1>1, <2>1, SubSeqProperties
  <1> QED
    BY <1>4, <1>5

--------------------------------------------------------------------------------
(* Steps.                                                                       *)

LEMMA MessagesTyped ==
  ASSUME NEW c \in Chunks, NEW n \in Versions, NEW l \in 0..2
  PROVE  /\ [kind |-> "snapshot", chunk |-> c, version |-> n] \in Payloads
         /\ [kind |-> "delta", chunk |-> c, base |-> n] \in Payloads
         /\ [kind |-> "invalidate", chunk |-> c] \in Payloads
         /\ [kind |-> "light", light |-> l] \in Payloads
         /\ [kind |-> "entered", chunk |-> c] \in Notices
         /\ [kind |-> "position", chunk |-> c] \in Notices
         /\ [kind |-> "disconnected"] \in Notices
  BY DEF Payloads, Notices

(* What an app is once it has drawn a frame. *)
Drawn == IngestInbox(Polled(app, down))
Rested(a) == [a EXCEPT !.dirty = {}, !.out = << >>]

(* It differs in its marks and in what it has sent. *)
LEMMA RestedFacts ==
  ASSUME NEW a \in Apps
  PROVE  /\ Rested(a) \in Apps /\ Rested(a).dirty = {} /\ Rested(a).out = << >> /\ Rested(a).wanted = a.wanted
         /\ Rested(a).inbox = a.inbox /\ Rested(a).joined = a.joined /\ Rested(a).center = a.center
         /\ Rested(a).held = a.held /\ Rested(a).gate = a.gate /\ Rested(a).light = a.light /\ Rested(a).attempts = a.attempts
<1>1. << >> \in Seq(Commands)
  OBVIOUS
<1>2. Rested(a) \in Apps
  BY <1>1 DEF Rested, Apps
<1> QED
  BY <1>2 DEF Rested, Apps

(* What the app comes to. *)
LEMMA DueFacts ==
  ASSUME ViewTypes
  PROVE  /\ Polled(app, down) \in Apps /\ Marks(app, Polled(app, down)) /\ Within(app, Polled(app, down))
         /\ \A i \in 1..Len(Polled(app, down).inbox) : \E j \in 1..Len(down) : Polled(app, down).inbox[i] = down[j]
         /\ Due \in Apps /\ Due.inbox = << >> /\ Due.out = Polled(app, down).out
         /\ Due.center = Polled(app, down).center /\ Due.joined = Polled(app, down).joined
         /\ Due.out \in Seq(Commands) /\ Orders \in Seq(Commands) /\ up \in Seq(Commands)
<1>1. app \in Apps /\ Rests(app) /\ down \in Seq(Messages) /\ up \in Seq(Commands)
  BY DEF ViewTypes
<1>2. /\ Polled(app, down) \in Apps /\ Marks(app, Polled(app, down)) /\ Within(app, Polled(app, down))
      /\ \A i \in 1..Len(Polled(app, down).inbox) : \E j \in 1..Len(down) : Polled(app, down).inbox[i] = down[j]
  BY <1>1, PolledFacts
<1>3. /\ Due \in Apps /\ Due.inbox = << >> /\ Due.out = Polled(app, down).out
      /\ Due.center = Polled(app, down).center /\ Due.joined = Polled(app, down).joined
  BY <1>2, IngestedFacts DEF Due
<1>4. Due.out \in Seq(Commands)
  BY <1>3, AppFacts
<1>5. Orders \in Seq(Commands)
  BY <1>1, <1>4, ConcatProperties DEF Orders
<1> QED
  BY <1>1, <1>2, <1>3, <1>4, <1>5

(* It is what the app comes to, with the chunks asked for again. *)
LEMMA DrawnFacts ==
  ASSUME ViewTypes
  PROVE  /\ Drawn \in Apps /\ Drawn.wanted = {} /\ Drawn.inbox = << >>
         /\ (Drawn.joined => Drawn.center # NoCenter)
         /\ Marks(app, Drawn) /\ Drawn.held = Due.held /\ Drawn.gate = Due.gate /\ Drawn.center = Due.center
         /\ \E s \in Seq(Commands) :
              /\ Drawn.out = Due.out \o s
              /\ \A i \in 1..Len(s) : s[i].kind = "subscribe" /\ DOMAIN s[i].known = {}
<1> DEFINE x == Polled(app, down)
<1> DEFINE b == Ingested(x)
<1>1. x \in Apps /\ Marks(app, x) /\ Within(app, x) /\ app \in Apps
  BY DueFacts DEF ViewTypes
<1>2. b = Due /\ Due.out = x.out /\ Due.center = x.center
  BY DueFacts DEF Due
<1>3. Marks(app, b)
  BY <1>1, IngestedMarks
<1>4. Drawn = IngestInbox(x)
  BY DEF Drawn
<1> HIDE DEF x, b
<1>5. /\ Drawn \in Apps /\ Drawn.wanted = {} /\ Drawn.inbox = << >>
      /\ Drawn.held = b.held /\ Drawn.dirty = b.dirty /\ Drawn.light = b.light /\ Drawn.gate = b.gate
      /\ Drawn.center = x.center /\ Drawn.joined = x.joined
      /\ \E s \in Seq(Commands) :
           /\ Drawn.out = x.out \o s
           /\ \A i \in 1..Len(s) : s[i].kind = "subscribe" /\ DOMAIN s[i].known = {}
  BY <1>1, <1>4, InboxFacts DEF b
<1>6. Held(Drawn) = Held(b) /\ \A c : VersionIn(Drawn, c) = VersionIn(b, c)
  BY <1>5 DEF Held, VersionIn
<1>7. Marks(app, Drawn)
  BY <1>3, <1>5, <1>6 DEF Marks
<1> QED
  BY <1>1, <1>2, <1>5, <1>7 DEF Within

(* A frame. *)
LEMMA FrameFacts ==
  ASSUME ViewTypes, Frame
  PROVE  /\ app' = Rested(Drawn) /\ app' \in Apps /\ down' = << >>
         /\ up' = IF linked THEN up \o Drawn.out ELSE up
         /\ \E n \in Nat : /\ n <= Len(Pending(Drawn))
                           /\ queue' = SubSeq(Pending(Drawn), n + 1, Len(Pending(Drawn)))
                           /\ stale' = (stale \cup {c \in Chunks : Picture(Drawn, c) # Picture(app, c)})
                                         \ ToSet(SubSeq(Pending(Drawn), 1, n))
         /\ UNCHANGED <<ver, ready, subs, owed, pos, linked, disk>>
<1>1. Drawn \in Apps /\ queue \in Seq(Chunks) /\ IsInjective(queue)
  BY DrawnFacts DEF ViewTypes
<1>2. /\ Render(Drawn) /\ Send(Drawn.out) /\ down' = << >>
      /\ UNCHANGED <<ver, ready, subs, owed, pos, linked, disk>>
  BY DEF Frame, Drawn, server
<1>3. Pending(Drawn) \in Seq(Chunks)
  BY <1>1, PendingFacts
<1>4. Len(Pending(Drawn)) \in Nat /\ Budget \in Nat
  BY <1>3, LenProperties, Constants
<1> DEFINE n == IF Budget < Len(Pending(Drawn)) THEN Budget ELSE Len(Pending(Drawn))
<1>5. n \in Nat /\ n <= Len(Pending(Drawn))
  BY <1>4
<1>6. /\ app' = Rested(Drawn)
      /\ queue' = SubSeq(Pending(Drawn), n + 1, Len(Pending(Drawn)))
      /\ stale' = (stale \cup {c \in Chunks : Picture(Drawn, c) # Picture(app, c)})
                    \ ToSet(SubSeq(Pending(Drawn), 1, n))
  BY <1>2 DEF Render, Rested
<1> HIDE DEF n
<1>7. app' \in Apps
  BY <1>1, <1>6, RestedFacts
<1> QED
  BY <1>2, <1>5, <1>6, <1>7 DEF Send

(* An event under way to the app. *)
LEMMA Delivered ==
  ASSUME ViewTypes, NEW m \in Messages, Deliver(m)
  PROVE  down' \in Seq(Messages) /\ down' = Append(down, m)
  BY AppendProperties DEF ViewTypes, Deliver

(* Commands under way to the server. *)
LEMMA SentTyped ==
  ASSUME ViewTypes, NEW s \in Seq(Commands), Send(s)
  PROVE  up' \in Seq(Commands) /\ up' = IF linked THEN up \o s ELSE up
  BY ConcatProperties DEF ViewTypes, Send

(* A client that starts from its cache. *)
LEMMA CacheTyped ==
  ASSUME ViewTypes, NEW f \in {disk, Cache}
  PROVE  /\ f \in Stores /\ FromCache(f) \in Apps /\ Rests(FromCache(f))
         /\ FromCache(f).held = f /\ FromCache(f).dirty = DOMAIN f /\ FromCache(f).out = << >>
<1>1. f \in Stores /\ DOMAIN f \in SUBSET Chunks
  BY AppFacts, StoreFacts DEF ViewTypes, Cache
<1>2. /\ << >> \in Stores /\ << >> \in Seq(Payloads) /\ << >> \in Seq(Commands)
      /\ 0 \in 0..MaxRetries /\ 0 \in 0..2
  <2>1. << >> \in [{} -> Truths] /\ {} \in SUBSET Chunks
    OBVIOUS
  <2>2. << >> \in Stores
    BY <2>1 DEF Stores
  <2>3. << >> \in Seq(Payloads) /\ << >> \in Seq(Commands)
    OBVIOUS
  <2>4. 0 \in 0..MaxRetries /\ 0 \in 0..2
    BY Constants
  <2> QED
    BY <2>2, <2>3, <2>4
<1> DEFINE a == FromCache(f)
<1>3. /\ a.joined = FALSE /\ a.held = f /\ a.dirty = DOMAIN f /\ a.wanted = {}
      /\ a.inbox = << >> /\ a.out = << >>
  BY DEF FromCache, EmptyApp
<1>4. FromCache(f) \in Apps
  BY <1>1, <1>2 DEF FromCache, EmptyApp, Apps
<1> QED
  BY <1>1, <1>3, <1>4 DEF Rests

(* The first state. *)
LEMMA InitView ==
  ASSUME Init
  PROVE  ViewTypes /\ AllFresh /\ Served /\ Believed /\ MeshCurrent
<1>1. PICK C \in SUBSET Cached :
        /\ disk = [c \in C |-> [version |-> 1, edits |-> {1}]]
        /\ ver = [c \in Chunks |-> IF c \in C THEN 2 ELSE 1]
  BY DEF Init
<1>2. C \in SUBSET Chunks
  BY Constants
<1>3. [version |-> 1, edits |-> {1}] \in Truths
  <2>1. 1..1 = {1} /\ 1 \in Versions
    BY DEF Versions
  <2> QED
    BY <2>1 DEF Truths
<1>4. disk \in Stores /\ DOMAIN disk = C
  <2>1. disk \in [C -> Truths]
    BY <1>1, <1>3
  <2> QED
    BY <1>2, <2>1 DEF Stores
<1>5. ver \in [Chunks -> Versions]
  BY <1>1 DEF Versions
<1>6. /\ ready = FALSE /\ subs = {} /\ owed = {} /\ pos \in Chunks /\ linked = FALSE /\ up = << >> /\ down = << >>
      /\ app = FromCache(disk) /\ queue = << >> /\ stale = DOMAIN disk
  BY Constants DEF Init
<1>7. DOMAIN disk \subseteq Chunks
  BY <1>2, <1>4
<1>8. app = [joined |-> FALSE, center |-> NoCenter, attempts |-> 0, held |-> disk, dirty |-> DOMAIN disk,
             light |-> 0, gate |-> {}, wanted |-> {}, inbox |-> << >>, out |-> << >>]
  BY <1>6 DEF FromCache, EmptyApp
<1>9. app \in Apps /\ Rests(app)
  <2>1. /\ << >> \in Seq(Payloads) /\ << >> \in Seq(Commands) /\ 0 \in 0..MaxRetries /\ 0 \in 0..2
    BY Constants
  <2>2. app \in Apps
    BY <1>4, <1>7, <1>8, <2>1 DEF Apps
  <2> QED
    BY <1>8, <2>2 DEF Rests
<1>10. ViewTypes
  <2>1. /\ << >> \in Seq(Commands) /\ << >> \in Seq(Messages) /\ << >> \in Seq(Chunks) /\ IsInjective(<< >>)
    BY DEF IsInjective
  <2> QED
    BY <1>4, <1>5, <1>6, <1>7, <1>9, <2>1 DEF ViewTypes
<1>11. AllFresh
  <2>1. Behind(ver, disk)
    BY <1>1, <1>2 DEF Behind
  <2>2. Len(down) = 0 /\ app.held = disk
    BY <1>6, <1>8
  <2> QED
    BY <2>1, <2>2 DEF AllFresh
<1>12. Served
  BY <1>6 DEF Served
<1>13. Believed
  <2>1. Due = app /\ Due.out = << >>
    <3>1. Polled(app, down) = app
      <4>1. << >> \in Seq(Messages) /\ [kind |-> "disconnected"] \in Messages
        BY DEF Messages, Notices
      <4> QED
        BY <1>6, <1>9, <4>1, PolledOne
    <3>2. Ingested(app) = app
      BY <1>8, <1>9, IngestedNothing
    <3> QED
      BY <1>8, <3>1, <3>2 DEF Due
  <2>2. Len(Orders) = 0
    BY <1>6, <2>1 DEF Orders
  <2> QED
    BY <1>6, <2>2 DEF Believed, Trusted
<1>14. MeshCurrent
  BY <1>6, <1>8 DEF MeshCurrent, WillRemesh
<1> QED
  BY <1>10, <1>11, <1>12, <1>13, <1>14

(* Types. *)
LEMMA TypesKept ==
  ASSUME ViewTypes, [Next]_vars
  PROVE  ViewTypes'
<1>t. /\ ver \in [Chunks -> Versions] /\ ready \in BOOLEAN /\ linked \in BOOLEAN
      /\ subs \subseteq Chunks /\ owed \subseteq subs /\ pos \in Chunks
      /\ up \in Seq(Commands) /\ down \in Seq(Messages)
      /\ app \in Apps /\ Rests(app)
      /\ queue \in Seq(Chunks) /\ IsInjective(queue) /\ stale \subseteq Chunks
      /\ disk \in Stores
  BY DEF ViewTypes
<1>1. CASE UNCHANGED vars
  BY <1>1, <1>t DEF vars, server, client, ViewTypes, Rests
<1>2. CASE AttachRegion
  BY <1>2, <1>t DEF AttachRegion, client, ViewTypes, Rests
<1>3. ASSUME NEW c \in Chunks, Edit(c) PROVE ViewTypes'
  <2>1. ver[c] \in Versions /\ ver' = [ver EXCEPT ![c] = ver[c] + 1]
    BY <1>3, <1>t DEF Edit
  <2>2. ver' \in [Chunks -> Versions]
    BY <1>t, <2>1 DEF Versions
  <2>3. down' \in Seq(Messages)
    <3>1. [kind |-> "delta", chunk |-> c, base |-> ver[c]] \in Messages
      BY <2>1 DEF Messages, Payloads
    <3> QED
      BY <1>3, <1>t, <3>1, Delivered DEF Edit
  <2> QED
    BY <1>3, <1>t, <2>2, <2>3 DEF Edit, client, ViewTypes, Rests
<1>4. CASE ServeCommand
  <2>1. Head(up) \in Commands /\ up' \in Seq(Commands)
    BY <1>4, <1>t, HeadTailProperties DEF ServeCommand
  <2>2. subs' \subseteq Chunks /\ owed' \subseteq subs'
    <3>1. CASE Head(up).kind = "unsubscribe"
      BY <1>4, <1>t, <3>1 DEF ServeCommand
    <3>2. CASE Head(up).kind # "unsubscribe"
      <4> DEFINE W == IF ready THEN Window(Head(up).center, Head(up).radius) ELSE {}
      <4>1. W \subseteq Chunks
        BY DEF Window
      <4>2. subs' = subs \cup W /\ owed' = owed \cup {c \in W : ~(c \in DOMAIN Head(up).known /\ Head(up).known[c] = ver[c])}
        BY <1>4, <3>2 DEF ServeCommand
      <4> HIDE DEF W
      <4> QED
        BY <1>t, <4>1, <4>2
    <3> QED
      BY <3>1, <3>2
  <2> QED
    BY <1>4, <1>t, <2>1, <2>2 DEF ServeCommand, client, ViewTypes, Rests
<1>5. ASSUME NEW c \in Chunks, SendSnapshot(c) PROVE ViewTypes'
  <2>1. [kind |-> "snapshot", chunk |-> c, version |-> ver[c]] \in Messages
    BY <1>t DEF Messages, Payloads
  <2>2. down' \in Seq(Messages)
    BY <1>5, <2>1, Delivered DEF SendSnapshot
  <2> QED
    BY <1>5, <1>t, <2>2 DEF SendSnapshot, client, ViewTypes, Rests
<1>6. ASSUME NEW c \in Chunks, Invalidate(c) PROVE ViewTypes'
  <2>1. [kind |-> "invalidate", chunk |-> c] \in Messages
    <3>1. 1 \in Versions /\ 0 \in 0..2
      BY DEF Versions
    <3> QED
      BY <3>1, MessagesTyped DEF Messages
  <2>2. down' \in Seq(Messages)
    BY <1>6, <2>1, Delivered DEF Invalidate
  <2> QED
    BY <1>6, <1>t, <2>2 DEF Invalidate, client, ViewTypes, Rests
<1>7. ASSUME NEW l \in 0..2, ChangeLight(l) PROVE ViewTypes'
  <2>1. [kind |-> "light", light |-> l] \in Messages
    BY DEF Messages, Payloads
  <2>2. down' \in Seq(Messages)
    BY <1>7, <2>1, Delivered DEF ChangeLight
  <2> QED
    BY <1>7, <1>t, <2>2 DEF ChangeLight, server, client, ViewTypes, Rests
<1>8. ASSUME NEW c \in Chunks, Move(c) PROVE ViewTypes'
  <2>1. [kind |-> "position", chunk |-> c] \in Messages
    BY DEF Messages, Notices
  <2>2. down' \in Seq(Messages)
    BY <1>8, <2>1, Delivered DEF Move
  <2> QED
    BY <1>8, <1>t, <2>2 DEF Move, client, ViewTypes, Rests
<1>9. CASE LoseLink
  <2>1. PICK n \in 0..Len(down) : down' = Append(SubSeq(down, 1, n), [kind |-> "disconnected"])
    BY <1>9 DEF LoseLink
  <2>2. SubSeq(down, 1, n) \in Seq(Messages)
    BY <1>t, CutFacts
  <2>3. down' \in Seq(Messages) /\ << >> \in Seq(Commands)
    <3>1. [kind |-> "disconnected"] \in Messages
      BY DEF Messages, Notices
    <3> QED
      BY <2>1, <2>2, <3>1, AppendProperties
  <2> QED
    BY <1>9, <1>t, <2>3 DEF LoseLink, client, ViewTypes, Rests
<1>10. ASSUME NEW c \in Chunks, EnterScene(c) PROVE ViewTypes'
  <2>1. [kind |-> "entered", chunk |-> c] \in Messages
    BY DEF Messages, Notices
  <2>2. down' \in Seq(Messages)
    BY <1>10, <2>1, Delivered DEF EnterScene
  <2> QED
    BY <1>10, <1>t, <2>2 DEF EnterScene, client, ViewTypes, Rests
<1>11. CASE Frame
  <2>1. app' \in Apps /\ Rests(app)'
    <3>1. app' \in Apps /\ app' = Rested(Drawn)
      BY <1>11, FrameFacts
    <3>2. /\ Drawn \in Apps /\ Drawn.wanted = {} /\ Drawn.inbox = << >> /\ (Drawn.joined => Drawn.center # NoCenter)
      BY DrawnFacts
    <3>3. app'.wanted = {} /\ app'.inbox = << >> /\ app'.out = << >> /\ (app'.joined => app'.center # NoCenter)
      BY <3>1, <3>2, RestedFacts
    <3> QED
      BY <3>1, <3>3 DEF Rests
  <2>2. queue' \in Seq(Chunks) /\ IsInjective(queue') /\ stale' \subseteq Chunks
    <3> DEFINE p == Pending(Drawn)
    <3>1. p \in Seq(Chunks) /\ IsInjective(p)
      BY <1>t, DrawnFacts, PendingFacts
    <3>2. PICK n \in Nat : /\ n <= Len(p) /\ queue' = SubSeq(p, n + 1, Len(p))
                           /\ stale' = (stale \cup {c \in Chunks : Picture(Drawn, c) # Picture(app, c)})
                                         \ ToSet(SubSeq(p, 1, n))
      BY <1>11, FrameFacts
    <3> HIDE DEF p
    <3>3. /\ queue' \in Seq(Chunks) /\ Len(queue') = Len(p) - n /\ Len(p) \in Nat
          /\ \A i \in 1..Len(p) - n : queue'[i] = p[n + i]
      BY <3>1, <3>2, CutFacts, LenProperties
    <3>4. IsInjective(queue')
      <4>1. DOMAIN queue' = 1..Len(p) - n /\ DOMAIN p = 1..Len(p)
        BY <3>1, <3>3, LenProperties
      <4> SUFFICES ASSUME NEW i \in 1..Len(p) - n, NEW j \in 1..Len(p) - n, queue'[i] = queue'[j] PROVE i = j
        BY <4>1 DEF IsInjective
      <4>2. n + i \in 1..Len(p) /\ n + j \in 1..Len(p) /\ p[n + i] = p[n + j]
        BY <3>2, <3>3
      <4>3. n + i = n + j
        BY <3>1, <4>1, <4>2 DEF IsInjective
      <4> QED
        BY <4>3
    <3> QED
      BY <1>t, <3>2, <3>3, <3>4
  <2>3. up' \in Seq(Commands) /\ down' \in Seq(Messages)
    <3>1. Drawn.out \in Seq(Commands)
      BY DrawnFacts, AppFacts
    <3>2. up \o Drawn.out \in Seq(Commands)
      BY <1>t, <3>1, ConcatProperties
    <3>3. down' = << >> /\ (up' = up \o Drawn.out \/ up' = up)
      BY <1>11, FrameFacts
    <3>4. << >> \in Seq(Messages)
      OBVIOUS
    <3> QED
      BY <1>t, <3>2, <3>3, <3>4
  <2> QED
    BY <1>11, <1>t, <2>1, <2>2, <2>3, FrameFacts DEF ViewTypes
<1>12. CASE RetrySubscribe
  <2>1. CASE /\ app' = [app EXCEPT !.attempts = 0] /\ UNCHANGED up
    <3>1. app' \in Apps
      <4>1. 0 \in 0..MaxRetries
        BY Constants
      <4> QED
        BY <1>t, <2>1, <4>1 DEF Apps
    <3>2. Rests(app)'
      BY <1>t, <2>1 DEF Rests, Apps
    <3> QED
      BY <1>12, <1>t, <2>1, <3>1, <3>2 DEF RetrySubscribe, server, ViewTypes
  <2>2. CASE /\ app.attempts < MaxRetries
             /\ LET a == SubscribeAround(app, app.center) IN
                  /\ app' = [a EXCEPT !.attempts = @ + 1, !.out = << >>]
                  /\ Send(a.out)
    <3> DEFINE a == SubscribeAround(app, app.center)
    <3>1. app.center \in Centers /\ app.attempts \in 0..MaxRetries
      BY <1>12, <1>t, AppFacts DEF RetrySubscribe
    <3>2. a \in Apps /\ a.attempts = app.attempts /\ a.center = app.center /\ a.wanted = app.wanted /\ a.inbox = app.inbox
      BY <1>t, <3>1, SubscribeTyped
    <3>3. app' = [a EXCEPT !.attempts = @ + 1, !.out = << >>] /\ Send(a.out)
      BY <2>2
    <3>4. a.out \in Seq(Commands)
      BY <3>2, AppFacts
    <3> HIDE DEF a
    <3>5. a.attempts + 1 \in 0..MaxRetries /\ << >> \in Seq(Commands)
      BY <2>2, <3>1, <3>2, Constants
    <3>6. app' \in Apps
      BY <3>2, <3>3, <3>5 DEF Apps
    <3>7. app'.wanted = a.wanted /\ app'.inbox = a.inbox /\ app'.out = << >> /\ app'.center = a.center
      BY <3>2, <3>3 DEF Apps
    <3>8. Rests(app)'
      BY <1>12, <1>t, <3>2, <3>7 DEF Rests, RetrySubscribe
    <3>9. up' \in Seq(Commands)
      BY <3>3, <3>4, SentTyped
    <3> QED
      BY <1>12, <1>t, <3>6, <3>8, <3>9 DEF RetrySubscribe, server, ViewTypes
  <2> QED
    BY <1>12, <2>1, <2>2 DEF RetrySubscribe
<1>13. CASE Keepalive
  <2>1. app.center \in Centers
    BY <1>13, <1>t, AppFacts DEF Keepalive
  <2>2. <<WindowCommand(app, app.center)>> \in Seq(Commands)
    BY <1>t, <2>1, SubscribeTyped
  <2>3. up' \in Seq(Commands)
    BY <1>13, <2>2, SentTyped DEF Keepalive
  <2> QED
    BY <1>13, <1>t, <2>3 DEF Keepalive, server, client, ViewTypes, Rests
<1>14. CASE SaveCache
  <2>1. disk' \in Stores
    BY <1>14, CacheTyped DEF SaveCache
  <2> QED
    BY <1>14, <1>t, <2>1 DEF SaveCache, server, ViewTypes, Rests
<1>15. CASE RestartClient
  <2>1. disk' \in {disk, Cache} /\ app' = FromCache(disk') /\ queue' = << >> /\ stale' = DOMAIN disk'
    BY <1>15 DEF RestartClient
  <2>2. disk' \in Stores /\ app' \in Apps /\ Rests(app)' /\ DOMAIN disk' \subseteq Chunks
    <3>1. disk' \in Stores /\ app' \in Apps /\ Rests(app')
      BY <2>1, CacheTyped
    <3> QED
      BY <3>1, StoreFacts DEF Rests
  <2>3. /\ << >> \in Seq(Commands) /\ << >> \in Seq(Messages) /\ << >> \in Seq(Chunks) /\ IsInjective(<< >>)
    BY DEF IsInjective
  <2> QED
    BY <1>15, <1>t, <2>1, <2>2, <2>3 DEF RestartClient, ViewTypes
<1> QED
  BY <1>1, <1>2, <1>3, <1>4, <1>5, <1>6, <1>7, <1>8, <1>9, <1>10, <1>11, <1>12, <1>13, <1>14, <1>15 DEF Next

(* Without a session or a region nobody is served. *)
LEMMA ServedKept ==
  ASSUME ViewTypes, Served, [Next]_vars
  PROVE  Served'
<1>1. CASE UNCHANGED vars
  BY <1>1 DEF vars, server, Served
<1>2. CASE AttachRegion
  BY <1>2 DEF AttachRegion, Served
<1>3. ASSUME NEW c \in Chunks, Edit(c) PROVE Served'
  BY <1>3 DEF Edit, Served
<1>4. CASE ServeCommand
  <2>1. CASE Head(up).kind = "unsubscribe"
    BY <1>4, <2>1 DEF ServeCommand, Served
  <2>2. CASE Head(up).kind # "unsubscribe"
    BY <1>4, <2>2 DEF ServeCommand, Served
  <2> QED
    BY <2>1, <2>2
<1>5. ASSUME NEW c \in Chunks, SendSnapshot(c) PROVE Served'
  BY <1>5 DEF SendSnapshot, Served
<1>6. ASSUME NEW c \in Chunks, Invalidate(c) PROVE Served'
  BY <1>6 DEF Invalidate, Served
<1>7. ASSUME NEW l \in 0..2, ChangeLight(l) PROVE Served'
  BY <1>7 DEF ChangeLight, server, Served
<1>8. ASSUME NEW c \in Chunks, Move(c) PROVE Served'
  BY <1>8 DEF Move, Served
<1>9. CASE LoseLink
  BY <1>9 DEF LoseLink, Served
<1>10. ASSUME NEW c \in Chunks, EnterScene(c) PROVE Served'
  BY <1>10 DEF EnterScene, Served
<1>11. CASE Frame
  BY <1>11 DEF Frame, Send, server, Served
<1>12. CASE RetrySubscribe
  BY <1>12 DEF RetrySubscribe, Send, server, Served
<1>13. CASE Keepalive
  BY <1>13 DEF Keepalive, Send, server, Served
<1>14. CASE SaveCache
  BY <1>14 DEF SaveCache, server, Served
<1>15. CASE RestartClient
  BY <1>15 DEF RestartClient, Served
<1> QED
  BY <1>1, <1>2, <1>3, <1>4, <1>5, <1>6, <1>7, <1>8, <1>9, <1>10, <1>11, <1>12, <1>13, <1>14, <1>15 DEF Next

(* Nothing is ahead of the server. *)
LEMMA FreshAppend ==
  ASSUME ViewTypes, AllFresh, NEW m \in Messages, down' = Append(down, m),
         UNCHANGED <<ver, app, disk>>, Fresh(ver, app, m)
  PROVE  AllFresh'
<1>1. /\ Len(down) \in Nat /\ Len(Append(down, m)) = Len(down) + 1 /\ Append(down, m)[Len(down) + 1] = m
      /\ \A i \in 1..Len(down) : Append(down, m)[i] = down[i]
  BY LenProperties DEF ViewTypes
<1>2. \A i \in 1..Len(down) + 1 : i \in 1..Len(down) \/ i = Len(down) + 1
  BY <1>1
<1>3. \A i \in 1..Len(down') : Fresh(ver, app, down'[i])
  BY <1>1, <1>2 DEF AllFresh
<1> QED
  BY <1>3 DEF AllFresh

(* Nothing the server did not have, nothing overtaken. *)
LEMMA FreshKept ==
  ASSUME ViewTypes, AllFresh, [Next]_vars
  PROVE  AllFresh'
<1>t. /\ ver \in [Chunks -> Versions] /\ app \in Apps /\ Rests(app) /\ down \in Seq(Messages) /\ disk \in Stores
      /\ Behind(ver, app.held) /\ Behind(ver, disk) /\ \A i \in 1..Len(down) : Fresh(ver, app, down[i])
      /\ Held(app) \subseteq Chunks /\ Held(app) = DOMAIN app.held
  BY AppFacts DEF ViewTypes, AllFresh
<1>1. CASE UNCHANGED <<ver, app, disk, down>>
  BY <1>1 DEF AllFresh
<1>3. ASSUME NEW c \in Chunks, Edit(c) PROVE AllFresh'
  <2>1. ver[c] \in Versions /\ ver' = [ver EXCEPT ![c] = ver[c] + 1] /\ UNCHANGED <<app, disk>>
    BY <1>3, <1>t DEF Edit, client
  <2> DEFINE m == [kind |-> "delta", chunk |-> c, base |-> ver[c]]
  <2>2. \A d \in Chunks : ver[d] \in Versions /\ ver'[d] \in Versions /\ ver[d] <= ver'[d]
    BY <1>t, <2>1 DEF Versions
  <2>3. ASSUME NEW f \in Stores, Behind(ver, f) PROVE Behind(ver', f)
    <3>1. \A d \in DOMAIN f : d \in Chunks /\ f[d].version \in Versions
      BY StoreFacts
    <3> QED
      BY <2>2, <2>3, <3>1 DEF Behind, Versions
  <2>4. ASSUME NEW n \in Messages, Fresh(ver, app, n) PROVE Fresh(ver', app, n)
    <3>1. n.kind = "snapshot" => n.chunk \in Chunks /\ n.version \in Versions
      BY DEF Messages, Payloads, Notices
    <3>2. n.kind = "delta" => n.chunk \in Chunks /\ n.base \in Versions
      BY DEF Messages, Payloads, Notices
    <3> QED
      BY <2>2, <2>4, <3>1, <3>2 DEF Fresh, Versions
  <2>5. Fresh(ver', app, m)
    <3>1. ver'[c] = ver[c] + 1
      BY <1>t, <2>1
    <3>2. c \in Held(app) => app.held[c].version <= ver[c]
      BY <1>t DEF Behind
    <3> QED
      BY <2>1, <3>1, <3>2 DEF Fresh, Versions
  <2>6. \A i \in 1..Len(down') : Fresh(ver', app, down'[i])
    <3>1. down' = down \/ down' = Append(down, m)
      BY <1>3 DEF Edit, Deliver
    <3> HIDE DEF m
    <3>2. \A i \in 1..Len(down) : Fresh(ver', app, down[i])
      <4>1. \A i \in 1..Len(down) : down[i] \in Messages
        BY <1>t, ElementOfSeq
      <4> QED
        BY <1>t, <2>4, <4>1
    <3>3. /\ Len(down) \in Nat /\ Len(Append(down, m)) = Len(down) + 1 /\ Append(down, m)[Len(down) + 1] = m
          /\ \A i \in 1..Len(down) : Append(down, m)[i] = down[i]
      BY <1>t, LenProperties
    <3>4. \A i \in 1..Len(down) + 1 : i \in 1..Len(down) \/ i = Len(down) + 1
      BY <3>3
    <3>5. \A i \in 1..Len(Append(down, m)) : Fresh(ver', app, Append(down, m)[i])
      BY <2>5, <3>2, <3>3, <3>4
    <3> QED
      BY <3>1, <3>2, <3>5
  <2>7. Behind(ver', app.held) /\ Behind(ver', disk)
    BY <1>t, <2>3, AppFacts
  <2> QED
    BY <2>1, <2>6, <2>7 DEF AllFresh
<1>5. ASSUME NEW c \in Chunks, SendSnapshot(c) PROVE AllFresh'
  <2> DEFINE m == [kind |-> "snapshot", chunk |-> c, version |-> ver[c]]
  <2>1. m \in Messages
    BY <1>t DEF Messages, Payloads
  <2>2. Fresh(ver, app, m)
    <3>1. ver[c] \in Versions /\ ver[c] <= ver[c]
      BY <1>t DEF Versions
    <3>2. c \in Held(app) => app.held[c].version <= ver[c]
      BY <1>t DEF Behind
    <3> QED
      BY <3>1, <3>2 DEF Fresh
  <2>3. down' = Append(down, m) /\ UNCHANGED <<ver, app, disk>>
    BY <1>5 DEF SendSnapshot, Deliver, client
  <2> HIDE DEF m
  <2> QED
    BY <2>1, <2>2, <2>3, FreshAppend
<1>a. ASSUME NEW m \in Messages, m.kind \notin {"snapshot", "delta"}, Deliver(m), UNCHANGED <<ver, app, disk>>
      PROVE  AllFresh'
  <2>1. Fresh(ver, app, m)
    BY <1>a DEF Fresh
  <2> QED
    BY <1>a, <2>1, FreshAppend DEF Deliver
<1>6. ASSUME NEW c \in Chunks, Invalidate(c) PROVE AllFresh'
  <2>1. [kind |-> "invalidate", chunk |-> c] \in Messages
    BY DEF Messages, Payloads
  <2> QED
    BY <1>6, <1>a, <2>1 DEF Invalidate, client
<1>7. ASSUME NEW l \in 0..2, ChangeLight(l) PROVE AllFresh'
  <2>1. [kind |-> "light", light |-> l] \in Messages
    BY DEF Messages, Payloads
  <2> QED
    BY <1>7, <1>a, <2>1 DEF ChangeLight, server, client
<1>8. ASSUME NEW c \in Chunks, Move(c) PROVE AllFresh'
  <2>1. [kind |-> "position", chunk |-> c] \in Messages
    BY DEF Messages, Notices
  <2> QED
    BY <1>8, <1>a, <2>1 DEF Move, client
<1>9. CASE LoseLink
  <2> DEFINE m == [kind |-> "disconnected"]
  <2>1. PICK n \in 0..Len(down) : down' = Append(SubSeq(down, 1, n), m)
    BY <1>9 DEF LoseLink
  <2> DEFINE q == SubSeq(down, 1, n)
  <2>2. q \in Seq(Messages) /\ Len(q) = n /\ n \in Nat /\ n <= Len(down) /\ \A i \in 1..n : q[i] = down[i]
    <3>1. n \in Nat /\ n <= Len(down)
      BY <1>t, LenProperties
    <3> QED
      BY <1>t, <3>1, CutFacts
  <2>3. m \in Messages /\ m.kind = "disconnected"
    BY DEF Messages, Notices
  <2> HIDE DEF m, q
  <2>4. /\ Len(Append(q, m)) = n + 1 /\ Append(q, m)[n + 1] = m /\ \A i \in 1..n : Append(q, m)[i] = q[i]
    BY <2>2, <2>3
  <2>5. \A i \in 1..n + 1 : i = n + 1 \/ i \in 1..n
    BY <2>2
  <2>6. \A i \in 1..n : Fresh(ver, app, q[i])
    <3>1. \A i \in 1..n : i \in 1..Len(down)
      BY <1>t, <2>2, LenProperties
    <3> QED
      BY <1>t, <2>2, <3>1
  <2>7. Fresh(ver, app, m)
    BY <2>3 DEF Fresh
  <2>8. \A i \in 1..Len(down') : Fresh(ver, app, down'[i])
    BY <2>1, <2>4, <2>5, <2>6, <2>7 DEF q, m
  <2> QED
    BY <1>9, <1>t, <2>8 DEF LoseLink, client, AllFresh
<1>10. ASSUME NEW c \in Chunks, EnterScene(c) PROVE AllFresh'
  <2>1. [kind |-> "entered", chunk |-> c] \in Messages
    BY DEF Messages, Notices
  <2> QED
    BY <1>10, <1>a, <2>1 DEF EnterScene, client
<1>11. CASE Frame
  <2> DEFINE x == Polled(app, down)
  <2>1. /\ x \in Apps /\ Within(app, x) /\ Due = Ingested(x)
        /\ \A i \in 1..Len(x.inbox) : \E j \in 1..Len(down) : x.inbox[i] = down[j]
    BY DueFacts DEF Due
  <2> HIDE DEF x
  <2>2. \A c \in Held(x) : x.held[c].version <= ver[c]
    BY <1>t, <2>1 DEF Within, Behind
  <2>3. \A i \in 1..Len(x.inbox) : /\ x.inbox[i].kind = "snapshot" => x.inbox[i].version <= ver[x.inbox[i].chunk]
                                   /\ x.inbox[i].kind = "delta" => x.inbox[i].base < ver[x.inbox[i].chunk]
    BY <1>t, <2>1 DEF Fresh
  <2>4. \A c \in Held(Due) : Due.held[c].version <= ver[c]
    BY <1>t, <2>1, <2>2, <2>3, IngestedBehind
  <2>5. app'.held = Due.held /\ UNCHANGED <<ver, disk>> /\ Len(down') = 0
    <3>1. app' = Rested(Drawn) /\ down' = << >> /\ UNCHANGED <<ver, disk>>
      BY <1>11, FrameFacts
    <3>2. Drawn \in Apps /\ Drawn.held = Due.held
      BY DrawnFacts
    <3> QED
      BY <3>1, <3>2, RestedFacts
  <2>6. Behind(ver, app'.held)
    BY <2>4, <2>5 DEF Behind, Held
  <2> QED
    BY <1>t, <2>5, <2>6 DEF AllFresh
<1>12. CASE RetrySubscribe
  <2>1. UNCHANGED <<ver, down, disk>> /\ down = << >>
    BY <1>12 DEF RetrySubscribe, server
  <2>2. Behind(ver, app'.held)
    <3>1. CASE app' = [app EXCEPT !.attempts = 0]
      BY <1>t, <3>1 DEF Apps
    <3>2. CASE app' = [SubscribeAround(app, app.center) EXCEPT !.attempts = @ + 1, !.out = << >>]
      <4>1. app.center \in Centers
        BY <1>12, <1>t, AppFacts DEF RetrySubscribe
      <4> DEFINE a == SubscribeAround(app, app.center)
      <4>2. a \in Apps /\ a.held = [c \in Held(app) \ Left(app, app.center) |-> app.held[c]]
        BY <1>t, <4>1, SubscribeTyped
      <4>3. app'.held = a.held
        <5> HIDE DEF a
        <5> QED
          BY <3>2, <4>2 DEF Apps, a
      <4> QED
        BY <1>t, <4>2, <4>3 DEF Behind
    <3> QED
      BY <1>12, <3>1, <3>2 DEF RetrySubscribe
  <2>3. Len(down') = 0
    BY <2>1
  <2> QED
    BY <1>t, <2>1, <2>2, <2>3 DEF AllFresh
<1>13. CASE Keepalive
  BY <1>13, <1>1 DEF Keepalive, server, client
<1>14. CASE SaveCache
  <2>1. disk' = disk \/ disk' = app.held
    BY <1>14 DEF SaveCache, Cache
  <2> QED
    BY <1>14, <1>t, <2>1 DEF SaveCache, server, AllFresh
<1>15. CASE RestartClient
  <2>1. disk' \in {disk, Cache} /\ app' = FromCache(disk') /\ down' = << >> /\ ver' = ver
    BY <1>15 DEF RestartClient
  <2>2. app'.held = disk' /\ (disk' = disk \/ disk' = app.held) /\ Len(down') = 0
    <3>1. app'.held = disk'
      BY <2>1, CacheTyped
    <3> QED
      BY <2>1, <3>1 DEF Cache
  <2> QED
    BY <1>t, <2>1, <2>2 DEF AllFresh
<1>16. CASE UNCHANGED vars \/ AttachRegion \/ ServeCommand
  BY <1>16, <1>1 DEF vars, AttachRegion, ServeCommand, server, client
<1> QED
  BY <1>3, <1>5, <1>6, <1>7, <1>8, <1>9, <1>10, <1>11, <1>12, <1>13, <1>14, <1>15, <1>16 DEF Next

(* A picture that is out of date is of a chunk that is marked or has a marked   *)
(* neighbour.                                                                   *)
LEMMA PicturesMarked ==
  ASSUME NEW a \in Apps, NEW x \in Apps, Marks(a, x), NEW c \in Chunks, Picture(x, c) # Picture(a, c)
  PROVE  c \in x.dirty \/ (c \in Held(x) /\ Near(c) \cap x.dirty # {})
<1> SUFFICES ASSUME c \notin x.dirty, ~(c \in Held(x) /\ Near(c) \cap x.dirty # {}) PROVE FALSE
  OBVIOUS
<1>1. c \in Held(x) <=> c \in Held(a)
  <2>1. CASE c \in Held(x) /\ c \notin Held(a)
    <3>1. VersionIn(x, c) \in Versions /\ VersionIn(a, c) = 0
      BY <2>1, VersionFacts
    <3> QED
      BY <3>1 DEF Marks, Versions
  <2>2. CASE c \in Held(a) /\ c \notin Held(x)
    BY <2>2 DEF Marks
  <2> QED
    BY <2>1, <2>2
<1>2. CASE c \notin Held(x)
  <2>1. Picture(x, c) = Picture(a, c)
    BY <1>1, <1>2 DEF Picture
  <2> QED
    BY <2>1
<1>3. CASE c \in Held(x)
  <2>1. \A n \in Near(c) \cup {c} : n \in Chunks /\ n \notin x.dirty
    BY <1>3 DEF Near
  <2>2. \A n \in Near(c) \cup {c} : VersionIn(x, n) = VersionIn(a, n) /\ (n \in Held(a) <=> n \in Held(x))
    <3> SUFFICES ASSUME NEW n \in Near(c) \cup {c} PROVE VersionIn(x, n) = VersionIn(a, n) /\ (n \in Held(a) <=> n \in Held(x))
      OBVIOUS
    <3>1. n \in Chunks /\ n \notin x.dirty
      BY <2>1
    <3>2. VersionIn(x, n) = VersionIn(a, n) /\ (n \in Held(a) => n \in Held(x))
      BY <3>1 DEF Marks
    <3>3. n \in Held(x) /\ n \notin Held(a) => VersionIn(x, n) # VersionIn(a, n)
      <4>1. n \in Held(x) /\ n \notin Held(a) => VersionIn(x, n) \in Versions /\ VersionIn(a, n) = 0
        BY <3>1, VersionFacts
      <4> QED
        BY <4>1 DEF Versions
    <3> QED
      BY <3>2, <3>3
  <2>3. (IF LightOn(x, c) THEN x.light ELSE 0) = (IF LightOn(a, c) THEN a.light ELSE 0)
    <3>1. CASE LightChunk \in (Near(c) \cup {c}) \cap Held(x)
      <4>1. LightChunk \in (Near(c) \cup {c}) \cap Held(a) /\ LightChunk \notin x.dirty
        BY <2>1, <2>2, <3>1
      <4>2. x.light = a.light \/ (~Lit(x.light) /\ ~Lit(a.light))
        BY <3>1, <4>1 DEF Marks
      <4> QED
        BY <3>1, <4>1, <4>2 DEF LightOn
    <3>2. CASE LightChunk \notin (Near(c) \cup {c}) \cap Held(x)
      <4>1. LightChunk \notin (Near(c) \cup {c}) \cap Held(a)
        BY <2>2, <3>2
      <4> QED
        BY <3>2, <4>1 DEF LightOn
    <3> QED
      BY <3>1, <3>2
  <2>4. [n \in Near(c) \cup {c} |-> VersionIn(x, n)] = [n \in Near(c) \cup {c} |-> VersionIn(a, n)]
    BY <2>2
  <2>5. Picture(x, c) = Picture(a, c)
    BY <1>1, <1>3, <2>3, <2>4 DEF Picture
  <2> QED
    BY <2>5
<1> QED
  BY <1>2, <1>3

(* No chunk on screen is forgotten. *)
LEMMA MeshKept ==
  ASSUME ViewTypes, MeshCurrent, [Next]_vars
  PROVE  MeshCurrent'
<1>t. app \in Apps /\ queue \in Seq(Chunks) /\ IsInjective(queue) /\ stale \subseteq Chunks
  BY DEF ViewTypes
<1>1. ASSUME UNCHANGED <<queue, stale>>, app'.dirty = app.dirty, Held(app') = Held(app) PROVE MeshCurrent'
  BY <1>1 DEF MeshCurrent, WillRemesh
<1>2. CASE UNCHANGED <<app, queue, stale>>
  BY <1>1, <1>2
<1>3. CASE Frame
  <2> DEFINE p == Pending(Drawn)
  <2>1. PICK n \in Nat : /\ n <= Len(p) /\ queue' = SubSeq(p, n + 1, Len(p))
                         /\ stale' = (stale \cup {c \in Chunks : Picture(Drawn, c) # Picture(app, c)})
                                       \ ToSet(SubSeq(p, 1, n))
    BY <1>3, FrameFacts
  <2>2. Drawn \in Apps /\ Marks(app, Drawn)
    BY DrawnFacts
  <2>3. /\ p \in Seq(Chunks)
        /\ \A c : Contains(queue, c) => Contains(p, c)
        /\ \A d \in Drawn.dirty : Contains(p, d) /\ \A c \in Near(d) \cap Held(Drawn) : Contains(p, c)
    BY <1>t, <2>2, PendingFacts
  <2> HIDE DEF p
  <2>a. ASSUME NEW c \in Chunks, c \in Held(Drawn), Near(c) \cap Drawn.dirty # {} PROVE Contains(p, c)
    <3>1. PICK d \in Drawn.dirty : d \in Near(c)
      BY <2>a
    <3>2. c \in Near(d)
      BY <2>a, <3>1, Constants DEF Near
    <3> QED
      BY <2>3, <2>a, <3>1, <3>2
  <2>4. ASSUME NEW c \in stale' PROVE Contains(p, c)
    <3>0. c \in Chunks
      BY <1>t, <2>1, <2>4
    <3>1. CASE c \in stale
      <4>1. CASE c \in app.dirty
        BY <2>2, <2>3, <4>1 DEF Marks
      <4>2. CASE Contains(queue, c)
        BY <2>3, <4>2
      <4>3. CASE c \in Held(app) /\ Near(c) \cap app.dirty # {}
        <5>1. CASE c \in Held(Drawn)
          <6>1. Near(c) \cap Drawn.dirty # {}
            BY <2>2, <4>3 DEF Marks
          <6> QED
            BY <2>a, <3>0, <5>1, <6>1
        <5>2. CASE c \notin Held(Drawn)
          BY <2>2, <2>3, <3>0, <4>3, <5>2 DEF Marks
        <5> QED
          BY <5>1, <5>2
      <4> QED
        BY <3>1, <4>1, <4>2, <4>3 DEF MeshCurrent, WillRemesh
    <3>2. CASE c \notin stale
      <4>1. Picture(Drawn, c) # Picture(app, c)
        BY <2>1, <2>4, <3>2
      <4>2. c \in Drawn.dirty \/ (c \in Held(Drawn) /\ Near(c) \cap Drawn.dirty # {})
        BY <1>t, <2>2, <3>0, <4>1, PicturesMarked
      <4> QED
        BY <2>3, <2>a, <3>0, <4>2
    <3> QED
      BY <3>1, <3>2
  <2>5. ASSUME NEW c \in stale' PROVE Contains(queue', c)
    <3>1. PICK i \in 1..Len(p) : p[i] = c
      BY <2>4, <2>5 DEF Contains
    <3>2. /\ Len(p) \in Nat /\ Len(SubSeq(p, 1, n)) = n /\ \A j \in 1..n : SubSeq(p, 1, n)[j] = p[j]
          /\ Len(queue') = Len(p) - n /\ \A j \in 1..Len(p) - n : queue'[j] = p[n + j]
      BY <2>1, <2>3, CutFacts, LenProperties
    <3>3. ~(i <= n)
      <4> SUFFICES ASSUME i <= n PROVE FALSE
        OBVIOUS
      <4>1. i \in 1..n
        OBVIOUS
      <4>2. SubSeq(p, 1, n)[i] = c
        BY <3>1, <3>2, <4>1
      <4>3. SubSeq(p, 1, n) \in Seq(Chunks)
        BY <2>1, <2>3, CutFacts
      <4>4. c \in ToSet(SubSeq(p, 1, n))
        <5>1. DOMAIN SubSeq(p, 1, n) = 1..n
          BY <3>2, <4>3, LenProperties
        <5> QED
          BY <4>1, <4>2, <5>1 DEF ToSet
      <4> QED
        BY <2>1, <2>5, <4>4
    <3>4. i - n \in 1..Len(p) - n /\ n + (i - n) = i
      BY <3>2, <3>3
    <3>5. queue'[i - n] = c
      BY <3>1, <3>2, <3>4
    <3> QED
      BY <3>2, <3>4, <3>5 DEF Contains
  <2> QED
    BY <2>5 DEF MeshCurrent, WillRemesh
<1>4. CASE RetrySubscribe
  <2>1. UNCHANGED <<queue, stale>>
    BY <1>4 DEF RetrySubscribe
  <2>2. CASE app' = [app EXCEPT !.attempts = 0]
    <3>1. app'.dirty = app.dirty /\ app'.held = app.held
      BY <1>t, <2>2 DEF Apps
    <3> QED
      BY <1>1, <2>1, <3>1 DEF Held
  <2>3. CASE Held(app) = {} /\ app' = [SubscribeAround(app, app.center) EXCEPT !.attempts = @ + 1, !.out = << >>]
    <3> DEFINE a == SubscribeAround(app, app.center)
    <3>1. app.center \in Centers
      BY <1>4, <1>t, AppFacts DEF RetrySubscribe
    <3>2. /\ a \in Apps /\ a.held = [c \in Held(app) \ Left(app, app.center) |-> app.held[c]]
          /\ a.dirty = app.dirty \cup (Held(app) \cap Left(app, app.center))
      BY <1>t, <3>1, SubscribeDrops
    <3> HIDE DEF a
    <3>3. app'.held = a.held /\ app'.dirty = a.dirty
      BY <2>3, <3>2 DEF Apps, a
    <3>4. app'.dirty = app.dirty /\ Held(app') = Held(app)
      BY <2>3, <3>2, <3>3 DEF Held
    <3> QED
      BY <1>1, <2>1, <3>4
  <2> QED
    BY <1>4, <2>2, <2>3 DEF RetrySubscribe
<1>5. CASE RestartClient
  <2>1. app'.dirty = DOMAIN disk' /\ stale' = DOMAIN disk'
    <3>1. disk' \in {disk, Cache} /\ app' = FromCache(disk') /\ stale' = DOMAIN disk'
      BY <1>5 DEF RestartClient
    <3> QED
      BY <3>1, CacheTyped
  <2> QED
    BY <2>1 DEF MeshCurrent, WillRemesh
<1>6. ASSUME NEW c \in Chunks, Edit(c) \/ SendSnapshot(c) \/ Invalidate(c) \/ Move(c) \/ EnterScene(c) PROVE MeshCurrent'
  BY <1>2, <1>6 DEF Edit, SendSnapshot, Invalidate, Move, EnterScene, client
<1>7. ASSUME NEW l \in 0..2, ChangeLight(l) PROVE MeshCurrent'
  BY <1>2, <1>7 DEF ChangeLight, client
<1>8. CASE UNCHANGED vars \/ AttachRegion \/ ServeCommand \/ LoseLink \/ Keepalive \/ SaveCache
  BY <1>2, <1>8 DEF vars, AttachRegion, ServeCommand, LoseLink, Keepalive, SaveCache, client
<1> QED
  BY <1>3, <1>4, <1>5, <1>6, <1>7, <1>8 DEF Next

(* A message about a chunk settles it. *)
LEMMA IngestSettles ==
  ASSUME NEW a \in Apps, NEW m \in Payloads, NEW v, NEW w, NEW c \in Chunks,
         Settled(v, a, c) \/ (m.kind # "light" /\ m.chunk = c),
         w[c] = v[c] \/ (m.kind # "light" /\ m.chunk = c),
         m.kind = "snapshot" /\ m.chunk = c => m.version = w[c],
         m.kind = "delta" /\ m.chunk = c => m.base + 1 = w[c]
  PROVE  Settled(w, Ingest(a, m), c)
<1> DEFINE y == Ingest(a, m)
<1>0. y.center = a.center
  BY IngestTyped
<1>a. ASSUME NEW d \in Chunks, NEW t, y = Applied(a, d, t), m.kind # "light", m.chunk = d, d = c => t.version = w[c]
      PROVE  Settled(w, y, c)
  <2>1. y.held = Put(a.held, d, t) /\ y.gate = a.gate \ {d}
    BY <1>a DEF Applied, Apps
  <2> HIDE DEF y
  <2>2. d \in Held(y) /\ y.held[d] = t /\ \A e \in Held(a) : e \in Held(y) /\ (e # d => y.held[e] = a.held[e])
    BY <2>1 DEF Held, Put
  <2>3. CASE d = c
    BY <1>a, <2>2, <2>3 DEF Settled
  <2>4. CASE d # c
    BY <1>0, <1>a, <2>1, <2>2, <2>4 DEF Settled
  <2> QED
    BY <2>3, <2>4
<1>b. ASSUME m.kind # "light", m.chunk \in y.gate, a.gate \subseteq y.gate,
             \A e \in Held(a) : e # m.chunk => e \in Held(y) /\ y.held[e] = a.held[e]
      PROVE  Settled(w, y, c)
  <2> HIDE DEF y
  <2>1. CASE m.chunk = c
    BY <1>b, <2>1 DEF Settled
  <2>2. CASE m.chunk # c
    BY <1>0, <1>b, <2>2 DEF Settled
  <2> QED
    BY <2>1, <2>2
<1>1. CASE m.kind = "snapshot"
  <2>1. m.chunk \in Chunks /\ y = Applied(a, m.chunk, [version |-> m.version, edits |-> 1..m.version])
    BY <1>1, IngestTyped DEF IngestSnapshot
  <2> HIDE DEF y
  <2>2. m.chunk = c => [version |-> m.version, edits |-> 1..m.version].version = w[c]
    BY <1>1
  <2>3. m.kind # "light"
    BY <1>1
  <2> QED
    BY <1>a, <2>1, <2>2, <2>3 DEF y
<1>2. CASE m.kind = "delta" /\ DeltaFits(a, m)
  <2> DEFINE t == [version |-> m.base + 1, edits |-> a.held[m.chunk].edits \cup {m.base + 1}]
  <2>1. m.chunk \in Chunks /\ y = Applied(a, m.chunk, t)
    BY <1>2, IngestTyped DEF IngestDelta
  <2>2. m.chunk = c => t.version = w[c]
    BY <1>2
  <2>3. m.kind # "light"
    BY <1>2
  <2> HIDE DEF y, t
  <2> QED
    BY <1>a, <2>1, <2>2, <2>3 DEF y
<1>3. CASE m.kind = "delta" /\ ~DeltaFits(a, m)
  <2>1. m.chunk \in Chunks /\ y = AskResync(a, m.chunk)
    BY <1>3, IngestTyped DEF IngestDelta
  <2>2. y.held = a.held /\ m.chunk \in y.gate /\ a.gate \subseteq y.gate
    BY <2>1 DEF AskResync, Apps
  <2> HIDE DEF y
  <2>3. \A e \in Held(a) : e \in Held(y) /\ y.held[e] = a.held[e]
    BY <2>2 DEF Held
  <2> QED
    BY <1>3, <1>b, <2>2, <2>3 DEF y
<1>4. CASE m.kind = "invalidate"
  <2>1. m.chunk \in Chunks /\ y = IngestInvalidate(a, m)
    BY <1>4, IngestTyped
  <2>2. y.held = Drop(a.held, m.chunk) /\ y.gate = a.gate \cup {m.chunk}
    BY <2>1 DEF IngestInvalidate, AskResync, Apps
  <2> HIDE DEF y
  <2>3. \A e \in Held(a) : e # m.chunk => e \in Held(y) /\ y.held[e] = a.held[e]
    BY <2>2 DEF Held, Drop
  <2> QED
    BY <1>4, <1>b, <2>2, <2>3 DEF y
<1>5. CASE m.kind = "light"
  <2>1. y = IngestLight(a, m)
    BY <1>5, IngestTyped
  <2>2. y.held = a.held /\ y.gate = a.gate
    BY <2>1 DEF IngestLight, MarkDirty, Apps
  <2> HIDE DEF y
  <2>3. Held(y) = Held(a)
    BY <2>2 DEF Held
  <2>4. Settled(w, y, c)
    BY <1>0, <1>5, <2>2, <2>3 DEF Settled
  <2> QED
    BY <2>4 DEF y
<1> QED
  BY <1>1, <1>2, <1>3, <1>4, <1>5, IngestTyped

(* One voxel message more under way. *)
LEMMA BelievedAppend ==
  ASSUME ViewTypes, Believed, NEW m \in Payloads, down' = Append(down, m), app' = app, up' = up,
         ver \in [Chunks -> Versions], ver' \in [Chunks -> Versions],
         \A c \in Chunks : /\ ver[c] <= ver'[c]
                           /\ ver'[c] = ver[c] \/ (m.kind # "light" /\ m.chunk = c)
                           /\ m.kind = "snapshot" /\ m.chunk = c => m.version = ver'[c]
                           /\ m.kind = "delta" /\ m.chunk = c => m.base + 1 = ver'[c],
         \A c \in subs' \ owed' : c \in subs \ owed \/ (m.kind # "light" /\ m.chunk = c),
         subs \subseteq Chunks, subs' \subseteq Chunks
  PROVE  Believed'
<1>1. Due' = Ingest(Due, m) /\ Orders' = Orders
  <2> DEFINE x == Polled(app, down)
  <2>1. x \in Apps /\ Due = Ingested(x) /\ Due \in Apps
    BY DueFacts DEF Due
  <2>2. app \in Apps /\ down \in Seq(Messages) /\ m \in Messages
    BY DEF ViewTypes, Messages
  <2>3. Polled(app', down') = PollOne(x, m)
    BY <2>2, PolledOne
  <2>4. Due' = Ingested(PollOne(x, m))
    BY <2>3 DEF Due
  <2> HIDE DEF x
  <2>5. Due' = Ingest(Due, m)
    BY <2>1, <2>4, IngestedOne
  <2>6. Due'.out = Due.out
    BY <2>1, <2>5, IngestTyped
  <2> QED
    BY <2>5, <2>6 DEF Orders
<1>2. Due \in Apps /\ Orders \in Seq(Commands)
  BY DueFacts
<1>3. ASSUME NEW c \in Chunks, Settled(ver, Due, c) \/ (m.kind # "light" /\ m.chunk = c)
      PROVE  Settled(ver', Due', c)
  BY <1>1, <1>2, <1>3, IngestSettles
<1>4. ASSUME NEW n \in Nat, NEW c \in Chunks, Provided(ver, Due, Orders, n, c) \/ (m.kind # "light" /\ m.chunk = c)
      PROVE  Provided(ver', Due', Orders', n, c)
  <2>1. CASE m.kind # "light" /\ m.chunk = c
    BY <1>3, <2>1 DEF Provided
  <2>2. CASE ~(m.kind # "light" /\ m.chunk = c)
    <3>1. ver'[c] = ver[c]
      BY <2>2
    <3>2. \A cmd : Mends(ver, cmd, c) => Mends(ver', cmd, c)
      BY <3>1 DEF Mends
    <3> QED
      BY <1>1, <1>3, <1>4, <2>2, <3>2 DEF Provided
  <2> QED
    BY <2>1, <2>2
<1>5. ASSUME NEW n \in 1..Len(Orders)
      PROVE  NeverAhead(ver', Orders[n]) /\ \A c \in Chunks : Claims(ver', Orders[n], c) => Provided(ver', Due', Orders', n, c)
  <2>1. Orders[n] \in Commands
    BY <1>2, ElementOfSeq
  <2>2. Orders[n].kind = "subscribe" => \A c \in DOMAIN Orders[n].known : c \in Chunks /\ Orders[n].known[c] \in Versions
    BY <2>1 DEF Commands, Claimed
  <2>3. NeverAhead(ver, Orders[n])
    BY DEF Believed, Trusted
  <2>4. NeverAhead(ver', Orders[n])
    <3> SUFFICES ASSUME Orders[n].kind = "subscribe", NEW c \in DOMAIN Orders[n].known PROVE Orders[n].known[c] <= ver'[c]
      BY DEF NeverAhead
    <3>1. c \in Chunks /\ Orders[n].known[c] \in Versions /\ Orders[n].known[c] <= ver[c]
      BY <2>2, <2>3 DEF NeverAhead
    <3>2. ver[c] <= ver'[c] /\ ver[c] \in Nat /\ ver'[c] \in Nat
      BY <3>1 DEF Versions
    <3> QED
      BY <3>1, <3>2 DEF Versions
  <2>5. ASSUME NEW c \in Chunks, Claims(ver', Orders[n], c) PROVE Provided(ver', Due', Orders', n, c)
    <3>1. CASE m.kind # "light" /\ m.chunk = c
      BY <1>4, <3>1
    <3>2. CASE ~(m.kind # "light" /\ m.chunk = c)
      <4>1. ver'[c] = ver[c]
        BY <3>2
      <4>2. Claims(ver, Orders[n], c)
        BY <2>5, <4>1 DEF Claims
      <4> QED
        BY <1>4, <4>2 DEF Believed, Trusted
    <3> QED
      BY <3>1, <3>2
  <2> QED
    BY <2>4, <2>5
<1>6. ASSUME NEW c \in subs' \ owed' PROVE Provided(ver', Due', Orders', 0, c)
  <2>1. c \in Chunks
    OBVIOUS
  <2> QED
    BY <1>4, <2>1 DEF Believed
<1>7. Trusted(ver', Due', Orders')
  BY <1>1, <1>5 DEF Trusted
<1> QED
  BY <1>6, <1>7 DEF Believed

(* A new window under way. *)
LEMMA BelievedWindow ==
  ASSUME ViewTypes, AllFresh, Believed, NEW z \in Apps, z.held = Polled(app, down).held, z.inbox = Polled(app, down).inbox,
         z.out = Polled(app, down).out, NEW k \in Centers,
         NEW m \in Messages, PollOne(Polled(app, down), m) = SubscribeAround(z, k),
         down' = Append(down, m), ViewTypes', AllFresh',
         UNCHANGED <<app, up, ver, subs, owed>>
  PROVE  Believed'
<1> DEFINE x == Polled(app, down)
<1> DEFINE y == SubscribeAround(z, k)
<1> DEFINE tail == <<WindowCommand(z, k)>> \o Leave(z, k)
<1> DEFINE p == Orders \o tail
<1>1. /\ x \in Apps /\ Within(app, x) /\ Due.out = x.out /\ Orders \in Seq(Commands) /\ up \in Seq(Commands)
      /\ Due.out \in Seq(Commands)
  BY DueFacts
<1>2. /\ app \in Apps /\ Rests(app) /\ down \in Seq(Messages) /\ ver \in [Chunks -> Versions] /\ subs \subseteq Chunks
      /\ down' \in Seq(Messages)
  BY DEF ViewTypes
<1>3. Behind(ver, app.held)
  BY DEF AllFresh
<1>4. Behind(ver, z.held)
  BY <1>1, <1>3 DEF Behind, Within, Held
<1>5. Polled(app, down') = y /\ y \in Apps
  BY <1>2, PolledOne, SubscribeTyped
<1>6. /\ y.center = k /\ y.out = z.out \o tail /\ tail \in Seq(Commands)
  <2>1. y.center = k /\ y.out = z.out \o tail
    BY SubscribeTyped
  <2>2. <<WindowCommand(z, k)>> \in Seq(Commands) /\ Leave(z, k) \in Seq(Commands)
    BY SubscribeTyped
  <2>3. tail \in Seq(Commands)
    BY <2>2, ConcatProperties
  <2> QED
    BY <2>1, <2>3
<1>7. Due' = Ingested(y) /\ Due'.out = y.out /\ Due'.center = k
  <2>1. Due' = Ingested(y)
    BY <1>5 DEF Due
  <2> HIDE DEF y
  <2> QED
    BY <1>5, <1>6, <2>1, IngestedFacts
<1>8. Orders' = p
  <2>1. \A r, s, t \in Seq(Commands) : r \o (s \o t) = (r \o s) \o t
    BY ConcatAssociative
  <2> HIDE DEF tail, y
  <2>2. Orders' = up \o (Due.out \o tail)
    BY <1>1, <1>6, <1>7 DEF Orders
  <2> QED
    BY <1>1, <1>6, <2>1, <2>2 DEF Orders
<1>9. /\ p \in Seq(Commands) /\ Len(p) \in Nat /\ Len(p) >= Len(Orders) + 1 /\ \A n \in 1..Len(Orders) : p[n] = Orders[n]
      /\ \A n \in 1..Len(p) : n > Len(Orders) =>
           /\ NeverAhead(ver, p[n])
           /\ \A c \in Chunks : Claims(ver, p[n], c) => c \in Held(y) /\ c \in Held(z) /\ z.held[c].version = ver[c]
      /\ \A c \in Chunks : \/ c \notin Window(k, Radius)
                           \/ c \in Held(y) /\ c \in Held(z) /\ z.held[c].version = ver[c]
                           \/ \E j \in Len(Orders) + 1..Len(p) : Mends(ver, p[j], c)
  BY <1>1, <1>2, <1>4, Subscribed
<1>10. ASSUME NEW c \in Chunks, c \in Held(y), c \in Held(z), z.held[c].version = ver[c]
       PROVE  Settled(ver, Due', c)
  <2>1. y.held[c] = z.held[c]
    <3>1. y.held = [e \in Held(z) \ Left(z, k) |-> z.held[e]]
      BY SubscribeTyped
    <3> HIDE DEF y
    <3> QED
      BY <1>10, <3>1 DEF Held
  <2>2. \A i \in 1..Len(down') : Fresh(ver, app, down'[i])
    BY DEF AllFresh
  <2>3. y = Polled(app, down')
    BY <1>5
  <2> HIDE DEF y
  <2>4. c \in Ingested(y).gate \/ (c \in Held(Ingested(y)) /\ Ingested(y).held[c].version = ver[c])
    <3> DEFINE d == down'
    <3>1. d \in Seq(Messages) /\ \A i \in 1..Len(d) : Fresh(ver, app, d[i])
      BY <1>2, <2>2
    <3>2. y = Polled(app, d)
      BY <2>3
    <3>3. c \in Held(y) /\ y.held[c].version = ver[c]
      BY <1>10, <2>1
    <3>4. app \in Apps /\ Rests(app) /\ ver \in [Chunks -> Versions] /\ Behind(ver, app.held)
      BY <1>2, <1>3
    <3> HIDE DEF d, x, tail, p
    <3> QED
      BY <3>1, <3>2, <3>3, <3>4, PolledStays
  <2> QED
    BY <1>7, <2>4 DEF Settled
<1>l. Len(Orders) \in Nat
  BY <1>1, LenProperties
<1> HIDE DEF y, p, tail
<1>11. ASSUME NEW c \in Chunks, NEW n \in 0..Len(Orders) PROVE Provided(ver, Due', p, n, c)
  <2>1. CASE c \notin Window(k, Radius)
    BY <1>7, <2>1 DEF Provided, Settled
  <2>2. CASE c \in Held(y) /\ c \in Held(z) /\ z.held[c].version = ver[c]
    BY <1>10, <2>2 DEF Provided
  <2>3. ASSUME NEW j \in Len(Orders) + 1..Len(p), Mends(ver, p[j], c) PROVE Provided(ver, Due', p, n, c)
    <3>1. j \in n + 1..Len(p)
      BY <1>l, <1>9
    <3> QED
      BY <2>3, <3>1 DEF Provided
  <2> QED
    BY <1>9, <2>1, <2>2, <2>3
<1>12. ASSUME NEW n \in 1..Len(p)
       PROVE  NeverAhead(ver, p[n]) /\ \A c \in Chunks : Claims(ver, p[n], c) => Provided(ver, Due', p, n, c)
  <2>1. CASE n > Len(Orders)
    <3>1. NeverAhead(ver, p[n])
      BY <1>9, <2>1
    <3>2. ASSUME NEW c \in Chunks, Claims(ver, p[n], c) PROVE Provided(ver, Due', p, n, c)
      <4>1. c \in Held(y) /\ c \in Held(z) /\ z.held[c].version = ver[c]
        BY <1>9, <2>1, <3>2
      <4> QED
        BY <1>10, <4>1 DEF Provided
    <3> QED
      BY <3>1, <3>2
  <2>2. CASE ~(n > Len(Orders))
    <3>1. n \in 1..Len(Orders) /\ n \in 0..Len(Orders)
      BY <1>l, <2>2
    <3>2. NeverAhead(ver, p[n])
      BY <1>9, <3>1 DEF Believed, Trusted
    <3> QED
      BY <1>11, <3>1, <3>2
  <2> QED
    BY <2>1, <2>2
<1>13. Trusted(ver, Due', p)
  BY <1>12 DEF Trusted
<1>14. \A c \in subs' \ owed' : Provided(ver, Due', p, 0, c)
  <2>1. 0 \in 0..Len(Orders)
    BY <1>l
  <2> QED
    BY <1>2, <1>11, <2>1
<1> QED
  BY <1>8, <1>13, <1>14 DEF Believed

(* Some more orders that claim nothing, or claim what is so.                    *)
LEMMA BelievedSent ==
  ASSUME ver \in [Chunks -> Versions], Believed, NEW b, NEW s \in Seq(Commands), Orders \in Seq(Commands),
         Due' = b, Orders' = Orders \o s, UNCHANGED <<ver, subs, owed>>, subs \subseteq Chunks,
         \A c \in Chunks : Settled(ver, Due, c) => Settled(ver, b, c),
         \A i \in 1..Len(s) : /\ NeverAhead(ver, s[i])
                              /\ \A c \in Chunks : Claims(ver, s[i], c) => Settled(ver, b, c)
  PROVE  Believed'
<1> DEFINE p == Orders \o s
<1>1. /\ Len(Orders) \in Nat /\ Len(s) \in Nat /\ Len(p) = Len(Orders) + Len(s)
      /\ \A i \in 1..Len(p) : p[i] = IF i <= Len(Orders) THEN Orders[i] ELSE s[i - Len(Orders)]
  <2>1. \A r, t \in Seq(Commands) :
          /\ Len(r) \in Nat /\ Len(t) \in Nat /\ Len(r \o t) = Len(r) + Len(t)
          /\ \A i \in 1..Len(r) + Len(t) : (r \o t)[i] = IF i <= Len(r) THEN r[i] ELSE t[i - Len(r)]
    BY ConcatProperties, LenProperties
  <2> QED
    BY <2>1
<1> HIDE DEF p
<1>2. ASSUME NEW n \in Nat, NEW c \in Chunks, Provided(ver, Due, Orders, n, c) PROVE Provided(ver, b, p, n, c)
  <2>1. CASE Settled(ver, Due, c)
    BY <2>1 DEF Provided
  <2>2. ASSUME NEW j \in n + 1..Len(Orders), Mends(ver, Orders[j], c) PROVE Provided(ver, b, p, n, c)
    <3>1. j \in n + 1..Len(p) /\ j \in 1..Len(p) /\ j <= Len(Orders)
      BY <1>1
    <3> QED
      BY <1>1, <2>2, <3>1 DEF Provided
  <2> QED
    BY <1>2, <2>1, <2>2 DEF Provided
<1>3. ASSUME NEW n \in 1..Len(p)
      PROVE  NeverAhead(ver, p[n]) /\ \A c \in Chunks : Claims(ver, p[n], c) => Provided(ver, b, p, n, c)
  <2>1. CASE n <= Len(Orders)
    <3>1. p[n] = Orders[n] /\ n \in 1..Len(Orders) /\ n \in Nat
      BY <1>1, <2>1
    <3> QED
      BY <1>2, <3>1 DEF Believed, Trusted
  <2>2. CASE ~(n <= Len(Orders))
    <3>1. p[n] = s[n - Len(Orders)] /\ n - Len(Orders) \in 1..Len(s)
      BY <1>1, <2>2
    <3> QED
      BY <3>1 DEF Provided
  <2> QED
    BY <2>1, <2>2
<1>4. \A c \in subs \ owed : Provided(ver, b, p, 0, c)
  BY <1>2 DEF Believed
<1>5. Trusted(ver, b, p)
  BY <1>3 DEF Trusted
<1> QED
  BY <1>4, <1>5 DEF Believed, p

(* The server believes the first command.                                       *)
LEMMA BelievedServed ==
  ASSUME ViewTypes, Served, Believed, ServeCommand
  PROVE  Believed'
<1> DEFINE cmd == Head(up)
<1>1. /\ up # << >> /\ up' = Tail(up) /\ UNCHANGED <<ver, app, down>>
      /\ cmd.kind = "unsubscribe" => subs' = subs \ cmd.chunks /\ owed' = owed \ cmd.chunks
      /\ cmd.kind # "unsubscribe" =>
           LET W == IF ready THEN Window(cmd.center, cmd.radius) ELSE {}
           IN  subs' = subs \cup W /\ owed' = owed \cup {c \in W : ~(c \in DOMAIN cmd.known /\ cmd.known[c] = ver[c])}
  BY DEF ServeCommand, client
<1>2. Due' = Due
  BY <1>1 DEF Due
<1>3. up \in Seq(Commands) /\ Due.out \in Seq(Commands) /\ Orders \in Seq(Commands) /\ subs \subseteq Chunks
  BY DueFacts DEF ViewTypes
<1>4. /\ cmd \in Commands /\ Len(Orders) \in Nat /\ Len(Orders) >= 1 /\ Orders[1] = cmd
      /\ Len(Orders') = Len(Orders) - 1 /\ \A i \in 1..Len(Orders) - 1 : Orders'[i] = Orders[i + 1]
  <2>1. /\ cmd \in Commands /\ Tail(up) \in Seq(Commands) /\ Len(up) \in Nat /\ Len(Tail(up)) = Len(up) - 1
        /\ \A i \in 1..Len(up) - 1 : Tail(up)[i] = up[i + 1]
    BY <1>1, <1>3, HeadTailProperties, LenProperties
  <2>2. Len(up) # 0 /\ up[1] = cmd
    BY <1>1, <1>3, EmptySeq
  <2>3. \A r, t \in Seq(Commands) :
          /\ Len(r) \in Nat /\ Len(t) \in Nat /\ Len(r \o t) = Len(r) + Len(t)
          /\ \A i \in 1..Len(r) + Len(t) : (r \o t)[i] = IF i <= Len(r) THEN r[i] ELSE t[i - Len(r)]
    BY ConcatProperties, LenProperties
  <2> DEFINE u == Tail(up)
  <2> DEFINE o == Due.out
  <2>4. Orders = up \o o /\ Orders' = u \o o
    BY <1>1, <1>2 DEF Orders
  <2> HIDE DEF cmd, u, o
  <2>5. /\ Len(Orders) = Len(up) + Len(o) /\ Len(o) \in Nat
        /\ \A i \in 1..Len(up) + Len(o) : Orders[i] = IF i <= Len(up) THEN up[i] ELSE o[i - Len(up)]
    BY <1>3, <2>3, <2>4 DEF o
  <2>6. /\ Len(Orders') = Len(up) - 1 + Len(o)
        /\ \A i \in 1..Len(up) - 1 + Len(o) : Orders'[i] = IF i <= Len(up) - 1 THEN u[i] ELSE o[i - (Len(up) - 1)]
    BY <1>3, <2>1, <2>3, <2>4 DEF o, u
  <2>7. Orders[1] = cmd /\ Len(Orders) \in Nat /\ Len(Orders) >= 1 /\ Len(Orders') = Len(Orders) - 1
    BY <2>1, <2>2, <2>5, <2>6
  <2>8. ASSUME NEW i \in 1..Len(Orders) - 1 PROVE Orders'[i] = Orders[i + 1]
    <3>1. i \in 1..Len(up) - 1 + Len(o) /\ i + 1 \in 1..Len(up) + Len(o) /\ i - (Len(up) - 1) = i + 1 - Len(up)
      BY <2>1, <2>5
    <3>2. CASE i <= Len(up) - 1
      <4>1. i \in 1..Len(up) - 1 /\ i + 1 <= Len(up)
        BY <2>1, <3>2
      <4>2. Orders'[i] = u[i] /\ u[i] = up[i + 1] /\ Orders[i + 1] = up[i + 1]
        BY <2>1, <2>5, <2>6, <3>1, <3>2, <4>1 DEF u
      <4> QED
        BY <4>2
    <3>3. CASE ~(i <= Len(up) - 1)
      <4>1. ~(i + 1 <= Len(up))
        BY <2>1, <3>3
      <4>2. Orders'[i] = o[i - (Len(up) - 1)] /\ Orders[i + 1] = o[i + 1 - Len(up)]
        BY <2>5, <2>6, <3>1, <3>3, <4>1
      <4> QED
        BY <3>1, <4>2
    <3> QED
      BY <3>2, <3>3
  <2> QED
    BY <2>1, <2>7, <2>8
<1> HIDE DEF cmd
<1>5. ASSUME NEW n \in Nat, NEW c \in Chunks, Provided(ver, Due, Orders, n + 1, c) PROVE Provided(ver, Due, Orders', n, c)
  <2>1. ASSUME NEW j \in n + 1 + 1..Len(Orders), Mends(ver, Orders[j], c) PROVE Provided(ver, Due, Orders', n, c)
    <3>1. j - 1 \in n + 1..Len(Orders') /\ j - 1 \in 1..Len(Orders) - 1 /\ j - 1 + 1 = j
      BY <1>4
    <3>2. Orders'[j - 1] = Orders[j]
      BY <1>4, <3>1
    <3> QED
      BY <2>1, <3>1, <3>2 DEF Provided
  <2> QED
    BY <1>5, <2>1 DEF Provided
<1>6. ASSUME NEW n \in 1..Len(Orders')
      PROVE  NeverAhead(ver, Orders'[n]) /\ \A c \in Chunks : Claims(ver, Orders'[n], c) => Provided(ver, Due, Orders', n, c)
  <2>1. n \in 1..Len(Orders) - 1 /\ n + 1 \in 1..Len(Orders) /\ n \in Nat
    BY <1>4
  <2>2. Orders'[n] = Orders[n + 1]
    BY <1>4, <2>1
  <2>3. NeverAhead(ver, Orders[n + 1]) /\ \A c \in Chunks : Claims(ver, Orders[n + 1], c) => Provided(ver, Due, Orders, n + 1, c)
    BY <2>1 DEF Believed, Trusted
  <2> QED
    BY <1>5, <2>1, <2>2, <2>3
<1>7. ASSUME NEW c \in subs' \ owed' PROVE Provided(ver, Due, Orders', 0, c)
  <2>a. 0 \in Nat /\ 0 + 1 = 1 /\ 1 \in 1..Len(Orders)
    BY <1>4
  <2>b. ASSUME c \in subs \ owed, ~Mends(ver, cmd, c) PROVE Provided(ver, Due, Orders', 0, c)
    <3>1. c \in Chunks /\ Provided(ver, Due, Orders, 0, c)
      BY <1>3, <2>b DEF Believed
    <3>2. Provided(ver, Due, Orders, 1, c)
      <4>1. ASSUME NEW j \in 0 + 1..Len(Orders), Mends(ver, Orders[j], c) PROVE j \in 1 + 1..Len(Orders)
        BY <1>4, <2>b, <4>1
      <4> QED
        BY <3>1, <4>1 DEF Provided
    <3> QED
      BY <1>5, <2>a, <3>1, <3>2
  <2>1. CASE cmd.kind = "unsubscribe"
    <3>1. c \in subs \ owed /\ ~Mends(ver, cmd, c)
      BY <1>1, <1>7, <2>1 DEF Mends, Covers
    <3> QED
      BY <2>b, <3>1
  <2>2. CASE cmd.kind # "unsubscribe"
    <3> DEFINE W == IF ready THEN Window(cmd.center, cmd.radius) ELSE {}
    <3>0. cmd.kind = "subscribe"
      BY <1>4, <2>2 DEF Commands
    <3>1. subs' = subs \cup W /\ owed' = owed \cup {d \in W : ~(d \in DOMAIN cmd.known /\ cmd.known[d] = ver[d])}
      BY <1>1, <2>2
    <3>2. CASE c \in W
      <4>1. Claims(ver, cmd, c) /\ c \in Chunks
        BY <1>7, <3>0, <3>1, <3>2 DEF Claims, Covers, Window
      <4>2. Provided(ver, Due, Orders, 1, c)
        BY <1>4, <2>a, <4>1 DEF Believed, Trusted
      <4> QED
        BY <1>5, <2>a, <4>1, <4>2
    <3>3. CASE c \notin W
      <4>1. c \in subs \ owed /\ ready
        BY <1>7, <3>1, <3>3 DEF Served
      <4>2. ~Mends(ver, cmd, c)
        BY <2>2, <3>3, <4>1 DEF Mends, Covers
      <4> QED
        BY <2>b, <4>1, <4>2
    <3> QED
      BY <3>2, <3>3
  <2> QED
    BY <2>1, <2>2
<1>8. Trusted(ver, Due, Orders')
  BY <1>6 DEF Trusted
<1> QED
  BY <1>1, <1>2, <1>7, <1>8 DEF Believed

(* What the app comes to is the same. *)
LEMMA BelievedSame ==
  ASSUME Believed, Due' = Due, UNCHANGED <<up, ver, subs, owed>>
  PROVE  Believed'
<1>1. Orders' = Orders
  BY DEF Orders
<1> QED
  BY <1>1 DEF Believed

(* Nothing is under way and nobody is served. *)
LEMMA BelievedEmpty ==
  ASSUME Orders' = << >>, subs' \ owed' = {}
  PROVE  Believed'
<1>1. Len(<< >>) = 0
  OBVIOUS
<1>2. Trusted(ver', Due', Orders')
  BY <1>1 DEF Trusted
<1> QED
  BY <1>2 DEF Believed

(* With nothing under way the app comes to what it is. *)
LEMMA DueAtRest ==
  ASSUME NEW a \in Apps, a.inbox = << >>
  PROVE  Ingested(Polled(a, << >>)) = a
<1>1. << >> \in Seq(Messages) /\ [kind |-> "disconnected"] \in Messages
  BY DEF Messages, Notices
<1>2. Polled(a, << >>) = a
  BY <1>1, PolledOne
<1> QED
  BY <1>2, IngestedNothing

(* What the server believes is so, or is being mended. *)
LEMMA BelievedKept ==
  ASSUME ViewTypes, AllFresh, Served, Believed, [Next]_vars, ViewTypes', AllFresh', Served'
  PROVE  Believed'
<1>t. /\ ver \in [Chunks -> Versions] /\ ver' \in [Chunks -> Versions] /\ subs \subseteq Chunks /\ subs' \subseteq Chunks
      /\ owed \subseteq subs /\ app \in Apps /\ Rests(app) /\ app' \in Apps /\ Rests(app)'
      /\ up \in Seq(Commands) /\ down \in Seq(Messages) /\ down' \in Seq(Messages)
  BY DEF ViewTypes
<1>d. /\ Due \in Apps /\ Due.out \in Seq(Commands) /\ Orders \in Seq(Commands)
      /\ Polled(app, down) \in Apps
  BY DueFacts
<1>v. \A c \in Chunks : ver[c] \in Versions /\ ver[c] <= ver[c]
  BY <1>t DEF Versions
<1>1. CASE UNCHANGED <<app, down, up, ver, subs, owed>>
  <2>1. Due' = Due
    BY <1>1 DEF Due
  <2> QED
    BY <1>1, <2>1, BelievedSame
<1>3. ASSUME NEW c \in Chunks, Edit(c) PROVE Believed'
  <2>1. /\ ver' = [ver EXCEPT ![c] = ver[c] + 1] /\ UNCHANGED <<subs, owed, up, app>>
        /\ (IF c \in subs THEN down' = Append(down, [kind |-> "delta", chunk |-> c, base |-> ver[c]]) ELSE down' = down)
    BY <1>3 DEF Edit, Deliver, client
  <2>2. ver'[c] = ver[c] + 1 /\ \A d \in Chunks : d # c => ver'[d] = ver[d]
    BY <1>t, <2>1
  <2>3. \A d \in Chunks : ver[d] <= ver'[d]
    <3>1. ver[c] \in Nat /\ ver[c] <= ver[c] + 1
      BY <1>v DEF Versions
    <3> QED
      BY <1>v, <2>2, <3>1
  <2>4. CASE c \in subs
    <3> DEFINE m == [kind |-> "delta", chunk |-> c, base |-> ver[c]]
    <3>1. m \in Payloads /\ down' = Append(down, m)
      BY <1>v, <2>1, <2>4 DEF Payloads
    <3>2. m.kind = "delta" /\ m.chunk = c /\ m.base = ver[c]
      OBVIOUS
    <3> HIDE DEF m
    <3>3. \A d \in Chunks : /\ ver[d] <= ver'[d]
                            /\ ver'[d] = ver[d] \/ (m.kind # "light" /\ m.chunk = d)
                            /\ m.kind = "snapshot" /\ m.chunk = d => m.version = ver'[d]
                            /\ m.kind = "delta" /\ m.chunk = d => m.base + 1 = ver'[d]
      BY <2>2, <2>3, <3>2
    <3> QED
      BY <1>t, <2>1, <3>1, <3>3, BelievedAppend
  <2>5. CASE c \notin subs
    <3>1. Due' = Due /\ Orders' = Orders
      BY <2>1, <2>5 DEF Due, Orders
    <3>2. ASSUME NEW n \in Nat, NEW d \in Chunks, d # c, Provided(ver, Due, Orders, n, d) PROVE Provided(ver', Due, Orders, n, d)
      <4>1. ver'[d] = ver[d]
        BY <2>2, <3>2
      <4>2. \A cmd : Mends(ver, cmd, d) => Mends(ver', cmd, d)
        BY <4>1 DEF Mends
      <4>3. Settled(ver, Due, d) => Settled(ver', Due, d)
        BY <4>1 DEF Settled
      <4> QED
        BY <3>2, <4>2, <4>3 DEF Provided
    <3>3. ASSUME NEW n \in 1..Len(Orders)
          PROVE  NeverAhead(ver', Orders[n]) /\ \A d \in Chunks : Claims(ver', Orders[n], d) => Provided(ver', Due, Orders, n, d)
      <4>1. Orders[n] \in Commands
        BY <1>d, ElementOfSeq
      <4>2. Orders[n].kind = "subscribe" => \A d \in DOMAIN Orders[n].known : d \in Chunks /\ Orders[n].known[d] \in Versions
        BY <4>1 DEF Commands, Claimed
      <4>3. NeverAhead(ver, Orders[n]) /\ \A d \in Chunks : Claims(ver, Orders[n], d) => Provided(ver, Due, Orders, n, d)
        BY DEF Believed, Trusted
      <4>4. ASSUME Orders[n].kind = "subscribe", NEW d \in DOMAIN Orders[n].known
            PROVE  Orders[n].known[d] <= ver'[d] /\ Orders[n].known[d] <= ver[d] /\ Orders[n].known[d] \in Versions
        <5>1. d \in Chunks /\ Orders[n].known[d] \in Versions /\ Orders[n].known[d] <= ver[d]
          BY <4>2, <4>3, <4>4 DEF NeverAhead
        <5>2. ver[d] \in Nat /\ ver[d] <= ver'[d] /\ ver'[d] \in Nat
          BY <1>t, <2>3, <5>1 DEF Versions
        <5> QED
          BY <5>1, <5>2 DEF Versions
      <4>5. NeverAhead(ver', Orders[n])
        BY <4>4 DEF NeverAhead
      <4>6. ASSUME NEW d \in Chunks, Claims(ver', Orders[n], d) PROVE Provided(ver', Due, Orders, n, d)
        <5>1. d # c
          <6> SUFFICES ASSUME d = c PROVE FALSE
            OBVIOUS
          <6>1. Orders[n].known[c] <= ver[c] /\ Orders[n].known[c] = ver[c] + 1
            BY <2>2, <4>4, <4>6 DEF Claims, Covers
          <6>2. ver[c] \in Nat
            BY <1>v DEF Versions
          <6> QED
            BY <6>1, <6>2
        <5>2. Claims(ver, Orders[n], d)
          BY <2>2, <4>6, <5>1 DEF Claims
        <5> QED
          BY <3>2, <4>3, <5>1, <5>2
      <4> QED
        BY <4>5, <4>6
    <3>4. \A d \in subs' \ owed' : Provided(ver', Due, Orders, 0, d)
      BY <1>t, <2>1, <2>5, <3>2 DEF Believed
    <3>5. Trusted(ver', Due, Orders)
      BY <3>3 DEF Trusted
    <3> QED
      BY <3>1, <3>4, <3>5 DEF Believed
  <2> QED
    BY <2>4, <2>5
<1>5. ASSUME NEW c \in Chunks, SendSnapshot(c) PROVE Believed'
  <2> DEFINE m == [kind |-> "snapshot", chunk |-> c, version |-> ver[c]]
  <2>1. /\ down' = Append(down, m) /\ app' = app /\ up' = up /\ ver' = ver /\ subs' = subs /\ owed' = owed \ {c}
    BY <1>5 DEF SendSnapshot, Deliver, client
  <2>2. m \in Payloads /\ m.kind = "snapshot" /\ m.chunk = c /\ m.version = ver[c]
    BY <1>v DEF Payloads
  <2> HIDE DEF m
  <2>3. \A d \in subs' \ owed' : d \in subs \ owed \/ (m.kind # "light" /\ m.chunk = d)
    BY <2>1, <2>2
  <2> QED
    BY <1>t, <1>v, <2>1, <2>2, <2>3, BelievedAppend
<1>6. ASSUME NEW c \in Chunks, Invalidate(c) PROVE Believed'
  <2> DEFINE m == [kind |-> "invalidate", chunk |-> c]
  <2>1. /\ down' = Append(down, m) /\ app' = app /\ up' = up /\ ver' = ver /\ subs' = subs \ {c} /\ owed' = owed \ {c}
    BY <1>6 DEF Invalidate, Deliver, client
  <2>2. m \in Payloads /\ m.kind = "invalidate" /\ m.chunk = c
    BY DEF Payloads
  <2> HIDE DEF m
  <2>3. \A d \in subs' \ owed' : d \in subs \ owed
    BY <2>1
  <2> QED
    BY <1>t, <1>v, <2>1, <2>2, <2>3, BelievedAppend
<1>7. ASSUME NEW l \in 0..2, ChangeLight(l) PROVE Believed'
  <2> DEFINE m == [kind |-> "light", light |-> l]
  <2>1. /\ down' = Append(down, m) /\ app' = app /\ up' = up /\ ver' = ver /\ subs' = subs /\ owed' = owed
    BY <1>7 DEF ChangeLight, Deliver, client, server
  <2>2. m \in Payloads /\ m.kind = "light"
    BY DEF Payloads
  <2> HIDE DEF m
  <2> QED
    BY <1>t, <1>v, <2>1, <2>2, BelievedAppend
<1>8. ASSUME NEW c \in Chunks, Move(c) PROVE Believed'
  <2> DEFINE m == [kind |-> "position", chunk |-> c]
  <2> DEFINE x == Polled(app, down)
  <2> DEFINE k == CenterOf(TileOf(m.chunk))
  <2>1. /\ down' = Append(down, m) /\ UNCHANGED <<app, up, ver, subs, owed>>
    BY <1>8 DEF Move, Deliver, client
  <2>2. m \in Messages /\ m.kind = "position"
    BY DEF Messages, Notices
  <2>3. k \in Centers /\ (PollOne(x, m) = x \/ PollOne(x, m) = SubscribeAround(x, k))
    <3> HIDE DEF m, x
    <3> QED
      BY <1>d, <2>2, PollTyped DEF x
  <2> HIDE DEF m, k
  <2>4. CASE PollOne(x, m) = x
    <3>1. Polled(app', down') = x
      BY <1>t, <2>1, <2>2, <2>4, PolledOne
    <3>2. Due' = Due
      BY <3>1 DEF Due
    <3> QED
      BY <2>1, <3>2, BelievedSame
  <2>5. CASE PollOne(x, m) = SubscribeAround(x, k)
    BY <1>d, <2>1, <2>2, <2>3, <2>5, BelievedWindow
  <2> QED
    BY <2>3, <2>4, <2>5
<1>9. CASE LoseLink
  <2>1. up' = << >> /\ subs' = {} /\ UNCHANGED <<app, ver>>
    BY <1>9 DEF LoseLink, client
  <2>2. \A i \in 1..Len(down') : Fresh(ver, app, down'[i])
    BY <2>1 DEF AllFresh
  <2>3. Behind(ver, app.held)
    BY DEF AllFresh
  <2>4. Trusted(ver, Ingested(Polled(app, down')), Ingested(Polled(app, down')).out)
    <3> DEFINE d == down'
    <3>1. d \in Seq(Messages) /\ \A i \in 1..Len(d) : Fresh(ver, app, d[i])
      BY <1>t, <2>2
    <3> HIDE DEF d
    <3>2. Trusted(ver, Ingested(Polled(app, d)), Ingested(Polled(app, d)).out)
      BY <1>t, <2>3, <3>1, PolledTrusted
    <3> QED
      BY <3>2 DEF d
  <2>5. Due' = Ingested(Polled(app, down'))
    BY <2>1 DEF Due
  <2>6. Orders' = Due'.out
    <3>1. ViewTypes' => Due'.out \in Seq(Commands)
      <4> DEFINE d == down'
      <4>1. d \in Seq(Messages)
        BY <1>t
      <4>2. Due' = Ingested(Polled(app, d))
        BY <2>5
      <4> HIDE DEF d
      <4>3. Polled(app, d) \in Apps
        BY <1>t, <4>1, PolledFacts
      <4>4. Due' \in Apps
        BY <4>2, <4>3, IngestedFacts
      <4> QED
        BY <4>4, AppFacts
    <3>2. Orders' = << >> \o Due'.out
      BY <2>1 DEF Orders
    <3> QED
      BY <3>1, <3>2, ConcatEmptySeq
  <2> QED
    BY <2>1, <2>4, <2>5, <2>6 DEF Believed
<1>10. ASSUME NEW c \in Chunks, EnterScene(c) PROVE Believed'
  <2> DEFINE m == [kind |-> "entered", chunk |-> c]
  <2> DEFINE x == Polled(app, down)
  <2> DEFINE k == CenterOf(TileOf(m.chunk))
  <2> DEFINE z == Joining(x)
  <2>1. /\ down' = Append(down, m) /\ UNCHANGED <<app, up, ver, subs, owed>>
    BY <1>10 DEF EnterScene, Deliver, client
  <2>2. m \in Messages /\ m.kind = "entered"
    BY DEF Messages, Notices
  <2>3. k \in Centers /\ PollOne(x, m) = SubscribeAround(z, k)
    <3> HIDE DEF m, x
    <3> QED
      BY <1>d, <2>2, PollTyped DEF x
  <2>4. z \in Apps /\ z.held = x.held /\ z.inbox = x.inbox /\ z.out = x.out
    BY <1>d, JoiningTyped
  <2> HIDE DEF m, k, z
  <2> QED
    BY <1>d, <2>1, <2>2, <2>3, <2>4, BelievedWindow
<1>11. CASE Frame
  <2>1. /\ app' = Rested(Drawn) /\ down' = << >> /\ UNCHANGED <<ver, subs, owed, linked>>
        /\ up' = IF linked THEN up \o Drawn.out ELSE up
    BY <1>11, FrameFacts
  <2>2. /\ Drawn \in Apps /\ Drawn.inbox = << >>
        /\ Drawn.held = Due.held /\ Drawn.gate = Due.gate /\ Drawn.center = Due.center
    BY DrawnFacts
  <2>3. PICK s \in Seq(Commands) : /\ Drawn.out = Due.out \o s
                                   /\ \A i \in 1..Len(s) : s[i].kind = "subscribe" /\ DOMAIN s[i].known = {}
    BY DrawnFacts
  <2>4. /\ app'.held = Due.held /\ app'.gate = Due.gate /\ app'.center = Due.center /\ app'.inbox = << >> /\ app'.out = << >>
    BY <2>1, <2>2, RestedFacts
  <2>5. Due' = app'
    <3>1. Due' = Ingested(Polled(app', << >>))
      BY <2>1 DEF Due
    <3> QED
      BY <1>t, <2>4, <3>1, DueAtRest
  <2>6. up' \in Seq(Commands)
    BY DEF ViewTypes
  <2>7. Orders' = up'
    <3>1. Orders' = up' \o << >>
      BY <2>4, <2>5 DEF Orders
    <3> QED
      BY <2>6, <3>1, ConcatEmptySeq
  <2>8. CASE ~linked
    <3>1. up' = << >> /\ subs' = {}
      <4>1. linked' = linked
        BY <2>1
      <4> QED
        BY <2>8, <4>1 DEF Served
    <3> QED
      BY <2>7, <3>1, BelievedEmpty
  <2>9. CASE linked
    <3>1. \A r, p, q \in Seq(Commands) : r \o (p \o q) = (r \o p) \o q
      BY ConcatAssociative
    <3>2. Orders' = Orders \o s
      <4>1. up' = up \o (Due.out \o s)
        BY <2>1, <2>3, <2>9
      <4>2. up \in Seq(Commands) /\ Due.out \in Seq(Commands)
        BY <1>d DEF ViewTypes, Apps
      <4>3. up \o (Due.out \o s) = (up \o Due.out) \o s
        BY <2>3, <3>1, <4>2
      <4> QED
        BY <2>7, <4>1, <4>3 DEF Orders
    <3>3. \A c \in Chunks : Settled(ver, Due, c) => Settled(ver, app', c)
      BY <2>4 DEF Settled, Held
    <3>4. \A i \in 1..Len(s) : /\ NeverAhead(ver, s[i])
                               /\ \A c \in Chunks : Claims(ver, s[i], c) => Settled(ver, app', c)
      BY <2>3 DEF NeverAhead, Claims
    <3> QED
      BY <1>t, <1>d, <2>1, <2>5, <3>2, <3>3, <3>4, BelievedSent
  <2> QED
    BY <2>8, <2>9
<1>r. ASSUME up = << >>, down = << >>
      PROVE  Due = app /\ Orders = << >>
  <2>1. Due = app
    <3>1. Due = Ingested(Polled(app, << >>))
      BY <1>r DEF Due
    <3> QED
      BY <1>t, <3>1, DueAtRest DEF Rests
  <2>2. Orders = << >> \o << >>
    BY <1>r, <1>t, <2>1 DEF Orders, Rests
  <2> QED
    BY <2>1, <2>2
<1>s. ASSUME up = << >>, down = << >>, down' = << >>, NEW s \in Seq(Commands), Send(s), UNCHANGED <<ver, subs, owed>>,
             \A c \in Chunks : Settled(ver, app, c) => Settled(ver, app', c),
             \A i \in 1..Len(s) : /\ NeverAhead(ver, s[i])
                                  /\ \A c \in Chunks : Claims(ver, s[i], c) => Settled(ver, app', c)
      PROVE  Believed'
  <2>1. Due = app /\ Orders = << >>
    BY <1>r, <1>s
  <2>2. Due' = app'
    <3>1. Due' = Ingested(Polled(app', << >>))
      BY <1>s DEF Due
    <3>2. app'.inbox = << >>
      BY <1>t DEF Rests
    <3> QED
      BY <1>t, <3>1, <3>2, DueAtRest
  <2>3. PICK r \in Seq(Commands) : up' = r /\ (r = s \/ r = << >>)
    <3>1. up' = s \/ up' = << >>
      <4>1. << >> \o s = s
        BY ConcatEmptySeq
      <4> QED
        BY <1>s, <4>1 DEF Send
    <3>2. << >> \in Seq(Commands)
      OBVIOUS
    <3> QED
      BY <3>1, <3>2
  <2>4. Orders' = r
    <3>1. Orders' = r \o << >>
      BY <1>t, <2>2, <2>3 DEF Orders, Rests
    <3> QED
      BY <3>1, ConcatEmptySeq
  <2>5. Orders' = Orders \o r
    BY <2>1, <2>4, ConcatEmptySeq
  <2>6. \A i \in 1..Len(r) : /\ NeverAhead(ver, r[i])
                             /\ \A c \in Chunks : Claims(ver, r[i], c) => Settled(ver, app', c)
    <3>1. CASE r = s
      BY <1>s, <3>1
    <3>2. CASE r = << >>
      <4>1. Len(r) = 0
        BY <3>2
      <4> QED
        BY <4>1
    <3> QED
      BY <2>3, <3>1, <3>2
  <2> QED
    BY <1>t, <1>d, <1>s, <2>1, <2>2, <2>5, <2>6, BelievedSent
<1>12. CASE RetrySubscribe
  <2>1. up = << >> /\ down = << >> /\ down' = << >> /\ UNCHANGED <<ver, subs, owed>> /\ app.center \in Centers
    BY <1>12, <1>t, AppFacts DEF RetrySubscribe, server
  <2>2. CASE app' = [app EXCEPT !.attempts = 0] /\ UNCHANGED up
    <3>1. app'.held = app.held /\ app'.gate = app.gate /\ app'.center = app.center
      BY <1>t, <2>2 DEF Apps
    <3>2. \A c \in Chunks : Settled(ver, app, c) => Settled(ver, app', c)
      BY <3>1 DEF Settled, Held
    <3>3. << >> \in Seq(Commands) /\ Len(<< >>) = 0
      OBVIOUS
    <3>4. Send(<< >>)
      BY <2>1, <2>2 DEF Send
    <3> DEFINE none == << >>
    <3>5. \A i \in 1..Len(none) :
            /\ NeverAhead(ver, none[i])
            /\ \A c \in Chunks : Claims(ver, none[i], c) => Settled(ver, app', c)
      <4>1. Len(none) = 0
        OBVIOUS
      <4> HIDE DEF none
      <4> QED
        BY <4>1
    <3>6. none \in Seq(Commands) /\ Send(none)
      BY <3>3, <3>4
    <3> HIDE DEF none
    <3> QED
      BY <1>s, <2>1, <3>2, <3>5, <3>6
  <2>3. CASE /\ Held(app) = {}
             /\ LET a == SubscribeAround(app, app.center) IN
                  /\ app' = [a EXCEPT !.attempts = @ + 1, !.out = << >>]
                  /\ Send(a.out)
    <3> DEFINE a == SubscribeAround(app, app.center)
    <3> DEFINE p == << >> \o (<<WindowCommand(app, app.center)>> \o Leave(app, app.center))
    <3>1. /\ a \in Apps /\ a.center = app.center /\ a.gate = app.gate
          /\ a.held = [c \in Held(app) \ Left(app, app.center) |-> app.held[c]]
          /\ a.out = app.out \o (<<WindowCommand(app, app.center)>> \o Leave(app, app.center))
      BY <1>t, <2>1, SubscribeTyped
    <3>2. a.out = p
      BY <1>t, <3>1 DEF Rests
    <3>3. app' = [a EXCEPT !.attempts = @ + 1, !.out = << >>] /\ Send(a.out)
      BY <2>3
    <3>4. Behind(ver, app.held) /\ << >> \in Seq(Commands) /\ Len(<< >>) = 0
      BY DEF AllFresh
    <3>5. /\ p \in Seq(Commands)
          /\ \A n \in 1..Len(p) : n > 0 =>
               /\ NeverAhead(ver, p[n])
               /\ \A c \in Chunks : Claims(ver, p[n], c) => c \in Held(app)
      BY <1>t, <2>1, <3>4, Subscribed
    <3> HIDE DEF a, p
    <3>6. app'.center = app.center /\ app'.gate = app.gate /\ app'.held = a.held
      BY <3>1, <3>3 DEF Apps
    <3>7. \A c \in Chunks : Settled(ver, app, c) => Settled(ver, app', c)
      BY <2>3, <3>6 DEF Settled
    <3>8. \A n \in 1..Len(p) : /\ NeverAhead(ver, p[n])
                               /\ \A c \in Chunks : Claims(ver, p[n], c) => Settled(ver, app', c)
      BY <2>3, <3>5
    <3>9. Send(p)
      BY <3>2, <3>3
    <3> QED
      BY <1>s, <2>1, <3>5, <3>7, <3>8, <3>9
  <2> QED
    BY <1>12, <2>2, <2>3 DEF RetrySubscribe
<1>13. CASE Keepalive
  <2> DEFINE w == WindowCommand(app, app.center)
  <2>1. /\ up = << >> /\ down = << >> /\ down' = << >> /\ UNCHANGED <<ver, subs, owed, app>> /\ app.center \in Centers
        /\ Send(<<w>>)
    BY <1>13, <1>t, AppFacts DEF Keepalive, server, client
  <2>2. <<w>> \in Seq(Commands) /\ Len(<<w>>) = 1 /\ <<w>>[1] = w
    BY <1>t, <2>1, SubscribeTyped
  <2>3. Behind(ver, app.held)
    BY DEF AllFresh
  <2>4. NeverAhead(ver, w) /\ \A c \in Chunks : Claims(ver, w, c) => Settled(ver, app, c)
    BY <2>3 DEF NeverAhead, Behind, Claims, Settled, WindowCommand, Known, Held
  <2> HIDE DEF w
  <2>5. \A i \in 1..Len(<<w>>) : /\ NeverAhead(ver, <<w>>[i])
                                 /\ \A c \in Chunks : Claims(ver, <<w>>[i], c) => Settled(ver, app', c)
    <3>1. \A i \in 1..Len(<<w>>) : <<w>>[i] = w
      BY <2>2
    <3> QED
      BY <2>1, <2>4, <3>1
  <2>6. \A c \in Chunks : Settled(ver, app, c) => Settled(ver, app', c)
    BY <2>1
  <2> QED
    BY <1>s, <2>1, <2>2, <2>5, <2>6
<1>15. CASE RestartClient
  <2>1. up' = << >> /\ down' = << >> /\ subs' = {} /\ app' = FromCache(disk') /\ disk' \in {disk, Cache}
    BY <1>15 DEF RestartClient
  <2>2. Due' = app'
    <3>1. Due' = Ingested(Polled(app', << >>))
      BY <2>1 DEF Due
    <3>2. app'.inbox = << >>
      BY <1>t DEF Rests
    <3> QED
      BY <1>t, <3>1, <3>2, DueAtRest
  <2>3. Orders' = << >> \o << >>
    BY <1>t, <2>1, <2>2 DEF Orders, Rests
  <2>4. Orders' = << >>
    BY <2>3
  <2> QED
    BY <2>1, <2>4, BelievedEmpty
<1>16. CASE UNCHANGED vars \/ AttachRegion \/ SaveCache
  BY <1>1, <1>16 DEF vars, AttachRegion, SaveCache, server, client
<1>17. CASE ServeCommand
  BY <1>17, BelievedServed
<1> QED
  BY <1>3, <1>5, <1>6, <1>7, <1>8, <1>9, <1>10, <1>11, <1>12, <1>13, <1>15, <1>16, <1>17 DEF Next

--------------------------------------------------------------------------------
(* The theorems.                                                                *)

(* The inductive invariant holds in every state. *)
THEOREM ViewInvariance == Spec => []ViewInv
<1>1. Init => ViewInv
  BY InitView DEF ViewInv
<1>2. ViewInv /\ [Next]_vars => ViewInv'
  <2> SUFFICES ASSUME ViewInv, [Next]_vars PROVE ViewInv'
    OBVIOUS
  <2>1. ViewTypes /\ AllFresh /\ Served /\ Believed /\ MeshCurrent
    BY DEF ViewInv
  <2>2. ViewTypes' /\ AllFresh' /\ Served' /\ MeshCurrent'
    BY <2>1, TypesKept, FreshKept, ServedKept, MeshKept
  <2>3. Believed'
    BY <2>1, <2>2, BelievedKept
  <2> QED
    BY <2>2, <2>3 DEF ViewInv
<1> QED
  BY <1>1, <1>2, PTL DEF Spec

(* The store of the client keeps its shape, the queue of meshes has no chunk    *)
(* twice, and every chunk in the store or in the map cache is what the server   *)
(* had at that version, never one it has not had (authority.rs apply_delta).    *)
THEOREM StoreHolds == Spec => []StoreOK
<1>1. ViewInv => StoreOK
  <2> SUFFICES ASSUME ViewInv PROVE StoreOK
    OBVIOUS
  <2>1. ViewTypes /\ AllFresh
    BY DEF ViewInv
  <2>2. app \in Apps /\ Rests(app) /\ disk \in Stores
    BY <2>1 DEF ViewTypes
  <2>3. TypeOK
    <3>1. DOMAIN ver = Chunks /\ subs \subseteq Chunks /\ owed \subseteq subs /\ linked \in BOOLEAN /\ ready \in BOOLEAN
      BY <2>1 DEF ViewTypes
    <3>2. app.joined \in BOOLEAN /\ app.center \in {NoCenter} \cup {CenterOf(TileOf(c)) : c \in Chunks}
      BY <2>2, AppFacts DEF Centers
    <3>3. Held(app) \cup app.dirty \cup app.gate \subseteq Chunks /\ app.attempts \in 0..MaxRetries
      BY <2>2, AppFacts
    <3>4. app.wanted = {} /\ app.inbox = << >> /\ app.out = << >>
      BY <2>2 DEF Rests
    <3>5. IsInjective(queue) /\ stale \subseteq Chunks
      BY <2>1 DEF ViewTypes
    <3>6. DOMAIN disk \subseteq Chunks
      BY <2>2, StoreFacts
    <3> QED
      BY <3>1, <3>2, <3>3, <3>4, <3>5, <3>6 DEF TypeOK
  <2>4. ChunksAreTruth
    <3>1. app.held \in Stores /\ Held(app) = DOMAIN app.held
      BY <2>2, AppFacts
    <3>2. \A c \in Held(app) : app.held[c].edits = 1..app.held[c].version
      BY <3>1, StoreFacts
    <3>3. \A c \in Held(app) : app.held[c].version <= ver[c]
      BY <2>1, <3>1 DEF AllFresh, Behind
    <3>4. \A c \in DOMAIN disk : disk[c].edits = 1..disk[c].version
      BY <2>2, StoreFacts
    <3> QED
      BY <3>2, <3>3, <3>4 DEF ChunksAreTruth
  <2> QED
    BY <2>3, <2>4 DEF StoreOK
<1> QED
  BY <1>1, ViewInvariance, PTL

(* An entity whose chunk, neighbour or light has changed since it was built is  *)
(* marked, or waits in the queue of meshes, however many changes came in one    *)
(* frame and whatever the frame's budget left over (chunk_render.rs).           *)
THEOREM MeshIsCurrent == Spec => []MeshCurrent
<1>1. ViewInv => MeshCurrent
  BY DEF ViewInv
<1> QED
  BY <1>1, ViewInvariance, PTL

(* With nothing under way the client holds every subscribed chunk of its window *)
(* as the server has it, those behind the resync gate excepted: what a window   *)
(* said the client knew it did know, or it had the chunk sent again             *)
(* (net/plugin.rs, authority_plugin.rs).                                        *)
THEOREM SubscribedHolds == Spec => []SubscribedIsCurrent
<1>1. ViewInv => SubscribedIsCurrent
  <2> SUFFICES ASSUME ViewInv, Quiet, NEW c \in (subs \cap Window(app.center, Radius)) \ app.gate
               PROVE  VersionIn(app, c) = ver[c]
    BY DEF SubscribedIsCurrent
  <2>1. /\ app \in Apps /\ Rests(app) /\ subs \subseteq Chunks
        /\ \A d \in subs \ owed : Provided(ver, Due, Orders, 0, d)
    BY DEF ViewInv, ViewTypes, Believed
  <2>2. up = << >> /\ down = << >> /\ owed = {} /\ app.center # NoCenter
    BY <2>1 DEF Quiet, Rests
  <2>3. Due = app
    <3>1. Due = Ingested(Polled(app, << >>))
      BY <2>2 DEF Due
    <3> QED
      BY <2>1, <3>1, DueAtRest DEF Rests
  <2>4. Orders = << >>
    <3>1. Orders = << >> \o << >>
      BY <2>1, <2>2, <2>3 DEF Orders, Rests
    <3> QED
      BY <3>1
  <2>5. Provided(ver, app, << >>, 0, c)
    BY <2>1, <2>2, <2>3, <2>4
  <2>6. Settled(ver, app, c)
    <3>1. ~ \E j \in 0 + 1..Len(<< >>) : TRUE
      OBVIOUS
    <3> QED
      BY <2>5, <3>1 DEF Provided
  <2> QED
    BY <2>2, <2>6 DEF Settled, VersionIn
<1> QED
  BY <1>1, ViewInvariance, PTL
================================================================================
