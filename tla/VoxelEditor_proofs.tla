------------------------- MODULE VoxelEditor_proofs -------------------------
(***************************************************************************)
(* Proofs about VoxelEditor: what the geometry of cells and slots returns, *)
(* what a raster is, and that every command keeps a well formed world.     *)
(***************************************************************************)
EXTENDS EditorInvariant, FiniteSetTheorems, WellFoundedInduction, TLAPS

----------------------------------------------------------------------------
(* Finite sets of numbers.                                                  *)

(* Every natural number is in a set that goes on from zero. *)
LEMMA Reached ==
  ASSUME NEW T, 0 \in T, \A k \in Nat : k \in T => k + 1 \in T
  PROVE  \A k \in Nat : k \in T
<1> SUFFICES ASSUME NEW k \in Nat, k \notin T PROVE FALSE
  OBVIOUS
<1> DEFINE R == OpToRel(<, Nat)
<1> DEFINE W == {n \in Nat : n \notin T}
<1>1. IsWellFoundedOn(R, Nat)
  BY NatLessThanWellFounded
<1>2. W \subseteq Nat /\ W # {}
  OBVIOUS
<1>3. PICK n \in W : \A m \in W : ~(<<m, n>> \in R)
  <2> HIDE DEF R, W
  <2> QED
    BY <1>1, <1>2, WFMin
<1>4. \A m \in Nat : m < n => m \in T
  <2> SUFFICES ASSUME NEW m \in Nat, m < n, m \notin T PROVE FALSE
    OBVIOUS
  <2>1. <<m, n>> \in R
    BY DEF OpToRel
  <2> QED
    BY <1>3, <2>1
<1>5. n \in Nat /\ n # 0
  OBVIOUS
<1>6. n - 1 \in Nat /\ n - 1 < n
  BY <1>5
<1>7. n - 1 \in T
  BY <1>4, <1>6
<1>8. n - 1 + 1 \in T
  BY <1>6, <1>7
<1> QED
  BY <1>5, <1>8

(* A finite set of numbers has a least and a greatest member. *)
Bounded(Q) == \E l, h \in Q : \A x \in Q : l <= x /\ x <= h
LEMMA Extremes ==
  ASSUME NEW S \in SUBSET Int, IsFiniteSet(S), S # {}
  PROVE  Bounded(S)
<1> DEFINE Of(n) == \A Q \in SUBSET Int : IsFiniteSet(Q) /\ Cardinality(Q) = n /\ Q # {} => Bounded(Q)
<1> DEFINE T == {n \in Nat : Of(n)}
<1>1. Of(0)
  BY FS_EmptySet
<1>2. ASSUME NEW n \in Nat, Of(n) PROVE Of(n + 1)
  <2> SUFFICES ASSUME NEW Q \in SUBSET Int, IsFiniteSet(Q), Cardinality(Q) = n + 1, Q # {} PROVE Bounded(Q)
    OBVIOUS
  <2>1. PICK x \in Q : TRUE
    OBVIOUS
  <2> DEFINE P == Q \ {x}
  <2>2. IsFiniteSet(P) /\ Cardinality(P) = n /\ P \in SUBSET Int
    <3>1. IsFiniteSet(P) /\ Cardinality(P) = Cardinality(Q) - 1
      BY FS_RemoveElement
    <3>2. n + 1 - 1 = n
      OBVIOUS
    <3> QED
      BY <3>1, <3>2
  <2>3. \A y \in Q : y = x \/ y \in P
    OBVIOUS
  <2>4. CASE P = {}
    BY <2>3, <2>4 DEF Bounded
  <2>5. CASE P # {}
    <3>1. Bounded(P)
      BY <1>2, <2>2, <2>5
    <3>2. PICK l, h \in P : \A y \in P : l <= y /\ y <= h
      BY <3>1 DEF Bounded
    <3> DEFINE low == IF x < l THEN x ELSE l
    <3> DEFINE high == IF h < x THEN x ELSE h
    <3>3. x \in Int /\ l \in Int /\ h \in Int /\ P \subseteq Q /\ \A y \in P : y \in Int
      BY <2>2
    <3>4. low \in Q /\ high \in Q /\ low <= x /\ x <= high /\ low <= l /\ h <= high
      BY <3>3
    <3>5. low \in Int /\ high \in Int
      BY <3>3
    <3> HIDE DEF low, high, P
    <3>6. \A y \in P : low <= y /\ y <= high
      BY <3>2, <3>3, <3>4, <3>5
    <3>7. \A y \in Q : low <= y /\ y <= high
      BY <2>3, <3>4, <3>6
    <3> QED
      BY <3>4, <3>7 DEF Bounded
  <2> QED
    BY <2>4, <2>5
<1> HIDE DEF Of
<1>3. \A k \in Nat : k \in T
  <2>1. 0 \in T /\ \A k \in Nat : k \in T => k + 1 \in T
    BY <1>1, <1>2
  <2> HIDE DEF T
  <2> QED
    BY <2>1, Reached
<1>4. Cardinality(S) \in Nat
  BY FS_CardinalityType
<1>5. Of(Cardinality(S))
  BY <1>3, <1>4
<1> QED
  BY <1>5 DEF Of

(* The values of a function on a finite set are finitely many. *)
LEMMA ImageFinite ==
  ASSUME NEW S, IsFiniteSet(S), NEW f
  PROVE  IsFiniteSet({f[x] : x \in S})
<1> DEFINE T == {f[x] : x \in S}
<1> DEFINE g == [x \in S |-> f[x]]
<1>1. g \in Surjection(S, T)
  BY DEF Surjection
<1> QED
  BY <1>1, FS_Surjection

(* The box around some cells. *)
LEMMA BoxFacts ==
  ASSUME NEW S \in SUBSET Vectors, IsFiniteSet(S), S # {}
  PROVE  /\ Low(S) \in Vectors /\ High(S) \in Vectors
         /\ \A c \in S, a \in Axis : Low(S)[a] <= c[a] /\ c[a] <= High(S)[a]
<1>1. ASSUME NEW i \in Axis
      PROVE  /\ \E v \in {c[i] : c \in S} : \A c \in S : v <= c[i]
             /\ \E v \in {c[i] : c \in S} : \A c \in S : v >= c[i]
             /\ {c[i] : c \in S} \subseteq Int
  <2> DEFINE Q == {c[i] : c \in S}
  <2>1. IsFiniteSet(Q)
    <3> DEFINE f == [c \in S |-> c[i]]
    <3>1. DOMAIN f = S /\ Q = {f[c] : c \in S}
      OBVIOUS
    <3> HIDE DEF f, Q
    <3> QED
      BY <3>1, ImageFinite
  <2>2. Q \in SUBSET Int /\ Q # {}
    BY DEF Vectors
  <2> HIDE DEF Q
  <2>3. PICK l, h \in Q : \A x \in Q : l <= x /\ x <= h
    BY <2>1, <2>2, Extremes DEF Bounded
  <2>4. \A c \in S : c[i] \in Q
    BY DEF Q
  <2>5. \A c \in S : l <= c[i] /\ c[i] <= h
    BY <2>3, <2>4
  <2>6. \A c \in S : h >= c[i]
    BY <2>2, <2>4, <2>5
  <2> QED
    BY <2>2, <2>5, <2>6 DEF Q
<1>2. ASSUME NEW i \in Axis
      PROVE  /\ Low(S)[i] \in Int /\ High(S)[i] \in Int
             /\ \A c \in S : Low(S)[i] <= c[i] /\ High(S)[i] >= c[i]
  <2> DEFINE Q == {c[i] : c \in S}
  <2> DEFINE l == CHOOSE v \in Q : \A c \in S : v <= c[i]
  <2> DEFINE h == CHOOSE v \in Q : \A c \in S : v >= c[i]
  <2>1. Low(S)[i] = l /\ High(S)[i] = h
    BY DEF Low, High
  <2>2. l \in Q /\ (\A c \in S : l <= c[i])
    BY <1>1
  <2>3. h \in Q /\ (\A c \in S : h >= c[i])
    BY <1>1
  <2>4. Q \subseteq Int
    BY <1>1
  <2> HIDE DEF Q, l, h
  <2> QED
    BY <2>1, <2>2, <2>3, <2>4
<1>3. Low(S) = [i \in Axis |-> Low(S)[i]] /\ High(S) = [i \in Axis |-> High(S)[i]]
  BY DEF Low, High
<1>4. Low(S) \in Vectors /\ High(S) \in Vectors
  BY <1>2, <1>3 DEF Vectors
<1>5. ASSUME NEW c \in S, NEW a \in Axis PROVE Low(S)[a] <= c[a] /\ c[a] <= High(S)[a]
  BY <1>2 DEF Vectors
<1> QED
  BY <1>4, <1>5

(* The next id is above every one that is given. *)
LEMMA NextFacts ==
  ASSUME NEW S \in SUBSET Nat, IsFiniteSet(S)
  PROVE  /\ NextAfter(S) \in Nat /\ NextAfter(S) # 0 /\ NextAfter(S) \notin S
         /\ NextAfter(S \cup {NextAfter(S)}) = NextAfter(S) + 1
<1> DEFINE h == Highest(S)
<1>1. h \in Nat /\ \A j \in S : j <= h
  <2>1. CASE S = {}
    BY <2>1 DEF Highest
  <2>2. CASE S # {}
    <3>1. \E i \in S : \A j \in S : j <= i
      BY <2>2, Extremes DEF Bounded
    <3>2. h = CHOOSE i \in S : \A j \in S : j <= i
      BY <2>2 DEF Highest
    <3> HIDE DEF h
    <3> QED
      BY <3>1, <3>2
  <2> QED
    BY <2>1, <2>2
<1>2. NextAfter(S) = h + 1
  BY DEF NextAfter
<1> HIDE DEF h
<1> DEFINE n == h + 1
<1> DEFINE M == S \cup {n}
<1>3. n \in Nat /\ n \notin S /\ n # 0
  BY <1>1
<1>4. Highest(M) = n
  <2>1. n \in M /\ M # {} /\ \A j \in M : j <= n
    BY <1>1
  <2>2. \A i \in M : (\A j \in M : j <= i) => i = n
    BY <1>1
  <2>3. Highest(M) = CHOOSE i \in M : \A j \in M : j <= i
    BY <2>1 DEF Highest
  <2> HIDE DEF M, n
  <2>4. PICK i \in M : i = Highest(M) /\ \A j \in M : j <= i
    BY <2>1, <2>3
  <2> QED
    BY <2>2, <2>4
<1>5. NextAfter(M) = n + 1
  BY <1>4 DEF NextAfter
<1> QED
  BY <1>2, <1>3, <1>5

----------------------------------------------------------------------------
(* Cells, slots and points.                                                 *)

(* A quotient and what is left. *)
LEMMA Euclid ==
  ASSUME NEW x \in Int, NEW e \in Nat \ {0}, NEW q \in Int, q = x \div e, NEW r, r = x % e
  PROVE  e * q + r = x /\ r \in 0..e - 1
<1>1. r = x - e * q /\ r \in 0..e - 1
  OBVIOUS
<1> DEFINE m == e * q
<1>2. m \in Int
  OBVIOUS
<1>3. r = x - m
  BY <1>1
<1> HIDE DEF m
<1>4. m + r = x
  BY ONLY <1>2, <1>3, x \in Int
<1> QED
  BY <1>1, <1>4 DEF m

(* Coordinates add up. *)
LEMMA VectorFacts ==
  ASSUME NEW a \in Vectors, NEW b \in Vectors
  PROVE  Add(a, b) \in Vectors /\ Sub(a, b) \in Vectors /\ Add(Sub(a, b), b) = a /\ Point(a, b) \in Vectors
<1>1. Edge \in Nat
  BY EditorAssumption
<1>2. Add(a, b) \in Vectors /\ Sub(a, b) \in Vectors
  BY DEF Add, Sub, Vectors, Axis
<1>3. Add(Sub(a, b), b) = a
  BY DEF Add, Sub, Vectors, Axis
<1>4. Point(a, b) \in Vectors
  BY <1>1 DEF Point, Vectors, Axis
<1> QED
  BY <1>2, <1>3, <1>4

(* Three numbers are a coordinate. *)
LEMMA Triples == \A x, y, z \in Int : <<x, y, z>> \in Vectors
BY DEF Vectors, Axis

(* The origin is a coordinate and a slot. *)
LEMMA ZeroIs == Zero \in Vectors /\ Zero \in Micros
<1>1. 0 \in 0..Edge - 1
  BY EditorAssumption
<1> QED
  BY <1>1, Triples DEF Zero, Micros

(* A slot has its three coordinates within a cell. *)
LEMMA MicroFacts ==
  ASSUME NEW u \in Micros
  PROVE  /\ u \in Vectors /\ \A i \in Axis : u[i] \in 0..Edge - 1
         /\ u[1] \in 0..Edge - 1 /\ u[2] \in 0..Edge - 1 /\ u[3] \in 0..Edge - 1
<1>1. Edge \in Nat \ {0}
  BY EditorAssumption
<1> QED
  BY <1>1 DEF Vectors, Axis, Micros

(* A point of the micro grid is in one slot of one cell. *)
LEMMA PointFacts ==
  ASSUME NEW p \in Vectors
  PROVE  CellOf(p) \in Vectors /\ MicroOf(p) \in Micros /\ Point(CellOf(p), MicroOf(p)) = p
<1> DEFINE c == CellOf(p)
<1> DEFINE u == MicroOf(p)
<1>0. Edge \in Nat \ {0}
  BY EditorAssumption
<1>1. c \in Vectors /\ \A i \in Axis : c[i] = p[i] \div Edge /\ p[i] \in Int
  BY <1>0 DEF CellOf, Vectors, Axis
<1>2. u \in Micros /\ \A i \in Axis : u[i] = p[i] % Edge
  BY <1>0 DEF MicroOf, Micros, Vectors, Axis
<1> HIDE DEF c, u
<1>3. ASSUME NEW i \in Axis PROVE Edge * c[i] + u[i] = p[i]
  <2> DEFINE x == p[i]
  <2> DEFINE q == c[i]
  <2> DEFINE r == u[i]
  <2>1. x \in Int /\ q \in Int /\ q = x \div Edge /\ r = x % Edge
    BY <1>1, <1>2 DEF Vectors
  <2> HIDE DEF x, q, r
  <2>2. Edge * q + r = x
    BY <1>0, <2>1, Euclid
  <2> QED
    BY <2>2 DEF x, q, r
<1>4. Point(c, u) = p
  BY <1>3 DEF Point, Vectors
<1> QED
  BY <1>1, <1>2, <1>4 DEF c, u

(* A quarter turn keeps slots and coordinates. *)
LEMMA TurnFacts ==
  ASSUME NEW turn \in 0..3
  PROVE  /\ \A u \in Micros : TurnMicro(u, turn) \in Micros
         /\ \A u \in Vectors : TurnMicro(u, turn) \in Vectors
         /\ \A o, b \in Vectors : TurnOffset(o, b, turn) \in Vectors
<1>0. Edge \in Nat \ {0}
  BY EditorAssumption
<1>1. ASSUME NEW u \in Micros PROVE TurnMicro(u, turn) \in Micros
  <2>1. u[1] \in 0..Edge - 1 /\ u[2] \in 0..Edge - 1 /\ u[3] \in 0..Edge - 1
    BY MicroFacts
  <2>2. /\ <<Edge - 1 - u[3], u[2], u[1]>> \in Micros /\ <<Edge - 1 - u[1], u[2], Edge - 1 - u[3]>> \in Micros
        /\ <<u[3], u[2], Edge - 1 - u[1]>> \in Micros
    BY <1>0, <2>1 DEF Micros
  <2> QED
    BY <2>2 DEF TurnMicro
<1>2. ASSUME NEW u \in Vectors PROVE TurnMicro(u, turn) \in Vectors
  <2>1. u[1] \in Int /\ u[2] \in Int /\ u[3] \in Int
    BY DEF Vectors, Axis
  <2>2. /\ <<Edge - 1 - u[3], u[2], u[1]>> \in Vectors /\ <<Edge - 1 - u[1], u[2], Edge - 1 - u[3]>> \in Vectors
        /\ <<u[3], u[2], Edge - 1 - u[1]>> \in Vectors
    BY <1>0, <2>1, Triples
  <2> QED
    BY <2>2 DEF TurnMicro
<1>3. ASSUME NEW o \in Vectors, NEW b \in Vectors PROVE TurnOffset(o, b, turn) \in Vectors
  <2>1. o[1] \in Int /\ o[2] \in Int /\ o[3] \in Int /\ b[1] \in Int /\ b[3] \in Int
    BY DEF Vectors, Axis
  <2>2. /\ <<b[3] - 1 - o[3], o[2], o[1]>> \in Vectors /\ <<b[1] - 1 - o[1], o[2], b[3] - 1 - o[3]>> \in Vectors
        /\ <<o[3], o[2], b[1] - 1 - o[1]>> \in Vectors
    BY <2>1, Triples
  <2> QED
    BY <2>2 DEF TurnOffset
<1> QED
  BY <1>1, <1>2, <1>3

(* A cell has finitely many slots. *)
LEMMA MicrosFinite == IsFiniteSet(Micros)
<1> DEFINE A == 0..Edge - 1
<1> DEFINE P == A \X A
<1> DEFINE Q == P \X A
<1> DEFINE f == [q \in Q |-> <<q[1][1], q[1][2], q[2]>>]
<1>1. IsFiniteSet(A)
  BY FS_Interval, EditorAssumption
<1> HIDE DEF A
<1>2. IsFiniteSet(P)
  BY <1>1, FS_Product
<1>3. IsFiniteSet(Q)
  <2> HIDE DEF P
  <2> QED
    BY <1>1, <1>2, FS_Product
<1>4. IsFiniteSet({f[q] : q \in Q})
  <2> HIDE DEF Q, f
  <2> QED
    BY <1>3, ImageFinite
<1>5. Micros \subseteq {f[q] : q \in Q}
  <2> SUFFICES ASSUME NEW u \in A \X A \X A PROVE u \in {f[q] : q \in Q}
    BY DEF Micros, A
  <2>1. u = <<u[1], u[2], u[3]>> /\ u[1] \in A /\ u[2] \in A /\ u[3] \in A
    OBVIOUS
  <2> DEFINE q == <<<<u[1], u[2]>>, u[3]>>
  <2>2. q \in Q /\ q[1][1] = u[1] /\ q[1][2] = u[2] /\ q[2] = u[3]
    BY <2>1
  <2>3. f[q] = u
    BY <2>1, <2>2
  <2> QED
    BY <2>2, <2>3
<1> QED
  BY <1>4, <1>5, FS_Subset

----------------------------------------------------------------------------
(* Rasters: the points a prefab fills, with their materials.                *)

RasterOK(raster) ==
    /\ DOMAIN raster \subseteq Vectors /\ IsFiniteSet(DOMAIN raster)
    /\ raster \in [DOMAIN raster -> Materials]

(* A slot's turned and shifted landing is a point. *)
LEMMA LandingFacts ==
  ASSUME NEW prefab, prefab.bounds \in Vectors, NEW origin \in Vectors, NEW turn \in 0..3,
         NEW shift \in Vectors, NEW o \in Vectors, NEW u \in Micros
  PROVE  Landing(prefab, origin, turn, shift, o, u) \in Vectors
<1> DEFINE b == prefab.bounds
<1> DEFINE t == TurnOffset(o, b, turn)
<1> DEFINE m == TurnMicro(u, turn)
<1>1. t \in Vectors
  BY TurnFacts
<1>2. m \in Vectors
  BY TurnFacts, MicroFacts
<1>3. Landing(prefab, origin, turn, shift, o, u) = Add(Point(Add(origin, t), m), shift)
  BY DEF Landing
<1> HIDE DEF t, m
<1>4. Add(origin, t) \in Vectors
  BY <1>1, VectorFacts
<1>5. Point(Add(origin, t), m) \in Vectors
  BY <1>2, <1>4, VectorFacts
<1> QED
  BY <1>3, <1>5, VectorFacts

(* A prefab has finitely many slots, each of a cell of its box. *)
LEMMA SlotFacts ==
  ASSUME NEW prefab, PrefabOK(prefab)
  PROVE  /\ IsFiniteSet(Slots(prefab))
         /\ \A s \in Slots(prefab) : /\ s[1] \in DOMAIN prefab.cells /\ s[2] \in DOMAIN prefab.cells[s[1]]
                                     /\ s[1] \in Vectors /\ s[2] \in Micros
                                     /\ prefab.cells[s[1]][s[2]] \in Materials
<1> DEFINE D == DOMAIN prefab.cells
<1>1. D \subseteq Vectors /\ IsFiniteSet(D) /\ \A o \in D : Grid(prefab.cells[o])
  BY DEF PrefabOK
<1>2. IsFiniteSet(D \X Micros)
  BY <1>1, MicrosFinite, FS_Product
<1>3. ASSUME NEW s \in Slots(prefab)
      PROVE  /\ s[1] \in D /\ s[2] \in DOMAIN prefab.cells[s[1]] /\ s = <<s[1], s[2]>>
  BY DEF Slots
<1>4. ASSUME NEW o \in D, NEW u \in DOMAIN prefab.cells[o]
      PROVE  o \in Vectors /\ u \in Micros /\ prefab.cells[o][u] \in Materials
  <2> DEFINE f == prefab.cells[o]
  <2>1. Grid(f) /\ u \in DOMAIN f
    BY <1>1
  <2> HIDE DEF f
  <2>2. u \in Micros /\ f[u] \in Materials
    BY <2>1 DEF Grid
  <2> QED
    BY <1>1, <2>2 DEF f
<1>5. Slots(prefab) \subseteq D \X Micros
  BY <1>3, <1>4
<1>6. IsFiniteSet(Slots(prefab))
  BY <1>2, <1>5, FS_Subset
<1> QED
  BY <1>3, <1>4, <1>6

(* What a prefab turns into, wherever it is put. *)
LEMMA RasterizeFacts ==
  ASSUME NEW prefab, PrefabOK(prefab), NEW origin \in Vectors, NEW turn \in 0..3, NEW shift \in Vectors
  PROVE  RasterOK(Rasterize(prefab, origin, turn, shift))
<1> DEFINE S == Slots(prefab)
<1> DEFINE lands(s) == Landing(prefab, origin, turn, shift, s[1], s[2])
<1> DEFINE f == [s \in S |-> lands(s)]
<1> DEFINE D == {f[s] : s \in S}
<1> DEFINE raster == Rasterize(prefab, origin, turn, shift)
<1>1. IsFiniteSet(S)
  BY SlotFacts
<1>2. \A s \in S : s[1] \in Vectors /\ s[2] \in Micros /\ prefab.cells[s[1]][s[2]] \in Materials
  BY SlotFacts
<1>3. \A s \in S : f[s] = lands(s) /\ f[s] \in Vectors
  BY <1>2, LandingFacts DEF PrefabOK
<1>4. IsFiniteSet(D)
  <2> HIDE DEF f, S
  <2> QED
    BY <1>1, ImageFinite
<1>5. D \subseteq Vectors
  BY <1>3
<1>6. D = {lands(s) : s \in S}
  BY <1>3
<1>7. DOMAIN raster = D /\ raster = [p \in D |-> raster[p]]
  BY <1>6 DEF Rasterize
<1>8. ASSUME NEW p \in D PROVE raster[p] \in Materials
  <2> DEFINE s == CHOOSE t \in S : lands(t) = p
  <2>1. \E t \in S : lands(t) = p
    BY <1>6
  <2>2. s \in S
    BY <2>1
  <2>3. raster[p] = prefab.cells[s[1]][s[2]]
    BY <1>6 DEF Rasterize
  <2> HIDE DEF s
  <2> QED
    BY <1>2, <2>2, <2>3
<1> HIDE DEF D, raster
<1>9. RasterOK(raster)
  BY <1>4, <1>5, <1>7, <1>8 DEF RasterOK
<1> QED
  BY <1>9 DEF raster

(* Points of the micro grid are equal only when cell and slot are. *)
LEMMA PointsApart ==
  ASSUME NEW c \in Vectors, NEW u \in Micros, NEW d \in Vectors, NEW v \in Micros, Point(c, u) = Point(d, v)
  PROVE  c = d /\ u = v
<1>0. Edge \in Nat \ {0}
  BY EditorAssumption
<1>1. ASSUME NEW i \in Axis PROVE c[i] = d[i] /\ u[i] = v[i]
  <2> DEFINE x == c[i]
  <2> DEFINE y == d[i]
  <2> DEFINE a == u[i]
  <2> DEFINE b == v[i]
  <2>1. x \in Int /\ y \in Int /\ a \in 0..Edge - 1 /\ b \in 0..Edge - 1
    BY MicroFacts DEF Vectors
  <2>2. Point(c, u)[i] = Edge * x + a /\ Point(d, v)[i] = Edge * y + b
    BY DEF Point
  <2> HIDE DEF x, y, a, b
  <2>3. Edge * x + a = Edge * y + b
    BY <2>2
  <2>4. ~(x < y)
    <3> SUFFICES ASSUME x < y PROVE FALSE
      OBVIOUS
    <3>1. Edge * y >= Edge * (x + 1) /\ Edge * (x + 1) = Edge * x + Edge
      BY <1>0, <2>1
    <3> QED
      BY <1>0, <2>1, <2>3, <3>1
  <2>5. ~(y < x)
    <3> SUFFICES ASSUME y < x PROVE FALSE
      OBVIOUS
    <3>1. Edge * x >= Edge * (y + 1) /\ Edge * (y + 1) = Edge * y + Edge
      BY <1>0, <2>1
    <3> QED
      BY <1>0, <2>1, <2>3, <3>1
  <2>6. x = y
    BY <2>1, <2>4, <2>5
  <2>7. a = b
    BY <1>0, <2>1, <2>3, <2>6
  <2> QED
    BY <2>6, <2>7 DEF x, y, a, b
<1>2. c = [i \in Axis |-> c[i]] /\ d = [i \in Axis |-> d[i]]
  BY DEF Vectors
<1>3. u = [i \in Axis |-> u[i]] /\ v = [i \in Axis |-> v[i]]
  BY MicroFacts DEF Vectors
<1> QED
  BY <1>1, <1>2, <1>3

(* A quarter turn takes no two slots, and no two cells, to the same one. *)
LEMMA TurnsApart ==
  ASSUME NEW turn \in 0..3
  PROVE  /\ \A u, v \in Vectors : TurnMicro(u, turn) = TurnMicro(v, turn) => u = v
         /\ \A o, p, b \in Vectors : TurnOffset(o, b, turn) = TurnOffset(p, b, turn) => o = p
<1>0. Edge \in Nat
  BY EditorAssumption
<1>1. \A u \in Vectors : u[1] \in Int /\ u[2] \in Int /\ u[3] \in Int
  BY DEF Vectors, Axis
<1>2. \A u, v \in Vectors : u[1] = v[1] /\ u[2] = v[2] /\ u[3] = v[3] => u = v
  BY DEF Vectors, Axis
<1>3. ASSUME NEW u \in Vectors, NEW v \in Vectors, TurnMicro(u, turn) = TurnMicro(v, turn) PROVE u = v
  <2>1. CASE turn = 0
    BY <1>3, <2>1 DEF TurnMicro
  <2>2. CASE turn = 1
    <3>1. <<Edge - 1 - u[3], u[2], u[1]>> = <<Edge - 1 - v[3], v[2], v[1]>>
      BY <1>3, <2>2 DEF TurnMicro
    <3>2. Edge - 1 - u[3] = Edge - 1 - v[3] /\ u[2] = v[2] /\ u[1] = v[1]
      BY <3>1
    <3>3. u[3] = v[3]
      BY <1>0, <1>1, <3>2
    <3> QED
      BY <1>2, <3>2, <3>3
  <2>3. CASE turn = 2
    <3>1. <<Edge - 1 - u[1], u[2], Edge - 1 - u[3]>> = <<Edge - 1 - v[1], v[2], Edge - 1 - v[3]>>
      BY <1>3, <2>3 DEF TurnMicro
    <3>2. Edge - 1 - u[1] = Edge - 1 - v[1] /\ u[2] = v[2] /\ Edge - 1 - u[3] = Edge - 1 - v[3]
      BY <3>1
    <3>3. u[1] = v[1] /\ u[3] = v[3]
      BY <1>0, <1>1, <3>2
    <3> QED
      BY <1>2, <3>2, <3>3
  <2>4. CASE turn = 3
    <3>1. <<u[3], u[2], Edge - 1 - u[1]>> = <<v[3], v[2], Edge - 1 - v[1]>>
      BY <1>3, <2>4 DEF TurnMicro
    <3>2. u[3] = v[3] /\ u[2] = v[2] /\ Edge - 1 - u[1] = Edge - 1 - v[1]
      BY <3>1
    <3>3. u[1] = v[1]
      BY <1>0, <1>1, <3>2
    <3> QED
      BY <1>2, <3>2, <3>3
  <2> QED
    BY <2>1, <2>2, <2>3, <2>4
<1>4. ASSUME NEW o \in Vectors, NEW p \in Vectors, NEW b \in Vectors,
             TurnOffset(o, b, turn) = TurnOffset(p, b, turn)
      PROVE  o = p
  <2>1. CASE turn = 0
    BY <1>4, <2>1 DEF TurnOffset
  <2>2. CASE turn = 1
    <3>1. <<b[3] - 1 - o[3], o[2], o[1]>> = <<b[3] - 1 - p[3], p[2], p[1]>>
      BY <1>4, <2>2 DEF TurnOffset
    <3>2. b[3] - 1 - o[3] = b[3] - 1 - p[3] /\ o[2] = p[2] /\ o[1] = p[1]
      BY <3>1
    <3>3. o[3] = p[3]
      BY <1>1, <3>2
    <3> QED
      BY <1>2, <3>2, <3>3
  <2>3. CASE turn = 2
    <3>1. <<b[1] - 1 - o[1], o[2], b[3] - 1 - o[3]>> = <<b[1] - 1 - p[1], p[2], b[3] - 1 - p[3]>>
      BY <1>4, <2>3 DEF TurnOffset
    <3>2. b[1] - 1 - o[1] = b[1] - 1 - p[1] /\ o[2] = p[2] /\ b[3] - 1 - o[3] = b[3] - 1 - p[3]
      BY <3>1
    <3>3. o[1] = p[1] /\ o[3] = p[3]
      BY <1>1, <3>2
    <3> QED
      BY <1>2, <3>2, <3>3
  <2>4. CASE turn = 3
    <3>1. <<o[3], o[2], b[1] - 1 - o[1]>> = <<p[3], p[2], b[1] - 1 - p[1]>>
      BY <1>4, <2>4 DEF TurnOffset
    <3>2. o[3] = p[3] /\ o[2] = p[2] /\ b[1] - 1 - o[1] = b[1] - 1 - p[1]
      BY <3>1
    <3>3. o[1] = p[1]
      BY <1>1, <3>2
    <3> QED
      BY <1>2, <3>2, <3>3
  <2> QED
    BY <2>1, <2>2, <2>3, <2>4
<1> QED
  BY <1>3, <1>4

(* A shift takes no two points to the same one. *)
LEMMA ShiftsApart ==
  ASSUME NEW a \in Vectors, NEW b \in Vectors, NEW s \in Vectors
  PROVE  /\ Add(a, s) = Add(b, s) => a = b
         /\ Add(s, a) = Add(s, b) => a = b
<1>1. ASSUME Add(a, s) = Add(b, s) \/ Add(s, a) = Add(s, b) PROVE a = b
  <2>1. \A i \in Axis : a[i] + s[i] = b[i] + s[i] \/ s[i] + a[i] = s[i] + b[i]
    BY <1>1 DEF Add
  <2>2. \A i \in Axis : a[i] = b[i]
    BY <2>1 DEF Vectors
  <2> QED
    BY <2>2 DEF Vectors
<1> QED
  BY <1>1

(* No two slots of a prefab land on the same point, however it is turned. *)
LEMMA LandsApart ==
  ASSUME NEW prefab, prefab.bounds \in Vectors, NEW origin \in Vectors, NEW turn \in 0..3,
         NEW shift \in Vectors, NEW o \in Vectors, NEW u \in Micros, NEW p \in Vectors, NEW v \in Micros,
         Landing(prefab, origin, turn, shift, o, u) = Landing(prefab, origin, turn, shift, p, v)
  PROVE  o = p /\ u = v
<1> DEFINE b == prefab.bounds
<1> DEFINE s == TurnOffset(o, b, turn)
<1> DEFINE t == TurnOffset(p, b, turn)
<1> DEFINE m == TurnMicro(u, turn)
<1> DEFINE n == TurnMicro(v, turn)
<1>1. u \in Vectors /\ v \in Vectors
  BY MicroFacts
<1>2. s \in Vectors /\ t \in Vectors /\ m \in Micros /\ n \in Micros
  BY TurnFacts
<1>3. m \in Vectors /\ n \in Vectors
  BY <1>1, TurnFacts
<1>4. Add(Point(Add(origin, s), m), shift) = Add(Point(Add(origin, t), n), shift)
  BY DEF Landing
<1>5. (s = t => o = p) /\ (m = n => u = v)
  BY <1>1, TurnsApart
<1> HIDE DEF s, t, m, n
<1>6. Add(origin, s) \in Vectors /\ Add(origin, t) \in Vectors
  BY <1>2, VectorFacts
<1>7. Point(Add(origin, s), m) \in Vectors /\ Point(Add(origin, t), n) \in Vectors
  BY <1>3, <1>6, VectorFacts
<1>8. Point(Add(origin, s), m) = Point(Add(origin, t), n)
  BY <1>4, <1>7, ShiftsApart
<1>9. Add(origin, s) = Add(origin, t) /\ m = n
  BY <1>2, <1>6, <1>8, PointsApart
<1>10. s = t
  BY <1>2, <1>9, ShiftsApart
<1> QED
  BY <1>5, <1>9, <1>10

(* A function that takes no two members to one has as many values as members. *)
LEMMA SameSize ==
  ASSUME NEW S, IsFiniteSet(S), NEW f, \A x, y \in S : f[x] = f[y] => x = y
  PROVE  IsFiniteSet({f[x] : x \in S}) /\ Cardinality({f[x] : x \in S}) = Cardinality(S)
<1> DEFINE T == {f[x] : x \in S}
<1> DEFINE g == [x \in S |-> f[x]]
<1>1. g \in Bijection(S, T)
  BY DEF Bijection, Injection, Surjection, IsInjective
<1>2. ExistsBijection(S, T)
  BY <1>1 DEF ExistsBijection
<1> HIDE DEF T
<1>3. IsFiniteSet(T) /\ Cardinality(T) = Cardinality(S)
  BY <1>2, FS_Bijection
<1> QED
  BY <1>3 DEF T

(* A raster has as many points as the prefab has slots. *)
Full(raster, prefab) == Cardinality(DOMAIN raster) = SizeOf(prefab)
LEMMA RasterizeFull ==
  ASSUME NEW prefab, PrefabOK(prefab), NEW origin \in Vectors, NEW turn \in 0..3, NEW shift \in Vectors
  PROVE  Full(Rasterize(prefab, origin, turn, shift), prefab)
<1> DEFINE S == Slots(prefab)
<1> DEFINE lands(s) == Landing(prefab, origin, turn, shift, s[1], s[2])
<1> DEFINE f == [s \in S |-> lands(s)]
<1> DEFINE D == {f[s] : s \in S}
<1>1. IsFiniteSet(S) /\ \A s \in S : s[1] \in Vectors /\ s[2] \in Micros /\ s = <<s[1], s[2]>>
  BY SlotFacts DEF Slots
<1>2. ASSUME NEW s \in S, NEW t \in S, f[s] = f[t] PROVE s = t
  <2>1. lands(s) = lands(t)
    BY <1>2
  <2>2. prefab.bounds \in Vectors /\ s[1] \in Vectors /\ s[2] \in Micros /\ t[1] \in Vectors /\ t[2] \in Micros
    BY <1>1 DEF PrefabOK
  <2>3. s[1] = t[1] /\ s[2] = t[2]
    BY <2>1, <2>2, LandsApart
  <2> QED
    BY <1>1, <2>3
<1>3. DOMAIN Rasterize(prefab, origin, turn, shift) = D
  <2>1. D = {lands(s) : s \in S}
    OBVIOUS
  <2> QED
    BY <2>1 DEF Rasterize
<1> HIDE DEF f, S
<1>4. Cardinality(D) = Cardinality(S)
  BY <1>1, <1>2, SameSize
<1>5. SizeOf(prefab) = Cardinality(S)
  BY DEF SizeOf, Slots, S
<1> QED
  BY <1>3, <1>4, <1>5 DEF Full

(* The cells a raster falls in. *)
LEMMA RasterCellFacts ==
  ASSUME NEW raster, RasterOK(raster)
  PROVE  /\ RasterCells(raster) \in SUBSET Vectors /\ IsFiniteSet(RasterCells(raster))
         /\ DOMAIN raster # {} => RasterCells(raster) # {}
<1> DEFINE D == DOMAIN raster
<1> DEFINE f == [p \in D |-> CellOf(p)]
<1>1. D \subseteq Vectors /\ IsFiniteSet(D)
  BY DEF RasterOK
<1>2. RasterCells(raster) = {f[p] : p \in D}
  BY DEF RasterCells
<1>3. \A p \in D : f[p] \in Vectors
  BY <1>1, PointFacts
<1> HIDE DEF f
<1>4. IsFiniteSet({f[p] : p \in D})
  BY <1>1, ImageFinite
<1>5. {f[p] : p \in D} \subseteq Vectors /\ (D # {} => {f[p] : p \in D} # {})
  BY <1>3
<1> QED
  BY <1>2, <1>4, <1>5

----------------------------------------------------------------------------
(* Cells and worlds.                                                        *)

\* A cell that may have lost its last slot.
Shell(cell) ==
    cell \in [refined : BOOLEAN, mat : {cell.mat}, ids : {cell.ids}] /\ Grid(cell.mat)

(* A new block and a hollow cell are well formed and of no prefab. *)
LEMMA BlockFacts ==
  /\ \A m \in Materials : CellOK(Block(m)) /\ Block(m).ids = {}
  /\ Shell(Hollow) /\ Hollow.ids = {}
<1>1. ASSUME NEW m \in Materials PROVE CellOK(Block(m)) /\ Block(m).ids = {}
  <2>1. Zero \in Micros
    BY ZeroIs
  <2>2. Grid([u \in Micros |-> m])
    BY DEF Grid
  <2> QED
    BY <2>1, <2>2 DEF CellOK, Block
<1>2. Grid(<<>>)
  BY DEF Grid
<1>3. Shell(Hollow) /\ Hollow.ids = {}
  BY <1>2 DEF Shell, Hollow
<1> QED
  BY <1>1, <1>3

(* Writing and clearing a slot keep a grid of materials. *)
LEMMA GridFacts ==
  ASSUME NEW f, Grid(f), NEW u \in Micros
  PROVE  /\ \A m \in Materials : Grid(With(f, u, m)) /\ DOMAIN With(f, u, m) # {}
         /\ Grid(Without(f, u)) /\ (Without(f, u) # <<>> => DOMAIN Without(f, u) # {})
<1>1. ASSUME NEW m \in Materials PROVE Grid(With(f, u, m)) /\ DOMAIN With(f, u, m) # {}
  BY DEF Grid, With
<1>2. Grid(Without(f, u))
  BY DEF Grid, Without
<1>3. DOMAIN Without(f, u) = {} => Without(f, u) = <<>>
  BY DEF Without
<1> QED
  BY <1>1, <1>2, <1>3

(* A refined cell with other contents is well formed, and of the same prefabs. *)
Refilled(cell, mat) == [Refine(cell) EXCEPT !.mat = mat]
LEMMA RefilledFacts ==
  ASSUME NEW cell, Shell(cell), NEW mat, Grid(mat), DOMAIN mat # {}
  PROVE  CellOK(Refilled(cell, mat)) /\ Refilled(cell, mat).ids = cell.ids
<1>1. cell \in [refined : BOOLEAN, mat : {cell.mat}, ids : {cell.ids}]
  BY DEF Shell
<1>2. Refine(cell) \in [refined : BOOLEAN, mat : {cell.mat}, ids : {cell.ids}] /\ Refine(cell).refined = TRUE
  BY <1>1 DEF Refine
<1>3. /\ Refilled(cell, mat) \in [refined : BOOLEAN, mat : {mat}, ids : {cell.ids}]
      /\ Refilled(cell, mat).refined = TRUE
  BY <1>2 DEF Refilled
<1> QED
  BY <1>3 DEF CellOK

(* A cell of the world, or the hollow one in its place. *)
LEMMA CellAtFacts ==
  ASSUME CellsOK(cells), NEW c
  PROVE  Shell(CellAt(c)) /\ \A i \in CellAt(c).ids : c \in DOMAIN cells /\ i \in cells[c].ids
BY BlockFacts DEF CellAt, CellsOK, CellOK, Shell

(* One world's cells are of no prefab that another's at the same place are not. *)
From(cs, old) == \A c \in DOMAIN cs : \A i \in cs[c].ids : c \in DOMAIN old /\ i \in old[c].ids

(* A cell written or removed leaves a world of well formed cells. *)
LEMMA WithFacts ==
  ASSUME NEW cs, CellsOK(cs), NEW c \in Vectors, NEW v, CellOK(v),
         \A i \in v.ids : c \in DOMAIN cs /\ i \in cs[c].ids
  PROVE  CellsOK(With(cs, c, v)) /\ From(With(cs, c, v), cs)
<1> DEFINE W == With(cs, c, v)
<1>1. DOMAIN W = DOMAIN cs \cup {c} /\ \A x \in DOMAIN W : W[x] = IF x = c THEN v ELSE cs[x]
  BY DEF With
<1>2. IsFiniteSet(DOMAIN W)
  BY <1>1, FS_AddElement DEF CellsOK
<1> HIDE DEF W
<1>3. CellsOK(W)
  BY <1>1, <1>2 DEF CellsOK
<1>4. From(W, cs)
  BY <1>1 DEF From
<1> QED
  BY <1>3, <1>4 DEF W

(* A world without one of its cells. *)
LEMMA WithoutFacts ==
  ASSUME NEW cs, CellsOK(cs), NEW c
  PROVE  CellsOK(Without(cs, c)) /\ From(Without(cs, c), cs)
<1> DEFINE W == Without(cs, c)
<1>1. DOMAIN W = DOMAIN cs \ {c} /\ \A x \in DOMAIN W : W[x] = cs[x]
  BY DEF Without
<1>2. IsFiniteSet(DOMAIN W)
  BY <1>1, FS_Subset DEF CellsOK
<1> HIDE DEF W
<1>3. CellsOK(W)
  BY <1>1, <1>2 DEF CellsOK
<1>4. From(W, cs)
  BY <1>1 DEF From
<1> QED
  BY <1>3, <1>4 DEF W

(* Cells that come from no new prefab are still all on record. *)
LEMMA FromNamed ==
  ASSUME NEW cs, NEW old, NEW is, From(cs, old), Named(old, is)
  PROVE  Named(cs, is)
BY DEF From, Named

(* Editing cells alone keeps the world. *)
LEMMA CellsEdited ==
  ASSUME WorldNow, CellsOK(cells'), From(cells', cells), OnlyCells, torn' = torn
  PROVE  WorldNow'
<1>1. instances' = instances /\ nextId' = nextId /\ placed' = placed /\ said' = 0
  BY DEF OnlyCells
<1>2. Named(cells, instances) => Named(cells', instances)
  BY FromNamed
<1> QED
  BY <1>1, <1>2 DEF WorldNow, WorldIs

(* A refused command keeps the world. *)
LEMMA Refused ==
  ASSUME WorldNow, NoChange, torn' = torn
  PROVE  WorldNow'
BY DEF WorldNow, WorldIs, NoChange, world, CellsOK, RecordsOK, Named

(* The showcase world. *)
LEMMA FreshFacts ==
  ASSUME NEW floor, floor = [c \in DOMAIN Floor |-> Block(Floor[c])]
  PROVE  WorldIs(floor, <<>>, 0, FALSE) /\ NextAfter(DOMAIN <<>>) = 1
<1>1. DOMAIN Floor \subseteq Vectors /\ IsFiniteSet(DOMAIN Floor) /\ \A c \in DOMAIN Floor : Floor[c] \in Materials
  BY EditorAssumption
<1>2. \A c \in DOMAIN floor : CellOK(floor[c]) /\ floor[c].ids = {}
  BY <1>1, BlockFacts
<1>3. DOMAIN floor = DOMAIN Floor
  OBVIOUS
<1>4. CellsOK(floor) /\ Named(floor, <<>>)
  BY <1>1, <1>2, <1>3 DEF CellsOK, Named
<1>5. DOMAIN <<>> = {}
  OBVIOUS
<1>6. RecordsOK(<<>>, 0)
  BY <1>5, FS_EmptySet DEF RecordsOK
<1>7. NextAfter({}) = 1
  BY DEF NextAfter, Highest
<1> QED
  BY <1>4, <1>5, <1>6, <1>7 DEF WorldIs

(* A cell that takes a raster's slots is well formed and of one more prefab. *)
LEMMA MergedFacts ==
  ASSUME NEW cell, Shell(cell), NEW raster, RasterOK(raster), NEW c \in RasterCells(raster), NEW id
  PROVE  CellOK(Merged(cell, c, raster, id)) /\ Merged(cell, c, raster, id).ids = cell.ids \cup {id}
<1> DEFINE mine == {p \in DOMAIN raster : CellOf(p) = c}
<1> DEFINE new == {MicroOf(p) : p \in mine}
<1> DEFINE mat == [u \in DOMAIN cell.mat \cup new |-> IF u \in new THEN raster[Point(c, u)] ELSE cell.mat[u]]
<1>1. Merged(cell, c, raster, id) = [refined |-> TRUE, mat |-> mat, ids |-> cell.ids \cup {id}]
  BY DEF Merged
<1>2. \A p \in mine : /\ p \in DOMAIN raster /\ MicroOf(p) \in Micros
                      /\ Point(c, MicroOf(p)) = p /\ raster[p] \in Materials
  BY PointFacts DEF RasterOK
<1>3. new # {}
  BY DEF RasterCells
<1>4. \A u \in new : u \in Micros /\ raster[Point(c, u)] \in Materials
  BY <1>2
<1> HIDE DEF new
<1>5. DOMAIN cell.mat \subseteq Micros /\ \A u \in DOMAIN cell.mat : cell.mat[u] \in Materials
  BY DEF Shell, Grid
<1>6. Grid(mat) /\ DOMAIN mat # {}
  BY <1>3, <1>4, <1>5 DEF Grid
<1> HIDE DEF mat
<1> QED
  BY <1>1, <1>6 DEF CellOK

(* A raster that is committed keeps the world: its cells are well formed, its *)
(* id is new, and its record's box covers every cell it wrote.                *)
LEMMA Commits ==
  ASSUME WorldNow, NEW raster, RasterOK(raster), NEW name, CommitRaster(name, raster), torn' = torn
  PROVE  WorldNow'
<1> DEFINE R == RasterCells(raster)
<1> DEFINE rec == Record(name, raster)
<1>1. CASE DOMAIN raster = {} \/ Conflicts(raster)
  <2>1. NoChange
    BY <1>1 DEF CommitRaster
  <2> QED
    BY <2>1, Refused
<1>2. CASE ~(DOMAIN raster = {} \/ Conflicts(raster))
  <2>1. /\ cells' = [c \in DOMAIN cells \cup R |->
                       IF c \in R THEN Merged(CellAt(c), c, raster, nextId) ELSE cells[c]]
        /\ instances' = [i \in DOMAIN instances \cup {nextId} |-> IF i = nextId THEN rec ELSE instances[i]]
        /\ nextId' = nextId + 1 /\ placed' = placed + 1 /\ said' = nextId
    BY <1>2 DEF CommitRaster
  <2>2. R \in SUBSET Vectors /\ IsFiniteSet(R) /\ R # {}
    BY <1>2, RasterCellFacts
  <2>3. \A c \in R, a \in Axis : rec.low[a] <= c[a] /\ c[a] <= rec.high[a]
    BY <2>2, BoxFacts DEF Record
  <2> HIDE DEF R, rec
  <2>4. CellsOK(cells) /\ RecordsOK(instances, placed) /\ torn \in BOOLEAN /\ (torn \/ Named(cells, instances))
    BY DEF WorldNow, WorldIs
  <2>5. DOMAIN instances \in SUBSET Nat /\ IsFiniteSet(DOMAIN instances) /\ nextId = NextAfter(DOMAIN instances)
    BY <2>4 DEF RecordsOK, WorldNow
  <2>6. nextId \in Nat /\ nextId # 0 /\ nextId \notin DOMAIN instances
    BY <2>5, NextFacts
  <2>7. NextAfter(DOMAIN instances \cup {nextId}) = nextId + 1
    BY <2>5, NextFacts
  <2>8. \A c \in R : /\ CellOK(Merged(CellAt(c), c, raster, nextId))
                     /\ Merged(CellAt(c), c, raster, nextId).ids = CellAt(c).ids \cup {nextId}
    BY <2>4, CellAtFacts, MergedFacts DEF R
  <2>9. DOMAIN cells' = DOMAIN cells \cup R
    BY <2>1
  <2>10. \A c \in R : CellOK(cells'[c]) /\ cells'[c].ids = CellAt(c).ids \cup {nextId}
    BY <2>1, <2>8
  <2>11. \A c \in DOMAIN cells' : c \in R \/ (c \in DOMAIN cells /\ cells'[c] = cells[c])
    BY <2>1
  <2>12. DOMAIN instances' = DOMAIN instances \cup {nextId} /\ instances'[nextId] = rec
    BY <2>1
  <2>13. \A i \in DOMAIN instances : instances'[i] = instances[i]
    BY <2>1, <2>6
  <2>14. CellsOK(cells')
    <3>1. IsFiniteSet(DOMAIN cells')
      BY <2>2, <2>4, <2>9, FS_Union DEF CellsOK
    <3>2. DOMAIN cells' \subseteq Vectors
      BY <2>2, <2>4, <2>9 DEF CellsOK
    <3>3. \A c \in DOMAIN cells' : CellOK(cells'[c])
      BY <2>4, <2>10, <2>11 DEF CellsOK
    <3> QED
      BY <3>1, <3>2, <3>3 DEF CellsOK
  <2>15. RecordsOK(instances', placed')
    <3>1. IsFiniteSet(DOMAIN instances') /\ Cardinality(DOMAIN instances') = Cardinality(DOMAIN instances) + 1
      BY <2>5, <2>6, <2>12, FS_AddElement
    <3>2. DOMAIN instances' \subseteq Nat
      BY <2>5, <2>6, <2>12
    <3> QED
      BY <2>1, <2>4, <3>1, <3>2 DEF RecordsOK
  <2>16. ASSUME Named(cells, instances) PROVE Named(cells', instances')
    <3> SUFFICES ASSUME NEW c \in DOMAIN cells', NEW i \in cells'[c].ids
                 PROVE  /\ i \in DOMAIN instances'
                        /\ \A a \in Axis : instances'[i].low[a] <= c[a] /\ c[a] <= instances'[i].high[a]
      BY DEF Named
    <3>1. CASE i = nextId /\ c \in R
      BY <2>3, <2>12, <3>1
    <3>2. CASE c \in DOMAIN cells /\ i \in cells[c].ids
      <4>1. /\ i \in DOMAIN instances
            /\ \A a \in Axis : instances[i].low[a] <= c[a] /\ c[a] <= instances[i].high[a]
        BY <2>16, <3>2 DEF Named
      <4> QED
        BY <2>12, <2>13, <4>1
    <3>3. (i = nextId /\ c \in R) \/ (c \in DOMAIN cells /\ i \in cells[c].ids)
      BY <2>4, <2>10, <2>11, CellAtFacts
    <3> QED
      BY <3>1, <3>2, <3>3
  <2>17. NextAfter(DOMAIN instances') = nextId'
    BY <2>1, <2>7, <2>12
  <2> QED
    BY <2>1, <2>4, <2>6, <2>14, <2>15, <2>16, <2>17 DEF WorldNow, WorldIs
<1> QED
  BY <1>1, <1>2

----------------------------------------------------------------------------
(* Placing prefabs.                                                         *)

(* The middle of a side is a point. *)
LEMMA FaceFacts ==
  ASSUME NEW prefab, prefab.bounds \in Vectors, NEW normal, NEW turn \in 0..3
  PROVE  FaceCenter(prefab, normal, turn) \in Vectors
<1> DEFINE top == [i \in Axis |-> prefab.bounds[i] * Edge - 1]
<1> DEFINE local == [i \in Axis |-> IF normal[i] = 1 THEN 0
                                    ELSE IF normal[i] = -1 THEN top[i] ELSE top[i] \div 2]
<1>0. Edge \in Nat
  BY EditorAssumption
<1>1. \A i \in Axis : top[i] \in Int
  BY <1>0 DEF Vectors
<1> HIDE DEF top
<1>2. local \in Vectors
  BY <1>1 DEF Vectors
<1>3. TurnMicro(local, turn) \in Vectors
  <2> HIDE DEF local
  <2> QED
    BY <1>2, TurnFacts
<1>4. FaceCenter(prefab, normal, turn) \in {TurnMicro(local, turn), local}
  BY DEF FaceCenter, top
<1> HIDE DEF local
<1> QED
  BY <1>2, <1>3, <1>4

(* What an accepted snap is going to write is a raster of all the prefab's slots. *)
LEMMA PreviewFacts ==
  ASSUME RegistryOK, NEW q, q.hit \in Vectors, q.normal \in Vectors, q.turn \in 0..3,
         q.anchor # None => q.anchor \in Vectors, Preview(q).why = "ok"
  PROVE  RasterOK(Preview(q).raster) /\ Full(Preview(q).raster, registry[q.prefab])
<1> DEFINE origin == Add(q.hit, q.normal)
<1> DEFINE prefab == registry[q.prefab]
<1> DEFINE face == FaceCenter(prefab, q.normal, q.turn)
<1> DEFINE shift == Sub(q.anchor, Point(origin, face))
<1> DEFINE free == Rasterize(prefab, origin, q.turn, Zero)
<1> DEFINE anchored == Rasterize(prefab, origin, q.turn, shift)
<1>1. q.prefab \in DOMAIN registry
  BY DEF Preview
<1>2. PrefabOK(prefab) /\ prefab.bounds \in Vectors
  BY <1>1 DEF RegistryOK, PrefabOK
<1>3. origin \in Vectors /\ Zero \in Vectors
  BY VectorFacts, ZeroIs
<1>4. \/ q.anchor # None /\ Preview(q).raster = anchored
      \/ q.anchor = None /\ Preview(q).raster = free
  BY <1>1 DEF Preview
<1> HIDE DEF prefab, origin
<1>5. RasterOK(free) /\ Full(free, prefab)
  BY <1>2, <1>3, RasterizeFacts, RasterizeFull
<1>6. ASSUME q.anchor # None PROVE RasterOK(anchored) /\ Full(anchored, prefab)
  <2>1. face \in Vectors
    BY <1>2, FaceFacts
  <2> HIDE DEF face
  <2>2. Point(origin, face) \in Vectors
    BY <1>3, <2>1, VectorFacts
  <2>3. shift \in Vectors
    BY <1>6, <2>2, VectorFacts
  <2> HIDE DEF shift
  <2> QED
    BY <1>2, <1>3, <2>3, RasterizeFacts, RasterizeFull
<1> HIDE DEF free, anchored
<1> QED
  BY <1>4, <1>5, <1>6 DEF prefab

(* A prefab put at a place keeps the world, whatever its name. *)
LEMMA PlaceAtKeeps ==
  ASSUME WorldNow, RegistryOK, NEW name, NEW origin \in Vectors, NEW turn \in 0..3,
         PlaceAt(name, origin, turn), torn' = torn
  PROVE  WorldNow'
<1> DEFINE raster == Rasterize(registry[name], origin, turn, Zero)
<1>1. CASE name \notin DOMAIN registry
  BY <1>1, Refused DEF PlaceAt
<1>2. CASE name \in DOMAIN registry
  <2>1. PrefabOK(registry[name]) /\ Zero \in Vectors
    BY <1>2, ZeroIs DEF RegistryOK
  <2>2. RasterOK(raster)
    BY <2>1, RasterizeFacts
  <2>3. CommitRaster(name, raster)
    BY <1>2 DEF PlaceAt
  <2> HIDE DEF raster
  <2> QED
    BY <2>2, <2>3, Commits
<1> QED
  BY <1>1, <1>2

(* A snap keeps the world, accepted or refused. *)
LEMMA SnapKeeps ==
  ASSUME WorldNow, RegistryOK, NEW q, q.hit \in Vectors, q.normal \in Vectors, q.turn \in 0..3,
         q.anchor # None => q.anchor \in Vectors, Snap(q), torn' = torn
  PROVE  WorldNow'
<1> DEFINE raster == Preview(q).raster
<1>1. CASE Preview(q).why = "ok"
  <2>1. RasterOK(raster)
    BY <1>1, PreviewFacts
  <2>2. CommitRaster(q.prefab, raster)
    BY <1>1 DEF Snap
  <2> HIDE DEF raster
  <2> QED
    BY <2>1, <2>2, Commits
<1>2. CASE Preview(q).why # "ok"
  BY <1>2, Refused DEF Snap
<1> QED
  BY <1>1, <1>2

(* A block set or broken keeps the world. *)
LEMMA BlockKeeps ==
  ASSUME WorldNow, NEW c \in Vectors, torn' = torn,
         ClearBlock(c) \/ (\E m \in Materials : SetBlock(c, m))
  PROVE  WorldNow'
<1>0. CellsOK(cells)
  BY DEF WorldNow, WorldIs
<1>1. CASE NoChange
  BY <1>1, Refused
<1>2. CASE cells' = Without(cells, c) /\ OnlyCells
  BY <1>0, <1>2, WithoutFacts, CellsEdited
<1>3. ASSUME NEW m \in Materials, cells' = With(cells, c, Block(m)), OnlyCells PROVE WorldNow'
  <2>1. CellOK(Block(m)) /\ Block(m).ids = {}
    BY BlockFacts
  <2>2. CellsOK(cells') /\ From(cells', cells)
    BY <1>0, <1>3, <2>1, WithFacts
  <2> QED
    BY <1>3, <2>2, CellsEdited
<1>4. ClearBlock(c) => NoChange \/ (cells' = Without(cells, c) /\ OnlyCells)
  BY DEF ClearBlock
<1>5. \A m \in Materials : SetBlock(c, m) => NoChange \/ (cells' = With(cells, c, Block(m)) /\ OnlyCells)
  BY DEF SetBlock
<1> QED
  BY <1>1, <1>2, <1>3, <1>4, <1>5

----------------------------------------------------------------------------
(* The steps.                                                               *)

(* What an edit that leaves all but the world aside keeps. *)
LEMMA AsideKeeps ==
  ASSUME EditorInv, Edit, Aside
  PROVE  SavedOK' /\ RegistryOK' /\ HandOK' /\ ShownIsWorld' /\ torn' = torn
<1>1. /\ disk' = disk /\ registry' = registry /\ selected' = selected /\ aim' = aim
      /\ joined' = joined /\ torn' = torn /\ synced' = FALSE
  BY DEF Aside, Edit
<1>2. SavedOK'
  BY <1>1 DEF EditorInv, SavedOK
<1>3. RegistryOK'
  BY <1>1 DEF EditorInv, RegistryOK
<1>4. HandOK'
  BY <1>1 DEF EditorInv, HandOK
<1>5. ShownIsWorld'
  BY <1>1 DEF ShownIsWorld
<1> QED
  BY <1>1, <1>2, <1>3, <1>4, <1>5

(* Commands and the editor's parameters name coordinates. *)
LEMMA Inputs ==
  /\ Cells \subseteq Vectors /\ Normals \subseteq Vectors /\ Pokes \subseteq Micros /\ Turns \subseteq 0..3
  /\ First \in Materials \cup DOMAIN Builtins
BY EditorAssumption

(* An edit of the world alone keeps the invariant when it keeps the world. *)
LEMMA Only ==
  ASSUME EditorInv, Edit, Aside, WorldNow'
  PROVE  EditorInv'
<1>1. SavedOK' /\ RegistryOK' /\ HandOK' /\ ShownIsWorld'
  BY AsideKeeps
<1> QED
  BY <1>1 DEF EditorInv

(* Setting a block. *)
LEMMA PlaceBlockKeeps == ASSUME EditorInv, PlaceBlock PROVE EditorInv'
<1>1. Edit /\ Aside /\ torn' = torn /\ WorldNow
  BY DEF PlaceBlock, Aside, EditorInv
<1>2. PICK c \in Cells : \E m \in Materials : SetBlock(c, m)
  BY DEF PlaceBlock
<1>3. c \in Vectors
  BY Inputs
<1>4. WorldNow'
  BY <1>1, <1>2, <1>3, BlockKeeps
<1> QED
  BY <1>1, <1>4, Only

(* Breaking a block. *)
LEMMA BreakBlockKeeps == ASSUME EditorInv, BreakBlock PROVE EditorInv'
<1>1. Edit /\ Aside /\ torn' = torn /\ WorldNow
  BY DEF BreakBlock, Aside, EditorInv
<1>2. PICK c \in Cells : ClearBlock(c)
  BY DEF BreakBlock
<1>3. c \in Vectors
  BY Inputs
<1>4. WorldNow'
  BY <1>1, <1>2, <1>3, BlockKeeps
<1> QED
  BY <1>1, <1>4, Only

(* Writing a slot. *)
LEMMA SetMicroKeeps == ASSUME EditorInv, SetMicro PROVE EditorInv'
<1>1. Edit /\ Aside /\ OnlyCells /\ torn' = torn /\ WorldNow /\ CellsOK(cells)
  BY DEF SetMicro, Aside, EditorInv, WorldNow, WorldIs
<1>2. PICK c \in Cells, u \in Pokes, m \in Materials :
        cells' = With(cells, c, [Refine(CellAt(c)) EXCEPT !.mat = With(@, u, m)])
  BY DEF SetMicro
<1> DEFINE mat == With(CellAt(c).mat, u, m)
<1> DEFINE v == Refilled(CellAt(c), mat)
<1>3. c \in Vectors /\ u \in Micros
  BY Inputs
<1>4. Shell(CellAt(c)) /\ \A i \in CellAt(c).ids : c \in DOMAIN cells /\ i \in cells[c].ids
  BY <1>1, CellAtFacts
<1>5. Refine(CellAt(c)).mat = CellAt(c).mat
  BY <1>4 DEF Refine, Shell
<1>6. cells' = With(cells, c, v)
  BY <1>2, <1>5 DEF Refilled
<1>7. Grid(CellAt(c).mat)
  BY <1>4 DEF Shell
<1>8. Grid(mat) /\ DOMAIN mat # {}
  BY <1>3, <1>7, GridFacts
<1> HIDE DEF mat
<1>9. CellOK(v) /\ v.ids = CellAt(c).ids
  BY <1>4, <1>8, RefilledFacts
<1> HIDE DEF v
<1>10. CellsOK(cells') /\ From(cells', cells)
  BY <1>1, <1>3, <1>4, <1>6, <1>9, WithFacts
<1>11. WorldNow'
  BY <1>1, <1>10, CellsEdited
<1> QED
  BY <1>1, <1>11, Only

(* Clearing a slot, the last one of a cell among them. *)
LEMMA ClearMicroKeeps == ASSUME EditorInv, ClearMicro PROVE EditorInv'
<1>1. Edit /\ Aside /\ OnlyCells /\ torn' = torn /\ WorldNow /\ CellsOK(cells)
  BY DEF ClearMicro, Aside, EditorInv, WorldNow, WorldIs
<1>2. PICK c \in Cells \cap DOMAIN cells, u \in Pokes :
        cells' = IF Without(cells[c].mat, u) = <<>> THEN Without(cells, c)
                 ELSE With(cells, c, [Refine(cells[c]) EXCEPT !.mat = Without(cells[c].mat, u)])
  BY DEF ClearMicro
<1> DEFINE left == Without(cells[c].mat, u)
<1> DEFINE v == Refilled(cells[c], left)
<1>3. c \in Vectors /\ u \in Micros
  BY Inputs
<1>4. Shell(cells[c]) /\ Grid(cells[c].mat)
  BY <1>1 DEF CellsOK, CellOK, Shell
<1>5. Grid(left) /\ (left # <<>> => DOMAIN left # {})
  BY <1>3, <1>4, GridFacts
<1>6. \/ cells' = Without(cells, c)
      \/ left # <<>> /\ cells' = With(cells, c, v)
  BY <1>2 DEF Refilled
<1>7. CASE cells' = Without(cells, c)
  <2>1. CellsOK(cells') /\ From(cells', cells)
    BY <1>1, <1>7, WithoutFacts
  <2>2. WorldNow'
    BY <1>1, <2>1, CellsEdited
  <2> QED
    BY <1>1, <2>2, Only
<1> HIDE DEF left
<1>8. CASE left # <<>> /\ cells' = With(cells, c, v)
  <2>1. CellOK(v) /\ v.ids = cells[c].ids
    BY <1>4, <1>5, <1>8, RefilledFacts
  <2> HIDE DEF v
  <2>2. \A i \in v.ids : c \in DOMAIN cells /\ i \in cells[c].ids
    BY <2>1
  <2>3. CellsOK(cells') /\ From(cells', cells)
    BY <1>1, <1>3, <1>8, <2>1, <2>2, WithFacts
  <2>4. WorldNow'
    BY <1>1, <2>3, CellsEdited
  <2> QED
    BY <1>1, <2>4, Only
<1> QED
  BY <1>6, <1>7, <1>8

(* A prefab placed by name. *)
LEMMA PlacePrefabKeeps == ASSUME EditorInv, PlacePrefab PROVE EditorInv'
<1>1. Edit /\ Aside /\ torn' = torn /\ WorldNow /\ RegistryOK
  BY DEF PlacePrefab, Aside, EditorInv
<1>2. PICK name \in DOMAIN registry, c \in Cells, turn \in Turns : PlaceAt(name, c, turn)
  BY DEF PlacePrefab
<1>3. c \in Vectors /\ turn \in 0..3
  BY Inputs
<1>4. WorldNow'
  BY <1>1, <1>2, <1>3, PlaceAtKeeps
<1> QED
  BY <1>1, <1>4, Only

(* A prefab snapped to a cell. *)
LEMMA SnapPrefabKeeps == ASSUME EditorInv, SnapPrefab PROVE EditorInv'
<1>1. Edit /\ Aside /\ torn' = torn /\ WorldNow /\ RegistryOK
  BY DEF SnapPrefab, Aside, EditorInv
<1>2. PICK name \in DOMAIN registry, c \in Cells, n \in Normals, turn \in Turns :
        Snap([prefab |-> name, hit |-> c, normal |-> n, turn |-> turn, anchor |-> None])
  BY DEF SnapPrefab
<1> DEFINE q == [prefab |-> name, hit |-> c, normal |-> n, turn |-> turn, anchor |-> None]
<1>3. q.hit \in Vectors /\ q.normal \in Vectors /\ q.turn \in 0..3 /\ q.anchor = None
  BY Inputs
<1>4. Snap(q)
  BY <1>2
<1> HIDE DEF q
<1>5. WorldNow'
  BY <1>1, <1>3, <1>4, SnapKeeps
<1> QED
  BY <1>1, <1>5, Only

(* A click that breaks. *)
LEMMA ClickBreakKeeps == ASSUME EditorInv, ClickBreak PROVE EditorInv'
<1>1. Edit /\ Aside /\ torn' = torn /\ WorldNow /\ ClearBlock(aim.cell) /\ aim.cell \in Vectors
  BY DEF ClickBreak, Aside, EditorInv, HandOK
<1>2. WorldNow'
  BY <1>1, BlockKeeps
<1> QED
  BY <1>1, <1>2, Only

(* A click that places a block, snaps a prefab, or falls back. *)
LEMMA ClickPlaceKeeps == ASSUME EditorInv, ClickPlace PROVE EditorInv'
<1> DEFINE beside == Add(aim.cell, aim.normal)
<1> DEFINE q == [prefab |-> selected, hit |-> aim.cell, normal |-> aim.normal, turn |-> 0, anchor |-> aim.near]
<1>1. Edit /\ Aside /\ torn' = torn /\ WorldNow /\ RegistryOK /\ aim # None
  BY DEF ClickPlace, Aside, EditorInv
<1>2. aim.cell \in Vectors /\ aim.normal \in Vectors /\ aim.near \in Vectors
  BY <1>1 DEF EditorInv, HandOK
<1>3. \/ selected \in Materials /\ SetBlock(beside, selected)
      \/ PlaceAt(selected, beside, 0)
      \/ Snap(q)
  BY DEF ClickPlace
<1>4. beside \in Vectors
  BY <1>2, VectorFacts
<1>5. q.hit \in Vectors /\ q.normal \in Vectors /\ q.turn \in 0..3 /\ q.anchor \in Vectors
  BY <1>2
<1> HIDE DEF beside, q
<1>6. WorldNow'
  <2>1. CASE selected \in Materials /\ SetBlock(beside, selected)
    BY <1>1, <1>4, <2>1, BlockKeeps
  <2>2. CASE PlaceAt(selected, beside, 0)
    <3>1. 0 \in 0..3
      OBVIOUS
    <3> QED
      BY <1>1, <1>4, <2>2, <3>1, PlaceAtKeeps
  <2>3. CASE Snap(q)
    BY <1>1, <1>5, <2>3, SnapKeeps
  <2> QED
    BY <1>3, <2>1, <2>2, <2>3
<1> QED
  BY <1>1, <1>6, Only

(* Capturing makes a prefab of the plain blocks in a box. *)
LEMMA CaptureKeeps == ASSUME EditorInv, Capture PROVE EditorInv'
<1>1. /\ Edit /\ NoChange /\ selected' = selected /\ aim' = aim /\ disk' = disk
      /\ joined' = joined /\ torn' = torn /\ synced' = FALSE
  BY DEF Capture, Edit
<1>2. WorldNow /\ CellsOK(cells)
  BY DEF EditorInv, WorldNow, WorldIs
<1>3. WorldNow'
  BY <1>1, <1>2, Refused
<1>4. SavedOK'
  BY <1>1 DEF EditorInv, SavedOK
<1>5. HandOK'
  BY <1>1 DEF EditorInv, HandOK
<1>6. ShownIsWorld'
  BY <1>1 DEF ShownIsWorld
<1> DEFINE Solid(low, high) == {c \in DOMAIN cells : ~cells[c].refined
                                 /\ \A i \in Axis : low[i] <= c[i] /\ c[i] <= high[i]}
<1> DEFINE Taken(low, high) ==
             [bounds |-> Add(Sub(high, low), <<1, 1, 1>>),
              cells |-> [o \in {Sub(c, low) : c \in Solid(low, high)} |-> cells[Add(o, low)].mat]]
<1>7. PICK name \in Captures, a \in Cells, b \in Cells :
        registry' = With(registry, name, Taken(Low({a, b}), High({a, b})))
  BY DEF Capture
<1>8. ASSUME NEW low \in Vectors, NEW high \in Vectors PROVE PrefabOK(Taken(low, high))
  <2> DEFINE S == Solid(low, high)
  <2> DEFINE f == [c \in S |-> Sub(c, low)]
  <2> DEFINE D == {f[c] : c \in S}
  <2> DEFINE g == [o \in D |-> cells[Add(o, low)].mat]
  <2>1. S \subseteq DOMAIN cells /\ DOMAIN cells \subseteq Vectors /\ IsFiniteSet(S)
    BY <1>2, FS_Subset DEF CellsOK
  <2>2. D = {Sub(c, low) : c \in S}
    OBVIOUS
  <2>3. \A c \in S : f[c] \in Vectors /\ Add(f[c], low) = c
    BY <2>1, VectorFacts
  <2>4. \A c \in S : Grid(cells[c].mat)
    BY <1>2, <2>1 DEF CellsOK, CellOK
  <2>5. <<1, 1, 1>> \in Vectors
    BY Triples
  <2>6. Sub(high, low) \in Vectors
    BY VectorFacts
  <2>7. Add(Sub(high, low), <<1, 1, 1>>) \in Vectors
    BY <2>5, <2>6, VectorFacts
  <2>8. Taken(low, high) = [bounds |-> Add(Sub(high, low), <<1, 1, 1>>), cells |-> g]
    BY <2>2
  <2> HIDE DEF S, f
  <2>9. D \subseteq Vectors /\ IsFiniteSet(D)
    BY <2>1, <2>3, ImageFinite
  <2>10. DOMAIN g = D /\ \A o \in D : Grid(g[o])
    BY <2>3, <2>4
  <2> HIDE DEF D, g, Taken
  <2> QED
    BY <2>7, <2>8, <2>9, <2>10 DEF PrefabOK
<1>9. PrefabOK(Taken(Low({a, b}), High({a, b})))
  <2>1. IsFiniteSet({a, b}) /\ {a, b} # {}
    <3>1. IsFiniteSet({a}) /\ {a, b} = {a} \cup {b}
      BY FS_Singleton
    <3> QED
      BY <3>1, FS_AddElement
  <2>2. {a, b} \in SUBSET Vectors
    BY Inputs
  <2>3. Low({a, b}) \in Vectors /\ High({a, b}) \in Vectors
    BY <2>1, <2>2, BoxFacts
  <2> HIDE DEF Taken
  <2> QED
    BY <1>8, <2>3
<1> HIDE DEF Taken
<1>10. RegistryOK'
  BY <1>7, <1>9 DEF EditorInv, RegistryOK, With
<1> QED
  BY <1>3, <1>4, <1>5, <1>6, <1>10 DEF EditorInv

(* Choosing from the hot bar. *)
LEMMA SelectKeeps == ASSUME EditorInv, Select PROVE EditorInv'
<1>1. /\ NoChange /\ registry' = registry /\ aim' = aim /\ disk' = disk /\ joined' = joined
      /\ torn' = torn /\ synced' = FALSE /\ selected' \in Materials \cup DOMAIN Builtins /\ WorldNow
  BY DEF Select, Edit, EditorInv
<1>2. WorldNow'
  BY <1>1, Refused
<1>3. SavedOK' /\ RegistryOK'
  BY <1>1 DEF EditorInv, SavedOK, RegistryOK
<1>4. HandOK' /\ ShownIsWorld'
  BY <1>1 DEF EditorInv, HandOK, ShownIsWorld
<1> QED
  BY <1>2, <1>3, <1>4 DEF EditorInv

(* A ray that hits a slot, or nothing in an empty world. *)
LEMMA AimKeeps == ASSUME EditorInv, Aim PROVE EditorInv'
<1>1. /\ NoChange /\ registry' = registry /\ selected' = selected /\ disk' = disk /\ joined' = joined
      /\ torn' = torn /\ synced' = FALSE /\ WorldNow
  BY DEF Aim, Edit, EditorInv
<1>2. WorldNow'
  BY <1>1, Refused
<1>3. SavedOK' /\ RegistryOK'
  BY <1>1 DEF EditorInv, SavedOK, RegistryOK
<1>4. aim' # None => aim'.cell \in Vectors /\ aim'.normal \in Vectors /\ aim'.near \in Vectors
  <2>1. CASE aim' = None
    BY <2>1
  <2>2. ASSUME NEW c \in DOMAIN cells, NEW u \in DOMAIN cells[c].mat, NEW n \in Normals,
               aim' = [cell |-> c, normal |-> n, near |-> Add(Point(c, u), n)]
        PROVE  aim'.cell \in Vectors /\ aim'.normal \in Vectors /\ aim'.near \in Vectors
    <3>1. c \in Vectors /\ n \in Vectors
      BY Inputs DEF EditorInv, WorldNow, WorldIs, CellsOK
    <3>2. u \in Vectors
      BY MicroFacts DEF EditorInv, WorldNow, WorldIs, CellsOK, CellOK, Grid
    <3>3. Point(c, u) \in Vectors
      BY <3>1, <3>2, VectorFacts
    <3>4. Add(Point(c, u), n) \in Vectors
      BY <3>1, <3>3, VectorFacts
    <3> QED
      BY <2>2, <3>1, <3>4
  <2> QED
    BY <2>1, <2>2 DEF Aim
<1>5. HandOK' /\ ShownIsWorld'
  BY <1>1, <1>4 DEF EditorInv, HandOK, ShownIsWorld
<1> QED
  BY <1>2, <1>3, <1>5 DEF EditorInv

(* Saving puts the world, torn or not, in the slot. *)
LEMMA SaveKeeps == ASSUME EditorInv, Save PROVE EditorInv'
<1>1. /\ NoChange /\ registry' = registry /\ selected' = selected /\ aim' = aim /\ joined' = joined
      /\ torn' = torn /\ synced' = FALSE /\ WorldNow /\ disk' = Snapshot
  BY DEF Save, Edit, EditorInv
<1>2. WorldNow'
  BY <1>1, Refused
<1>3. SavedOK'
  BY <1>1 DEF SavedOK, Snapshot, WorldNow
<1>4. RegistryOK' /\ HandOK' /\ ShownIsWorld'
  BY <1>1 DEF EditorInv, RegistryOK, HandOK, ShownIsWorld
<1> QED
  BY <1>2, <1>3, <1>4 DEF EditorInv

(* A loaded world is one that was saved. *)
LEMMA LoadKeeps == ASSUME EditorInv, Load PROVE EditorInv'
<1>1. /\ registry' = registry /\ selected' = selected /\ aim' = aim /\ joined' = joined
      /\ disk' = disk /\ synced' = FALSE /\ Import(disk) /\ disk # None
  BY DEF Load, Edit
<1>2. WorldIs(disk.cells, disk.instances, disk.placed, disk.torn)
  BY <1>1 DEF EditorInv, SavedOK
<1>3. /\ cells' = disk.cells /\ instances' = disk.instances /\ placed' = disk.placed /\ torn' = disk.torn
      /\ nextId' = NextAfter(DOMAIN disk.instances) /\ said' = 0
  BY <1>1 DEF Import
<1>4. WorldNow'
  BY <1>2, <1>3 DEF WorldNow
<1>5. SavedOK' /\ RegistryOK'
  BY <1>1 DEF EditorInv, SavedOK, RegistryOK
<1>6. HandOK' /\ ShownIsWorld'
  BY <1>1 DEF EditorInv, HandOK, ShownIsWorld
<1> QED
  BY <1>4, <1>5, <1>6 DEF EditorInv

(* A refused import leaves well formed pieces, and the world is torn. *)
LEMMA RefusedImportKeeps == ASSUME EditorInv, RefusedImport PROVE EditorInv'
<1>1. /\ registry' = registry /\ selected' = selected /\ aim' = aim /\ joined' = joined
      /\ disk' = disk /\ synced' = FALSE /\ torn' = TRUE /\ OnlyCells /\ disk # None
  BY DEF RefusedImport, Edit
<1>2. PICK read \in SUBSET DOMAIN disk.cells : cells' = [c \in read |-> disk.cells[c]]
  BY DEF RefusedImport
<1>3. CellsOK(disk.cells)
  BY <1>1 DEF EditorInv, SavedOK, WorldIs
<1>4. IsFiniteSet(read)
  BY <1>3, FS_Subset DEF CellsOK
<1>5. DOMAIN cells' = read /\ \A c \in read : cells'[c] = disk.cells[c]
  BY <1>2
<1>6. CellsOK(cells')
  BY <1>3, <1>4, <1>5 DEF CellsOK
<1>7. instances' = instances /\ nextId' = nextId /\ placed' = placed /\ said' = 0
  BY <1>1 DEF OnlyCells
<1>8. WorldNow'
  BY <1>1, <1>6, <1>7 DEF EditorInv, WorldNow, WorldIs
<1>9. SavedOK' /\ RegistryOK'
  BY <1>1 DEF EditorInv, SavedOK, RegistryOK
<1>10. HandOK' /\ ShownIsWorld'
  BY <1>1 DEF EditorInv, HandOK, ShownIsWorld
<1> QED
  BY <1>8, <1>9, <1>10 DEF EditorInv

(* The built-in prefabs are well formed. *)
LEMMA BuiltinsOK == \A name \in DOMAIN BuiltinRegistry : PrefabOK(BuiltinRegistry[name])
<1> SUFFICES ASSUME NEW n \in DOMAIN Builtins PROVE PrefabOK(Builtin(Builtins[n]))
  BY DEF BuiltinRegistry
<1> DEFINE f == FromMask(Builtins[n].slots, Builtins[n].mat)
<1> DEFINE g == [o \in {Zero} |-> f]
<1>1. Builtins[n].slots \subseteq Micros /\ Builtins[n].mat \in Materials
  BY EditorAssumption
<1>2. Grid(f)
  BY <1>1 DEF Grid, FromMask
<1>3. Builtin(Builtins[n]) = [bounds |-> <<1, 1, 1>>, cells |-> g]
  BY DEF Builtin
<1> HIDE DEF f
<1>4. DOMAIN g = {Zero} /\ IsFiniteSet({Zero}) /\ \A o \in DOMAIN g : Grid(g[o])
  BY <1>2, FS_Singleton
<1>5. <<1, 1, 1>> \in Vectors /\ Zero \in Vectors
  BY Triples, ZeroIs
<1> HIDE DEF g
<1> QED
  BY <1>3, <1>4, <1>5 DEF PrefabOK

(* A fresh world keeps to the invariant. *)
LEMMA FreshKeeps ==
  /\ Init => EditorInv
  /\ EditorInv /\ Restart => EditorInv'
<1> DEFINE floor == [c \in DOMAIN Floor |-> Block(Floor[c])]
<1>1. WorldIs(floor, <<>>, 0, FALSE) /\ NextAfter(DOMAIN <<>>) = 1
  BY FreshFacts
<1>2. First \in Materials \cup DOMAIN Builtins
  BY Inputs
<1>3. ASSUME Init PROVE EditorInv
  <2>1. /\ cells = floor /\ instances = <<>> /\ placed = 0 /\ nextId = 1 /\ torn = FALSE /\ said = 0
        /\ registry = BuiltinRegistry /\ selected = First /\ aim = None /\ disk = None
        /\ joined = FALSE /\ synced = FALSE
    BY <1>3 DEF Init, FreshWorld
  <2> HIDE DEF floor
  <2>2. WorldNow
    BY <1>1, <2>1 DEF WorldNow
  <2>3. SavedOK /\ RegistryOK
    BY <2>1, BuiltinsOK DEF SavedOK, RegistryOK
  <2>4. HandOK /\ ShownIsWorld
    BY <1>2, <2>1 DEF HandOK, ShownIsWorld
  <2> QED
    BY <2>2, <2>3, <2>4 DEF EditorInv
<1>4. ASSUME EditorInv, Restart PROVE EditorInv'
  <2>1. /\ cells' = floor /\ instances' = <<>> /\ placed' = 0 /\ nextId' = 1 /\ torn' = FALSE /\ said' = 0
        /\ registry' = BuiltinRegistry /\ selected' = First /\ aim' = None
        /\ joined' = FALSE /\ synced' = FALSE /\ (disk' = disk \/ disk' = None)
    BY <1>4 DEF Restart, Edit
  <2> HIDE DEF floor
  <2>2. WorldNow'
    BY <1>1, <2>1 DEF WorldNow
  <2>3. SavedOK'
    BY <1>4, <2>1 DEF EditorInv, SavedOK
  <2>4. RegistryOK'
    BY <2>1, BuiltinsOK DEF RegistryOK
  <2>5. HandOK' /\ ShownIsWorld'
    BY <1>2, <2>1 DEF HandOK, ShownIsWorld
  <2> QED
    BY <2>2, <2>3, <2>4, <2>5 DEF EditorInv
<1> QED
  BY <1>3, <1>4

(* A scene that is joined or left. *)
LEMMA SceneChangesKeeps == ASSUME EditorInv, SceneChanges PROVE EditorInv'
<1>1. /\ NoChange /\ registry' = registry /\ selected' = selected /\ aim' = aim /\ disk' = disk
      /\ torn' = torn /\ synced' = FALSE /\ joined' = ~joined /\ WorldNow
  BY DEF SceneChanges, Edit, EditorInv
<1>2. WorldNow'
  BY <1>1, Refused
<1>3. SavedOK' /\ RegistryOK'
  BY <1>1 DEF EditorInv, SavedOK, RegistryOK
<1>4. HandOK' /\ ShownIsWorld'
  BY <1>1 DEF EditorInv, HandOK, ShownIsWorld
<1> QED
  BY <1>2, <1>3, <1>4 DEF EditorInv

(* Cubes that stay take their cell's material again and missing ones are *)
(* spawned, so what is drawn is exactly the world's cubes.               *)
LEMMA SyncVisualsKeeps == ASSUME EditorInv, SyncVisuals PROVE EditorInv'
<1> DEFINE stay == DOMAIN shown \cap DOMAIN Cubes
<1> DEFINE spawn == DOMAIN Cubes \ stay
<1>1. /\ UNCHANGED world /\ registry' = registry /\ selected' = selected /\ aim' = aim /\ disk' = disk
      /\ joined' = joined /\ said' = said /\ torn' = torn /\ synced' = TRUE
  BY DEF SyncVisuals
<1>2. shown' = IF joined THEN <<>>
               ELSE [k \in stay \cup spawn |-> IF k \in stay THEN Redrawn(k, Cubes) ELSE Cubes[k]]
  BY DEF SyncVisuals
<1>3. stay \cup spawn = DOMAIN Cubes
  OBVIOUS
<1>4. \A k : Redrawn(k, Cubes) = Cubes[k]
  BY DEF Redrawn
<1>5. Cubes = [k \in DOMAIN Cubes |-> Cubes[k]]
  BY DEF Cubes
<1> HIDE DEF stay, spawn
<1>6. shown' = IF joined THEN <<>> ELSE Cubes
  BY <1>2, <1>3, <1>4, <1>5
<1>7. Cubes' = Cubes
  BY <1>1 DEF Cubes, world
<1>8. ShownIsWorld'
  BY <1>1, <1>6, <1>7 DEF ShownIsWorld
<1>9. WorldNow'
  BY <1>1 DEF EditorInv, WorldNow, WorldIs, world, CellsOK, RecordsOK, Named
<1>10. SavedOK' /\ RegistryOK' /\ HandOK'
  BY <1>1 DEF EditorInv, SavedOK, RegistryOK, HandOK
<1> QED
  BY <1>8, <1>9, <1>10 DEF EditorInv

(* Nothing that happens. *)
LEMMA Stutters == ASSUME EditorInv, UNCHANGED vars PROVE EditorInv'
<1>1. /\ UNCHANGED world /\ registry' = registry /\ selected' = selected /\ aim' = aim /\ disk' = disk
      /\ joined' = joined /\ said' = said /\ torn' = torn /\ synced' = synced /\ shown' = shown
  BY DEF vars
<1>2. Cubes' = Cubes
  BY <1>1 DEF Cubes, world
<1>3. ShownIsWorld'
  BY <1>1, <1>2 DEF EditorInv, ShownIsWorld
<1>4. WorldNow'
  BY <1>1 DEF EditorInv, WorldNow, WorldIs, world, CellsOK, RecordsOK, Named
<1>5. SavedOK' /\ RegistryOK' /\ HandOK'
  BY <1>1 DEF EditorInv, SavedOK, RegistryOK, HandOK
<1> QED
  BY <1>3, <1>4, <1>5 DEF EditorInv

(* The invariant says what every property of the editor's states needs. *)
LEMMA SafetyOf == ASSUME EditorInv PROVE WorldOK /\ ShownIsWorld
<1>1. CellsOK(cells) /\ RecordsOK(instances, placed) /\ torn \in BOOLEAN /\ (torn \/ Named(cells, instances))
  BY DEF EditorInv, WorldNow, WorldIs
<1>2. \A c \in DOMAIN cells : IsCell(cells[c])
  BY <1>1 DEF CellsOK, CellOK, Grid, IsCell
<1>3. nextId = NextAfter(DOMAIN instances) /\ placed = Cardinality(DOMAIN instances)
  BY <1>1 DEF EditorInv, WorldNow, RecordsOK
<1>4. nextId \in Nat /\ nextId # 0 /\ placed \in Nat
  BY <1>1, <1>3, NextFacts, FS_CardinalityType DEF RecordsOK
<1>5. TypeOK
  BY <1>1, <1>2, <1>4 DEF EditorInv, WorldNow, HandOK, TypeOK, RecordsOK
<1> QED
  BY <1>1, <1>3, <1>5 DEF EditorInv, WorldOK, Counted

----------------------------------------------------------------------------
(* A placed prefab is whole.                                                *)

(* The filled slots of well formed cells are finitely many. *)
LEMMA FilledFinite ==
  ASSUME NEW cs, CellsOK(cs)
  PROVE  IsFiniteSet(Filled(cs))
<1> DEFINE S == UNION {{<<c, u>> : u \in DOMAIN cs[c].mat} : c \in DOMAIN cs}
<1> DEFINE f == [s \in S |-> <<s[1], s[2], cs[s[1]].mat[s[2]]>>]
<1>1. DOMAIN cs \subseteq Vectors /\ IsFiniteSet(DOMAIN cs)
  BY DEF CellsOK
<1>2. IsFiniteSet((DOMAIN cs) \X Micros)
  BY <1>1, MicrosFinite, FS_Product
<1>3. \A c \in DOMAIN cs : DOMAIN cs[c].mat \subseteq Micros
  BY DEF CellsOK, CellOK, Grid
<1>4. S \subseteq (DOMAIN cs) \X Micros
  BY <1>3
<1>5. IsFiniteSet(S)
  BY <1>2, <1>4, FS_Subset
<1>6. ASSUME NEW c \in DOMAIN cs, NEW u \in DOMAIN cs[c].mat
      PROVE  <<c, u>> \in S /\ f[<<c, u>>] = <<c, u, cs[c].mat[u]>>
  OBVIOUS
<1>7. IsFiniteSet({f[s] : s \in S})
  <2> HIDE DEF S, f
  <2> QED
    BY <1>5, ImageFinite
<1> HIDE DEF S, f
<1>8. ASSUME NEW t \in Filled(cs) PROVE t \in {f[s] : s \in S}
  <2>1. PICK c \in DOMAIN cs : \E u \in DOMAIN cs[c].mat : t = <<c, u, cs[c].mat[u]>>
    BY DEF Filled
  <2>2. PICK u \in DOMAIN cs[c].mat : t = <<c, u, cs[c].mat[u]>>
    BY <2>1
  <2>3. <<c, u>> \in S /\ t = f[<<c, u>>]
    BY <1>6, <2>2
  <2> QED
    BY <2>3
<1> QED
  BY <1>7, <1>8, FS_Subset

(* What a committed raster adds is its own points, none of them filled before, *)
(* and it leaves every filled slot's material alone.                           *)
LEMMA CommitWhole ==
  ASSUME WorldNow, NEW raster, RasterOK(raster), NEW name, Full(raster, registry[name]),
         CommitRaster(name, raster)
  PROVE  Whole
<1> DEFINE R == RasterCells(raster)
<1> DEFINE D == DOMAIN raster
<1> DEFINE f == [p \in D |-> <<CellOf(p), MicroOf(p), raster[p]>>]
<1> DEFINE N == {f[p] : p \in D}
<1>1. CASE D = {} \/ Conflicts(raster)
  BY <1>1 DEF CommitRaster, NoChange, Whole
<1>2. CASE ~(D = {} \/ Conflicts(raster))
  <2>1. /\ cells' = [c \in DOMAIN cells \cup R |->
                       IF c \in R THEN Merged(CellAt(c), c, raster, nextId) ELSE cells[c]]
        /\ said' = nextId /\ instances'[nextId].prefab = name
    BY <1>2 DEF CommitRaster, Record
  <2>2. \A p \in D : ~Occupied(p)
    BY <1>2 DEF Conflicts
  <2>3. ASSUME NEW p \in D PROVE p \in Vectors /\ CellOf(p) \in R /\ Point(CellOf(p), MicroOf(p)) = p
    BY PointFacts DEF RasterOK, RasterCells
  <2>4. CellsOK(cells) /\ IsFiniteSet(D)
    BY DEF WorldNow, WorldIs, RasterOK
  <2>5. IsFiniteSet(N) /\ Cardinality(N) = Cardinality(D)
    <3>1. ASSUME NEW p \in D, NEW r \in D, f[p] = f[r] PROVE p = r
      <4>1. CellOf(p) = CellOf(r) /\ MicroOf(p) = MicroOf(r)
        BY <3>1
      <4> QED
        BY <2>3, <4>1
    <3> HIDE DEF f, D
    <3> QED
      BY <2>4, <3>1, SameSize
  <2>6. ASSUME NEW c \in R
        PROVE  /\ DOMAIN Merged(CellAt(c), c, raster, nextId).mat =
                     DOMAIN CellAt(c).mat \cup {MicroOf(p) : p \in {p \in D : CellOf(p) = c}}
               /\ \A u \in DOMAIN Merged(CellAt(c), c, raster, nextId).mat :
                     Merged(CellAt(c), c, raster, nextId).mat[u] =
                        IF u \in {MicroOf(p) : p \in {p \in D : CellOf(p) = c}}
                        THEN raster[Point(c, u)] ELSE CellAt(c).mat[u]
    BY DEF Merged
  <2>7. ASSUME NEW p \in D
        PROVE  /\ CellOf(p) \in DOMAIN cells' /\ MicroOf(p) \in DOMAIN cells'[CellOf(p)].mat
               /\ cells'[CellOf(p)].mat[MicroOf(p)] = raster[p]
    <3> DEFINE c == CellOf(p)
    <3>1. c \in R /\ Point(c, MicroOf(p)) = p
      BY <2>3
    <3>2. MicroOf(p) \in {MicroOf(r) : r \in {r \in D : CellOf(r) = c}}
      OBVIOUS
    <3>3. cells'[c] = Merged(CellAt(c), c, raster, nextId) /\ c \in DOMAIN cells'
      BY <2>1, <3>1
    <3> HIDE DEF c
    <3> QED
      BY <2>6, <3>1, <3>2, <3>3 DEF c
  <2>8. ASSUME NEW c \in DOMAIN cells, NEW u \in DOMAIN cells[c].mat
        PROVE  /\ c \in DOMAIN cells' /\ u \in DOMAIN cells'[c].mat /\ cells'[c].mat[u] = cells[c].mat[u]
               /\ \A p \in D : ~(CellOf(p) = c /\ MicroOf(p) = u)
    <3>1. \A p \in D : ~(CellOf(p) = c /\ MicroOf(p) = u)
      BY <2>2 DEF Occupied
    <3>2. u \notin {MicroOf(p) : p \in {p \in D : CellOf(p) = c}}
      BY <3>1
    <3>3. CellAt(c) = cells[c]
      BY DEF CellAt
    <3>4. c \in DOMAIN cells' /\ cells'[c] = IF c \in R THEN Merged(CellAt(c), c, raster, nextId) ELSE cells[c]
      BY <2>1
    <3>5. CASE c \in R
      <4>1. u \in DOMAIN Merged(CellAt(c), c, raster, nextId).mat
        BY <2>6, <3>3, <3>5
      <4>2. Merged(CellAt(c), c, raster, nextId).mat[u] = cells[c].mat[u]
        BY <2>6, <3>2, <3>3, <3>5, <4>1
      <4> QED
        BY <3>1, <3>4, <3>5, <4>1, <4>2
    <3>6. CASE c \notin R
      BY <3>1, <3>4, <3>6
    <3> QED
      BY <3>5, <3>6
  <2>9. ASSUME NEW c \in DOMAIN cells', NEW u \in DOMAIN cells'[c].mat
        PROVE  \/ c \in DOMAIN cells /\ u \in DOMAIN cells[c].mat
               \/ \E p \in D : CellOf(p) = c /\ MicroOf(p) = u
    <3>1. CASE c \in R
      <4>1. cells'[c] = Merged(CellAt(c), c, raster, nextId)
        BY <2>1, <3>1
      <4>2. u \in DOMAIN CellAt(c).mat \/ u \in {MicroOf(p) : p \in {p \in D : CellOf(p) = c}}
        BY <2>6, <3>1, <4>1
      <4>3. u \in DOMAIN CellAt(c).mat => c \in DOMAIN cells /\ u \in DOMAIN cells[c].mat
        BY DEF CellAt, Hollow
      <4> QED
        BY <4>2, <4>3
    <3>2. CASE c \notin R
      BY <2>1, <3>2
    <3> QED
      BY <3>1, <3>2
  <2>10. \A p \in D : f[p] = <<CellOf(p), MicroOf(p), raster[p]>>
    OBVIOUS
  <2> HIDE DEF f, D, R
  <2>11. ASSUME NEW t \in Filled(cells) PROVE t \in Filled(cells') /\ t \notin N
    <3>0. PICK c \in DOMAIN cells : \E u \in DOMAIN cells[c].mat : t = <<c, u, cells[c].mat[u]>>
      BY DEF Filled
    <3>1. PICK u \in DOMAIN cells[c].mat : t = <<c, u, cells[c].mat[u]>>
      BY <3>0
    <3>2. t \in Filled(cells')
      BY <2>8, <3>1 DEF Filled
    <3>3. t \notin N
      BY <2>8, <2>10, <3>1
    <3> QED
      BY <3>2, <3>3
  <2>12. ASSUME NEW t \in N PROVE t \in Filled(cells')
    <3>1. PICK p \in D : t = <<CellOf(p), MicroOf(p), raster[p]>>
      BY <2>10
    <3> QED
      BY <2>7, <3>1 DEF Filled
  <2>13. ASSUME NEW t \in Filled(cells') PROVE t \in Filled(cells) \cup N
    <3>0. PICK c \in DOMAIN cells' : \E u \in DOMAIN cells'[c].mat : t = <<c, u, cells'[c].mat[u]>>
      BY DEF Filled
    <3>1. PICK u \in DOMAIN cells'[c].mat : t = <<c, u, cells'[c].mat[u]>>
      BY <3>0
    <3>2. CASE c \in DOMAIN cells /\ u \in DOMAIN cells[c].mat
      <4>1. t = <<c, u, cells[c].mat[u]>>
        BY <2>8, <3>1, <3>2
      <4> QED
        BY <3>2, <4>1 DEF Filled
    <3>3. ASSUME NEW p \in D, CellOf(p) = c, MicroOf(p) = u PROVE t \in N
      <4>1. t = f[p]
        BY <2>7, <2>10, <3>1, <3>3
      <4> QED
        BY <4>1
    <3> QED
      BY <2>9, <3>2, <3>3
  <2> DEFINE F == Filled(cells)
  <2>14. Filled(cells') = F \cup N /\ F \cap N = {}
    BY <2>11, <2>12, <2>13
  <2>15. IsFiniteSet(F)
    BY <2>4, FilledFinite
  <2> HIDE DEF F, N
  <2>16. Cardinality(F \cup N) = Cardinality(F) + Cardinality(N)
    <3>1. Cardinality(F \cup N) = Cardinality(F) + Cardinality(N) - Cardinality(F \cap N)
      BY <2>5, <2>15, FS_Union
    <3>2. Cardinality(F \cap N) = 0 /\ Cardinality(F) \in Nat /\ Cardinality(N) \in Nat
      BY <2>5, <2>14, <2>15, FS_EmptySet, FS_CardinalityType
    <3> QED
      BY <3>1, <3>2
  <2>17. Cardinality(N) = SizeOf(registry[name])
    BY <2>5 DEF Full, D
  <2>18. instances'[said'].prefab = name
    BY <2>1
  <2> QED
    BY <2>14, <2>16, <2>17, <2>18 DEF Whole, F
<1> QED
  BY <1>1, <1>2

(* A prefab put at a place is whole, or nothing is placed. *)
LEMMA PlaceAtWhole ==
  ASSUME WorldNow, RegistryOK, NEW name, NEW origin \in Vectors, NEW turn \in 0..3,
         PlaceAt(name, origin, turn)
  PROVE  Whole
<1> DEFINE raster == Rasterize(registry[name], origin, turn, Zero)
<1>1. CASE name \notin DOMAIN registry
  BY <1>1 DEF PlaceAt, NoChange, Whole
<1>2. CASE name \in DOMAIN registry
  <2>1. PrefabOK(registry[name]) /\ Zero \in Vectors
    BY <1>2, ZeroIs DEF RegistryOK
  <2>2. RasterOK(raster) /\ Full(raster, registry[name])
    BY <2>1, RasterizeFacts, RasterizeFull
  <2>3. CommitRaster(name, raster)
    BY <1>2 DEF PlaceAt
  <2> HIDE DEF raster
  <2> QED
    BY <2>2, <2>3, CommitWhole
<1> QED
  BY <1>1, <1>2

(* A snapped prefab is whole, or nothing is placed. *)
LEMMA SnapWhole ==
  ASSUME WorldNow, RegistryOK, NEW q, q.hit \in Vectors, q.normal \in Vectors, q.turn \in 0..3,
         q.anchor # None => q.anchor \in Vectors, Snap(q)
  PROVE  Whole
<1> DEFINE raster == Preview(q).raster
<1>1. CASE Preview(q).why = "ok"
  <2>1. RasterOK(raster) /\ Full(raster, registry[q.prefab])
    BY <1>1, PreviewFacts
  <2>2. CommitRaster(q.prefab, raster)
    BY <1>1 DEF Snap
  <2> HIDE DEF raster
  <2> QED
    BY <2>1, <2>2, CommitWhole
<1>2. CASE Preview(q).why # "ok"
  BY <1>2 DEF Snap, NoChange, Whole
<1> QED
  BY <1>1, <1>2

(* Each of the steps that place a prefab places it whole, and no other step *)
(* reports that it placed one.                                              *)
LEMMA StepsWhole == ASSUME EditorInv, [Next]_vars PROVE Whole
<1>0. WorldNow /\ RegistryOK
  BY DEF EditorInv
<1>1. CASE PlacePrefab
  <2>1. PICK name \in DOMAIN registry, c \in Cells, turn \in Turns : PlaceAt(name, c, turn)
    BY <1>1 DEF PlacePrefab
  <2>2. c \in Vectors /\ turn \in 0..3
    BY Inputs
  <2> QED
    BY <1>0, <2>1, <2>2, PlaceAtWhole
<1>2. CASE SnapPrefab
  <2>1. PICK name \in DOMAIN registry, c \in Cells, n \in Normals, turn \in Turns :
          Snap([prefab |-> name, hit |-> c, normal |-> n, turn |-> turn, anchor |-> None])
    BY <1>2 DEF SnapPrefab
  <2> DEFINE q == [prefab |-> name, hit |-> c, normal |-> n, turn |-> turn, anchor |-> None]
  <2>2. q.hit \in Vectors /\ q.normal \in Vectors /\ q.turn \in 0..3 /\ q.anchor = None
    BY Inputs
  <2>3. Snap(q)
    BY <2>1
  <2> HIDE DEF q
  <2> QED
    BY <1>0, <2>2, <2>3, SnapWhole
<1>3. CASE ClickPlace
  <2> DEFINE beside == Add(aim.cell, aim.normal)
  <2> DEFINE q == [prefab |-> selected, hit |-> aim.cell, normal |-> aim.normal, turn |-> 0, anchor |-> aim.near]
  <2>1. aim # None
    BY <1>3 DEF ClickPlace
  <2>2. aim.cell \in Vectors /\ aim.normal \in Vectors /\ aim.near \in Vectors
    BY <2>1 DEF EditorInv, HandOK
  <2>3. \/ SetBlock(beside, selected)
        \/ PlaceAt(selected, beside, 0)
        \/ Snap(q)
    BY <1>3 DEF ClickPlace
  <2>4. beside \in Vectors
    BY <2>2, VectorFacts
  <2>5. q.hit \in Vectors /\ q.normal \in Vectors /\ q.turn \in 0..3 /\ q.anchor \in Vectors
    BY <2>2
  <2> HIDE DEF beside, q
  <2>6. CASE SetBlock(beside, selected)
    BY <2>6 DEF SetBlock, NoChange, OnlyCells, Whole
  <2>7. CASE PlaceAt(selected, beside, 0)
    <3>1. 0 \in 0..3
      OBVIOUS
    <3> QED
      BY <1>0, <2>4, <2>7, <3>1, PlaceAtWhole
  <2>8. CASE Snap(q)
    BY <1>0, <2>5, <2>8, SnapWhole
  <2> QED
    BY <2>3, <2>6, <2>7, <2>8
<1>4. CASE said' = 0
  BY <1>4 DEF Whole
<1>5. CASE nextId' = nextId
  <2>1. nextId \in Nat
    BY NextFacts, <1>0 DEF WorldNow, WorldIs, RecordsOK
  <2>2. nextId' # nextId + 1
    BY <1>5, <2>1
  <2> QED
    BY <2>2 DEF Whole
<1>6. SyncVisuals \/ UNCHANGED vars => nextId' = nextId
  BY DEF SyncVisuals, vars, world
<1>7. PlaceBlock \/ BreakBlock \/ SetMicro \/ ClearMicro => said' = 0
  BY DEF PlaceBlock, BreakBlock, SetMicro, ClearMicro, SetBlock, ClearBlock, NoChange, OnlyCells
<1>8. Capture \/ Select \/ Aim \/ ClickBreak \/ Save => said' = 0
  BY DEF Capture, Select, Aim, ClickBreak, Save, ClearBlock, NoChange, OnlyCells
<1>9. Load \/ RefusedImport \/ Restart \/ SceneChanges => said' = 0
  BY DEF Load, Import, RefusedImport, Restart, SceneChanges, NoChange, OnlyCells
<1> QED
  BY <1>1, <1>2, <1>3, <1>4, <1>5, <1>6, <1>7, <1>8, <1>9 DEF Next

----------------------------------------------------------------------------
(* The theorems.                                                            *)

(* Whatever is typed and clicked, saved, loaded, refused or restarted, the  *)
(* invariant holds.                                                         *)
THEOREM EditorInvariantHolds == Spec => []EditorInv
<1>1. Init => EditorInv
  BY FreshKeeps
<1>2. EditorInv /\ [Next]_vars => EditorInv'
  <2> SUFFICES ASSUME EditorInv, [Next]_vars PROVE EditorInv'
    OBVIOUS
  <2>1. CASE PlaceBlock
    BY <2>1, PlaceBlockKeeps
  <2>2. CASE BreakBlock
    BY <2>2, BreakBlockKeeps
  <2>3. CASE SetMicro
    BY <2>3, SetMicroKeeps
  <2>4. CASE ClearMicro
    BY <2>4, ClearMicroKeeps
  <2>5. CASE Capture
    BY <2>5, CaptureKeeps
  <2>6. CASE PlacePrefab
    BY <2>6, PlacePrefabKeeps
  <2>7. CASE SnapPrefab
    BY <2>7, SnapPrefabKeeps
  <2>8. CASE Select
    BY <2>8, SelectKeeps
  <2>9. CASE Aim
    BY <2>9, AimKeeps
  <2>10. CASE ClickBreak
    BY <2>10, ClickBreakKeeps
  <2>11. CASE ClickPlace
    BY <2>11, ClickPlaceKeeps
  <2>12. CASE Save
    BY <2>12, SaveKeeps
  <2>13. CASE Load
    BY <2>13, LoadKeeps
  <2>14. CASE RefusedImport
    BY <2>14, RefusedImportKeeps
  <2>15. CASE Restart
    BY <2>15, FreshKeeps
  <2>16. CASE SceneChanges
    BY <2>16, SceneChangesKeeps
  <2>17. CASE SyncVisuals
    BY <2>17, SyncVisualsKeeps
  <2>18. CASE UNCHANGED vars
    BY <2>18, Stutters
  <2> QED
    BY <2>1, <2>2, <2>3, <2>4, <2>5, <2>6, <2>7, <2>8, <2>9, <2>10, <2>11, <2>12, <2>13, <2>14,
       <2>15, <2>16, <2>17, <2>18 DEF Next
<1> QED
  BY <1>1, <1>2, PTL DEF Spec

(* Every cell is well formed, every instance is counted and its id never     *)
(* given again, and unless a refused import left its pieces behind, every    *)
(* prefab a cell came from is on record in a box that covers it.             *)
THEOREM EditorWorld == Spec => []WorldOK
<1>1. EditorInv => WorldOK
  BY SafetyOf
<1> QED
  BY <1>1, EditorInvariantHolds, PTL

(* Once drawn, the cubes on the screen are the world's.                      *)
THEOREM EditorShowsWorld == Spec => []ShownIsWorld
<1>1. EditorInv => ShownIsWorld
  BY SafetyOf
<1> QED
  BY <1>1, EditorInvariantHolds, PTL

(* A prefab that is reported as placed adds exactly its own slots and changes *)
(* none that was filled.                                                     *)
THEOREM PrefabPlacedWhole == Spec => PrefabWhole
<1>1. EditorInv /\ [Next]_vars => [Whole]_vars
  BY StepsWhole
<1> QED
  BY <1>1, EditorInvariantHolds, PTL DEF Spec, PrefabWhole
=============================================================================
