--------------------------- MODULE FieldView_proofs ---------------------------
(* Proofs about FieldView: the effects keep their caps, lives and sources, the  *)
(* overlays, the glow and the readout show the fields, and the terrain shows    *)
(* the world.  A frame takes any number of messages at once, so the module      *)
(* begins with what a fold does; each conjunct of FieldInv is then kept by      *)
(* every step, and the theorems are at the end.                                 *)
EXTENDS FieldInvariant, FiniteSetTheorems, SequenceTheorems, WellFoundedInduction, TLAPS

------------------------------------------------------------------------------
(* Induction over a set of numbers, and what a fold goes through.               *)

(* Every natural number is in a set that goes on from zero. *)
LEMMA Reached ==
  ASSUME NEW T, 0 \in T, \A k \in Nat : k \in T => k + 1 \in T
  PROVE  \A k \in Nat : k \in T
<1> SUFFICES ASSUME NEW k \in Nat, k \notin T PROVE FALSE
  OBVIOUS
<1> DEFINE R == OpToRel(<, Nat)
<1> DEFINE W == {n \in Nat : n \notin T}
<1>1. IsWellFoundedOn(R, Nat)
  BY NatLessThanWellFounded
<1>2. W \subseteq Nat /\ W # {}
  OBVIOUS
<1>3. PICK n \in W : \A m \in W : ~(<<m, n>> \in R)
  <2> HIDE DEF R, W
  <2> QED
    BY <1>1, <1>2, WFMin
<1>4. \A m \in Nat : m < n => m \in T
  <2> SUFFICES ASSUME NEW m \in Nat, m < n, m \notin T PROVE FALSE
    OBVIOUS
  <2>1. <<m, n>> \in R
    BY DEF OpToRel
  <2> QED
    BY <1>3, <2>1
<1>5. n \in Nat /\ n # 0
  OBVIOUS
<1>6. n - 1 \in Nat /\ n - 1 < n
  BY <1>5
<1>7. n - 1 \in T
  BY <1>4, <1>6
<1>8. n - 1 + 1 \in T
  BY <1>6, <1>7
<1> QED
  BY <1>5, <1>6, <1>8

(* The same up to a bound. *)
LEMMA Upward ==
  ASSUME NEW n \in Nat, NEW T, 0 \in T, \A k \in 0..n : k # n /\ k \in T => k + 1 \in T
  PROVE  \A k \in 0..n : k \in T
<1> DEFINE U == {k \in Nat : k <= n => k \in T}
<1>1. 0 \in U
  OBVIOUS
<1>2. ASSUME NEW k \in Nat, k \in U PROVE k + 1 \in U
  <2> SUFFICES ASSUME k + 1 <= n PROVE k + 1 \in T
    OBVIOUS
  <2>1. k \in 0..n /\ k # n /\ k \in T
    BY <1>2
  <2> QED
    BY <2>1
<1>3. \A k \in Nat : k \in U
  <2> HIDE DEF U
  <2> QED
    BY <1>1, <1>2, Reached
<1> QED
  BY <1>3

(* The messages of a frame are taken one after another. *)
Frame(a, q) == Fold(OnMessage, a, q)

(* The messages of a frame are taken one after another. *)
LEMMA MessagesRun ==
  ASSUME NEW a, NEW S, NEW q \in Seq(S)
  PROVE  \E h : /\ h[0] = a
                /\ \A i \in 1..Len(q) : h[i] = OnMessage(h[i - 1], q[i])
                /\ Frame(a, q) = h[Len(q)]
<1> DEFINE steps(f, n) == [i \in 0..n |-> IF i = 0 THEN a ELSE OnMessage(f[i - 1], q[i])]
<1>1. Len(q) \in Nat
  BY LenProperties
<1>2. \E f : f = steps(f, Len(q))
  <2> DEFINE U == {n \in Nat : \E f : f = steps(f, n)}
  <2>1. 0 \in U
    <3> DEFINE f == [i \in 0..0 |-> a]
    <3>1. \A i \in 0..0 : i = 0
      OBVIOUS
    <3>2. f = steps(f, 0)
      BY <3>1
    <3>3. \E d : d = steps(d, 0)
      <4> HIDE DEF steps, f
      <4> QED
        BY <3>2
    <3> HIDE DEF steps
    <3> QED
      BY <3>3
  <2>2. ASSUME NEW n \in Nat, n \in U PROVE n + 1 \in U
    <3>1. PICK f : f = steps(f, n)
      BY <2>2
    <3> DEFINE y == OnMessage(f[n], q[n + 1])
    <3> DEFINE h == [i \in 0..n + 1 |-> IF i = n + 1 THEN y ELSE f[i]]
    <3>2. h[n + 1] = y /\ \A i \in 0..n : h[i] = f[i]
      OBVIOUS
    <3>3. ASSUME NEW i \in 0..n + 1 PROVE h[i] = IF i = 0 THEN a ELSE OnMessage(h[i - 1], q[i])
      <4>1. CASE i = n + 1
        <5>1. i # 0 /\ i - 1 = n /\ h[i - 1] = f[n]
          BY <3>2, <4>1
        <5> HIDE DEF h
        <5> QED
          BY <3>2, <4>1, <5>1
      <4>2. CASE i # n + 1
        <5>1. i \in 0..n /\ (i # 0 => i - 1 \in 0..n)
          BY <4>2
        <5>2. h[i] = f[i] /\ (i # 0 => h[i - 1] = f[i - 1])
          BY <3>2, <5>1
        <5>3. f[i] = IF i = 0 THEN a ELSE OnMessage(f[i - 1], q[i])
          BY <3>1, <5>1
        <5> HIDE DEF h
        <5> QED
          BY <5>2, <5>3
      <4> QED
        BY <4>1, <4>2
    <3>4. h = steps(h, n + 1)
      <4> HIDE DEF y
      <4>1. DOMAIN h = 0..n + 1 /\ h = [i \in 0..n + 1 |-> h[i]]
        OBVIOUS
      <4> HIDE DEF h
      <4> QED
        BY <3>3, <4>1
    <3>5. \E d : d = steps(d, n + 1)
      <4> HIDE DEF steps, h
      <4> QED
        BY <3>4
    <3> HIDE DEF steps
    <3> QED
      BY <3>5
  <2>3. \A n \in Nat : n \in U
    <3> HIDE DEF U
    <3> QED
      BY <2>1, <2>2, Reached
  <2> QED
    BY <1>1, <2>3
<1> DEFINE h == CHOOSE f : f = steps(f, Len(q))
<1>3. h = steps(h, Len(q))
  <2> HIDE DEF steps
  <2> QED
    BY <1>2
<1>4. Frame(a, q) = h[Len(q)]
  BY DEF Fold, Frame
<1> HIDE DEF h
<1>5. h[0] = a
  BY <1>1, <1>3
<1>6. ASSUME NEW i \in 1..Len(q) PROVE h[i] = OnMessage(h[i - 1], q[i])
  <2>1. i \in 0..Len(q) /\ i # 0
    BY <1>1
  <2> QED
    BY <1>3, <2>1
<1> QED
  BY <1>4, <1>5, <1>6

(* What is kept of a sequence. *)
LEMMA OnlyRun ==
  ASSUME NEW S, NEW q \in Seq(S), NEW T
  PROVE  \E h : /\ h[0] = << >>
                /\ \A i \in 1..Len(q) : h[i] = (IF q[i] \in T THEN Append(h[i - 1], q[i]) ELSE h[i - 1])
                /\ Only(q, T) = h[Len(q)]
<1> DEFINE steps(f, n) == [i \in 0..n |-> IF i = 0 THEN << >> ELSE (IF q[i] \in T THEN Append(f[i - 1], q[i]) ELSE f[i - 1])]
<1>1. Len(q) \in Nat
  BY LenProperties
<1>2. \E f : f = steps(f, Len(q))
  <2> DEFINE U == {n \in Nat : \E f : f = steps(f, n)}
  <2>1. 0 \in U
    <3> DEFINE f == [i \in 0..0 |-> << >>]
    <3>1. \A i \in 0..0 : i = 0
      OBVIOUS
    <3>2. f = steps(f, 0)
      BY <3>1
    <3>3. \E d : d = steps(d, 0)
      <4> HIDE DEF steps, f
      <4> QED
        BY <3>2
    <3> HIDE DEF steps
    <3> QED
      BY <3>3
  <2>2. ASSUME NEW n \in Nat, n \in U PROVE n + 1 \in U
    <3>1. PICK f : f = steps(f, n)
      BY <2>2
    <3> DEFINE y == (IF q[n + 1] \in T THEN Append(f[n], q[n + 1]) ELSE f[n])
    <3> DEFINE h == [i \in 0..n + 1 |-> IF i = n + 1 THEN y ELSE f[i]]
    <3>2. h[n + 1] = y /\ \A i \in 0..n : h[i] = f[i]
      OBVIOUS
    <3>3. ASSUME NEW i \in 0..n + 1 PROVE h[i] = IF i = 0 THEN << >> ELSE (IF q[i] \in T THEN Append(h[i - 1], q[i]) ELSE h[i - 1])
      <4>1. CASE i = n + 1
        <5>1. i # 0 /\ i - 1 = n /\ h[i - 1] = f[n]
          BY <3>2, <4>1
        <5> HIDE DEF h
        <5> QED
          BY <3>2, <4>1, <5>1
      <4>2. CASE i # n + 1
        <5>1. i \in 0..n /\ (i # 0 => i - 1 \in 0..n)
          BY <4>2
        <5>2. h[i] = f[i] /\ (i # 0 => h[i - 1] = f[i - 1])
          BY <3>2, <5>1
        <5>3. f[i] = IF i = 0 THEN << >> ELSE (IF q[i] \in T THEN Append(f[i - 1], q[i]) ELSE f[i - 1])
          BY <3>1, <5>1
        <5> HIDE DEF h
        <5> QED
          BY <5>2, <5>3
      <4> QED
        BY <4>1, <4>2
    <3>4. h = steps(h, n + 1)
      <4> HIDE DEF y
      <4>1. DOMAIN h = 0..n + 1 /\ h = [i \in 0..n + 1 |-> h[i]]
        OBVIOUS
      <4> HIDE DEF h
      <4> QED
        BY <3>3, <4>1
    <3>5. \E d : d = steps(d, n + 1)
      <4> HIDE DEF steps, h
      <4> QED
        BY <3>4
    <3> HIDE DEF steps
    <3> QED
      BY <3>5
  <2>3. \A n \in Nat : n \in U
    <3> HIDE DEF U
    <3> QED
      BY <2>1, <2>2, Reached
  <2> QED
    BY <1>1, <2>3
<1> DEFINE h == CHOOSE f : f = steps(f, Len(q))
<1>3. h = steps(h, Len(q))
  <2> HIDE DEF steps
  <2> QED
    BY <1>2
<1>4. Only(q, T) = h[Len(q)]
  BY DEF Only, Fold
<1> HIDE DEF h
<1>5. h[0] = << >>
  BY <1>1, <1>3
<1>6. ASSUME NEW i \in 1..Len(q) PROVE h[i] = (IF q[i] \in T THEN Append(h[i - 1], q[i]) ELSE h[i - 1])
  <2>1. i \in 0..Len(q) /\ i # 0
    BY <1>1
  <2> QED
    BY <1>3, <2>1
<1> QED
  BY <1>4, <1>5, <1>6

(* The regions are asked one after another. *)
LEMMA ElectricRun ==
  ASSUME NEW a, NEW k, NEW layer, NEW cell, NEW S, NEW q \in Seq(S)
  PROVE  \E h : /\ h[0] = 0
                /\ \A i \in 1..Len(q) : h[i] = (IF Stronger(ValueHere(a, k, layer, cell, q[i]), h[i - 1]) THEN ValueHere(a, k, layer, cell, q[i]) ELSE h[i - 1])
                /\ ElectricGrid(a, k, layer, q, cell) = h[Len(q)]
<1> DEFINE steps(f, n) == [i \in 0..n |-> IF i = 0 THEN 0 ELSE (IF Stronger(ValueHere(a, k, layer, cell, q[i]), f[i - 1]) THEN ValueHere(a, k, layer, cell, q[i]) ELSE f[i - 1])]
<1>1. Len(q) \in Nat
  BY LenProperties
<1>2. \E f : f = steps(f, Len(q))
  <2> DEFINE U == {n \in Nat : \E f : f = steps(f, n)}
  <2>1. 0 \in U
    <3> DEFINE f == [i \in 0..0 |-> 0]
    <3>1. \A i \in 0..0 : i = 0
      OBVIOUS
    <3>2. f = steps(f, 0)
      BY <3>1
    <3>3. \E d : d = steps(d, 0)
      <4> HIDE DEF steps, f
      <4> QED
        BY <3>2
    <3> HIDE DEF steps
    <3> QED
      BY <3>3
  <2>2. ASSUME NEW n \in Nat, n \in U PROVE n + 1 \in U
    <3>1. PICK f : f = steps(f, n)
      BY <2>2
    <3> DEFINE y == (IF Stronger(ValueHere(a, k, layer, cell, q[n + 1]), f[n]) THEN ValueHere(a, k, layer, cell, q[n + 1]) ELSE f[n])
    <3> DEFINE h == [i \in 0..n + 1 |-> IF i = n + 1 THEN y ELSE f[i]]
    <3>2. h[n + 1] = y /\ \A i \in 0..n : h[i] = f[i]
      OBVIOUS
    <3>3. ASSUME NEW i \in 0..n + 1 PROVE h[i] = IF i = 0 THEN 0 ELSE (IF Stronger(ValueHere(a, k, layer, cell, q[i]), h[i - 1]) THEN ValueHere(a, k, layer, cell, q[i]) ELSE h[i - 1])
      <4>1. CASE i = n + 1
        <5>1. i # 0 /\ i - 1 = n /\ h[i - 1] = f[n]
          BY <3>2, <4>1
        <5> HIDE DEF h
        <5> QED
          BY <3>2, <4>1, <5>1
      <4>2. CASE i # n + 1
        <5>1. i \in 0..n /\ (i # 0 => i - 1 \in 0..n)
          BY <4>2
        <5>2. h[i] = f[i] /\ (i # 0 => h[i - 1] = f[i - 1])
          BY <3>2, <5>1
        <5>3. f[i] = IF i = 0 THEN 0 ELSE (IF Stronger(ValueHere(a, k, layer, cell, q[i]), f[i - 1]) THEN ValueHere(a, k, layer, cell, q[i]) ELSE f[i - 1])
          BY <3>1, <5>1
        <5> HIDE DEF h
        <5> QED
          BY <5>2, <5>3
      <4> QED
        BY <4>1, <4>2
    <3>4. h = steps(h, n + 1)
      <4> HIDE DEF y
      <4>1. DOMAIN h = 0..n + 1 /\ h = [i \in 0..n + 1 |-> h[i]]
        OBVIOUS
      <4> HIDE DEF h
      <4> QED
        BY <3>3, <4>1
    <3>5. \E d : d = steps(d, n + 1)
      <4> HIDE DEF steps, h
      <4> QED
        BY <3>4
    <3> HIDE DEF steps
    <3> QED
      BY <3>5
  <2>3. \A n \in Nat : n \in U
    <3> HIDE DEF U
    <3> QED
      BY <2>1, <2>2, Reached
  <2> QED
    BY <1>1, <2>3
<1> DEFINE h == CHOOSE f : f = steps(f, Len(q))
<1>3. h = steps(h, Len(q))
  <2> HIDE DEF steps
  <2> QED
    BY <1>2
<1>4. ElectricGrid(a, k, layer, q, cell) = h[Len(q)]
  BY DEF ElectricGrid, Fold
<1> HIDE DEF h
<1>5. h[0] = 0
  BY <1>1, <1>3
<1>6. ASSUME NEW i \in 1..Len(q) PROVE h[i] = (IF Stronger(ValueHere(a, k, layer, cell, q[i]), h[i - 1]) THEN ValueHere(a, k, layer, cell, q[i]) ELSE h[i - 1])
  <2>1. i \in 0..Len(q) /\ i # 0
    BY <1>1
  <2> QED
    BY <1>3, <2>1
<1> QED
  BY <1>4, <1>5, <1>6

(* A slice is scanned cell by cell. *)
Scan(b, q) == Fold(Consume, b, q)

(* A slice is scanned cell by cell. *)
LEMMA ConsumeRun ==
  ASSUME NEW b, NEW S, NEW q \in Seq(S)
  PROVE  \E h : /\ h[0] = b
                /\ \A i \in 1..Len(q) : h[i] = Consume(h[i - 1], q[i])
                /\ Scan(b, q) = h[Len(q)]
<1> DEFINE steps(f, n) == [i \in 0..n |-> IF i = 0 THEN b ELSE Consume(f[i - 1], q[i])]
<1>1. Len(q) \in Nat
  BY LenProperties
<1>2. \E f : f = steps(f, Len(q))
  <2> DEFINE U == {n \in Nat : \E f : f = steps(f, n)}
  <2>1. 0 \in U
    <3> DEFINE f == [i \in 0..0 |-> b]
    <3>1. \A i \in 0..0 : i = 0
      OBVIOUS
    <3>2. f = steps(f, 0)
      BY <3>1
    <3>3. \E d : d = steps(d, 0)
      <4> HIDE DEF steps, f
      <4> QED
        BY <3>2
    <3> HIDE DEF steps
    <3> QED
      BY <3>3
  <2>2. ASSUME NEW n \in Nat, n \in U PROVE n + 1 \in U
    <3>1. PICK f : f = steps(f, n)
      BY <2>2
    <3> DEFINE y == Consume(f[n], q[n + 1])
    <3> DEFINE h == [i \in 0..n + 1 |-> IF i = n + 1 THEN y ELSE f[i]]
    <3>2. h[n + 1] = y /\ \A i \in 0..n : h[i] = f[i]
      OBVIOUS
    <3>3. ASSUME NEW i \in 0..n + 1 PROVE h[i] = IF i = 0 THEN b ELSE Consume(h[i - 1], q[i])
      <4>1. CASE i = n + 1
        <5>1. i # 0 /\ i - 1 = n /\ h[i - 1] = f[n]
          BY <3>2, <4>1
        <5> HIDE DEF h
        <5> QED
          BY <3>2, <4>1, <5>1
      <4>2. CASE i # n + 1
        <5>1. i \in 0..n /\ (i # 0 => i - 1 \in 0..n)
          BY <4>2
        <5>2. h[i] = f[i] /\ (i # 0 => h[i - 1] = f[i - 1])
          BY <3>2, <5>1
        <5>3. f[i] = IF i = 0 THEN b ELSE Consume(f[i - 1], q[i])
          BY <3>1, <5>1
        <5> HIDE DEF h
        <5> QED
          BY <5>2, <5>3
      <4> QED
        BY <4>1, <4>2
    <3>4. h = steps(h, n + 1)
      <4> HIDE DEF y
      <4>1. DOMAIN h = 0..n + 1 /\ h = [i \in 0..n + 1 |-> h[i]]
        OBVIOUS
      <4> HIDE DEF h
      <4> QED
        BY <3>3, <4>1
    <3>5. \E d : d = steps(d, n + 1)
      <4> HIDE DEF steps, h
      <4> QED
        BY <3>4
    <3> HIDE DEF steps
    <3> QED
      BY <3>5
  <2>3. \A n \in Nat : n \in U
    <3> HIDE DEF U
    <3> QED
      BY <2>1, <2>2, Reached
  <2> QED
    BY <1>1, <2>3
<1> DEFINE h == CHOOSE f : f = steps(f, Len(q))
<1>3. h = steps(h, Len(q))
  <2> HIDE DEF steps
  <2> QED
    BY <1>2
<1>4. Scan(b, q) = h[Len(q)]
  BY DEF Fold, Scan
<1> HIDE DEF h
<1>5. h[0] = b
  BY <1>1, <1>3
<1>6. ASSUME NEW i \in 1..Len(q) PROVE h[i] = Consume(h[i - 1], q[i])
  <2>1. i \in 0..Len(q) /\ i # 0
    BY <1>1
  <2> QED
    BY <1>3, <2>1
<1> QED
  BY <1>4, <1>5, <1>6

(* Discharges strike one after another. *)
Strikes(b, q) == Fold(Strike, b, q)

(* Discharges strike one after another. *)
LEMMA StrikeRun ==
  ASSUME NEW b, NEW S, NEW q \in Seq(S)
  PROVE  \E h : /\ h[0] = b
                /\ \A i \in 1..Len(q) : h[i] = Strike(h[i - 1], q[i])
                /\ Strikes(b, q) = h[Len(q)]
<1> DEFINE steps(f, n) == [i \in 0..n |-> IF i = 0 THEN b ELSE Strike(f[i - 1], q[i])]
<1>1. Len(q) \in Nat
  BY LenProperties
<1>2. \E f : f = steps(f, Len(q))
  <2> DEFINE U == {n \in Nat : \E f : f = steps(f, n)}
  <2>1. 0 \in U
    <3> DEFINE f == [i \in 0..0 |-> b]
    <3>1. \A i \in 0..0 : i = 0
      OBVIOUS
    <3>2. f = steps(f, 0)
      BY <3>1
    <3>3. \E d : d = steps(d, 0)
      <4> HIDE DEF steps, f
      <4> QED
        BY <3>2
    <3> HIDE DEF steps
    <3> QED
      BY <3>3
  <2>2. ASSUME NEW n \in Nat, n \in U PROVE n + 1 \in U
    <3>1. PICK f : f = steps(f, n)
      BY <2>2
    <3> DEFINE y == Strike(f[n], q[n + 1])
    <3> DEFINE h == [i \in 0..n + 1 |-> IF i = n + 1 THEN y ELSE f[i]]
    <3>2. h[n + 1] = y /\ \A i \in 0..n : h[i] = f[i]
      OBVIOUS
    <3>3. ASSUME NEW i \in 0..n + 1 PROVE h[i] = IF i = 0 THEN b ELSE Strike(h[i - 1], q[i])
      <4>1. CASE i = n + 1
        <5>1. i # 0 /\ i - 1 = n /\ h[i - 1] = f[n]
          BY <3>2, <4>1
        <5> HIDE DEF h
        <5> QED
          BY <3>2, <4>1, <5>1
      <4>2. CASE i # n + 1
        <5>1. i \in 0..n /\ (i # 0 => i - 1 \in 0..n)
          BY <4>2
        <5>2. h[i] = f[i] /\ (i # 0 => h[i - 1] = f[i - 1])
          BY <3>2, <5>1
        <5>3. f[i] = IF i = 0 THEN b ELSE Strike(f[i - 1], q[i])
          BY <3>1, <5>1
        <5> HIDE DEF h
        <5> QED
          BY <5>2, <5>3
      <4> QED
        BY <4>1, <4>2
    <3>4. h = steps(h, n + 1)
      <4> HIDE DEF y
      <4>1. DOMAIN h = 0..n + 1 /\ h = [i \in 0..n + 1 |-> h[i]]
        OBVIOUS
      <4> HIDE DEF h
      <4> QED
        BY <3>3, <4>1
    <3>5. \E d : d = steps(d, n + 1)
      <4> HIDE DEF steps, h
      <4> QED
        BY <3>4
    <3> HIDE DEF steps
    <3> QED
      BY <3>5
  <2>3. \A n \in Nat : n \in U
    <3> HIDE DEF U
    <3> QED
      BY <2>1, <2>2, Reached
  <2> QED
    BY <1>1, <2>3
<1> DEFINE h == CHOOSE f : f = steps(f, Len(q))
<1>3. h = steps(h, Len(q))
  <2> HIDE DEF steps
  <2> QED
    BY <1>2
<1>4. Strikes(b, q) = h[Len(q)]
  BY DEF Fold, Strikes
<1> HIDE DEF h
<1>5. h[0] = b
  BY <1>1, <1>3
<1>6. ASSUME NEW i \in 1..Len(q) PROVE h[i] = Strike(h[i - 1], q[i])
  <2>1. i \in 0..Len(q) /\ i # 0
    BY <1>1
  <2> QED
    BY <1>3, <2>1
<1> QED
  BY <1>4, <1>5, <1>6

(* Regions that ended are cleared one after another. *)
Clearings(b, q) == Fold(ClearRegion, b, q)

(* Regions that ended are cleared one after another. *)
LEMMA ClearRun ==
  ASSUME NEW b, NEW S, NEW q \in Seq(S)
  PROVE  \E h : /\ h[0] = b
                /\ \A i \in 1..Len(q) : h[i] = ClearRegion(h[i - 1], q[i])
                /\ Clearings(b, q) = h[Len(q)]
<1> DEFINE steps(f, n) == [i \in 0..n |-> IF i = 0 THEN b ELSE ClearRegion(f[i - 1], q[i])]
<1>1. Len(q) \in Nat
  BY LenProperties
<1>2. \E f : f = steps(f, Len(q))
  <2> DEFINE U == {n \in Nat : \E f : f = steps(f, n)}
  <2>1. 0 \in U
    <3> DEFINE f == [i \in 0..0 |-> b]
    <3>1. \A i \in 0..0 : i = 0
      OBVIOUS
    <3>2. f = steps(f, 0)
      BY <3>1
    <3>3. \E d : d = steps(d, 0)
      <4> HIDE DEF steps, f
      <4> QED
        BY <3>2
    <3> HIDE DEF steps
    <3> QED
      BY <3>3
  <2>2. ASSUME NEW n \in Nat, n \in U PROVE n + 1 \in U
    <3>1. PICK f : f = steps(f, n)
      BY <2>2
    <3> DEFINE y == ClearRegion(f[n], q[n + 1])
    <3> DEFINE h == [i \in 0..n + 1 |-> IF i = n + 1 THEN y ELSE f[i]]
    <3>2. h[n + 1] = y /\ \A i \in 0..n : h[i] = f[i]
      OBVIOUS
    <3>3. ASSUME NEW i \in 0..n + 1 PROVE h[i] = IF i = 0 THEN b ELSE ClearRegion(h[i - 1], q[i])
      <4>1. CASE i = n + 1
        <5>1. i # 0 /\ i - 1 = n /\ h[i - 1] = f[n]
          BY <3>2, <4>1
        <5> HIDE DEF h
        <5> QED
          BY <3>2, <4>1, <5>1
      <4>2. CASE i # n + 1
        <5>1. i \in 0..n /\ (i # 0 => i - 1 \in 0..n)
          BY <4>2
        <5>2. h[i] = f[i] /\ (i # 0 => h[i - 1] = f[i - 1])
          BY <3>2, <5>1
        <5>3. f[i] = IF i = 0 THEN b ELSE ClearRegion(f[i - 1], q[i])
          BY <3>1, <5>1
        <5> HIDE DEF h
        <5> QED
          BY <5>2, <5>3
      <4> QED
        BY <4>1, <4>2
    <3>4. h = steps(h, n + 1)
      <4> HIDE DEF y
      <4>1. DOMAIN h = 0..n + 1 /\ h = [i \in 0..n + 1 |-> h[i]]
        OBVIOUS
      <4> HIDE DEF h
      <4> QED
        BY <3>3, <4>1
    <3>5. \E d : d = steps(d, n + 1)
      <4> HIDE DEF steps, h
      <4> QED
        BY <3>4
    <3> HIDE DEF steps
    <3> QED
      BY <3>5
  <2>3. \A n \in Nat : n \in U
    <3> HIDE DEF U
    <3> QED
      BY <2>1, <2>2, Reached
  <2> QED
    BY <1>1, <2>3
<1> DEFINE h == CHOOSE f : f = steps(f, Len(q))
<1>3. h = steps(h, Len(q))
  <2> HIDE DEF steps
  <2> QED
    BY <1>2
<1>4. Clearings(b, q) = h[Len(q)]
  BY DEF Fold, Clearings
<1> HIDE DEF h
<1>5. h[0] = b
  BY <1>1, <1>3
<1>6. ASSUME NEW i \in 1..Len(q) PROVE h[i] = ClearRegion(h[i - 1], q[i])
  <2>1. i \in 0..Len(q) /\ i # 0
    BY <1>1
  <2> QED
    BY <1>3, <2>1
<1> QED
  BY <1>4, <1>5, <1>6

(* Electric snapshots raise their smoke one after another. *)
Spawns(b, q) == Fold(SpawnFromElectric, b, q)

(* Electric snapshots raise their smoke one after another. *)
LEMMA SpawnRun ==
  ASSUME NEW b, NEW S, NEW q \in Seq(S)
  PROVE  \E h : /\ h[0] = b
                /\ \A i \in 1..Len(q) : h[i] = SpawnFromElectric(h[i - 1], q[i])
                /\ Spawns(b, q) = h[Len(q)]
<1> DEFINE steps(f, n) == [i \in 0..n |-> IF i = 0 THEN b ELSE SpawnFromElectric(f[i - 1], q[i])]
<1>1. Len(q) \in Nat
  BY LenProperties
<1>2. \E f : f = steps(f, Len(q))
  <2> DEFINE U == {n \in Nat : \E f : f = steps(f, n)}
  <2>1. 0 \in U
    <3> DEFINE f == [i \in 0..0 |-> b]
    <3>1. \A i \in 0..0 : i = 0
      OBVIOUS
    <3>2. f = steps(f, 0)
      BY <3>1
    <3>3. \E d : d = steps(d, 0)
      <4> HIDE DEF steps, f
      <4> QED
        BY <3>2
    <3> HIDE DEF steps
    <3> QED
      BY <3>3
  <2>2. ASSUME NEW n \in Nat, n \in U PROVE n + 1 \in U
    <3>1. PICK f : f = steps(f, n)
      BY <2>2
    <3> DEFINE y == SpawnFromElectric(f[n], q[n + 1])
    <3> DEFINE h == [i \in 0..n + 1 |-> IF i = n + 1 THEN y ELSE f[i]]
    <3>2. h[n + 1] = y /\ \A i \in 0..n : h[i] = f[i]
      OBVIOUS
    <3>3. ASSUME NEW i \in 0..n + 1 PROVE h[i] = IF i = 0 THEN b ELSE SpawnFromElectric(h[i - 1], q[i])
      <4>1. CASE i = n + 1
        <5>1. i # 0 /\ i - 1 = n /\ h[i - 1] = f[n]
          BY <3>2, <4>1
        <5> HIDE DEF h
        <5> QED
          BY <3>2, <4>1, <5>1
      <4>2. CASE i # n + 1
        <5>1. i \in 0..n /\ (i # 0 => i - 1 \in 0..n)
          BY <4>2
        <5>2. h[i] = f[i] /\ (i # 0 => h[i - 1] = f[i - 1])
          BY <3>2, <5>1
        <5>3. f[i] = IF i = 0 THEN b ELSE SpawnFromElectric(f[i - 1], q[i])
          BY <3>1, <5>1
        <5> HIDE DEF h
        <5> QED
          BY <5>2, <5>3
      <4> QED
        BY <4>1, <4>2
    <3>4. h = steps(h, n + 1)
      <4> HIDE DEF y
      <4>1. DOMAIN h = 0..n + 1 /\ h = [i \in 0..n + 1 |-> h[i]]
        OBVIOUS
      <4> HIDE DEF h
      <4> QED
        BY <3>3, <4>1
    <3>5. \E d : d = steps(d, n + 1)
      <4> HIDE DEF steps, h
      <4> QED
        BY <3>4
    <3> HIDE DEF steps
    <3> QED
      BY <3>5
  <2>3. \A n \in Nat : n \in U
    <3> HIDE DEF U
    <3> QED
      BY <2>1, <2>2, Reached
  <2> QED
    BY <1>1, <2>3
<1> DEFINE h == CHOOSE f : f = steps(f, Len(q))
<1>3. h = steps(h, Len(q))
  <2> HIDE DEF steps
  <2> QED
    BY <1>2
<1>4. Spawns(b, q) = h[Len(q)]
  BY DEF Fold, Spawns
<1> HIDE DEF h
<1>5. h[0] = b
  BY <1>1, <1>3
<1>6. ASSUME NEW i \in 1..Len(q) PROVE h[i] = SpawnFromElectric(h[i - 1], q[i])
  <2>1. i \in 0..Len(q) /\ i # 0
    BY <1>1
  <2> QED
    BY <1>3, <2>1
<1> QED
  BY <1>4, <1>5, <1>6

(* Objects burst one after another. *)
BurstsOf(b, q) == Fold(Burst, b, q)

(* Objects burst one after another. *)
LEMMA BurstRun ==
  ASSUME NEW b, NEW S, NEW q \in Seq(S)
  PROVE  \E h : /\ h[0] = b
                /\ \A i \in 1..Len(q) : h[i] = Burst(h[i - 1], q[i])
                /\ BurstsOf(b, q) = h[Len(q)]
<1> DEFINE steps(f, n) == [i \in 0..n |-> IF i = 0 THEN b ELSE Burst(f[i - 1], q[i])]
<1>1. Len(q) \in Nat
  BY LenProperties
<1>2. \E f : f = steps(f, Len(q))
  <2> DEFINE U == {n \in Nat : \E f : f = steps(f, n)}
  <2>1. 0 \in U
    <3> DEFINE f == [i \in 0..0 |-> b]
    <3>1. \A i \in 0..0 : i = 0
      OBVIOUS
    <3>2. f = steps(f, 0)
      BY <3>1
    <3>3. \E d : d = steps(d, 0)
      <4> HIDE DEF steps, f
      <4> QED
        BY <3>2
    <3> HIDE DEF steps
    <3> QED
      BY <3>3
  <2>2. ASSUME NEW n \in Nat, n \in U PROVE n + 1 \in U
    <3>1. PICK f : f = steps(f, n)
      BY <2>2
    <3> DEFINE y == Burst(f[n], q[n + 1])
    <3> DEFINE h == [i \in 0..n + 1 |-> IF i = n + 1 THEN y ELSE f[i]]
    <3>2. h[n + 1] = y /\ \A i \in 0..n : h[i] = f[i]
      OBVIOUS
    <3>3. ASSUME NEW i \in 0..n + 1 PROVE h[i] = IF i = 0 THEN b ELSE Burst(h[i - 1], q[i])
      <4>1. CASE i = n + 1
        <5>1. i # 0 /\ i - 1 = n /\ h[i - 1] = f[n]
          BY <3>2, <4>1
        <5> HIDE DEF h
        <5> QED
          BY <3>2, <4>1, <5>1
      <4>2. CASE i # n + 1
        <5>1. i \in 0..n /\ (i # 0 => i - 1 \in 0..n)
          BY <4>2
        <5>2. h[i] = f[i] /\ (i # 0 => h[i - 1] = f[i - 1])
          BY <3>2, <5>1
        <5>3. f[i] = IF i = 0 THEN b ELSE Burst(f[i - 1], q[i])
          BY <3>1, <5>1
        <5> HIDE DEF h
        <5> QED
          BY <5>2, <5>3
      <4> QED
        BY <4>1, <4>2
    <3>4. h = steps(h, n + 1)
      <4> HIDE DEF y
      <4>1. DOMAIN h = 0..n + 1 /\ h = [i \in 0..n + 1 |-> h[i]]
        OBVIOUS
      <4> HIDE DEF h
      <4> QED
        BY <3>3, <4>1
    <3>5. \E d : d = steps(d, n + 1)
      <4> HIDE DEF steps, h
      <4> QED
        BY <3>4
    <3> HIDE DEF steps
    <3> QED
      BY <3>5
  <2>3. \A n \in Nat : n \in U
    <3> HIDE DEF U
    <3> QED
      BY <2>1, <2>2, Reached
  <2> QED
    BY <1>1, <2>3
<1> DEFINE h == CHOOSE f : f = steps(f, Len(q))
<1>3. h = steps(h, Len(q))
  <2> HIDE DEF steps
  <2> QED
    BY <1>2
<1>4. BurstsOf(b, q) = h[Len(q)]
  BY DEF Fold, BurstsOf
<1> HIDE DEF h
<1>5. h[0] = b
  BY <1>1, <1>3
<1>6. ASSUME NEW i \in 1..Len(q) PROVE h[i] = Burst(h[i - 1], q[i])
  <2>1. i \in 0..Len(q) /\ i # 0
    BY <1>1
  <2> QED
    BY <1>3, <2>1
<1> QED
  BY <1>4, <1>5, <1>6

------------------------------------------------------------------------------
(* Sequences: what is kept of one, and its newest.                              *)

(* o is what lies in T of the first n of q, and g says where it comes from. *)
Picks(o, q, T, n, g) ==
  /\ g \in [1..Len(o) -> 1..n] /\ Len(o) <= n
  /\ \A j \in 1..Len(o) : o[j] = q[g[j]] /\ o[j] \in T
  /\ \A i, j \in 1..Len(o) : i < j => g[i] < g[j]
  /\ \A i \in 1..n : q[i] \in T => \E j \in 1..Len(o) : g[j] = i

(* What is kept comes from the sequence, in its order, and nothing is missing. *)
LEMMA OnlyPicks ==
  ASSUME NEW S, NEW q \in Seq(S), NEW T
  PROVE  Only(q, T) \in Seq(S) /\ \E g : Picks(Only(q, T), q, T, Len(q), g)
<1>1. PICK h : /\ h[0] = << >>
               /\ \A i \in 1..Len(q) : h[i] = (IF q[i] \in T THEN Append(h[i - 1], q[i]) ELSE h[i - 1])
               /\ Only(q, T) = h[Len(q)]
  BY OnlyRun
<1>2. Len(q) \in Nat /\ \A i \in 1..Len(q) : q[i] \in S
  BY LenProperties, ElementOfSeq
<1> DEFINE U == {n \in Nat : h[n] \in Seq(S) /\ \E g : Picks(h[n], q, T, n, g)}
<1>3. 0 \in U
  <2> DEFINE g == [j \in 1..0 |-> j]
  <2>1. h[0] \in Seq(S) /\ Len(h[0]) = 0 /\ 1..0 = {}
    BY <1>1, EmptySeq
  <2>2. Picks(h[0], q, T, 0, g)
    BY <2>1 DEF Picks
  <2> HIDE DEF g
  <2> QED
    BY <2>1, <2>2
<1>4. ASSUME NEW n \in 0..Len(q), n # Len(q), n \in U PROVE n + 1 \in U
  <2>1. n + 1 \in 1..Len(q) /\ n + 1 - 1 = n /\ n \in Nat /\ n + 1 \in Nat
    BY <1>2, <1>4
  <2>2. PICK g : Picks(h[n], q, T, n, g)
    BY <1>4
  <2>3. h[n] \in Seq(S) /\ q[n + 1] \in S /\ Len(h[n]) \in Nat
    BY <1>2, <1>4, <2>1, LenProperties
  <2>4. h[n + 1] = IF q[n + 1] \in T THEN Append(h[n], q[n + 1]) ELSE h[n]
    BY <1>1, <2>1
  <2>5. CASE q[n + 1] \in T
    <3> DEFINE o == Append(h[n], q[n + 1])
    <3> DEFINE f == [j \in 1..Len(h[n]) + 1 |-> IF j = Len(h[n]) + 1 THEN n + 1 ELSE g[j]]
    <3>1. /\ o \in Seq(S) /\ Len(o) = Len(h[n]) + 1 /\ o[Len(h[n]) + 1] = q[n + 1]
          /\ \A j \in 1..Len(h[n]) : o[j] = h[n][j]
      BY <2>3, AppendProperties
    <3>2. f[Len(h[n]) + 1] = n + 1 /\ \A j \in 1..Len(h[n]) : f[j] = g[j]
      BY <2>3
    <3>3. f \in [1..Len(o) -> 1..n + 1] /\ Len(o) <= n + 1
      BY <2>1, <2>2, <2>3, <3>1 DEF Picks
    <3> HIDE DEF f, o
    <3>4. ASSUME NEW j \in 1..Len(o) PROVE o[j] = q[f[j]] /\ o[j] \in T
      <4>1. CASE j = Len(h[n]) + 1
        BY <2>5, <3>1, <3>2, <4>1
      <4>2. CASE j # Len(h[n]) + 1
        <5>1. j \in 1..Len(h[n])
          BY <2>3, <3>1, <4>2
        <5>2. h[n][j] = q[g[j]] /\ h[n][j] \in T
          BY <2>2, <5>1 DEF Picks
        <5> QED
          BY <3>1, <3>2, <5>1, <5>2
      <4> QED
        BY <4>1, <4>2
    <3>5. ASSUME NEW i \in 1..Len(o), NEW j \in 1..Len(o), i < j PROVE f[i] < f[j]
      <4>1. i \in 1..Len(h[n]) /\ f[i] = g[i] /\ g[i] \in 1..n
        <5>1. i \in 1..Len(h[n])
          BY <2>3, <3>1, <3>5
        <5> QED
          BY <2>2, <3>2, <5>1 DEF Picks
      <4>2. CASE j = Len(h[n]) + 1
        BY <2>1, <3>2, <4>1, <4>2
      <4>3. CASE j # Len(h[n]) + 1
        <5>1. j \in 1..Len(h[n])
          BY <2>3, <3>1, <4>3
        <5> QED
          BY <2>2, <3>2, <3>5, <4>1, <5>1 DEF Picks
      <4> QED
        BY <4>2, <4>3
    <3>6. ASSUME NEW i \in 1..n + 1, q[i] \in T PROVE \E j \in 1..Len(o) : f[j] = i
      <4>1. CASE i = n + 1
        BY <2>3, <3>1, <3>2, <4>1
      <4>2. CASE i # n + 1
        <5>1. i \in 1..n
          BY <2>1, <4>2
        <5>2. PICK j \in 1..Len(h[n]) : g[j] = i
          BY <2>2, <3>6, <5>1 DEF Picks
        <5> QED
          BY <2>3, <3>1, <3>2, <5>2
      <4> QED
        BY <4>1, <4>2
    <3>7. Picks(o, q, T, n + 1, f)
      BY <3>3, <3>4, <3>5, <3>6 DEF Picks
    <3>8. h[n + 1] = o
      BY <2>4, <2>5 DEF o
    <3> QED
      BY <2>1, <3>1, <3>7, <3>8
  <2>6. CASE q[n + 1] \notin T
    <3>1. g \in [1..Len(h[n]) -> 1..n + 1] /\ Len(h[n]) <= n + 1
      BY <2>1, <2>2, <2>3 DEF Picks
    <3>2. \A i \in 1..n + 1 : q[i] \in T => i \in 1..n
      BY <2>1, <2>6
    <3>3. Picks(h[n], q, T, n + 1, g)
      BY <2>2, <3>1, <3>2 DEF Picks
    <3> QED
      BY <2>1, <2>3, <2>4, <2>6, <3>3
  <2> QED
    BY <2>5, <2>6
<1>5. Len(q) \in U
  <2>1. \A n \in 0..Len(q) : n \in U
    <3> HIDE DEF U
    <3> QED
      BY <1>2, <1>3, <1>4, Upward
  <2> QED
    BY <1>2, <2>1
<1> QED
  BY <1>1, <1>5

(* The newest of a sequence are its last. *)
LEMMA NewestLast ==
  ASSUME NEW S, NEW s \in Seq(S), NEW n \in Nat
  PROVE  /\ Newest(s, n) \in Seq(S) /\ Len(Newest(s, n)) \in Nat /\ Len(Newest(s, n)) <= n
         /\ Len(s) \in Nat /\ Len(Newest(s, n)) <= Len(s)
         /\ \A i \in 1..Len(Newest(s, n)) : /\ i + (Len(s) - Len(Newest(s, n))) \in 1..Len(s)
                                            /\ Newest(s, n)[i] = s[i + (Len(s) - Len(Newest(s, n)))]
<1>1. Len(s) \in Nat /\ \A i \in 1..Len(s) : s[i] \in S
  BY LenProperties, ElementOfSeq
<1>2. CASE Len(s) > n
  <2> DEFINE m == Len(s) - n + 1
  <2> DEFINE t == SubSeq(s, m, Len(s))
  <2>1. m \in Int /\ m >= 1 /\ m <= Len(s) + 1 /\ \A i \in m..Len(s) : s[i] \in S
    BY <1>1, <1>2
  <2>2. /\ t \in Seq(S) /\ Len(t) = (IF m <= Len(s) THEN Len(s) - m + 1 ELSE 0)
        /\ \A i \in 1..Len(s) - m + 1 : t[i] = s[m + i - 1]
    <3> HIDE DEF m
    <3> QED
      BY <1>1, <2>1, SubSeqProperties
  <2>3. Newest(s, n) = t
    BY <1>2 DEF Newest
  <2> HIDE DEF t
  <2>4. Len(t) = n /\ \A i \in 1..n : t[i] = s[i + (Len(s) - n)]
    BY <1>1, <1>2, <2>1, <2>2
  <2> QED
    BY <1>1, <1>2, <2>2, <2>3, <2>4
<1>3. CASE ~(Len(s) > n)
  BY <1>1, <1>3 DEF Newest
<1> QED
  BY <1>2, <1>3

------------------------------------------------------------------------------
(* What a message does to the authority.                                        *)

(* A message of the server has a kind, and what belongs to it. *)
LEMMA MessageTyped ==
  ASSUME NEW m \in Messages
  PROVE  /\ m.kind \in {"field", "destroyed", "object", "chunk"}
         /\ m.kind = "field" => m.region \in Regions /\ IsField(m.field) /\ m.field \in FieldsTold
         /\ m.kind = "destroyed" => m.region \in Regions
         /\ m.kind = "object" => m.chunks \in Seq(Int)
         /\ m.kind = "chunk" => m.chunk \in Chunks
  BY FieldAssumption DEF FieldsTold

(* The fields of an authority. *)
LEMMA AppDomain ==
  DOMAIN EmptyApp = {"held", "remesh", "objects", "regions", "dirty", "glowDirty", "logicDirty",
                     "electric", "discharges", "destroyed", "bursts"}
  BY DEF EmptyApp

(* The marks of a region. *)
LEMMA MarkFieldIs ==
  ASSUME NEW a, DOMAIN a = DOMAIN EmptyApp, NEW r
  PROVE  /\ DOMAIN MarkField(a, r) = DOMAIN EmptyApp
         /\ MarkField(a, r).held = a.held /\ MarkField(a, r).remesh = a.remesh
         /\ MarkField(a, r).objects = a.objects /\ MarkField(a, r).regions = a.regions
         /\ MarkField(a, r).dirty = a.dirty \cup {r} /\ MarkField(a, r).glowDirty = a.glowDirty \cup {r}
         /\ MarkField(a, r).logicDirty = a.logicDirty \cup {ChunkOf[r]}
         /\ MarkField(a, r).electric = a.electric /\ MarkField(a, r).discharges = a.discharges
         /\ MarkField(a, r).destroyed = a.destroyed /\ MarkField(a, r).bursts = a.bursts
  BY AppDomain DEF MarkField

(* x is b, but for more chunks to draw. *)
Beside(x, b) ==
  /\ DOMAIN x = DOMAIN EmptyApp
  /\ x.held = b.held /\ x.objects = b.objects /\ x.regions = b.regions
  /\ x.dirty = b.dirty /\ x.glowDirty = b.glowDirty /\ x.logicDirty = b.logicDirty
  /\ x.electric = b.electric /\ x.discharges = b.discharges
  /\ x.destroyed = b.destroyed /\ x.bursts = b.bursts
  /\ b.remesh \subseteq x.remesh

(* New light of a region marks its chunk, and nothing else. *)
LEMMA RelitIs ==
  ASSUME NEW a, NEW b, DOMAIN b = DOMAIN EmptyApp, NEW r
  PROVE  /\ Beside(Relit(a, b, r), b)
         /\ LightOf(a, r) # LightOf(b, r) /\ ChunkOf[r] \in DOMAIN b.held => ChunkOf[r] \in Relit(a, b, r).remesh
         /\ Relit(a, b, r).remesh \subseteq b.remesh \cup {ChunkOf[r]}
  BY AppDomain DEF Relit, MarkDirty, Loaded, Beside

(* x is a once a region is told. *)
Told(a, x, m) ==
  /\ DOMAIN x = DOMAIN EmptyApp
  /\ x.held = a.held
  /\ x.regions = Put(a.regions, m.region, m.field)
  /\ x.dirty = a.dirty \cup {m.region}
  /\ x.glowDirty = a.glowDirty \cup {m.region}
  /\ x.logicDirty = a.logicDirty \cup {ChunkOf[m.region]}
  /\ x.electric = (IF Has(m.field, "potential") \/ Has(m.field, "current")
                               THEN Append(a.electric, [region |-> m.region, field |-> m.field])
                               ELSE a.electric)
  /\ x.discharges = (IF Has(m.field, "ionization")
                                 THEN Append(a.discharges, [region |-> m.region, field |-> m.field])
                                 ELSE a.discharges)
  /\ x.destroyed = a.destroyed /\ x.bursts = a.bursts
  /\ a.remesh \subseteq x.remesh
  /\ LightOf(a, m.region) # LightOf(x, m.region) /\ ChunkOf[m.region] \in DOMAIN a.held
       => ChunkOf[m.region] \in x.remesh
  /\ x.remesh \subseteq a.remesh \cup {ChunkOf[m.region]}

(* A region is told. *)
LEMMA FieldIs ==
  ASSUME NEW a, DOMAIN a = DOMAIN EmptyApp, NEW m
  PROVE  Told(a, OnField(a, m), m)
<1> DEFINE event == [region |-> m.region, field |-> m.field]
<1> DEFINE c == MarkField(a, m.region)
<1> DEFINE electric == IF Has(m.field, "potential") \/ Has(m.field, "current")
                       THEN Append(c.electric, event) ELSE c.electric
<1> DEFINE discharges == IF Has(m.field, "ionization") THEN Append(c.discharges, event) ELSE c.discharges
<1> DEFINE regions == Put(c.regions, m.region, m.field)
<1> DEFINE b == [c EXCEPT !.regions = regions, !.electric = electric, !.discharges = discharges]
<1>1. OnField(a, m) = Relit(a, b, m.region)
  BY DEF OnField
<1>2. /\ DOMAIN c = DOMAIN EmptyApp /\ c.held = a.held /\ c.remesh = a.remesh /\ c.regions = a.regions
      /\ c.dirty = a.dirty \cup {m.region} /\ c.glowDirty = a.glowDirty \cup {m.region}
      /\ c.logicDirty = a.logicDirty \cup {ChunkOf[m.region]}
      /\ c.electric = a.electric /\ c.discharges = a.discharges
      /\ c.destroyed = a.destroyed /\ c.bursts = a.bursts
  <2> HIDE DEF c
  <2> QED
    BY MarkFieldIs DEF c
<1> HIDE DEF c
<1>3. /\ DOMAIN b = DOMAIN EmptyApp /\ b.held = c.held /\ b.remesh = c.remesh /\ b.regions = regions
      /\ b.dirty = c.dirty /\ b.glowDirty = c.glowDirty /\ b.logicDirty = c.logicDirty
      /\ b.electric = electric /\ b.discharges = discharges
      /\ b.destroyed = c.destroyed /\ b.bursts = c.bursts
  <2> HIDE DEF electric, discharges, regions
  <2> QED
    BY <1>2, AppDomain
<1>4. /\ electric = (IF Has(m.field, "potential") \/ Has(m.field, "current") THEN Append(a.electric, event) ELSE a.electric)
      /\ discharges = (IF Has(m.field, "ionization") THEN Append(a.discharges, event) ELSE a.discharges)
      /\ regions = Put(a.regions, m.region, m.field)
  BY <1>2
<1> HIDE DEF b, electric, discharges, regions
<1> DEFINE x == Relit(a, b, m.region)
<1>5. /\ Beside(x, b)
      /\ LightOf(a, m.region) # LightOf(b, m.region) /\ ChunkOf[m.region] \in DOMAIN b.held
           => ChunkOf[m.region] \in x.remesh
      /\ x.remesh \subseteq b.remesh \cup {ChunkOf[m.region]}
  <2>1. DOMAIN b = DOMAIN EmptyApp
    BY <1>3
  <2> QED
    BY <2>1, RelitIs
<1> HIDE DEF x
<1>6. LightOf(x, m.region) = LightOf(b, m.region)
  BY <1>5 DEF LightOf, Beside
<1>7. OnField(a, m) = x
  BY <1>1 DEF x
<1> QED
  BY <1>2, <1>3, <1>4, <1>5, <1>6, <1>7 DEF Beside, Told

(* x is a once a region has ended. *)
Ended(a, x, m) ==
  /\ DOMAIN x = DOMAIN EmptyApp
  /\ x.held = a.held
  /\ x.regions = Drop(a.regions, m.region)
  /\ x.dirty = a.dirty \cup {m.region}
  /\ x.glowDirty = a.glowDirty \cup {m.region}
  /\ x.logicDirty = a.logicDirty \cup {ChunkOf[m.region]}
  /\ x.electric = a.electric /\ x.discharges = a.discharges
  /\ x.destroyed = Append(a.destroyed, m.region)
  /\ x.bursts = a.bursts
  /\ a.remesh \subseteq x.remesh
  /\ LightOf(a, m.region) # LightOf(x, m.region) /\ ChunkOf[m.region] \in DOMAIN a.held
       => ChunkOf[m.region] \in x.remesh
  /\ x.remesh \subseteq a.remesh \cup {ChunkOf[m.region]}

(* A region ends. *)
LEMMA DestroyedIs ==
  ASSUME NEW a, DOMAIN a = DOMAIN EmptyApp, NEW m
  PROVE  Ended(a, OnDestroyed(a, m), m)
<1> DEFINE c == MarkField(a, m.region)
<1> DEFINE gone == Append(c.destroyed, m.region)
<1> DEFINE regions == Drop(c.regions, m.region)
<1> DEFINE b == [c EXCEPT !.regions = regions, !.destroyed = gone]
<1>1. OnDestroyed(a, m) = Relit(a, b, m.region)
  BY DEF OnDestroyed
<1>2. /\ DOMAIN c = DOMAIN EmptyApp /\ c.held = a.held /\ c.remesh = a.remesh /\ c.regions = a.regions
      /\ c.dirty = a.dirty \cup {m.region} /\ c.glowDirty = a.glowDirty \cup {m.region}
      /\ c.logicDirty = a.logicDirty \cup {ChunkOf[m.region]}
      /\ c.electric = a.electric /\ c.discharges = a.discharges
      /\ c.destroyed = a.destroyed /\ c.bursts = a.bursts
  <2> HIDE DEF c
  <2> QED
    BY MarkFieldIs DEF c
<1> HIDE DEF c
<1>3. /\ DOMAIN b = DOMAIN EmptyApp /\ b.held = c.held /\ b.remesh = c.remesh /\ b.regions = regions
      /\ b.dirty = c.dirty /\ b.glowDirty = c.glowDirty /\ b.logicDirty = c.logicDirty
      /\ b.electric = c.electric /\ b.discharges = c.discharges
      /\ b.destroyed = gone /\ b.bursts = c.bursts
  <2> HIDE DEF gone, regions
  <2> QED
    BY <1>2, AppDomain
<1>4. gone = Append(a.destroyed, m.region) /\ regions = Drop(a.regions, m.region)
  BY <1>2
<1> HIDE DEF b, gone, regions
<1> DEFINE x == Relit(a, b, m.region)
<1>5. /\ Beside(x, b)
      /\ LightOf(a, m.region) # LightOf(b, m.region) /\ ChunkOf[m.region] \in DOMAIN b.held
           => ChunkOf[m.region] \in x.remesh
      /\ x.remesh \subseteq b.remesh \cup {ChunkOf[m.region]}
  <2>1. DOMAIN b = DOMAIN EmptyApp
    BY <1>3
  <2> QED
    BY <2>1, RelitIs
<1> HIDE DEF x
<1>6. LightOf(x, m.region) = LightOf(b, m.region)
  BY <1>5 DEF LightOf, Beside
<1>7. OnDestroyed(a, m) = x
  BY <1>1 DEF x
<1> QED
  BY <1>2, <1>3, <1>4, <1>5, <1>6, <1>7 DEF Beside, Ended

(* x has the fields and the marks of a. *)
FieldsOf(x, a) ==
  /\ DOMAIN x = DOMAIN EmptyApp /\ x.regions = a.regions /\ x.dirty = a.dirty /\ x.glowDirty = a.glowDirty
  /\ x.logicDirty = a.logicDirty /\ x.electric = a.electric
  /\ x.discharges = a.discharges /\ x.destroyed = a.destroyed

(* An object's state leaves the fields alone. *)
LEMMA ObjectIs ==
  ASSUME NEW a, DOMAIN a = DOMAIN EmptyApp, NEW m
  PROVE  /\ FieldsOf(OnObject(a, m), a)
         /\ OnObject(a, m).held = a.held /\ a.remesh \subseteq OnObject(a, m).remesh
         /\ OnObject(a, m).remesh \subseteq a.remesh \cup Range(m.chunks)
         /\ \/ OnObject(a, m).bursts = a.bursts
            \/ OnObject(a, m).bursts = Append(a.bursts, [flags |-> m.flags, chunks |-> m.chunks])
<1>1. CASE m.object \in DOMAIN a.objects /\ a.objects[m.object] >= m.version
  BY <1>1, AppDomain DEF OnObject, FieldsOf
<1>2. CASE ~(m.object \in DOMAIN a.objects /\ a.objects[m.object] >= m.version)
  BY <1>2, AppDomain DEF OnObject, FieldsOf
<1> QED
  BY <1>1, <1>2

(* So does the truth of a chunk. *)
LEMMA ChunkIs ==
  ASSUME NEW a, DOMAIN a = DOMAIN EmptyApp, NEW m
  PROVE  /\ FieldsOf(OnChunk(a, m), a)
         /\ OnChunk(a, m).held = (IF m.content = Gone THEN Drop(a.held, m.chunk)
                                  ELSE Put(a.held, m.chunk, m.content))
         /\ OnChunk(a, m).remesh = a.remesh \cup {m.chunk}
         /\ OnChunk(a, m).bursts = a.bursts
  BY AppDomain DEF OnChunk, FieldsOf

(* A region, or a chunk, is the same in a and in x. *)
SameRegion(a, x, r) ==
  /\ r \in DOMAIN a.regions <=> r \in DOMAIN x.regions
  /\ r \in DOMAIN a.regions => x.regions[r] = a.regions[r]
SameChunk(a, x, k) ==
  /\ k \in DOMAIN a.held <=> k \in DOMAIN x.held
  /\ k \in DOMAIN a.held => x.held[k] = a.held[k]

(* x comes from a: what it does not mark is as it was. *)
Follows(a, x) ==
  /\ a.dirty \subseteq x.dirty /\ a.glowDirty \subseteq x.glowDirty
  /\ a.logicDirty \subseteq x.logicDirty /\ a.remesh \subseteq x.remesh
  /\ \A r \in Regions : r \notin x.dirty \/ r \notin x.glowDirty \/ ChunkOf[r] \notin x.logicDirty
                          => SameRegion(a, x, r)
  /\ \A k \in Int : k \notin x.remesh => SameChunk(a, x, k)
  /\ \A r \in Regions : ChunkOf[r] \notin x.remesh /\ ChunkOf[r] \in DOMAIN x.held => LightOf(x, r) = LightOf(a, r)

(* One after another. *)
LEMMA FollowsOn ==
  ASSUME NEW a, NEW x, NEW y, Follows(a, x), Follows(x, y)
  PROVE  Follows(a, y)
<1>1. ASSUME NEW r \in Regions, r \notin y.dirty \/ r \notin y.glowDirty \/ ChunkOf[r] \notin y.logicDirty
      PROVE  SameRegion(a, y, r)
  BY <1>1 DEF Follows, SameRegion
<1>2. ASSUME NEW k \in Int, k \notin y.remesh PROVE SameChunk(a, y, k)
  BY <1>2 DEF Follows, SameChunk
<1>3. ASSUME NEW r \in Regions, ChunkOf[r] \notin y.remesh, ChunkOf[r] \in DOMAIN y.held
      PROVE  LightOf(y, r) = LightOf(a, r)
  <2>1. ChunkOf[r] \in Int
    BY FieldAssumption
  <2>2. ChunkOf[r] \notin x.remesh /\ SameChunk(x, y, ChunkOf[r])
    BY <1>3, <2>1 DEF Follows
  <2>3. ChunkOf[r] \in DOMAIN x.held
    BY <1>3, <2>2 DEF SameChunk
  <2> QED
    BY <1>3, <2>2, <2>3 DEF Follows
<1>4. /\ a.dirty \subseteq y.dirty /\ a.glowDirty \subseteq y.glowDirty
      /\ a.logicDirty \subseteq y.logicDirty /\ a.remesh \subseteq y.remesh
  BY DEF Follows
<1> QED
  BY <1>1, <1>2, <1>3, <1>4 DEF Follows

(* What it has to say of a message, besides. *)
Heeds(a, x, m) ==
  /\ AppOK(x) /\ Follows(a, x)
  /\ \A k \in Chunks : (m.kind = "chunk" => m.chunk # k) => SameChunk(a, x, k)
  /\ x.electric = (IF Electric(m) THEN Append(a.electric, [region |-> m.region, field |-> m.field]) ELSE a.electric)
  /\ x.destroyed = (IF m.kind = "destroyed" THEN Append(a.destroyed, m.region) ELSE a.destroyed)

(* Marks stay finite when one more is set. *)
LEMMA MarkOne ==
  ASSUME NEW s, IsFiniteSet(s), s \subseteq Int, NEW k \in Int, NEW t, t \subseteq s \cup {k}
  PROVE  t \subseteq Int /\ IsFiniteSet(t)
<1>1. IsFiniteSet(s \cup {k})
  BY FS_AddElement
<1> QED
  BY <1>1, FS_Subset

(* Or those of a sequence. *)
LEMMA MarkMany ==
  ASSUME NEW s, IsFiniteSet(s), s \subseteq Int, NEW q \in Seq(Int), NEW t, t \subseteq s \cup Range(q)
  PROVE  t \subseteq Int /\ IsFiniteSet(t)
<1>1. Len(q) \in Nat /\ DOMAIN q = 1..Len(q) /\ \A i \in 1..Len(q) : q[i] \in Int
  BY LenProperties, ElementOfSeq
<1>2. Range(q) \subseteq Int
  BY <1>1 DEF Range
<1>3. IsFiniteSet(Range(q))
  <2>1. q \in Surjection(1..Len(q), Range(q))
    <3>1. q \in [1..Len(q) -> Range(q)]
      BY <1>1 DEF Range
    <3> QED
      BY <1>1, <3>1 DEF Surjection, Range
  <2> QED
    BY <1>1, <2>1, FS_NatSurjection DEF ExistsSurjection
<1>4. IsFiniteSet(s \cup Range(q))
  BY <1>3, FS_Union
<1> QED
  BY <1>2, <1>4, FS_Subset

(* A region is told. *)
LEMMA FieldHeeds ==
  ASSUME NEW a, AppOK(a), NEW m \in Messages, m.kind = "field"
  PROVE  Heeds(a, OnField(a, m), m)
<1> DEFINE x == OnField(a, m)
<1>d. DOMAIN a = DOMAIN EmptyApp
  BY DEF AppOK
<1>0. Told(a, x, m)
  BY <1>d, FieldIs
<1> HIDE DEF x
<1>1. m.region \in Regions /\ IsField(m.field) /\ m.field \in FieldsTold /\ ChunkOf[m.region] \in Chunks
  BY MessageTyped, FieldAssumption
<1> DEFINE event == [region |-> m.region, field |-> m.field]
<1>2. /\ DOMAIN x = DOMAIN EmptyApp /\ x.held = a.held
      /\ x.regions = Put(a.regions, m.region, m.field)
      /\ x.dirty = a.dirty \cup {m.region} /\ x.glowDirty = a.glowDirty \cup {m.region}
      /\ x.logicDirty = a.logicDirty \cup {ChunkOf[m.region]}
  BY <1>0 DEF Told
<1>3. /\ x.electric = (IF Has(m.field, "potential") \/ Has(m.field, "current")
                       THEN Append(a.electric, event) ELSE a.electric)
      /\ x.discharges = (IF Has(m.field, "ionization") THEN Append(a.discharges, event) ELSE a.discharges)
      /\ x.destroyed = a.destroyed /\ x.bursts = a.bursts
  BY <1>0 DEF Told
<1>4. /\ a.remesh \subseteq x.remesh
      /\ LightOf(a, m.region) # LightOf(x, m.region) /\ ChunkOf[m.region] \in DOMAIN a.held
           => ChunkOf[m.region] \in x.remesh
      /\ x.remesh \subseteq a.remesh \cup {ChunkOf[m.region]}
  BY <1>0 DEF Told
<1>r. x.remesh \subseteq Int /\ IsFiniteSet(x.remesh)
  <2>1. ChunkOf[m.region] \in Int /\ a.remesh \subseteq Int /\ IsFiniteSet(a.remesh)
    BY <1>1, FieldAssumption DEF AppOK
  <2> QED
    BY <1>4, <2>1, MarkOne
<1>5. event \in Events /\ event.field = m.field
  BY <1>1 DEF Events
<1> HIDE DEF event
<1>6. AppOK(x)
  <2>1. /\ DOMAIN x.held \subseteq Chunks
        /\ DOMAIN x.regions \subseteq Regions /\ \A r \in DOMAIN x.regions : IsField(x.regions[r])
        /\ x.dirty \subseteq Regions /\ x.glowDirty \subseteq Regions /\ x.logicDirty \subseteq Chunks
    BY <1>1, <1>2 DEF AppOK, Put
  <2>2. x.electric \in Seq(Events) /\ x.discharges \in Seq(Events)
    BY <1>3, <1>5, AppendProperties DEF AppOK
  <2>3. \A i \in DOMAIN x.discharges : Has(x.discharges[i].field, "ionization")
    <3>1. CASE ~Has(m.field, "ionization")
      BY <1>3, <3>1 DEF AppOK
    <3>2. CASE Has(m.field, "ionization")
      <4>1. a.discharges \in Seq(Events) /\ \A i \in 1..Len(a.discharges) : Has(a.discharges[i].field, "ionization")
        BY LenProperties DEF AppOK
      <4>2. /\ x.discharges = Append(a.discharges, event) /\ Len(x.discharges) = Len(a.discharges) + 1
            /\ x.discharges[Len(a.discharges) + 1] = event
            /\ \A i \in 1..Len(a.discharges) : x.discharges[i] = a.discharges[i]
        BY <1>3, <1>5, <3>2, <4>1, AppendProperties
      <4>3. Len(a.discharges) \in Nat /\ DOMAIN x.discharges = 1..Len(a.discharges) + 1
        BY <2>2, <4>1, <4>2, LenProperties
      <4>4. ASSUME NEW i \in 1..Len(a.discharges) + 1 PROVE Has(x.discharges[i].field, "ionization")
        <5>1. CASE i = Len(a.discharges) + 1
          BY <1>5, <3>2, <4>2, <5>1
        <5>2. CASE i # Len(a.discharges) + 1
          <6>1. i \in 1..Len(a.discharges)
            BY <4>3, <5>2
          <6> QED
            BY <4>1, <4>2, <6>1
        <5> QED
          BY <5>1, <5>2
      <4> QED
        BY <4>3, <4>4
    <3> QED
      BY <3>1, <3>2
  <2> QED
    BY <1>2, <1>3, <1>r, <2>1, <2>2, <2>3 DEF AppOK
<1>7. Follows(a, x)
  <2>1. ASSUME NEW r \in Regions, r # m.region PROVE SameRegion(a, x, r) /\ LightOf(x, r) = LightOf(a, r)
    <3>1. r \in DOMAIN a.regions <=> r \in DOMAIN x.regions
      BY <1>2, <2>1 DEF Put
    <3>2. r \in DOMAIN a.regions => x.regions[r] = a.regions[r]
      BY <1>2, <2>1 DEF Put
    <3> QED
      BY <3>1, <3>2 DEF SameRegion, LightOf
  <2>2. m.region \in x.dirty /\ m.region \in x.glowDirty /\ ChunkOf[m.region] \in x.logicDirty
    BY <1>2
  <2>3. \A k \in Int : SameChunk(a, x, k)
    BY <1>2 DEF SameChunk
  <2> QED
    BY <1>2, <1>4, <2>1, <2>2, <2>3 DEF Follows
<1>8. Electric(m) <=> Has(m.field, "potential") \/ Has(m.field, "current")
  BY DEF Electric
<1> QED
  BY <1>2, <1>3, <1>6, <1>7, <1>8 DEF Heeds, event, x, SameChunk

(* A region ends. *)
LEMMA DestroyedHeeds ==
  ASSUME NEW a, AppOK(a), NEW m \in Messages, m.kind = "destroyed"
  PROVE  Heeds(a, OnDestroyed(a, m), m)
<1> DEFINE x == OnDestroyed(a, m)
<1>d. DOMAIN a = DOMAIN EmptyApp
  BY DEF AppOK
<1>0. Ended(a, x, m)
  BY <1>d, DestroyedIs
<1> HIDE DEF x
<1>1. m.region \in Regions /\ ChunkOf[m.region] \in Chunks
  BY MessageTyped, FieldAssumption
<1>2. /\ DOMAIN x = DOMAIN EmptyApp /\ x.held = a.held
      /\ x.regions = Drop(a.regions, m.region)
      /\ x.dirty = a.dirty \cup {m.region} /\ x.glowDirty = a.glowDirty \cup {m.region}
      /\ x.logicDirty = a.logicDirty \cup {ChunkOf[m.region]}
  BY <1>0 DEF Ended
<1>3. /\ x.electric = a.electric /\ x.discharges = a.discharges
      /\ x.destroyed = Append(a.destroyed, m.region) /\ x.bursts = a.bursts
  BY <1>0 DEF Ended
<1>4. /\ a.remesh \subseteq x.remesh
      /\ LightOf(a, m.region) # LightOf(x, m.region) /\ ChunkOf[m.region] \in DOMAIN a.held
           => ChunkOf[m.region] \in x.remesh
      /\ x.remesh \subseteq a.remesh \cup {ChunkOf[m.region]}
  BY <1>0 DEF Ended
<1>r. x.remesh \subseteq Int /\ IsFiniteSet(x.remesh)
  <2>1. ChunkOf[m.region] \in Int /\ a.remesh \subseteq Int /\ IsFiniteSet(a.remesh)
    BY <1>1, FieldAssumption DEF AppOK
  <2> QED
    BY <1>4, <2>1, MarkOne
<1>6. AppOK(x)
  <2>1. /\ DOMAIN x.held \subseteq Chunks
        /\ DOMAIN x.regions \subseteq Regions /\ \A r \in DOMAIN x.regions : IsField(x.regions[r])
        /\ x.dirty \subseteq Regions /\ x.glowDirty \subseteq Regions /\ x.logicDirty \subseteq Chunks
    BY <1>1, <1>2 DEF AppOK, Drop
  <2>2. x.destroyed \in Seq(Regions)
    BY <1>1, <1>3, AppendProperties DEF AppOK
  <2> QED
    BY <1>2, <1>3, <1>r, <2>1, <2>2 DEF AppOK
<1>7. Follows(a, x)
  <2>1. ASSUME NEW r \in Regions, r # m.region PROVE SameRegion(a, x, r) /\ LightOf(x, r) = LightOf(a, r)
    <3>1. r \in DOMAIN a.regions <=> r \in DOMAIN x.regions
      BY <1>2, <2>1 DEF Drop
    <3>2. r \in DOMAIN a.regions => x.regions[r] = a.regions[r]
      BY <1>2, <2>1 DEF Drop
    <3> QED
      BY <3>1, <3>2 DEF SameRegion, LightOf
  <2>2. m.region \in x.dirty /\ m.region \in x.glowDirty /\ ChunkOf[m.region] \in x.logicDirty
    BY <1>2
  <2>3. \A k \in Int : SameChunk(a, x, k)
    BY <1>2 DEF SameChunk
  <2> QED
    BY <1>2, <1>4, <2>1, <2>2, <2>3 DEF Follows
<1> QED
  BY <1>2, <1>3, <1>6, <1>7 DEF Heeds, Electric, x, SameChunk

(* An object changes. *)
LEMMA ObjectHeeds ==
  ASSUME NEW a, AppOK(a), NEW m \in Messages, m.kind = "object"
  PROVE  Heeds(a, OnObject(a, m), m)
<1> DEFINE x == OnObject(a, m)
<1>1. DOMAIN a = DOMAIN EmptyApp
  BY DEF AppOK
<1>2. /\ DOMAIN x = DOMAIN EmptyApp /\ x.held = a.held /\ a.remesh \subseteq x.remesh
      /\ x.remesh \subseteq a.remesh \cup Range(m.chunks)
      /\ \/ x.bursts = a.bursts
         \/ x.bursts = Append(a.bursts, [flags |-> m.flags, chunks |-> m.chunks])
      /\ x.regions = a.regions /\ x.dirty = a.dirty /\ x.glowDirty = a.glowDirty
      /\ x.logicDirty = a.logicDirty /\ x.electric = a.electric
      /\ x.discharges = a.discharges /\ x.destroyed = a.destroyed
  BY <1>1, ObjectIs DEF FieldsOf
<1> HIDE DEF x
<1>3. [flags |-> m.flags, chunks |-> m.chunks] \in Bursts
  BY DEF Bursts
<1>4. x.bursts \in Seq(Bursts)
  BY <1>2, <1>3, AppendProperties, ZenonT(60) DEF AppOK
<1>r. x.remesh \subseteq Int /\ IsFiniteSet(x.remesh)
  <2>1. m.chunks \in Seq(Int) /\ a.remesh \subseteq Int /\ IsFiniteSet(a.remesh)
    BY MessageTyped DEF AppOK
  <2> QED
    BY <1>2, <2>1, MarkMany
<1>5. AppOK(x)
  BY <1>2, <1>4, <1>r DEF AppOK
<1>6. Follows(a, x)
  BY <1>2 DEF Follows, SameRegion, SameChunk, LightOf
<1> QED
  BY <1>2, <1>5, <1>6 DEF Heeds, Electric, x, SameChunk

(* A chunk changes. *)
LEMMA ChunkHeeds ==
  ASSUME NEW a, AppOK(a), NEW m \in Messages, m.kind = "chunk"
  PROVE  Heeds(a, OnChunk(a, m), m)
<1> DEFINE x == OnChunk(a, m)
<1>1. DOMAIN a = DOMAIN EmptyApp /\ m.chunk \in Chunks
  BY MessageTyped DEF AppOK
<1>2. /\ DOMAIN x = DOMAIN EmptyApp /\ x.bursts = a.bursts /\ x.remesh = a.remesh \cup {m.chunk}
      /\ x.held = (IF m.content = Gone THEN Drop(a.held, m.chunk) ELSE Put(a.held, m.chunk, m.content))
      /\ x.regions = a.regions /\ x.dirty = a.dirty /\ x.glowDirty = a.glowDirty
      /\ x.logicDirty = a.logicDirty /\ x.electric = a.electric
      /\ x.discharges = a.discharges /\ x.destroyed = a.destroyed
  BY <1>1, ChunkIs, ZenonT(60) DEF FieldsOf
<1> HIDE DEF x
<1>3. DOMAIN x.held \subseteq Chunks
  BY <1>1, <1>2 DEF AppOK, Put, Drop
<1>4. ASSUME NEW k, k # m.chunk PROVE SameChunk(a, x, k)
  <2>1. k \in DOMAIN a.held <=> k \in DOMAIN x.held
    BY <1>2, <1>4 DEF Put, Drop
  <2>2. k \in DOMAIN a.held => x.held[k] = a.held[k]
    BY <1>2, <1>4 DEF Put, Drop
  <2> QED
    BY <2>1, <2>2 DEF SameChunk
<1>r. x.remesh \subseteq Int /\ IsFiniteSet(x.remesh)
  <2>1. m.chunk \in Int /\ a.remesh \subseteq Int /\ IsFiniteSet(a.remesh)
    BY <1>1, FieldAssumption DEF AppOK
  <2> QED
    BY <1>2, <2>1, MarkOne
<1>5. AppOK(x)
  BY <1>2, <1>3, <1>r DEF AppOK
<1>6. Follows(a, x)
  BY <1>2, <1>4 DEF Follows, SameRegion, LightOf
<1> QED
  BY <1>2, <1>4, <1>5, <1>6 DEF Heeds, Electric, x

(* Each message is heeded. *)
LEMMA MessageHeeds ==
  ASSUME NEW a, AppOK(a), NEW m \in Messages
  PROVE  Heeds(a, OnMessage(a, m), m)
<1>1. CASE m.kind = "field"
  BY <1>1, FieldHeeds DEF OnMessage
<1>2. CASE m.kind = "destroyed"
  BY <1>2, DestroyedHeeds DEF OnMessage
<1>3. CASE m.kind = "object"
  BY <1>3, ObjectHeeds DEF OnMessage
<1>4. CASE m.kind = "chunk"
  BY <1>4, ChunkHeeds DEF OnMessage
<1> QED
  BY <1>1, <1>2, <1>3, <1>4, MessageTyped


------------------------------------------------------------------------------
(* The queue of chunks to draw.                                                 *)

(* Marked chunks are put into the queue one after another. *)
EnqueueAll(b, q) == Fold(EnqueueAround, b, q)

(* Marked chunks are put into the queue one after another. *)
LEMMA AroundRun ==
  ASSUME NEW b, NEW S, NEW q \in Seq(S)
  PROVE  \E h : /\ h[0] = b
                /\ \A i \in 1..Len(q) : h[i] = EnqueueAround(h[i - 1], q[i])
                /\ EnqueueAll(b, q) = h[Len(q)]
<1> DEFINE steps(f, n) == [i \in 0..n |-> IF i = 0 THEN b ELSE EnqueueAround(f[i - 1], q[i])]
<1>1. Len(q) \in Nat
  BY LenProperties
<1>2. \E f : f = steps(f, Len(q))
  <2> DEFINE U == {n \in Nat : \E f : f = steps(f, n)}
  <2>1. 0 \in U
    <3> DEFINE f == [i \in 0..0 |-> b]
    <3>1. \A i \in 0..0 : i = 0
      OBVIOUS
    <3>2. f = steps(f, 0)
      BY <3>1
    <3>3. \E d : d = steps(d, 0)
      <4> HIDE DEF steps, f
      <4> QED
        BY <3>2
    <3> HIDE DEF steps
    <3> QED
      BY <3>3
  <2>2. ASSUME NEW n \in Nat, n \in U PROVE n + 1 \in U
    <3>1. PICK f : f = steps(f, n)
      BY <2>2
    <3> DEFINE y == EnqueueAround(f[n], q[n + 1])
    <3> DEFINE h == [i \in 0..n + 1 |-> IF i = n + 1 THEN y ELSE f[i]]
    <3>2. h[n + 1] = y /\ \A i \in 0..n : h[i] = f[i]
      OBVIOUS
    <3>3. ASSUME NEW i \in 0..n + 1 PROVE h[i] = IF i = 0 THEN b ELSE EnqueueAround(h[i - 1], q[i])
      <4>1. CASE i = n + 1
        <5>1. i # 0 /\ i - 1 = n /\ h[i - 1] = f[n]
          BY <3>2, <4>1
        <5> HIDE DEF h
        <5> QED
          BY <3>2, <4>1, <5>1
      <4>2. CASE i # n + 1
        <5>1. i \in 0..n /\ (i # 0 => i - 1 \in 0..n)
          BY <4>2
        <5>2. h[i] = f[i] /\ (i # 0 => h[i - 1] = f[i - 1])
          BY <3>2, <5>1
        <5>3. f[i] = IF i = 0 THEN b ELSE EnqueueAround(f[i - 1], q[i])
          BY <3>1, <5>1
        <5> HIDE DEF h
        <5> QED
          BY <5>2, <5>3
      <4> QED
        BY <4>1, <4>2
    <3>4. h = steps(h, n + 1)
      <4> HIDE DEF y
      <4>1. DOMAIN h = 0..n + 1 /\ h = [i \in 0..n + 1 |-> h[i]]
        OBVIOUS
      <4> HIDE DEF h
      <4> QED
        BY <3>3, <4>1
    <3>5. \E d : d = steps(d, n + 1)
      <4> HIDE DEF steps, h
      <4> QED
        BY <3>4
    <3> HIDE DEF steps
    <3> QED
      BY <3>5
  <2>3. \A n \in Nat : n \in U
    <3> HIDE DEF U
    <3> QED
      BY <2>1, <2>2, Reached
  <2> QED
    BY <1>1, <2>3
<1> DEFINE h == CHOOSE f : f = steps(f, Len(q))
<1>3. h = steps(h, Len(q))
  <2> HIDE DEF steps
  <2> QED
    BY <1>2
<1>4. EnqueueAll(b, q) = h[Len(q)]
  BY DEF Fold, EnqueueAll
<1> HIDE DEF h
<1>5. h[0] = b
  BY <1>1, <1>3
<1>6. ASSUME NEW i \in 1..Len(q) PROVE h[i] = EnqueueAround(h[i - 1], q[i])
  <2>1. i \in 0..Len(q) /\ i # 0
    BY <1>1
  <2> QED
    BY <1>3, <2>1
<1> QED
  BY <1>4, <1>5, <1>6

(* A queue: chunks, none of them twice. *)
QueueOK(q) == q \in Seq(Int) /\ IsInjective(q)

(* A chunk is added to a queue that does not hold it yet. *)
LEMMA EnqueueKeeps ==
  ASSUME NEW q, QueueOK(q), NEW k \in Int
  PROVE  QueueOK(Enqueue(q, k)) /\ Range(Enqueue(q, k)) = Range(q) \cup {k}
<1>0. q \in Seq(Int) /\ Len(q) \in Nat /\ DOMAIN q = 1..Len(q)
  BY LenProperties DEF QueueOK
<1>1. CASE k \in Range(q)
  BY <1>1 DEF Enqueue
<1>2. CASE k \notin Range(q)
  <2> DEFINE x == Append(q, k)
  <2>1. /\ x \in Seq(Int) /\ Len(x) = Len(q) + 1 /\ x[Len(q) + 1] = k
        /\ \A i \in 1..Len(q) : x[i] = q[i]
    BY <1>0, AppendProperties
  <2>2. Enqueue(q, k) = x
    BY <1>2 DEF Enqueue
  <2> HIDE DEF x
  <2>3. DOMAIN x = 1..Len(q) + 1
    BY <2>1, LenProperties
  <2>4. \A i \in 1..Len(q) : q[i] # k
    BY <1>0, <1>2 DEF Range
  <2>5. ASSUME NEW i \in 1..Len(q) + 1, NEW j \in 1..Len(q) + 1, x[i] = x[j] PROVE i = j
    <3>1. CASE i \in 1..Len(q) /\ j \in 1..Len(q)
      BY <1>0, <2>1, <2>5, <3>1 DEF QueueOK, IsInjective
    <3>2. CASE i \in 1..Len(q) /\ j = Len(q) + 1
      BY <2>1, <2>4, <2>5, <3>2
    <3>3. CASE i = Len(q) + 1 /\ j \in 1..Len(q)
      BY <2>1, <2>4, <2>5, <3>3
    <3> QED
      BY <1>0, <3>1, <3>2, <3>3
  <2>6. QueueOK(x)
    BY <2>1, <2>3, <2>5 DEF QueueOK, IsInjective
  <2>7. Range(x) = Range(q) \cup {k}
    <3>1. ASSUME NEW y \in Range(x) PROVE y \in Range(q) \cup {k}
      <4>1. PICK i \in 1..Len(q) + 1 : y = x[i]
        BY <2>3 DEF Range
      <4>2. CASE i \in 1..Len(q)
        BY <1>0, <2>1, <4>1, <4>2 DEF Range
      <4>3. CASE i = Len(q) + 1
        BY <2>1, <4>1, <4>3
      <4> QED
        BY <1>0, <4>2, <4>3
    <3>2. ASSUME NEW y \in Range(q) \cup {k} PROVE y \in Range(x)
      <4>1. CASE y = k
        BY <1>0, <2>1, <2>3, <4>1 DEF Range
      <4>2. CASE y \in Range(q)
        <5>1. PICK i \in 1..Len(q) : y = q[i]
          BY <1>0, <4>2 DEF Range
        <5>2. i \in DOMAIN x /\ x[i] = y
          BY <1>0, <2>1, <2>3, <5>1
        <5> QED
          BY <5>2 DEF Range
      <4> QED
        BY <3>2, <4>1, <4>2
    <3> QED
      BY <3>1, <3>2
  <2> QED
    BY <2>2, <2>6, <2>7
<1> QED
  BY <1>1, <1>2

(* A marked chunk brings its loaded neighbours. *)
LEMMA AroundKeeps ==
  ASSUME NEW q, QueueOK(q), NEW k \in Int
  PROVE  /\ QueueOK(EnqueueAround(q, k))
         /\ Range(q) \cup {k} \cup ({k - 1, k + 1} \cap DOMAIN app.held) \subseteq Range(EnqueueAround(q, k))
<1> DEFINE a == Enqueue(q, k)
           b == EnqueueLoaded(a, k + 1)
           c == EnqueueLoaded(b, k - 1)
<1>1. EnqueueAround(q, k) = c
  BY DEF EnqueueAround
<1>2. QueueOK(a) /\ Range(a) = Range(q) \cup {k}
  BY EnqueueKeeps
<1> HIDE DEF a
<1>3. QueueOK(b) /\ Range(a) \subseteq Range(b) /\ (k + 1 \in DOMAIN app.held => k + 1 \in Range(b))
  BY <1>2, EnqueueKeeps DEF EnqueueLoaded, Loaded
<1> HIDE DEF b
<1>4. QueueOK(c) /\ Range(b) \subseteq Range(c) /\ (k - 1 \in DOMAIN app.held => k - 1 \in Range(c))
  BY <1>3, EnqueueKeeps DEF EnqueueLoaded, Loaded
<1> HIDE DEF c
<1> QED
  BY <1>1, <1>2, <1>3, <1>4

(* s lists U in order. *)
Lists(s, U, n) == s \in [1..n -> U] /\ Range(s) = U /\ \A i, j \in DOMAIN s : i < j => s[i] < s[j]

(* A set of chunks has a last one. *)
HasLast(W) == \E m \in W : \A y \in W : y <= m

(* Some chunk of a set is the last when the rest can be listed. *)
LEMMA LastOfList ==
  ASSUME NEW n \in Nat, NEW V, NEW s, Lists(s, V, n), NEW x \in Int, V \subseteq Int
  PROVE  HasLast(V \cup {x})
<1>1. /\ DOMAIN s = 1..n /\ Range(s) = V
      /\ \A i \in 1..n : s[i] \in Int
      /\ \A i, j \in 1..n : i < j => s[i] < s[j]
  BY DEF Lists
<1>2. CASE n = 0
  <2>1. V = {}
    BY <1>1, <1>2 DEF Range
  <2> QED
    BY <2>1 DEF HasLast
<1>3. CASE n # 0
  <2>1. n \in 1..n /\ s[n] \in V
    BY <1>1, <1>3 DEF Range
  <2>2. ASSUME NEW y \in V PROVE y <= s[n]
    <3>1. PICK i \in 1..n : y = s[i]
      BY <1>1 DEF Range
    <3>2. CASE i = n
      BY <2>1, <3>1, <3>2
    <3>3. CASE i # n
      <4>1. i < n
        BY <3>3
      <4>2. s[i] < s[n] /\ s[i] \in Int /\ s[n] \in Int
        BY <1>1, <2>1, <4>1
      <4> QED
        BY <3>1, <4>2
    <3> QED
      BY <3>2, <3>3
  <2>3. CASE x <= s[n]
    BY <2>1, <2>2, <2>3 DEF HasLast
  <2>4. CASE ~(x <= s[n])
    <3>1. s[n] \in Int /\ s[n] <= x
      BY <1>1, <2>1, <2>4
    <3>2. ASSUME NEW y \in V PROVE y <= x
      <4>1. y \in Int /\ y <= s[n]
        BY <2>2
      <4> QED
        BY <3>1, <4>1
    <3> QED
      BY <3>2 DEF HasLast
  <2> QED
    BY <2>3, <2>4
<1> QED
  BY <1>2, <1>3

(* One more at the end. *)
LEMMA ListOn ==
  ASSUME NEW n \in Nat, NEW V, V \subseteq Int, NEW s, Lists(s, V, n), NEW m \in Int, \A y \in V : y < m
  PROVE  \E t : Lists(t, V \cup {m}, n + 1)
<1> DEFINE t == [i \in 1..n + 1 |-> IF i = n + 1 THEN m ELSE s[i]]
<1>1. DOMAIN s = 1..n /\ Range(s) = V /\ \A i \in 1..n : s[i] \in V
  BY DEF Lists
<1>2. DOMAIN t = 1..n + 1 /\ t[n + 1] = m /\ \A i \in 1..n : t[i] = s[i]
  OBVIOUS
<1>3. t \in [1..n + 1 -> V \cup {m}]
  BY <1>1
<1> HIDE DEF t
<1>4. Range(t) = V \cup {m}
  <2>1. ASSUME NEW y \in V PROVE y \in Range(t)
    <3>1. PICK i \in 1..n : y = s[i]
      BY <1>1 DEF Range
    <3>2. i \in 1..n + 1
      OBVIOUS
    <3> QED
      BY <1>2, <3>1, <3>2 DEF Range
  <2>2. m \in Range(t)
    BY <1>2 DEF Range
  <2>3. Range(t) \subseteq V \cup {m}
    BY <1>3 DEF Range
  <2> QED
    BY <2>1, <2>2, <2>3
<1>5. ASSUME NEW i \in 1..n + 1, NEW j \in 1..n + 1, i < j PROVE t[i] < t[j]
  <2>1. i \in 1..n
    BY <1>5
  <2>2. CASE j = n + 1
    BY <1>1, <1>2, <2>1, <2>2
  <2>3. CASE j # n + 1
    <3>1. j \in 1..n
      BY <2>3
    <3> QED
      BY <1>1, <1>2, <1>5, <2>1, <3>1 DEF Lists
  <2> QED
    BY <2>2, <2>3
<1>6. Lists(t, V \cup {m}, n + 1)
  BY <1>2, <1>3, <1>4, <1>5 DEF Lists
<1> QED
  BY <1>6

(* Every finite set of chunks can be listed. *)
LEMMA Listed ==
  ASSUME NEW S, S \subseteq Int, IsFiniteSet(S)
  PROVE  \E s : Lists(s, S, Cardinality(S))
<1> DEFINE T == {n \in Nat : \A U \in SUBSET Int : IsFiniteSet(U) /\ Cardinality(U) = n => \E s : Lists(s, U, n)}
<1>1. 0 \in T
  <2>1. ASSUME NEW U \in SUBSET Int, IsFiniteSet(U), Cardinality(U) = 0 PROVE \E s : Lists(s, U, 0)
    <3>1. U = {}
      BY <2>1, FS_EmptySet
    <3> DEFINE s == [i \in 1..0 |-> 0]
    <3>2. DOMAIN s = {} /\ s \in [1..0 -> U]
      OBVIOUS
    <3> HIDE DEF s
    <3>3. Range(s) = {}
      BY <3>2 DEF Range
    <3>4. Lists(s, U, 0)
      BY <3>1, <3>2, <3>3 DEF Lists
    <3> QED
      BY <3>4
  <2> QED
    BY <2>1
<1>2. ASSUME NEW n \in Nat, n \in T PROVE n + 1 \in T
  <2>1. ASSUME NEW U \in SUBSET Int, IsFiniteSet(U), Cardinality(U) = n + 1 PROVE \E s : Lists(s, U, n + 1)
    <3>0. U # {}
      BY <2>1, FS_EmptySet
    <3>1. PICK x \in U : TRUE
      BY <3>0
    <3>2. ASSUME NEW y \in U PROVE U \ {y} \in SUBSET Int /\ IsFiniteSet(U \ {y}) /\ Cardinality(U \ {y}) = n
      <4>1. IsFiniteSet(U \ {y}) /\ Cardinality(U \ {y}) = Cardinality(U) - 1
        BY <2>1, FS_RemoveElement
      <4> QED
        BY <2>1, <4>1
    <3>3. PICK s : Lists(s, U \ {x}, n)
      BY <1>2, <3>1, <3>2
    <3>4. PICK m \in (U \ {x}) \cup {x} : \A y \in (U \ {x}) \cup {x} : y <= m
      <4> DEFINE V == U \ {x}
      <4>1. V \subseteq Int /\ Lists(s, V, n) /\ x \in Int
        BY <3>3
      <4> HIDE DEF V
      <4>2. HasLast(V \cup {x})
        BY <4>1, LastOfList
      <4> QED
        BY <4>2 DEF V, HasLast
    <3>5. m \in U /\ m \in Int /\ \A y \in U \ {m} : y < m
      BY <3>1, <3>4
    <3>6. PICK t : Lists(t, U \ {m}, n)
      BY <1>2, <3>2, <3>5
    <3>7. \E w : Lists(w, (U \ {m}) \cup {m}, n + 1)
      <4> DEFINE V == U \ {m}
      <4>1. V \subseteq Int /\ Lists(t, V, n) /\ \A y \in V : y < m
        BY <3>5, <3>6
      <4> HIDE DEF V
      <4>2. \E w : Lists(w, V \cup {m}, n + 1)
        BY <3>5, <4>1, ListOn
      <4> QED
        BY <4>2 DEF V
    <3>8. (U \ {m}) \cup {m} = U
      BY <3>5
    <3> QED
      BY <3>7, <3>8
  <2> QED
    BY <2>1
<1>3. \A n \in Nat : n \in T
  <2> HIDE DEF T
  <2> QED
    BY <1>1, <1>2, Reached
<1>4. Cardinality(S) \in Nat
  BY FS_CardinalityType
<1> QED
  BY <1>3, <1>4

(* The marked chunks in their order are those chunks. *)
LEMMA AscendingIs ==
  ASSUME NEW S, S \subseteq Int, IsFiniteSet(S)
  PROVE  Ascending(S) \in Seq(S) /\ Range(Ascending(S)) = S
<1> DEFINE n == Cardinality(S)
<1>1. n \in Nat
  BY FS_CardinalityType
<1>2. \E s \in [1..n -> S] : Range(s) = S /\ \A i, j \in DOMAIN s : i < j => s[i] < s[j]
  BY Listed DEF Lists
<1>3. Ascending(S) \in [1..n -> S] /\ Range(Ascending(S)) = S
  BY <1>2 DEF Ascending
<1> HIDE DEF n
<1> QED
  BY <1>1, <1>3

(* What waits after the marks are added: all that waited, the marked chunks and *)
(* their loaded neighbours.                                                     *)
LEMMA PendingIs ==
  ASSUME TypeOK, AppOK(app)
  PROVE  QueueOK(Pending) /\ Waiting \subseteq Range(Pending)
<1> DEFINE marks == Ascending(app.remesh)
<1>1. marks \in Seq(app.remesh) /\ Range(marks) = app.remesh /\ app.remesh \subseteq Int
  BY AscendingIs DEF AppOK
<1>2. Pending = EnqueueAll(queue, marks)
  BY Zenon DEF Pending, EnqueueAll
<1> HIDE DEF marks
<1>3. Len(marks) \in Nat /\ DOMAIN marks = 1..Len(marks) /\ \A i \in 1..Len(marks) : marks[i] \in Int
  BY <1>1, LenProperties, ElementOfSeq
<1>4. PICK h : /\ h[0] = queue
               /\ \A i \in 1..Len(marks) : h[i] = EnqueueAround(h[i - 1], marks[i])
               /\ EnqueueAll(queue, marks) = h[Len(marks)]
  BY <1>1, AroundRun
<1> DEFINE around(i) == {marks[i]} \cup ({marks[i] - 1, marks[i] + 1} \cap DOMAIN app.held)
<1> DEFINE T == {n \in Nat : n <= Len(marks) =>
                   /\ QueueOK(h[n]) /\ Range(queue) \subseteq Range(h[n])
                   /\ \A i \in 1..n : around(i) \subseteq Range(h[n])}
<1>5. 0 \in T
  BY <1>4 DEF TypeOK, QueueOK
<1>6. ASSUME NEW n \in Nat, n \in T PROVE n + 1 \in T
  <2>1. SUFFICES ASSUME n + 1 <= Len(marks)
                 PROVE  /\ QueueOK(h[n + 1]) /\ Range(queue) \subseteq Range(h[n + 1])
                        /\ \A i \in 1..n + 1 : around(i) \subseteq Range(h[n + 1])
    OBVIOUS
  <2>2. /\ QueueOK(h[n]) /\ Range(queue) \subseteq Range(h[n])
        /\ \A i \in 1..n : around(i) \subseteq Range(h[n])
    BY <1>3, <1>6, <2>1
  <2>3. n + 1 \in 1..Len(marks) /\ (n + 1) - 1 = n /\ marks[n + 1] \in Int
    BY <1>3, <2>1
  <2>4. h[n + 1] = EnqueueAround(h[n], marks[n + 1])
    BY <1>4, <2>3
  <2>5. QueueOK(h[n + 1]) /\ Range(h[n]) \cup around(n + 1) \subseteq Range(h[n + 1])
    BY <2>2, <2>3, <2>4, AroundKeeps
  <2> HIDE DEF around
  <2>6. ASSUME NEW i \in 1..n + 1 PROVE around(i) \subseteq Range(h[n + 1])
    <3>1. CASE i = n + 1
      BY <2>5, <3>1
    <3>2. CASE i # n + 1
      <4>1. i \in 1..n
        BY <3>2
      <4> QED
        BY <2>2, <2>5, <4>1
    <3> QED
      BY <3>1, <3>2
  <2> QED
    BY <2>2, <2>5, <2>6
<1>7. Len(marks) \in T
  <2> HIDE DEF T
  <2> QED
    BY <1>3, <1>5, <1>6, Reached
<1>8. /\ QueueOK(Pending) /\ Range(queue) \subseteq Range(Pending)
      /\ \A i \in 1..Len(marks) : around(i) \subseteq Range(Pending)
  BY <1>2, <1>3, <1>4, <1>7
<1>9. ASSUME NEW k \in app.remesh PROVE {k} \cup ({k - 1, k + 1} \cap DOMAIN app.held) \subseteq Range(Pending)
  <2>1. PICK i \in 1..Len(marks) : k = marks[i]
    BY <1>1, <1>3 DEF Range
  <2> QED
    BY <1>8, <2>1
<1>10. ASSUME NEW k \in DOMAIN app.held, {k - 1, k + 1} \cap app.remesh # {} PROVE k \in Range(Pending)
  <2>1. k \in Int
    BY FieldAssumption DEF AppOK
  <2>2. CASE k - 1 \in app.remesh
    <3>1. (k - 1) + 1 = k
      BY <2>1
    <3> QED
      BY <1>9, <2>2, <3>1
  <2>3. CASE k + 1 \in app.remesh
    <3>1. (k + 1) - 1 = k
      BY <2>1
    <3> QED
      BY <1>9, <2>3, <3>1
  <2> QED
    BY <1>10, <2>2, <2>3
<1> QED
  BY <1>8, <1>9, <1>10 DEF Waiting

(* What a frame meshes, and what it leaves. *)
Meshed == {Pending[i] : i \in 1..InBudget(Pending)}
Left == SubSeq(Pending, InBudget(Pending) + 1, Len(Pending))

(* A frame meshes the first of the queue and leaves the rest, in its order. *)
LEMMA LeftIs ==
  ASSUME TypeOK, AppOK(app)
  PROVE  QueueOK(Left) /\ Waiting \subseteq Meshed \cup Range(Left)
<1> DEFINE p == Pending
           n == InBudget(p)
<1>1. QueueOK(p) /\ Waiting \subseteq Range(p)
  BY PendingIs
<1> HIDE DEF p
<1>2. p \in Seq(Int) /\ Len(p) \in Nat /\ DOMAIN p = 1..Len(p) /\ \A i \in 1..Len(p) : p[i] \in Int
  BY <1>1, LenProperties, ElementOfSeq DEF QueueOK
<1>3. n \in 0..Len(p)
  BY <1>2, FieldAssumption DEF InBudget
<1> HIDE DEF n
<1> DEFINE l == SubSeq(p, n + 1, Len(p))
<1>4. /\ l \in Seq(Int) /\ Len(l) = Len(p) - n
      /\ \A i \in 1..Len(p) - n : l[i] = p[n + i]
  <2>1. n + 1 \in Int /\ Len(p) \in Int /\ \A i \in n + 1..Len(p) : p[i] \in Int
    BY <1>2, <1>3
  <2>2. /\ l \in Seq(Int) /\ Len(l) = IF n + 1 <= Len(p) THEN Len(p) - (n + 1) + 1 ELSE 0
        /\ \A i \in 1..Len(p) - (n + 1) + 1 : l[i] = p[(n + 1) + i - 1]
    BY <2>1, SubSeqProperties
  <2> HIDE DEF l
  <2>3. Len(p) - (n + 1) + 1 = Len(p) - n /\ \A i \in Int : (n + 1) + i - 1 = n + i
    BY <1>2, <1>3
  <2>4. Len(l) = Len(p) - n
    <3>1. Len(l) = IF n + 1 <= Len(p) THEN Len(p) - (n + 1) + 1 ELSE 0
      BY <2>2
    <3>2. CASE n + 1 <= Len(p)
      <4>1. Len(l) = Len(p) - (n + 1) + 1
        BY <3>1, <3>2
      <4> QED
        BY <1>2, <1>3, <4>1
    <3>3. CASE ~(n + 1 <= Len(p))
      <4>1. Len(l) = 0
        BY <3>1, <3>3
      <4>2. n = Len(p)
        <5>1. n \in Int /\ n <= Len(p) /\ Len(p) \in Int
          BY <1>2, <1>3
        <5> QED
          BY <3>3, <5>1
      <4>3. Len(p) - n = 0
        BY <1>2, <4>2
      <4> QED
        BY <4>1, <4>3
    <3> QED
      BY <3>2, <3>3
  <2>5. ASSUME NEW i \in 1..Len(p) - n PROVE l[i] = p[n + i]
    <3>1. i \in Int /\ i \in 1..Len(p) - (n + 1) + 1
      BY <1>2, <1>3, <2>3
    <3>2. l[i] = p[(n + 1) + i - 1]
      BY <2>2, <3>1
    <3> QED
      BY <2>3, <3>1, <3>2
  <2> QED
    BY <2>2, <2>4, <2>5
<1> HIDE DEF l
<1>5. DOMAIN l = 1..Len(p) - n
  BY <1>4, LenProperties
<1>6. QueueOK(l)
  <2>1. ASSUME NEW i \in 1..Len(p) - n, NEW j \in 1..Len(p) - n, l[i] = l[j] PROVE i = j
    <3>1. n + i \in 1..Len(p) /\ n + j \in 1..Len(p) /\ p[n + i] = p[n + j]
      BY <1>2, <1>3, <1>4, <2>1
    <3>2. n + i = n + j
      BY <1>1, <1>2, <3>1 DEF QueueOK, IsInjective
    <3> QED
      BY <1>3, <3>2
  <2> QED
    BY <1>4, <1>5, <2>1 DEF QueueOK, IsInjective
<1>7. ASSUME NEW k \in Range(p) PROVE k \in {p[i] : i \in 1..n} \cup Range(l)
  <2>1. PICK i \in 1..Len(p) : k = p[i]
    BY <1>2 DEF Range
  <2>2. CASE i <= n
    <3>1. i \in 1..n
      BY <1>3, <2>2
    <3> QED
      BY <2>1, <3>1
  <2>3. CASE ~(i <= n)
    <3>1. i - n \in 1..Len(p) - n /\ n + (i - n) = i
      BY <1>2, <1>3, <2>3
    <3>2. l[i - n] = k
      BY <1>4, <2>1, <3>1
    <3> QED
      BY <1>5, <3>1, <3>2 DEF Range
  <2> QED
    BY <2>2, <2>3
<1>8. Left = l /\ Meshed = {p[i] : i \in 1..n}
  BY DEF Left, Meshed, l, n, p
<1> QED
  BY <1>1, <1>6, <1>7, <1>8
(* What the first n messages left in the event queues, which began empty. *)
Tells(m, r) == Electric(m) /\ m.region = r
Queued(x, q, n) ==
  /\ \A r \in Regions : (\A i \in 1..n : ~Tells(q[i], r)) => \A j \in DOMAIN x.electric : x.electric[j].region # r
  /\ \A r \in Regions, i \in 1..n :
       Tells(q[i], r) /\ (\A j \in 1..n : Tells(q[j], r) => j <= i)
         => \E j \in DOMAIN x.electric : LastOf(x.electric, r, j) /\ x.electric[j].field = q[i].field
  /\ \A i \in 1..n : q[i].kind = "destroyed" => \E j \in DOMAIN x.destroyed : x.destroyed[j] = q[i].region

(* An electric message is the last of its region. *)
LEMMA QueuedMore ==
  ASSUME NEW q \in Seq(Messages), NEW n \in Nat, n + 1 <= Len(q), NEW x, NEW y, AppOK(x), AppOK(y),
         Queued(x, q, n), Heeds(x, y, q[n + 1])
  PROVE  Queued(y, q, n + 1)
<1> DEFINE m == q[n + 1]
<1>1. n + 1 \in 1..Len(q) /\ m \in Messages
  BY LenProperties, ElementOfSeq
<1>2. /\ m.kind = "field" => m.region \in Regions /\ m.field \in FieldsTold
      /\ m.kind = "destroyed" => m.region \in Regions
  BY <1>1, MessageTyped
<1>3. /\ x.electric \in Seq(Events) /\ x.destroyed \in Seq(Regions) /\ DOMAIN x.electric = 1..Len(x.electric)
      /\ DOMAIN x.destroyed = 1..Len(x.destroyed) /\ Len(x.electric) \in Nat /\ Len(x.destroyed) \in Nat
      /\ y.electric \in Seq(Events) /\ DOMAIN y.electric = 1..Len(y.electric)
      /\ y.destroyed \in Seq(Regions) /\ DOMAIN y.destroyed = 1..Len(y.destroyed)
  BY LenProperties DEF AppOK
<1>4. /\ y.electric = (IF Electric(m) THEN Append(x.electric, [region |-> m.region, field |-> m.field]) ELSE x.electric)
      /\ y.destroyed = (IF m.kind = "destroyed" THEN Append(x.destroyed, m.region) ELSE x.destroyed)
  BY DEF Heeds
<1> HIDE DEF m
<1> DEFINE event == [region |-> m.region, field |-> m.field]
<1> DEFINE l == Len(x.electric)
<1>5. Electric(m) => /\ m.kind = "field" /\ Len(y.electric) = l + 1 /\ y.electric[l + 1] = event
                     /\ \A j \in 1..l : y.electric[j] = x.electric[j]
  <2> SUFFICES ASSUME Electric(m) PROVE /\ m.kind = "field" /\ Len(y.electric) = l + 1 /\ y.electric[l + 1] = event
                                        /\ \A j \in 1..l : y.electric[j] = x.electric[j]
    OBVIOUS
  <2>1. m.kind = "field"
    BY DEF Electric
  <2>2. event \in Events
    BY <1>2, <2>1 DEF Events
  <2> HIDE DEF event
  <2>3. y.electric = Append(x.electric, event)
    BY <1>4 DEF event
  <2> QED
    BY <1>3, <2>1, <2>2, <2>3, AppendProperties
<1>6. event.region = m.region /\ event.field = m.field
  OBVIOUS
<1>l. l \in Nat /\ Len(x.electric) = l /\ DOMAIN x.electric = 1..l
  BY <1>3
<1> HIDE DEF event, l
<1>7. ASSUME NEW r \in Regions, \A i \in 1..n + 1 : ~Tells(q[i], r)
      PROVE  \A j \in DOMAIN y.electric : y.electric[j].region # r
  <2>1. \A i \in 1..n : ~Tells(q[i], r)
    BY <1>7
  <2>2. \A j \in 1..l : x.electric[j].region # r
    BY <1>3, <1>l, <2>1 DEF Queued
  <2>3. ~Tells(m, r)
    BY <1>1, <1>7 DEF m
  <2>4. CASE Electric(m)
    <3> SUFFICES ASSUME NEW j \in 1..l + 1 PROVE y.electric[j].region # r
      BY <1>3, <1>l, <1>5, <2>4
    <3>1. CASE j = l + 1
      BY <1>5, <1>6, <2>3, <2>4, <3>1 DEF Tells
    <3>2. CASE j # l + 1
      <4>1. j \in 1..l
        BY <1>3, <1>l, <3>2
      <4> QED
        BY <1>5, <2>2, <2>4, <4>1
    <3> QED
      BY <3>1, <3>2
  <2>5. CASE ~Electric(m)
    BY <1>3, <1>l, <1>4, <2>2, <2>5
  <2> QED
    BY <2>4, <2>5
<1>8. ASSUME NEW r \in Regions, NEW i \in 1..n + 1, Tells(q[i], r), \A j \in 1..n + 1 : Tells(q[j], r) => j <= i
      PROVE  \E j \in DOMAIN y.electric : LastOf(y.electric, r, j) /\ y.electric[j].field = q[i].field
  <2>1. CASE i = n + 1
    <3>1. Electric(m) /\ m.region = r /\ q[i] = m
      BY <1>8, <2>1 DEF Tells, m
    <3>2. LastOf(y.electric, r, l + 1) /\ y.electric[l + 1].field = q[i].field /\ l + 1 \in DOMAIN y.electric
      BY <1>3, <1>l, <1>5, <1>6, <3>1 DEF LastOf
    <3> QED
      BY <3>2
  <2>2. CASE i # n + 1
    <3>1. i \in 1..n /\ n + 1 \in 1..n + 1
      BY <2>2
    <3>2. ~Tells(m, r)
      BY <1>8, <3>1 DEF m
    <3>3. \A j \in 1..n : Tells(q[j], r) => j <= i
      BY <1>8
    <3>4. PICK j \in 1..l : LastOf(x.electric, r, j) /\ x.electric[j].field = q[i].field
      BY <1>3, <1>l, <1>8, <3>1, <3>3 DEF Queued
    <3>5. CASE Electric(m)
      <4>1. j \in 1..l + 1 /\ y.electric[j] = x.electric[j]
        BY <1>3, <1>l, <1>5, <3>5
      <4>2. ASSUME NEW e \in 1..l + 1, y.electric[e].region = r PROVE e <= j
        <5>1. CASE e = l + 1
          BY <1>5, <1>6, <3>2, <3>5, <4>2, <5>1 DEF Tells
        <5>2. CASE e # l + 1
          <6>1. e \in 1..l
            BY <1>l, <4>2, <5>2
          <6> QED
            BY <1>3, <1>l, <1>5, <3>4, <3>5, <4>2, <6>1 DEF LastOf
        <5> QED
          BY <5>1, <5>2
      <4>3. DOMAIN y.electric = 1..l + 1
        BY <1>3, <1>l, <1>5, <3>5
      <4>4. LastOf(y.electric, r, j)
        BY <3>4, <4>1, <4>2, <4>3 DEF LastOf
      <4> QED
        BY <3>4, <4>1, <4>3, <4>4
    <3>6. CASE ~Electric(m)
      BY <1>3, <1>l, <1>4, <3>4, <3>6
    <3> QED
      BY <3>5, <3>6
  <2> QED
    BY <2>1, <2>2
<1>9. ASSUME NEW i \in 1..n + 1, q[i].kind = "destroyed"
      PROVE  \E j \in DOMAIN y.destroyed : y.destroyed[j] = q[i].region
  <2>1. m.kind = "destroyed" =>
          /\ DOMAIN y.destroyed = 1..Len(x.destroyed) + 1 /\ y.destroyed[Len(x.destroyed) + 1] = m.region
          /\ \A j \in 1..Len(x.destroyed) : y.destroyed[j] = x.destroyed[j]
    BY <1>2, <1>3, <1>4, AppendProperties
  <2>2. CASE i = n + 1
    <3>1. q[i] = m /\ Len(x.destroyed) + 1 \in 1..Len(x.destroyed) + 1
      BY <1>3, <1>l, <2>2 DEF m
    <3> QED
      BY <1>9, <2>1, <3>1
  <2>3. CASE i # n + 1
    <3>1. i \in 1..n
      BY <2>3
    <3>2. PICK j \in 1..Len(x.destroyed) : x.destroyed[j] = q[i].region
      BY <1>3, <1>l, <1>9, <3>1 DEF Queued
    <3>3. CASE m.kind = "destroyed"
      <4>1. j \in 1..Len(x.destroyed) + 1
        BY <1>3, <1>l
      <4> QED
        BY <2>1, <3>2, <3>3, <4>1
    <3>4. CASE m.kind # "destroyed"
      BY <1>3, <1>l, <1>4, <3>2, <3>4
    <3> QED
      BY <3>3, <3>4
  <2> QED
    BY <2>2, <2>3
<1> QED
  BY <1>7, <1>8, <1>9 DEF Queued

(* A frame of messages. *)
LEMMA FrameHeeds ==
  ASSUME NEW a, AppOK(a), a.electric = << >>, a.destroyed = << >>, NEW q \in Seq(Messages)
  PROVE  /\ AppOK(Frame(a, q)) /\ Follows(a, Frame(a, q))
         /\ Queued(Frame(a, q), q, Len(q))
         /\ \A k \in Chunks : (\A i \in 1..Len(q) : q[i].kind = "chunk" => q[i].chunk # k)
                                => SameChunk(a, Frame(a, q), k)
<1>1. PICK h : /\ h[0] = a
               /\ \A i \in 1..Len(q) : h[i] = OnMessage(h[i - 1], q[i])
               /\ Frame(a, q) = h[Len(q)]
  BY MessagesRun
<1>2. Len(q) \in Nat /\ \A i \in 1..Len(q) : q[i] \in Messages
  BY LenProperties, ElementOfSeq
<1> DEFINE Same(n) == \A k \in Chunks : (\A i \in 1..n : q[i].kind = "chunk" => q[i].chunk # k) => SameChunk(a, h[n], k)
<1> DEFINE U == {n \in Nat : AppOK(h[n]) /\ Follows(a, h[n]) /\ Queued(h[n], q, n) /\ Same(n)}
<1>3. 0 \in U
  <2>1. Follows(a, a) /\ \A k : SameChunk(a, a, k)
    BY DEF Follows, SameRegion, SameChunk
  <2>2. DOMAIN a.electric = {} /\ DOMAIN a.destroyed = {} /\ 1..0 = {}
    OBVIOUS
  <2>3. Queued(a, q, 0)
    BY <2>2 DEF Queued
  <2> QED
    BY <1>1, <2>1, <2>3
<1>4. ASSUME NEW n \in 0..Len(q), n # Len(q), n \in U PROVE n + 1 \in U
  <2>1. n + 1 \in 1..Len(q) /\ n + 1 - 1 = n /\ n \in Nat /\ n + 1 \in Nat /\ n + 1 <= Len(q)
    BY <1>2, <1>4
  <2>2. Heeds(h[n], h[n + 1], q[n + 1])
    <3>1. h[n + 1] = OnMessage(h[n], q[n + 1]) /\ q[n + 1] \in Messages /\ AppOK(h[n])
      BY <1>1, <1>2, <1>4, <2>1
    <3> QED
      BY <3>1, MessageHeeds
  <2>3. AppOK(h[n + 1]) /\ Follows(h[n], h[n + 1])
    BY <2>2 DEF Heeds
  <2>4. Follows(a, h[n + 1])
    BY <1>4, <2>3, FollowsOn
  <2>5. Queued(h[n + 1], q, n + 1)
    BY <1>4, <2>1, <2>2, <2>3, QueuedMore
  <2>6. Same(n + 1)
    <3> SUFFICES ASSUME NEW k \in Chunks, \A i \in 1..n + 1 : q[i].kind = "chunk" => q[i].chunk # k
                 PROVE  SameChunk(a, h[n + 1], k)
      OBVIOUS
    <3>1. \A i \in 1..n : i \in 1..n + 1
      BY <2>1
    <3>2. SameChunk(a, h[n], k)
      BY <1>4, <3>1
    <3>3. n + 1 \in 1..n + 1
      BY <2>1
    <3>4. SameChunk(h[n], h[n + 1], k)
      BY <2>2, <3>3 DEF Heeds
    <3> QED
      BY <3>2, <3>4 DEF SameChunk
  <2> HIDE DEF Same
  <2> QED
    BY <2>1, <2>3, <2>4, <2>5, <2>6
<1>5. Len(q) \in U
  <2>1. \A n \in 0..Len(q) : n \in U
    <3> HIDE DEF U
    <3> QED
      BY <1>2, <1>3, <1>4, Upward
  <2> QED
    BY <1>2, <2>1
<1> QED
  BY <1>1, <1>5

------------------------------------------------------------------------------
(* What the steps do. *)

(* A frame of messages is drained at once. *)
LEMMA IngestIs ==
  ASSUME Ingest
  PROVE  /\ phase = "Net" /\ app' = Frame(app, inbox) /\ inbox' = << >> /\ phase' = "Logic"
         /\ quiet' = {r \in Regions : QuietAfter(r)}
         /\ rewired' = rewired \cup {k \in Chunks : \E i \in DOMAIN inbox :
                                       inbox[i].kind = "chunk" /\ inbox[i].chunk = k}
         /\ bolts' = bolts /\ smoke' = smoke /\ debris' = debris
         /\ overlays' = overlays /\ glow' = glow /\ readout' = readout /\ terrain' = terrain
         /\ queue' = queue
         /\ spent' = spent
  BY Zenon DEF Ingest, Frame, effects, shown

(* The effects take the events of the frame. *)
LEMMA LogicIs ==
  ASSUME Logic
  PROVE  /\ phase = "Logic" /\ phase' = "Render"
         /\ bolts' = Strikes(bolts, app.discharges)
         /\ smoke' = Spawns(Clearings(smoke, app.destroyed), app.electric)
         /\ debris' = BurstsOf(debris, app.bursts)
         /\ app' = [app EXCEPT !.discharges = << >>, !.electric = << >>, !.destroyed = << >>,
                               !.bursts = << >>]
         /\ overlays' = overlays /\ glow' = glow /\ readout' = readout /\ terrain' = terrain
         /\ queue' = queue
         /\ inbox' = inbox /\ spent' = spent /\ quiet' = quiet /\ rewired' = rewired
  BY Zenon DEF Logic, SpawnLightning, SpawnHeatSmoke, SpawnDebris, Strikes, Spawns, Clearings, BurstsOf, shown

(* A frame is drawn: what is marked, and no longer marked. *)
LEMMA RenderIs ==
  ASSUME Render
  PROVE  /\ phase = "Render" /\ phase' = "Net"
         /\ terrain' = Upsert(terrain, [key \in Meshed \X {"mesh", "decals"} |->
                                          TerrainMesh(app, key[1], key[2])])
         /\ queue' = Left
         /\ overlays' = Upsert(overlays, [key \in app.dirty \X Kinds |-> RegionMesh(app, key[1], key[2])])
         /\ glow' = Upsert(glow, [r \in app.glowDirty |-> RegionMesh(app, r, "glow")])
         /\ \E order \in Orders : readout' = Upsert(readout, [k \in app.logicDirty |-> ReadoutMesh(app, k, order)])
         /\ \E dt \in Steps : /\ bolts' = Aged(bolts, BoltLife, dt) /\ smoke' = Aged(smoke, SmokeLife, dt)
                              /\ debris' = Aged(debris, DebrisLife, dt)
         /\ app' = [app EXCEPT !.dirty = {}, !.glowDirty = {}, !.logicDirty = {}, !.remesh = {}]
         /\ rewired' = rewired \ app.logicDirty
         /\ inbox' = inbox /\ spent' = spent /\ quiet' = quiet
  BY Zenon DEF Render, RenderDirtyChunks, Meshed, Left, RenderDirtyFieldRegions, RenderDirtyIncandescence,
       RenderDirtySemiconductorChunks, Advance, AdvanceLightning, AdvanceHeatSmoke, AdvanceDebris

(* What a drawn authority is. *)
LEMMA DrawnApp ==
  ASSUME DOMAIN app = DOMAIN EmptyApp,
         app' = [app EXCEPT !.dirty = {}, !.glowDirty = {}, !.logicDirty = {}, !.remesh = {}]
  PROVE  /\ DOMAIN app' = DOMAIN EmptyApp
         /\ app'.held = app.held /\ app'.objects = app.objects /\ app'.regions = app.regions
         /\ app'.remesh = {} /\ app'.dirty = {} /\ app'.glowDirty = {} /\ app'.logicDirty = {}
         /\ app'.electric = app.electric /\ app'.discharges = app.discharges
         /\ app'.destroyed = app.destroyed /\ app'.bursts = app.bursts
  BY AppDomain

(* And one whose events are taken. *)
LEMMA TakenApp ==
  ASSUME DOMAIN app = DOMAIN EmptyApp,
         app' = [app EXCEPT !.discharges = << >>, !.electric = << >>, !.destroyed = << >>,
                            !.bursts = << >>]
  PROVE  /\ DOMAIN app' = DOMAIN EmptyApp
         /\ app'.held = app.held /\ app'.objects = app.objects /\ app'.regions = app.regions
         /\ app'.remesh = app.remesh /\ app'.dirty = app.dirty
         /\ app'.glowDirty = app.glowDirty /\ app'.logicDirty = app.logicDirty
         /\ app'.electric = << >> /\ app'.discharges = << >>
         /\ app'.destroyed = << >> /\ app'.bursts = << >>
  BY AppDomain

(* Entities are shown as they are marked, and none becomes empty. *)
LEMMA UpsertShows ==
  ASSUME NEW e, NEW mesh
  PROVE  /\ (\A k \in DOMAIN e : e[k] # {}) => \A k \in DOMAIN Upsert(e, mesh) : Upsert(e, mesh)[k] # {}
         /\ DOMAIN Upsert(e, mesh) \subseteq DOMAIN e \cup DOMAIN mesh
         /\ \A k : ShownAt(Upsert(e, mesh), k) = IF k \in DOMAIN mesh THEN mesh[k] ELSE ShownAt(e, k)
<1> DEFINE keys == {j \in DOMAIN e \cup DOMAIN mesh : j \in DOMAIN mesh => mesh[j] # {}}
<1> DEFINE u == [k \in keys |-> IF k \in DOMAIN mesh THEN mesh[k] ELSE e[k]]
<1>1. Upsert(e, mesh) = u
  BY DEF Upsert
<1>2. DOMAIN u = keys /\ \A k \in keys : u[k] = IF k \in DOMAIN mesh THEN mesh[k] ELSE e[k]
  OBVIOUS
<1> HIDE DEF u
<1>3. (\A k \in DOMAIN e : e[k] # {}) => \A k \in keys : u[k] # {}
  BY <1>2
<1>4. ASSUME NEW k PROVE ShownAt(u, k) = IF k \in DOMAIN mesh THEN mesh[k] ELSE ShownAt(e, k)
  <2>1. CASE k \in keys
    BY <1>2, <2>1 DEF ShownAt
  <2>2. CASE k \notin keys
    BY <1>2, <2>2 DEF ShownAt
  <2> QED
    BY <2>1, <2>2
<1> QED
  BY <1>1, <1>2, <1>3, <1>4

------------------------------------------------------------------------------
(* Overlays and glow show the fields.                                           *)

(* A region that is the same is drawn the same. *)
LEMMA SameMesh ==
  ASSUME NEW a, NEW x, NEW r, SameRegion(a, x, r), NEW kind
  PROVE  RegionMesh(x, r, kind) = RegionMesh(a, r, kind)
  BY DEF SameRegion, RegionMesh

(* Drawing the marked regions leaves no region undrawn. *)
LEMMA OverlaysStep ==
  ASSUME OverlaysDrawn, app.dirty \subseteq Regions, DOMAIN app = DOMAIN EmptyApp, Render
  PROVE  OverlaysDrawn'
<1> DEFINE mesh == [key \in app.dirty \X Kinds |-> RegionMesh(app, key[1], key[2])]
<1>1. overlays' = Upsert(overlays, mesh) /\ app'.regions = app.regions /\ app'.dirty = {}
  BY RenderIs, DrawnApp
<1>2. DOMAIN mesh = app.dirty \X Kinds /\ \A r \in app.dirty, kind \in Kinds :
                                         <<r, kind>> \in DOMAIN mesh /\ mesh[<<r, kind>>] = RegionMesh(app, r, kind)
  OBVIOUS
<1> HIDE DEF mesh
<1>3. \A key \in DOMAIN overlays : overlays[key] # {}
  BY DEF OverlaysDrawn
<1>4. /\ \A key \in DOMAIN overlays' : overlays'[key] # {}
      /\ \A key : ShownAt(overlays', key) = IF key \in DOMAIN mesh THEN mesh[key] ELSE ShownAt(overlays, key)
  BY <1>1, <1>3, UpsertShows
<1>5. ASSUME NEW r \in Regions, NEW kind \in Kinds
      PROVE  ShownAt(overlays', <<r, kind>>) = RegionMesh(app', r, kind)
  <2>1. RegionMesh(app', r, kind) = RegionMesh(app, r, kind)
    <3>1. SameRegion(app, app', r)
      BY <1>1 DEF SameRegion
    <3> QED
      BY <3>1, SameMesh
  <2>2. CASE r \in app.dirty
    BY <1>2, <1>4, <2>1, <2>2
  <2>3. CASE r \notin app.dirty
    <3>1. <<r, kind>> \notin DOMAIN mesh
      BY <1>2, <2>3
    <3>2. ShownAt(overlays, <<r, kind>>) = RegionMesh(app, r, kind)
      BY <2>3 DEF OverlaysDrawn
    <3> QED
      BY <1>4, <2>1, <3>1, <3>2
  <2> QED
    BY <2>2, <2>3
<1> QED
  BY <1>1, <1>4, <1>5 DEF OverlaysDrawn

(* The glow is drawn from its own marks. *)
LEMMA GlowStep ==
  ASSUME GlowDrawn, DOMAIN app = DOMAIN EmptyApp, Render
  PROVE  GlowDrawn'
<1> DEFINE mesh == [r \in app.glowDirty |-> RegionMesh(app, r, "glow")]
<1>1. glow' = Upsert(glow, mesh) /\ app'.regions = app.regions /\ app'.glowDirty = {}
  BY RenderIs, DrawnApp
<1>2. DOMAIN mesh = app.glowDirty /\ \A r \in app.glowDirty : mesh[r] = RegionMesh(app, r, "glow")
  OBVIOUS
<1> HIDE DEF mesh
<1>3. \A r \in DOMAIN glow : glow[r] # {}
  BY DEF GlowDrawn
<1>4. /\ \A r \in DOMAIN glow' : glow'[r] # {}
      /\ \A r : ShownAt(glow', r) = IF r \in DOMAIN mesh THEN mesh[r] ELSE ShownAt(glow, r)
  BY <1>1, <1>3, UpsertShows
<1>5. ASSUME NEW r \in Regions PROVE ShownAt(glow', r) = RegionMesh(app', r, "glow")
  <2>1. RegionMesh(app', r, "glow") = RegionMesh(app, r, "glow")
    BY <1>1, SameMesh DEF SameRegion
  <2>2. CASE r \in app.glowDirty
    BY <1>2, <1>4, <2>1, <2>2
  <2>3. CASE r \notin app.glowDirty
    BY <1>2, <1>4, <2>1, <2>3 DEF GlowDrawn
  <2> QED
    BY <2>2, <2>3
<1> QED
  BY <1>1, <1>4, <1>5 DEF GlowDrawn

(* What a drain changes, it marks. *)
LEMMA OverlaysIngest ==
  ASSUME OverlaysDrawn, GlowDrawn, Follows(app, app'), UNCHANGED <<overlays, glow>>
  PROVE  OverlaysDrawn' /\ GlowDrawn'
<1>1. ASSUME NEW r \in Regions, NEW kind \in Kinds, r \notin app'.dirty
      PROVE  ShownAt(overlays', <<r, kind>>) = RegionMesh(app', r, kind)
  <2>1. r \notin app.dirty /\ SameRegion(app, app', r)
    BY <1>1 DEF Follows
  <2>2. ShownAt(overlays, <<r, kind>>) = RegionMesh(app, r, kind)
    BY <2>1 DEF OverlaysDrawn
  <2> QED
    BY <2>1, <2>2, SameMesh
<1>2. ASSUME NEW r \in Regions, r \notin app'.glowDirty PROVE ShownAt(glow', r) = RegionMesh(app', r, "glow")
  <2>1. r \notin app.glowDirty /\ SameRegion(app, app', r)
    BY <1>2 DEF Follows
  <2>2. ShownAt(glow, r) = RegionMesh(app, r, "glow")
    BY <2>1 DEF GlowDrawn
  <2> QED
    BY <2>1, <2>2, SameMesh
<1> QED
  BY <1>1, <1>2 DEF OverlaysDrawn, GlowDrawn

------------------------------------------------------------------------------
(* Colors tell values apart.                                                    *)

(* Division keeps the order. *)
LEMMA DivUp ==
  ASSUME NEW a \in Nat, NEW b \in Nat, a <= b, NEW n \in Nat, n > 0
  PROVE  a \div n \in Nat /\ a \div n <= b \div n
<1> DEFINE c == a \div n
<1> DEFINE d == b \div n
<1>1. c \in Nat /\ n * c <= a
  OBVIOUS
<1>2. d \in Nat /\ b < n * d + n
  OBVIOUS
<1> HIDE DEF c, d
<1>3. n * c < n * (d + 1)
  BY <1>1, <1>2
<1>4. c < d + 1
  BY <1>1, <1>2, <1>3
<1> QED
  BY <1>1, <1>2, <1>4 DEF c, d

(* A larger value is not on a lower step of a ramp. *)
LEMMA RampUp ==
  ASSUME NEW v \in Int, NEW w \in Int, Magnitude(v) <= Magnitude(w),
         NEW ramp \in Nat, ramp > 0, NEW count \in Nat, count > 0
  PROVE  RampBucket(v, ramp, count) \in 0..count - 1 /\ RampBucket(v, ramp, count) <= RampBucket(w, ramp, count)
<1> DEFINE a == Magnitude(v) * count
<1> DEFINE b == Magnitude(w) * count
<1>1. Magnitude(v) \in Nat /\ Magnitude(w) \in Nat
  BY DEF Magnitude
<1>2. a \in Nat /\ b \in Nat /\ a <= b
  BY <1>1
<1> HIDE DEF a, b
<1>3. a \div ramp \in Nat /\ b \div ramp \in Nat /\ a \div ramp <= b \div ramp
  BY <1>2, DivUp
<1>4. /\ RampBucket(v, ramp, count) = IF a \div ramp < count THEN a \div ramp ELSE count - 1
      /\ RampBucket(w, ramp, count) = IF b \div ramp < count THEN b \div ramp ELSE count - 1
  BY DEF RampBucket, a, b
<1> QED
  BY <1>3, <1>4

(* There are five opacities. *)
LEMMA OpacityUp ==
  ASSUME NEW v \in Int, NEW w \in Int, v <= w
  PROVE  /\ Cardinality({e \in OpacityEdges : e <= v}) \in 0..4
         /\ Cardinality({e \in OpacityEdges : e <= v}) <= Cardinality({e \in OpacityEdges : e <= w})
<1> DEFINE V == {e \in OpacityEdges : e <= v}
<1> DEFINE W == {e \in OpacityEdges : e <= w}
<1>1. IsFiniteSet(OpacityEdges) /\ Cardinality(OpacityEdges) <= 4
  <2>1. IsFiniteSet({}) /\ Cardinality({}) = 0
    BY FS_EmptySet
  <2> DEFINE A == {281}
  <2> DEFINE B == {281, 3171}
  <2> DEFINE C == {281, 3171, 20312}
  <2>2. IsFiniteSet(A) /\ Cardinality(A) = 1
    BY FS_Singleton
  <2>3. B = A \cup {3171} /\ C = B \cup {20312} /\ OpacityEdges = C \cup {98963}
    BY DEF OpacityEdges
  <2> HIDE DEF A, B, C
  <2>4. IsFiniteSet(B) /\ Cardinality(B) \in Nat /\ Cardinality(B) <= 2
    BY <2>2, <2>3, FS_AddElement
  <2>5. IsFiniteSet(C) /\ Cardinality(C) \in Nat /\ Cardinality(C) <= 3
    BY <2>3, <2>4, FS_AddElement
  <2> QED
    BY <2>3, <2>5, FS_AddElement
<1>2. V \subseteq W /\ W \subseteq OpacityEdges
  <2>1. \A e \in OpacityEdges : e \in Int
    BY DEF OpacityEdges
  <2> QED
    BY <2>1
<1> HIDE DEF V, W
<1>3. IsFiniteSet(W) /\ Cardinality(W) <= Cardinality(OpacityEdges)
  BY <1>1, <1>2, FS_Subset
<1>4. IsFiniteSet(V) /\ Cardinality(V) <= Cardinality(W)
  BY <1>2, <1>3, FS_Subset
<1>5. Cardinality(V) \in Nat /\ Cardinality(W) \in Nat /\ Cardinality(OpacityEdges) \in Nat
  BY <1>1, <1>3, <1>4, FS_CardinalityType
<1>6. Cardinality(V) \in 0..4 /\ Cardinality(V) <= Cardinality(W)
  BY <1>1, <1>3, <1>4, <1>5
<1> QED
  BY <1>6 DEF V, W

(* c is how a value v of a kind is drawn. *)
Paint(kind, id) == IF kind = "glow" THEN GlowColor(id) ELSE FieldColor(id)
Drawn(kind, v, c) == \E id \in Marker(kind, v) : c = Paint(kind, id)
ValuesOf(layer) == IF layer \in {"temperature", "potential", "current"} THEN Int \cup {NaN} ELSE Nat

(* What the color of a value has to tell. *)
Tell(kind, layer, ramps) ==
  \A v, w \in ValuesOf(layer) : \A c, d :
    Drawn(kind, v, c) /\ Drawn(kind, w, d) =>
      /\ c.ramp \in ramps
      /\ layer = "temperature" /\ "glow" \notin ramps => (c.ramp = "heat" <=> v > Baseline)
      /\ c.ramp = d.ramp /\ Strength(layer, v) <= Strength(layer, w) => c.level <= d.level

(* Temperatures. *)
LEMMA TemperatureTells == Tell("temperature", "temperature", {"heat", "cold"})
<1> DEFINE bucket(v) == Cardinality({e \in OpacityEdges : e <= Magnitude(v - Baseline)})
<1>1. ASSUME NEW v \in ValuesOf("temperature"), NEW c, Drawn("temperature", v, c)
      PROVE  /\ v \in Int /\ v # Baseline /\ bucket(v) \in 0..4
             /\ c = [ramp |-> IF v > Baseline THEN "heat" ELSE "cold", level |-> bucket(v)]
  <2>1. PICK id \in TemperatureMarker(v) : c = FieldColor(id)
    BY <1>1 DEF Drawn, Marker, Paint
  <2>2. v \in Int /\ v # Baseline
    BY <2>1 DEF ValuesOf, TemperatureMarker, Finite
  <2>3. Magnitude(v - Baseline) \in Int
    BY <2>2 DEF Magnitude, Baseline
  <2>4. bucket(v) \in 0..4
    <3>1. Magnitude(v - Baseline) <= Magnitude(v - Baseline)
      BY <2>3
    <3> QED
      BY <2>3, <3>1, OpacityUp
  <2>5. id = (IF v - Baseline > 0 THEN HeatBase ELSE ColdBase) + bucket(v)
    BY <2>1 DEF TemperatureMarker
  <2> HIDE DEF bucket
  <2>6. CASE v > Baseline
    <3>1. id = HeatBase + bucket(v)
      BY <2>2, <2>5, <2>6 DEF Baseline
    <3>2. id < PackedBase /\ InRamp(id, HeatBase, 5) /\ id - HeatBase = bucket(v)
      BY <2>4, <3>1 DEF PackedBase, InRamp, HeatBase
    <3>3. ~(id >= PackedBase)
      BY <2>4, <3>1 DEF PackedBase, HeatBase
    <3> QED
      BY <2>1, <2>2, <2>4, <2>6, <3>2, <3>3 DEF FieldColor
  <2>7. CASE ~(v > Baseline)
    <3>1. id = ColdBase + bucket(v)
      BY <2>2, <2>5, <2>7 DEF Baseline
    <3>2. ~(id >= PackedBase) /\ ~InRamp(id, HeatBase, 5) /\ InRamp(id, ColdBase, 5) /\ id - ColdBase = bucket(v)
      BY <2>4, <3>1 DEF PackedBase, InRamp, HeatBase, ColdBase
    <3> QED
      BY <2>1, <2>2, <2>4, <2>7, <3>2 DEF FieldColor
  <2> QED
    BY <2>6, <2>7
<1>2. ASSUME NEW v \in Int, NEW w \in Int, Strength("temperature", v) <= Strength("temperature", w)
      PROVE  bucket(v) <= bucket(w)
  <2>1. /\ Magnitude(v - Baseline) \in Int /\ Magnitude(w - Baseline) \in Int
        /\ Magnitude(v - Baseline) <= Magnitude(w - Baseline)
    BY <1>2 DEF Strength, Magnitude, Baseline
  <2> QED
    BY <2>1, OpacityUp
<1> HIDE DEF bucket
<1> SUFFICES ASSUME NEW v \in ValuesOf("temperature"), NEW w \in ValuesOf("temperature"), NEW c, NEW d,
                    Drawn("temperature", v, c), Drawn("temperature", w, d)
             PROVE  /\ c.ramp \in {"heat", "cold"} /\ (c.ramp = "heat" <=> v > Baseline)
                    /\ Strength("temperature", v) <= Strength("temperature", w) => c.level <= d.level
  BY DEF Tell
<1> QED
  BY <1>1, <1>2

(* Potentials. *)
LEMMA PotentialTells == Tell("potential", "potential", {"potential"})
<1> DEFINE bucket(v) == RampBucket(v, 100000, Buckets)
<1>1. ASSUME NEW v \in ValuesOf("potential"), NEW c, Drawn("potential", v, c)
      PROVE  v \in Int /\ c = [ramp |-> "potential", level |-> bucket(v)]
  <2>1. PICK id \in PotentialMarker(v) : c = FieldColor(id)
    BY <1>1 DEF Drawn, Marker, Paint
  <2>2. v \in Int /\ id = PotentialBase + bucket(v)
    BY <2>1 DEF ValuesOf, PotentialMarker, Finite, AtLeast
  <2>3. bucket(v) \in 0..Buckets - 1
    <3>1. v \in Int /\ Magnitude(v) <= Magnitude(v)
      BY <2>2 DEF Magnitude
    <3>2. Buckets \in Nat /\ Buckets > 0
      BY DEF Buckets
    <3> QED
      BY <3>1, <3>2, RampUp
  <2> HIDE DEF bucket
  <2>4. ~(id >= PackedBase) /\ InRamp(id, PotentialBase, Buckets) /\ id - PotentialBase = bucket(v)
    BY <2>2, <2>3 DEF PackedBase, InRamp, PotentialBase, Buckets
  <2>5. ~InRamp(id, HeatBase, 5) /\ ~InRamp(id, ColdBase, 5)
    BY <2>2, <2>3 DEF InRamp, HeatBase, ColdBase, PotentialBase, Buckets
  <2> QED
    BY <2>1, <2>2, <2>4, <2>5 DEF FieldColor
<1>2. ASSUME NEW v \in Int, NEW w \in Int, Strength("potential", v) <= Strength("potential", w)
      PROVE  bucket(v) <= bucket(w)
  <2>1. v \in Int /\ w \in Int /\ Magnitude(v) <= Magnitude(w)
    BY <1>2 DEF Strength, Magnitude
  <2> QED
    BY <2>1, RampUp DEF Buckets, GlowBuckets, Draper, WhiteHot
<1> HIDE DEF bucket
<1> SUFFICES ASSUME NEW v \in ValuesOf("potential"), NEW w \in ValuesOf("potential"), NEW c, NEW d,
                    Drawn("potential", v, c), Drawn("potential", w, d)
             PROVE  /\ c.ramp \in {"potential"}
                    /\ Strength("potential", v) <= Strength("potential", w) => c.level <= d.level
  BY DEF Tell
<1> QED
  BY <1>1, <1>2

(* Currents. *)
LEMMA CurrentTells == Tell("current", "current", {"current"})
<1> DEFINE bucket(v) == RampBucket(v, 20000, Buckets)
<1>1. ASSUME NEW v \in ValuesOf("current"), NEW c, Drawn("current", v, c)
      PROVE  v \in Int /\ c = [ramp |-> "current", level |-> bucket(v)]
  <2>1. PICK id \in CurrentMarker(v) : c = FieldColor(id)
    BY <1>1 DEF Drawn, Marker, Paint
  <2>2. v \in Int /\ id = CurrentBase + bucket(v)
    BY <2>1 DEF ValuesOf, CurrentMarker, Finite, AtLeast
  <2>3. bucket(v) \in 0..Buckets - 1
    <3>1. v \in Int /\ Magnitude(v) <= Magnitude(v)
      BY <2>2 DEF Magnitude
    <3>2. Buckets \in Nat /\ Buckets > 0
      BY DEF Buckets
    <3> QED
      BY <3>1, <3>2, RampUp
  <2> HIDE DEF bucket
  <2>4. ~(id >= PackedBase) /\ InRamp(id, CurrentBase, Buckets) /\ id - CurrentBase = bucket(v)
    BY <2>2, <2>3 DEF PackedBase, InRamp, CurrentBase, Buckets
  <2>5. ~InRamp(id, HeatBase, 5) /\ ~InRamp(id, ColdBase, 5) /\ ~InRamp(id, PotentialBase, Buckets)
    BY <2>2, <2>3 DEF InRamp, HeatBase, ColdBase, PotentialBase, CurrentBase, Buckets
  <2> QED
    BY <2>1, <2>2, <2>4, <2>5 DEF FieldColor
<1>2. ASSUME NEW v \in Int, NEW w \in Int, Strength("current", v) <= Strength("current", w)
      PROVE  bucket(v) <= bucket(w)
  <2>1. v \in Int /\ w \in Int /\ Magnitude(v) <= Magnitude(w)
    BY <1>2 DEF Strength, Magnitude
  <2> QED
    BY <2>1, RampUp DEF Buckets, GlowBuckets, Draper, WhiteHot
<1> HIDE DEF bucket
<1> SUFFICES ASSUME NEW v \in ValuesOf("current"), NEW w \in ValuesOf("current"), NEW c, NEW d,
                    Drawn("current", v, c), Drawn("current", w, d)
             PROVE  /\ c.ramp \in {"current"}
                    /\ Strength("current", v) <= Strength("current", w) => c.level <= d.level
  BY DEF Tell
<1> QED
  BY <1>1, <1>2

(* Ionization. *)
LEMMA IonizationTells == Tell("ionization", "ionization", {"ionization"})
<1> DEFINE bucket(v) == RampBucket(v, 255, Buckets)
<1>1. ASSUME NEW v \in ValuesOf("ionization"), NEW c, Drawn("ionization", v, c)
      PROVE  v \in Int /\ c = [ramp |-> "ionization", level |-> bucket(v)]
  <2>1. PICK id \in IonizationMarker(v) : c = FieldColor(id)
    BY <1>1 DEF Drawn, Marker, Paint
  <2>2. v \in Int /\ id = IonizationBase + bucket(v)
    BY <2>1 DEF ValuesOf, IonizationMarker, Finite, AtLeast
  <2>3. bucket(v) \in 0..Buckets - 1
    <3>1. v \in Int /\ Magnitude(v) <= Magnitude(v)
      BY <2>2 DEF Magnitude
    <3>2. Buckets \in Nat /\ Buckets > 0
      BY DEF Buckets
    <3> QED
      BY <3>1, <3>2, RampUp
  <2> HIDE DEF bucket
  <2>4. ~(id >= PackedBase) /\ InRamp(id, IonizationBase, Buckets) /\ id - IonizationBase = bucket(v)
    BY <2>2, <2>3 DEF PackedBase, InRamp, IonizationBase, Buckets
  <2>5. ~InRamp(id, HeatBase, 5) /\ ~InRamp(id, ColdBase, 5) /\ ~InRamp(id, PotentialBase, Buckets) /\ ~InRamp(id, CurrentBase, Buckets)
    BY <2>2, <2>3 DEF InRamp, HeatBase, ColdBase, PotentialBase, CurrentBase, IonizationBase, Buckets
  <2> QED
    BY <2>1, <2>2, <2>4, <2>5 DEF FieldColor
<1>2. ASSUME NEW v \in Int, NEW w \in Int, Strength("ionization", v) <= Strength("ionization", w)
      PROVE  bucket(v) <= bucket(w)
  <2>1. v \in Int /\ w \in Int /\ Magnitude(v) <= Magnitude(w)
    BY <1>2 DEF Strength, Magnitude
  <2> QED
    BY <2>1, RampUp DEF Buckets, GlowBuckets, Draper, WhiteHot
<1> HIDE DEF bucket
<1> SUFFICES ASSUME NEW v \in ValuesOf("ionization"), NEW w \in ValuesOf("ionization"), NEW c, NEW d,
                    Drawn("ionization", v, c), Drawn("ionization", w, d)
             PROVE  /\ c.ramp \in {"ionization"}
                    /\ Strength("ionization", v) <= Strength("ionization", w) => c.level <= d.level
  BY DEF Tell
<1> QED
  BY <1>1, <1>2

(* Light without color. *)
LEMMA LightTells == Tell("light", "light", {"light", "packed"})
<1> DEFINE bucket(v) == RampBucket(v, 255, Buckets)
<1>1. ASSUME NEW v \in ValuesOf("light"), NEW c, Drawn("light", v, c)
      PROVE  v \in Int /\ c = [ramp |-> "light", level |-> bucket(v)]
  <2>1. PICK id \in LightMarker(v) : c = FieldColor(id)
    BY <1>1 DEF Drawn, Marker, Paint
  <2>2. v \in Int /\ id = LightBase + bucket(v)
    BY <2>1 DEF ValuesOf, LightMarker, Finite, AtLeast
  <2>3. bucket(v) \in 0..Buckets - 1
    <3>1. v \in Int /\ Magnitude(v) <= Magnitude(v)
      BY <2>2 DEF Magnitude
    <3>2. Buckets \in Nat /\ Buckets > 0
      BY DEF Buckets
    <3> QED
      BY <3>1, <3>2, RampUp
  <2> HIDE DEF bucket
  <2>4. ~(id >= PackedBase) /\ InRamp(id, LightBase, Buckets) /\ id - LightBase = bucket(v)
    BY <2>2, <2>3 DEF PackedBase, InRamp, LightBase, Buckets
  <2>5. ~InRamp(id, HeatBase, 5) /\ ~InRamp(id, ColdBase, 5) /\ ~InRamp(id, PotentialBase, Buckets) /\ ~InRamp(id, CurrentBase, Buckets) /\ ~InRamp(id, IonizationBase, Buckets)
    BY <2>2, <2>3 DEF InRamp, HeatBase, ColdBase, PotentialBase, CurrentBase, IonizationBase, LightBase, Buckets
  <2> QED
    BY <2>1, <2>2, <2>4, <2>5 DEF FieldColor
<1>2. ASSUME NEW v \in Int, NEW w \in Int, Strength("light", v) <= Strength("light", w)
      PROVE  bucket(v) <= bucket(w)
  <2>1. v \in Int /\ w \in Int /\ Magnitude(v) <= Magnitude(w)
    BY <1>2 DEF Strength, Magnitude
  <2> QED
    BY <2>1, RampUp DEF Buckets, GlowBuckets, Draper, WhiteHot
<1> HIDE DEF bucket
<1> SUFFICES ASSUME NEW v \in ValuesOf("light"), NEW w \in ValuesOf("light"), NEW c, NEW d,
                    Drawn("light", v, c), Drawn("light", w, d)
             PROVE  /\ c.ramp \in {"light", "packed"}
                    /\ Strength("light", v) <= Strength("light", w) => c.level <= d.level
  BY DEF Tell
<1> QED
  BY <1>1, <1>2

(* Glow: the hotter, the brighter. *)
LEMMA GlowTells == Tell("glow", "temperature", {"glow"})
<1> DEFINE bucket(v) == RampBucket(v - Draper, WhiteHot - Draper, GlowBuckets)
<1>1. ASSUME NEW v \in ValuesOf("temperature"), NEW c, Drawn("glow", v, c)
      PROVE  v \in Int /\ v >= Draper /\ c = [ramp |-> "glow", level |-> bucket(v)]
  <2>1. PICK id \in GlowMarker(v) : c = GlowColor(id)
    BY <1>1 DEF Drawn, Marker, Paint
  <2>2. v \in Int /\ v >= Draper /\ id = IncandescenceBase + bucket(v)
    <3>1. v \in Int /\ ~(v < Draper) /\ id = IncandescenceBase + bucket(v)
      BY <2>1 DEF ValuesOf, GlowMarker, Finite
    <3> QED
      BY <3>1 DEF Draper
  <2>3. bucket(v) \in 0..GlowBuckets - 1
    <3>1. v - Draper \in Int /\ Magnitude(v - Draper) <= Magnitude(v - Draper)
      BY <2>2 DEF Magnitude, Draper
    <3>2. GlowBuckets \in Nat /\ GlowBuckets > 0 /\ WhiteHot - Draper \in Nat /\ WhiteHot - Draper > 0
      BY DEF GlowBuckets, WhiteHot, Draper
    <3> DEFINE n == WhiteHot - Draper
    <3> DEFINE z == v - Draper
    <3> HIDE DEF n, z
    <3>3. RampBucket(z, n, GlowBuckets) \in 0..GlowBuckets - 1
      BY <3>1, <3>2, RampUp DEF n, z
    <3> QED
      BY <3>3 DEF n, z
  <2> HIDE DEF bucket
  <2>4. InRamp(id, IncandescenceBase, GlowBuckets) /\ id - IncandescenceBase = bucket(v)
    BY <2>2, <2>3 DEF InRamp, IncandescenceBase, GlowBuckets
  <2> QED
    BY <2>1, <2>2, <2>4 DEF GlowColor
<1>2. ASSUME NEW v \in Int, NEW w \in Int, v >= Draper, w >= Draper, Strength("temperature", v) <= Strength("temperature", w)
      PROVE  bucket(v) <= bucket(w)
  <2>1. v - Draper \in Int /\ w - Draper \in Int /\ Magnitude(v - Draper) <= Magnitude(w - Draper)
    BY <1>2 DEF Strength, Magnitude, Draper, Baseline
  <2> QED
    BY <2>1, RampUp DEF Buckets, GlowBuckets, Draper, WhiteHot
<1> HIDE DEF bucket
<1> SUFFICES ASSUME NEW v \in ValuesOf("temperature"), NEW w \in ValuesOf("temperature"), NEW c, NEW d,
                    Drawn("glow", v, c), Drawn("glow", w, d)
             PROVE  /\ c.ramp \in {"glow"}
                    /\ Strength("temperature", v) <= Strength("temperature", w) => c.level <= d.level
  BY DEF Tell
<1> QED
  BY <1>1, <1>2

(* The value of a cell of a field. *)
LEMMA ValueAtIs ==
  ASSUME NEW f, IsField(f), NEW layer \in Kinds, Has(f, layer), NEW i \in DOMAIN f.cells
  PROVE  ValueAt(f, layer, CellOf(f.cells[i])) = f.layers[layer][i] /\ f.layers[layer][i] \in ValuesOf(layer)
<1> DEFINE j == CHOOSE j \in DOMAIN f.cells : CellOf(f.cells[j]) = CellOf(f.cells[i])
<1>1. j \in DOMAIN f.cells /\ CellOf(f.cells[j]) = CellOf(f.cells[i])
  OBVIOUS
<1>2. ValueAt(f, layer, CellOf(f.cells[i])) = f.layers[layer][j]
  BY DEF ValueAt
<1> HIDE DEF j
<1>3. j = i
  BY <1>1 DEF IsField
<1>4. f.layers[layer] \in [DOMAIN f.cells -> ValuesOf(layer)]
  BY DEF IsField, Has, ValuesOf
<1> QED
  BY <1>2, <1>3, <1>4

(* A mark of an overlay is drawn from the value of its cell. *)
LEMMA MarkIs ==
  ASSUME NEW f, IsField(f), NEW layer \in Kinds, NEW kind, NEW m \in OverlayFromValues(f, layer, kind)
  PROVE  ValueAt(f, layer, m.cell) \in ValuesOf(layer) /\ Drawn(kind, ValueAt(f, layer, m.cell), m.color)
<1>1. PICK i \in (IF Has(f, layer) THEN DOMAIN f.cells ELSE {}) :
             m \in {[cell |-> CellOf(f.cells[i]),
                     color |-> IF kind = "glow" THEN GlowColor(id) ELSE FieldColor(id)] :
                      id \in Marker(kind, f.layers[layer][i])}
  BY DEF OverlayFromValues
<1>2. PICK id \in Marker(kind, f.layers[layer][i]) :
             m = [cell |-> CellOf(f.cells[i]),
                  color |-> IF kind = "glow" THEN GlowColor(id) ELSE FieldColor(id)]
  BY <1>1
<1>3. Has(f, layer) /\ i \in DOMAIN f.cells
  BY <1>1
<1>4. ValueAt(f, layer, m.cell) = f.layers[layer][i] /\ f.layers[layer][i] \in ValuesOf(layer)
  <2>1. m.cell = CellOf(f.cells[i])
    BY <1>2
  <2> QED
    BY <1>3, <2>1, ValueAtIs
<1>5. m.color = Paint(kind, id)
  BY <1>2 DEF Paint
<1> QED
  BY <1>2, <1>4, <1>5 DEF Drawn

(* So the marks of an overlay tell its values apart. *)
LEMMA OverlayTells ==
  ASSUME NEW f, IsField(f), NEW layer \in Kinds, NEW kind, NEW ramps, Tell(kind, layer, ramps)
  PROVE  ColorsTell(OverlayFromValues(f, layer, kind), f, layer, ramps)
<1> DEFINE M == OverlayFromValues(f, layer, kind)
<1>1. \A m \in M : ValueAt(f, layer, m.cell) \in ValuesOf(layer) /\ Drawn(kind, ValueAt(f, layer, m.cell), m.color)
  BY MarkIs
<1> HIDE DEF M
<1>2. ASSUME NEW m \in M, NEW n \in M
      PROVE  /\ m.color.ramp \in ramps
             /\ layer = "temperature" /\ "glow" \notin ramps =>
                  (m.color.ramp = "heat" <=> ValueAt(f, layer, m.cell) > Baseline)
             /\ m.color.ramp = n.color.ramp
                  /\ Strength(layer, ValueAt(f, layer, m.cell)) <= Strength(layer, ValueAt(f, layer, n.cell))
                => m.color.level <= n.color.level
  BY <1>1 DEF Tell
<1>3. ColorsTell(M, f, layer, ramps)
  BY <1>2 DEF ColorsTell
<1> QED
  BY <1>3 DEF M

(* With color, light is packed. *)
LEMMA PackedTells ==
  ASSUME NEW f, IsField(f), Has(f, "light"), Has(f, "color")
  PROVE  ColorsTell(PackedOverlay(f), f, "light", {"light", "packed"})
<1>1. ASSUME NEW m \in PackedOverlay(f) PROVE m.color.ramp = "packed"
  <2>1. PICK i \in DOMAIN f.cells : m = [cell |-> CellOf(f.cells[i]), color |-> FieldColor(PackedBase + f.layers["color"][i])]
    BY DEF PackedOverlay
  <2>2. f.layers["color"][i] \in Nat
    <3>1. f.layers["color"] \in [DOMAIN f.cells -> Nat]
      BY DEF IsField, Has
    <3> QED
      BY <3>1
  <2>3. PackedBase + f.layers["color"][i] >= PackedBase
    BY <2>2 DEF PackedBase
  <2> QED
    BY <2>1, <2>3 DEF FieldColor
<1> QED
  BY <1>1 DEF ColorsTell

(* Each kind of overlay tells its field. *)
LEMMA MeshTells ==
  ASSUME NEW f, IsField(f), NEW kind \in Kinds
  PROVE  ColorsTell(OverlayMesh(f, kind), f, kind, RampsOf(kind))
<1>1. CASE kind = "light" /\ Has(f, "light") /\ Has(f, "color")
  BY <1>1, PackedTells DEF OverlayMesh, RampsOf
<1>2. CASE ~(kind = "light" /\ Has(f, "light") /\ Has(f, "color"))
  <2>1. OverlayMesh(f, kind) = OverlayFromValues(f, kind, kind)
    BY <1>2 DEF OverlayMesh
  <2>2. Tell(kind, kind, RampsOf(kind))
    <3>1. CASE kind = "temperature"
      BY <3>1, TemperatureTells DEF RampsOf
    <3>2. CASE kind = "potential"
      BY <3>2, PotentialTells DEF RampsOf
    <3>3. CASE kind = "current"
      BY <3>3, CurrentTells DEF RampsOf
    <3>4. CASE kind = "ionization"
      BY <3>4, IonizationTells DEF RampsOf
    <3>5. CASE kind = "light"
      BY <3>5, LightTells DEF RampsOf
    <3> QED
      BY <3>1, <3>2, <3>3, <3>4, <3>5 DEF Kinds
  <2> QED
    BY <2>1, <2>2, OverlayTells
<1> QED
  BY <1>1, <1>2

(* What is drawn between two frames is the fields. *)
LEMMA OverlaysShow ==
  ASSUME OverlaysDrawn, GlowDrawn, Drained, AppOK(app)
  PROVE  OverlaysAreField
<1> SUFFICES ASSUME phase = "Net", NEW r \in Regions
             PROVE  IF r \notin DOMAIN app.regions
                    THEN r \notin DOMAIN glow /\ \A kind \in Kinds : <<r, kind>> \notin DOMAIN overlays
                    ELSE /\ ShownAt(glow, r) = IncandescenceMesh(app.regions[r])
                         /\ ColorsTell(ShownAt(glow, r), app.regions[r], "temperature", {"glow"})
                         /\ \A kind \in Kinds :
                              /\ ShownAt(overlays, <<r, kind>>) = OverlayMesh(app.regions[r], kind)
                              /\ ColorsTell(ShownAt(overlays, <<r, kind>>), app.regions[r], kind, RampsOf(kind))
  BY DEF OverlaysAreField
<1>1. /\ ShownAt(glow, r) = RegionMesh(app, r, "glow")
      /\ \A kind \in Kinds : ShownAt(overlays, <<r, kind>>) = RegionMesh(app, r, kind)
  BY DEF Drained, OverlaysDrawn, GlowDrawn
<1>2. CASE r \notin DOMAIN app.regions
  <2>1. ShownAt(glow, r) = {} /\ \A kind \in Kinds : ShownAt(overlays, <<r, kind>>) = {}
    BY <1>1, <1>2 DEF RegionMesh
  <2> QED
    BY <1>2, <2>1 DEF ShownAt, OverlaysDrawn, GlowDrawn
<1>3. CASE r \in DOMAIN app.regions
  <2> DEFINE f == app.regions[r]
  <2>1. IsField(f)
    BY <1>3 DEF AppOK
  <2>2. ShownAt(glow, r) = OverlayFromValues(f, "temperature", "glow")
    BY <1>1, <1>3 DEF RegionMesh, IncandescenceMesh
  <2>3. ASSUME NEW kind \in Kinds PROVE ShownAt(overlays, <<r, kind>>) = OverlayMesh(f, kind)
    <3>1. kind # "glow"
      BY DEF Kinds
    <3> QED
      BY <1>1, <1>3, <3>1 DEF RegionMesh
  <2> HIDE DEF f
  <2>4. ColorsTell(ShownAt(glow, r), f, "temperature", {"glow"})
    <3>1. "temperature" \in Kinds
      BY DEF Kinds
    <3> QED
      BY <2>1, <2>2, <3>1, OverlayTells, GlowTells
  <2>5. \A kind \in Kinds : ColorsTell(ShownAt(overlays, <<r, kind>>), f, kind, RampsOf(kind))
    BY <2>1, <2>3, MeshTells
  <2> QED
    BY <1>3, <2>2, <2>3, <2>4, <2>5 DEF f, IncandescenceMesh
<1> QED
  BY <1>2, <1>3

------------------------------------------------------------------------------
(* The readout of a chunk.                                                      *)

(* The value of a region at a cell, or none. *)
LEMMA ValueHereIs ==
  ASSUME AppOK(app), NEW k, NEW layer \in {"current", "potential"}, NEW cell, NEW r \in Regions
  PROVE  /\ ValueHere(app, k, layer, cell, r) \in Int \cup {NaN}
         /\ ValueHere(app, k, layer, cell, r) = 0 \/ ValueHere(app, k, layer, cell, r) \in ValuesAt(k, layer, cell)
<1> DEFINE f == app.regions[r]
<1> DEFINE at == IF r \in DOMAIN app.regions /\ ChunkOf[r] = k /\ Has(f, layer)
                 THEN {i \in DOMAIN f.cells : CellOf(f.cells[i]) = cell} ELSE {}
<1> DEFINE i == CHOOSE i \in at : TRUE
<1>1. ValueHere(app, k, layer, cell, r) = IF at = {} THEN 0 ELSE f.layers[layer][i]
  BY DEF ValueHere
<1>2. CASE at = {}
  BY <1>1, <1>2
<1>3. CASE at # {}
  <2>1. i \in at
    BY <1>3
  <2>2. /\ r \in DOMAIN app.regions /\ ChunkOf[r] = k /\ Has(f, layer)
        /\ i \in DOMAIN f.cells /\ CellOf(f.cells[i]) = cell
    BY <2>1
  <2>3. ValueHere(app, k, layer, cell, r) = f.layers[layer][i]
    BY <1>1, <1>3
  <2> HIDE DEF i
  <2>4. IsField(f) /\ layer \in Kinds
    BY <2>2 DEF AppOK, Kinds
  <2>5. ValueAt(f, layer, cell) = f.layers[layer][i] /\ f.layers[layer][i] \in Int \cup {NaN}
    BY <2>2, <2>4, ValueAtIs DEF ValuesOf
  <2>6. ValueAt(f, layer, cell) \in ValuesAt(k, layer, cell)
    BY <2>2 DEF ValuesAt
  <2> QED
    BY <2>3, <2>5, <2>6
<1> QED
  BY <1>2, <1>3

(* And the other way round: a value there is that of a region. *)
LEMMA ValueThere ==
  ASSUME AppOK(app), NEW k, NEW layer \in {"current", "potential"}, NEW cell, NEW v \in ValuesAt(k, layer, cell)
  PROVE  \E r \in Regions : ValueHere(app, k, layer, cell, r) = v
<1>1. PICK r \in DOMAIN app.regions : /\ ChunkOf[r] = k /\ Has(app.regions[r], layer)
                                      /\ \E i \in DOMAIN app.regions[r].cells : CellOf(app.regions[r].cells[i]) = cell
                                      /\ v = ValueAt(app.regions[r], layer, cell)
  BY DEF ValuesAt
<1> DEFINE f == app.regions[r]
<1> DEFINE at == {i \in DOMAIN f.cells : CellOf(f.cells[i]) = cell}
<1> DEFINE i == CHOOSE i \in at : TRUE
<1>2. at # {}
  BY <1>1
<1>3. i \in at
  BY <1>2
<1>4. ValueHere(app, k, layer, cell, r) = f.layers[layer][i]
  BY <1>1, <1>2 DEF ValueHere
<1>5. i \in DOMAIN f.cells /\ CellOf(f.cells[i]) = cell
  BY <1>3
<1> HIDE DEF i
<1>6. IsField(f) /\ layer \in Kinds /\ Has(f, layer) /\ r \in Regions
  BY <1>1 DEF AppOK, Kinds
<1>7. ValueAt(f, layer, cell) = f.layers[layer][i]
  BY <1>5, <1>6, ValueAtIs
<1> QED
  BY <1>1, <1>4, <1>6, <1>7

(* An order of the regions passes every region. *)
LEMMA OrderPasses ==
  ASSUME NEW order \in Orders
  PROVE  /\ order \in Seq(Regions) /\ Len(order) = Cardinality(Regions)
         /\ \A r \in Regions : \E i \in 1..Len(order) : order[i] = r
<1> DEFINE n == Cardinality(Regions)
<1>1. IsFiniteSet(Regions) /\ n \in Nat
  BY FieldAssumption, FS_CardinalityType
<1>2. order \in [1..n -> Regions] /\ \A i, j \in 1..n : order[i] = order[j] => i = j
  BY DEF Orders
<1> HIDE DEF n
<1>3. order \in Seq(Regions) /\ Len(order) = n
  BY <1>1, <1>2, SeqDef, LenProperties
<1>4. order \in Injection(1..n, Regions)
  BY <1>2 DEF Injection, IsInjective
<1>5. IsFiniteSet(1..n) /\ Cardinality(1..n) = n
  BY <1>1, FS_Interval
<1>6. order \in Surjection(1..n, Regions)
  BY <1>1, <1>4, <1>5, FS_Injection DEF n
<1> QED
  BY <1>3, <1>6 DEF Surjection, n

(* What there is to read. *)
Readable(k, layer, cell) == {v \in ValuesAt(k, layer, cell) : Finite(v)}

(* A grid holds a value of the largest magnitude. *)
LEMMA GridIs ==
  ASSUME AppOK(app), NEW k, NEW layer \in {"current", "potential"}, NEW cell, NEW order \in Orders
  PROVE  /\ ElectricGrid(app, k, layer, order, cell) \in {0} \cup Readable(k, layer, cell)
         /\ Readable(k, layer, cell) \subseteq Int
         /\ \A v \in Readable(k, layer, cell) : Magnitude(v) <= Magnitude(ElectricGrid(app, k, layer, order, cell))
<1> DEFINE V == Readable(k, layer, cell)
<1> DEFINE here(r) == ValueHere(app, k, layer, cell, r)
<1>1. /\ order \in Seq(Regions) /\ Len(order) \in Nat /\ \A r \in Regions : \E i \in 1..Len(order) : order[i] = r
      /\ \A i \in 1..Len(order) : order[i] \in Regions
  BY OrderPasses, LenProperties, ElementOfSeq
<1>2. PICK h : /\ h[0] = 0
               /\ \A i \in 1..Len(order) : h[i] = (IF Stronger(here(order[i]), h[i - 1]) THEN here(order[i]) ELSE h[i - 1])
               /\ ElectricGrid(app, k, layer, order, cell) = h[Len(order)]
  <2>1. order \in Seq(Regions)
    BY <1>1
  <2> QED
    BY <2>1, ElectricRun
<1>3. \A r \in Regions : here(r) \in Int \cup {NaN} /\ (here(r) = 0 \/ here(r) \in ValuesAt(k, layer, cell))
  BY ValueHereIs
<1>4. ASSUME NEW v \in V PROVE v \in Int /\ \E r \in Regions : here(r) = v
  <2>1. v \in ValuesAt(k, layer, cell) /\ Finite(v)
    BY DEF Readable
  <2>2. PICK r \in Regions : here(r) = v
    BY <2>1, ValueThere
  <2> HIDE DEF here
  <2> QED
    BY <1>3, <2>1, <2>2 DEF Finite
<1> HIDE DEF here
<1>5. \A r \in Regions : Finite(here(r)) => here(r) \in Int /\ here(r) \in {0} \cup V
  BY <1>3 DEF Readable, Finite
<1> HIDE DEF V
<1> DEFINE U == {n \in Nat : /\ h[n] \in Int /\ h[n] \in {0} \cup V
                             /\ \A i \in 1..n : Finite(here(order[i])) => Magnitude(here(order[i])) <= Magnitude(h[n])}
<1>6. 0 \in U
  BY <1>2
<1>7. ASSUME NEW n \in 0..Len(order), n # Len(order), n \in U PROVE n + 1 \in U
  <2>1. n + 1 \in 1..Len(order) /\ n + 1 - 1 = n /\ n \in Nat /\ n + 1 \in Nat
    BY <1>1, <1>7
  <2> DEFINE z == here(order[n + 1])
  <2>2. h[n + 1] = (IF Stronger(z, h[n]) THEN z ELSE h[n])
    BY <1>2, <2>1
  <2>3. order[n + 1] \in Regions
    BY <1>1, <2>1
  <2>4. Finite(z) => z \in Int /\ z \in {0} \cup V
    BY <1>5, <2>3
  <2> HIDE DEF z
  <2>5. h[n + 1] \in Int /\ h[n + 1] \in {0} \cup V
    BY <1>7, <2>2, <2>4 DEF Stronger
  <2>6. (Finite(z) => Magnitude(z) <= Magnitude(h[n + 1])) /\ Magnitude(h[n]) <= Magnitude(h[n + 1])
    BY <1>7, <2>2, <2>4 DEF Stronger, Magnitude
  <2>7. ASSUME NEW i \in 1..n + 1, Finite(here(order[i])) PROVE Magnitude(here(order[i])) <= Magnitude(h[n + 1])
    <3>1. CASE i = n + 1
      BY <2>6, <2>7, <3>1 DEF z
    <3>2. CASE i # n + 1
      <4>1. i \in 1..n
        BY <2>1, <3>2
      <4>2. Magnitude(here(order[i])) <= Magnitude(h[n])
        BY <1>7, <2>7, <4>1
      <4>3. order[i] \in Regions
        BY <1>1, <2>1, <4>1
      <4>4. here(order[i]) \in Int
        BY <1>5, <2>7, <4>3
      <4>5. Magnitude(here(order[i])) \in Int /\ Magnitude(h[n]) \in Int /\ Magnitude(h[n + 1]) \in Int
        BY <1>7, <2>5, <4>4 DEF Magnitude
      <4> QED
        BY <2>6, <4>2, <4>5
    <3> QED
      BY <3>1, <3>2
  <2> QED
    BY <2>1, <2>5, <2>7
<1>8. Len(order) \in U
  <2>1. \A n \in 0..Len(order) : n \in U
    <3> HIDE DEF U
    <3> QED
      BY <1>1, <1>6, <1>7, Upward
  <2> QED
    BY <1>1, <2>1
<1>9. ASSUME NEW v \in V PROVE v \in Int /\ Magnitude(v) <= Magnitude(h[Len(order)])
  <2>1. PICK r \in Regions : here(r) = v
    BY <1>4
  <2>2. PICK i \in 1..Len(order) : order[i] = r
    BY <1>1
  <2>3. v \in Int
    BY <1>4
  <2>4. Finite(v)
    BY <2>3, FieldAssumption DEF Finite
  <2> QED
    BY <1>8, <2>1, <2>2, <2>3, <2>4
<1>10. V = Readable(k, layer, cell)
  BY DEF V
<1> QED
  BY <1>2, <1>8, <1>9, <1>10

(* The marks of a chunk read its fields. *)
Reads(marks, k) ==
  /\ {m.cell : m \in marks} = SemiconductorCells(app, k)
  /\ Cardinality(marks) = Cardinality(SemiconductorCells(app, k))
  /\ \A m \in marks : m.color \in Readings(k, m.cell)

(* The cells of a chunk are finitely many. *)
LEMMA CellsFinite == IsFiniteSet(Span) /\ IsFiniteSet(Cells)
<1>1. IsFiniteSet(Span)
  BY SizeAssumption, FS_Interval DEF Span
<1>2. IsFiniteSet(Span \X Span)
  BY <1>1, FS_Product
<1> DEFINE f == [c \in (Span \X Span) \X Span |-> <<c[1][1], c[1][2], c[2]>>]
<1>3. IsFiniteSet((Span \X Span) \X Span)
  BY <1>1, <1>2, FS_Product
<1>4. f \in Surjection((Span \X Span) \X Span, Cells)
  <2>1. f \in [(Span \X Span) \X Span -> Cells]
    BY DEF Cells
  <2>2. ASSUME NEW c \in Cells PROVE \E d \in (Span \X Span) \X Span : f[d] = c
    <3>1. c = <<c[1], c[2], c[3]>> /\ c[1] \in Span /\ c[2] \in Span /\ c[3] \in Span
      BY DEF Cells
    <3> DEFINE d == <<<<c[1], c[2]>>, c[3]>>
    <3>2. d \in (Span \X Span) \X Span /\ f[d] = <<c[1], c[2], c[3]>>
      BY <3>1
    <3> QED
      BY <3>1, <3>2
  <2> QED
    BY <2>1, <2>2 DEF Surjection
<1> HIDE DEF f
<1>5. IsFiniteSet(Cells)
  BY <1>3, <1>4, FS_Surjection
<1> QED
  BY <1>1, <1>5

(* What is drawn of a chunk reads its fields. *)
LEMMA MeshReads ==
  ASSUME AppOK(app), NEW k, NEW order \in Orders
  PROVE  Reads(ReadoutMesh(app, k, order), k)
<1> DEFINE S == SemiconductorCells(app, k)
<1> DEFINE M == ReadoutMesh(app, k, order)
<1> DEFINE current(c) == ElectricGrid(app, k, "current", order, c)
<1> DEFINE potential(c) == ElectricGrid(app, k, "potential", order, c)
<1> DEFINE color(c) == SemiconductorColor(MarkerId(Classify(app.held[k].cells[c].material, current(c), potential(c))))
<1> DEFINE mark(c) == [cell |-> c, color |-> color(c)]
<1>1. M = {mark(c) : c \in S}
  BY DEF ReadoutMesh
<1>2. ASSUME NEW c \in S PROVE color(c) \in Readings(k, c)
  <2> DEFINE material == app.held[k].cells[c].material
  <2> DEFINE state == Classify(material, current(c), potential(c))
  <2> DEFINE currents == Readable(k, "current", c)
  <2> DEFINE potentials == Readable(k, "potential", c)
  <2> DEFINE strongest == {v \in potentials : \A w \in potentials : Magnitude(w) <= Magnitude(v)}
  <2> DEFINE i == current(c)
  <2> DEFINE u == potential(c)
  <2>1. /\ current(c) \in {0} \cup currents /\ currents \subseteq Int
        /\ \A v \in currents : Magnitude(v) <= Magnitude(current(c))
    BY GridIs
  <2>2. /\ potential(c) \in {0} \cup potentials /\ potentials \subseteq Int
        /\ \A v \in potentials : Magnitude(v) <= Magnitude(potential(c))
    BY GridIs
  <2>3. Readings(k, c) =
          IF material = Resistor
          THEN {IF \E v \in currents : v # 0 THEN "ResistorActive" ELSE "ResistorIdle"}
          ELSE {IF v >= 500 THEN "ComparatorHigh" ELSE "ComparatorLow" :
                  v \in IF strongest = {} THEN {0} ELSE strongest}
    BY DEF Readings, Readable
  <2>4. color(c) = state
    <3>1. state \in {"ResistorIdle", "ResistorActive", "ComparatorLow", "ComparatorHigh"}
      BY DEF Classify
    <3> HIDE DEF state
    <3>2. SemiconductorColor(MarkerId(state)) = state
      BY <3>1 DEF SemiconductorColor, MarkerId, SemiconductorBase
    <3> QED
      BY <3>2 DEF state
  <2>5. state = IF material = Resistor
                THEN IF Magnitude(i) >= 1 THEN "ResistorActive" ELSE "ResistorIdle"
                ELSE IF u >= 500 THEN "ComparatorHigh" ELSE "ComparatorLow"
    BY DEF Classify
  <2>8. i \in {0} \cup currents /\ currents \subseteq Int /\ \A v \in currents : Magnitude(v) <= Magnitude(i)
    BY <2>1
  <2>9. u \in {0} \cup potentials /\ potentials \subseteq Int /\ \A v \in potentials : Magnitude(v) <= Magnitude(u)
    BY <2>2
  <2> HIDE DEF currents, potentials, i, u, state, material
  <2>6. CASE material = Resistor
    <3>1. i \in Int /\ (i = 0 \/ i \in currents) /\ \A v \in currents : v \in Int /\ Magnitude(v) <= Magnitude(i)
      BY <2>8
    <3>2. Magnitude(i) >= 1 <=> \E v \in currents : v # 0
      <4>1. CASE i = 0
        BY <3>1, <4>1 DEF Magnitude
      <4>2. CASE i # 0
        BY <3>1, <4>2 DEF Magnitude
      <4> QED
        BY <4>1, <4>2
    <3> QED
      BY <2>3, <2>4, <2>5, <2>6, <3>2
  <2>7. CASE material # Resistor
    <3>1. u \in Int /\ (u = 0 \/ u \in potentials) /\ \A v \in potentials : v \in Int /\ Magnitude(v) <= Magnitude(u)
      BY <2>9
    <3>2. u \in IF strongest = {} THEN {0} ELSE strongest
      <4>1. CASE u \in potentials
        BY <3>1, <4>1
      <4>2. CASE u \notin potentials
        <5>1. u = 0 /\ Magnitude(u) = 0
          BY <3>1, <4>2 DEF Magnitude
        <5>2. \A v \in potentials : v = 0
          BY <3>1, <5>1 DEF Magnitude
        <5>3. potentials = {}
          BY <4>2, <5>1, <5>2
        <5> QED
          BY <5>1, <5>3
      <4> QED
        BY <4>1, <4>2
    <3> HIDE DEF strongest
    <3> QED
      BY <2>3, <2>4, <2>5, <2>7, <3>2
  <2> QED
    BY <2>6, <2>7
<1> HIDE DEF color, M
<1>3. \A m \in M : m.color \in Readings(k, m.cell)
  BY <1>1, <1>2
<1>4. {m.cell : m \in M} = S
  <2>1. ASSUME NEW c \in S PROVE mark(c) \in M /\ mark(c).cell = c
    BY <1>1
  <2>2. ASSUME NEW m \in M PROVE m.cell \in S
    BY <1>1
  <2> HIDE DEF S, mark
  <2> QED
    BY <2>1, <2>2
<1>5. Cardinality(M) = Cardinality(S)
  <2>1. IsFiniteSet(S)
    <3>1. S \in SUBSET Cells
      BY DEF SemiconductorCells
    <3> QED
      BY <3>1, CellsFinite, FS_Subset
  <2> DEFINE f == [c \in S |-> mark(c)]
  <2>2. f \in Bijection(S, M)
    <3>1. f \in [S -> M] /\ \A c \in S : f[c] = mark(c)
      BY <1>1
    <3>2. \A c, d \in S : mark(c) = mark(d) => c = d
      OBVIOUS
    <3>3. \A m \in M : \E c \in S : mark(c) = m
      BY <1>1
    <3> HIDE DEF f, mark, S
    <3> QED
      BY <3>1, <3>2, <3>3 DEF Bijection, Injection, Surjection, IsInjective
  <2> HIDE DEF f, S
  <2> QED
    BY <2>1, <2>2, FS_Bijection DEF ExistsBijection
<1> QED
  BY <1>3, <1>4, <1>5 DEF Reads, M

(* A chunk that is the same, with the same regions, is read the same. *)
LEMMA ReadsSame ==
  ASSUME NEW k, NEW marks, Reads(marks, k), SameChunk(app, app', k),
         DOMAIN app.regions \subseteq Regions, DOMAIN app'.regions \subseteq Regions,
         \A r \in Regions : ChunkOf[r] = k => SameRegion(app, app', r)
  PROVE  Reads(marks, k)'
<1>1. SemiconductorCells(app', k) = SemiconductorCells(app, k)
  BY DEF SemiconductorCells, SameChunk, Loaded
<1>2. ASSUME NEW layer, NEW cell PROVE ValuesAt(k, layer, cell)' = ValuesAt(k, layer, cell)
  <2> DEFINE there(a) == {q \in DOMAIN a.regions : /\ ChunkOf[q] = k /\ Has(a.regions[q], layer)
                                                   /\ \E i \in DOMAIN a.regions[q].cells :
                                                        CellOf(a.regions[q].cells[i]) = cell}
  <2>1. there(app') = there(app)
    BY DEF SameRegion
  <2>2. \A r \in there(app) : app'.regions[r] = app.regions[r]
    BY DEF SameRegion
  <2>3. ValuesAt(k, layer, cell) = {ValueAt(app.regions[r], layer, cell) : r \in there(app)}
    BY DEF ValuesAt
  <2>4. ValuesAt(k, layer, cell)' = {ValueAt(app'.regions[r], layer, cell) : r \in there(app')}
    BY DEF ValuesAt
  <2> HIDE DEF there
  <2>5. {ValueAt(app'.regions[r], layer, cell) : r \in there(app')} = {ValueAt(app.regions[r], layer, cell) : r \in there(app)}
    BY <2>1, <2>2
  <2> QED
    BY <2>3, <2>4, <2>5
<1>3. ASSUME NEW cell \in SemiconductorCells(app, k) PROVE Readings(k, cell)' = Readings(k, cell)
  <2>1. app'.held[k].cells[cell].material = app.held[k].cells[cell].material
    BY DEF SemiconductorCells, SameChunk, Loaded
  <2>2. /\ ValuesAt(k, "current", cell)' = ValuesAt(k, "current", cell)
        /\ ValuesAt(k, "potential", cell)' = ValuesAt(k, "potential", cell)
    BY <1>2
  <2> QED
    BY <2>1, <2>2 DEF Readings
<1>4. \A m \in marks : m.cell \in SemiconductorCells(app, k)
  BY DEF Reads
<1> QED
  BY <1>1, <1>3, <1>4 DEF Reads

(* Drawing reads every chunk that is asked for, and leaves the others. *)
LEMMA ReadoutStep ==
  ASSUME ReadoutDrawn, AppOK(app), Render
  PROVE  ReadoutDrawn'
<1>1. /\ app'.held = app.held /\ app'.regions = app.regions /\ app'.logicDirty = {}
      /\ rewired' = rewired \ app.logicDirty
      /\ DOMAIN app = DOMAIN EmptyApp
  BY RenderIs, DrawnApp DEF AppOK
<1>2. PICK order \in Orders : readout' = Upsert(readout, [c \in app.logicDirty |-> ReadoutMesh(app, c, order)])
  BY RenderIs
<1> DEFINE mesh == [c \in app.logicDirty |-> ReadoutMesh(app, c, order)]
<1>3. DOMAIN mesh = app.logicDirty /\ \A c \in app.logicDirty : mesh[c] = ReadoutMesh(app, c, order)
  OBVIOUS
<1>4. readout' = Upsert(readout, mesh)
  BY <1>2
<1> HIDE DEF mesh
<1>5. \A c : ShownAt(readout', c) = IF c \in DOMAIN mesh THEN mesh[c] ELSE ShownAt(readout, c)
  BY <1>4, UpsertShows
<1>6. ASSUME NEW c \in Chunks, c \notin rewired' PROVE ReadoutShown(c)'
  <2>1. Reads(ShownAt(readout', c), c)
    <3>1. CASE c \in app.logicDirty
      <4>1. ShownAt(readout', c) = ReadoutMesh(app, c, order)
        BY <1>3, <1>5, <3>1
      <4> QED
        BY <4>1, MeshReads
    <3>2. CASE c \notin app.logicDirty
      <4>1. ShownAt(readout', c) = ShownAt(readout, c)
        BY <1>3, <1>5, <3>2
      <4>2. c \notin rewired
        BY <1>1, <1>6, <3>2
      <4>3. ReadoutShown(c)
        BY <3>2, <4>2 DEF ReadoutDrawn
      <4> QED
        BY <4>1, <4>3 DEF ReadoutShown, Reads
    <3> QED
      BY <3>1, <3>2
  <2>2. /\ SameChunk(app, app', c) /\ DOMAIN app.regions \subseteq Regions /\ DOMAIN app'.regions \subseteq Regions
        /\ \A r \in Regions : ChunkOf[r] = c => SameRegion(app, app', r)
    BY <1>1 DEF SameChunk, SameRegion, AppOK
  <2> DEFINE marks == ShownAt(readout', c)
  <2> HIDE DEF marks
  <2>3. SemiconductorCells(app', c) = SemiconductorCells(app, c)
    BY <1>1 DEF SemiconductorCells
  <2>4. \A cell : Readings(c, cell)' = Readings(c, cell)
    BY <1>1 DEF Readings, ValuesAt
  <2> QED
    BY <2>1, <2>3, <2>4 DEF ReadoutShown, Reads
<1> QED
  BY <1>6 DEF ReadoutDrawn

(* A drain asks for the readout of a chunk whose regions change, and a chunk    *)
(* that changes itself is rewired.                                              *)
LEMMA ReadoutIngest ==
  ASSUME ReadoutDrawn, AppOK(app), AppOK(app'), Follows(app, app'), UNCHANGED readout,
         rewired \subseteq rewired', \A c \in Chunks \ rewired' : SameChunk(app, app', c)
  PROVE  ReadoutDrawn'
<1> SUFFICES ASSUME NEW c \in Chunks, c \notin rewired', c \notin app'.logicDirty
             PROVE  ReadoutShown(c)'
  BY DEF ReadoutDrawn
<1>1. c \notin rewired /\ c \notin app.logicDirty /\ SameChunk(app, app', c)
  BY DEF Follows
<1>2. ReadoutShown(c)
  BY <1>1 DEF ReadoutDrawn
<1>3. \A r \in Regions : ChunkOf[r] = c => SameRegion(app, app', r)
  BY DEF Follows
<1>4. DOMAIN app.regions \subseteq Regions /\ DOMAIN app'.regions \subseteq Regions
  BY DEF AppOK
<1>5. PICK marks : marks = ShownAt(readout, c) /\ Reads(marks, c)
  BY <1>2 DEF ReadoutShown, Reads
<1>6. Reads(marks, c)'
  BY <1>1, <1>3, <1>4, <1>5, ReadsSame
<1>7. marks = ShownAt(readout', c)
  BY <1>5
<1> QED
  BY <1>6, <1>7 DEF ReadoutShown, Reads

(* What is read between two frames is the fields. *)
LEMMA ReadoutFollows ==
  ASSUME ReadoutDrawn, Drained
  PROVE  ReadoutFollowsField
  BY DEF ReadoutDrawn, Drained, ReadoutFollowsField

------------------------------------------------------------------------------
(* Pools.                                                                       *)

(* A pool in order of age, of any size. *)
Pooled(s, fields) ==
  /\ s \in Seq(Range(s))
  /\ \A i \in DOMAIN s : /\ fields \subseteq DOMAIN s[i] /\ s[i].age \in Nat
                         /\ i > 1 => s[i - 1].age >= s[i].age
Young(s, life) == \A i \in DOMAIN s : s[i].age < life
Among(t, s) == \A i \in DOMAIN t : \E j \in DOMAIN s : t[i] = s[j]

(* A sequence is one of its elements. *)
LEMMA OwnRange ==
  ASSUME NEW S, NEW s \in Seq(S)
  PROVE  s \in Seq(Range(s)) /\ DOMAIN s = 1..Len(s) /\ Len(s) \in Nat
<1>1. DOMAIN s = 1..Len(s) /\ Len(s) \in Nat /\ s \in [1..Len(s) -> S]
  BY LenProperties
<1>2. s \in [1..Len(s) -> Range(s)]
  BY <1>1 DEF Range
<1> QED
  BY <1>1, <1>2, SeqDef

(* The invariant's pools are these. *)
LEMMA PoolIs ==
  ASSUME NEW s, NEW fields, NEW life \in Nat, NEW cap
  PROVE  PoolOK(s, fields, life, cap) <=> Pooled(s, fields) /\ Young(s, life) /\ Len(s) <= cap
<1>1. ASSUME PoolOK(s, fields, life, cap) PROVE Pooled(s, fields) /\ Young(s, life) /\ Len(s) <= cap
  BY <1>1 DEF PoolOK, OldestFirst, Pooled, Young
<1>2. ASSUME Pooled(s, fields), Young(s, life), Len(s) <= cap PROVE PoolOK(s, fields, life, cap)
  BY <1>2 DEF PoolOK, OldestFirst, Pooled, Young
<1> QED
  BY <1>1, <1>2

(* Any two of a pool are in order. *)
LEMMA AgesFall ==
  ASSUME NEW s, NEW fields, Pooled(s, fields), NEW i \in DOMAIN s, NEW j \in DOMAIN s, i < j
  PROVE  s[i].age >= s[j].age
<1>1. DOMAIN s = 1..Len(s) /\ Len(s) \in Nat
  BY OwnRange DEF Pooled
<1> DEFINE U == {n \in Nat : i + n \in DOMAIN s => s[i].age >= s[i + n].age}
<1>2. 0 \in U
  BY <1>1 DEF Pooled
<1>3. ASSUME NEW n \in Nat, n \in U PROVE n + 1 \in U
  <2> SUFFICES ASSUME i + n + 1 \in DOMAIN s PROVE s[i].age >= s[i + n + 1].age
    BY <1>1, <1>3
  <2>1. i + n \in DOMAIN s /\ i + n + 1 > 1 /\ i + n + 1 - 1 = i + n
    BY <1>1, <1>3
  <2>2. s[i].age >= s[i + n].age
    BY <1>3, <2>1
  <2>3. s[i + n].age >= s[i + n + 1].age
    BY <2>1 DEF Pooled
  <2>4. s[i].age \in Nat /\ s[i + n].age \in Nat /\ s[i + n + 1].age \in Nat
    BY <2>1 DEF Pooled
  <2> QED
    BY <2>2, <2>3, <2>4
<1>4. \A n \in Nat : n \in U
  <2> HIDE DEF U
  <2> QED
    BY <1>2, <1>3, Reached
<1>5. j - i \in Nat /\ i + (j - i) = j
  BY <1>1
<1> QED
  BY <1>4, <1>5

(* What is kept of a pool is a pool. *)
LEMMA OnlyPool ==
  ASSUME NEW s, NEW fields, Pooled(s, fields), NEW T
  PROVE  /\ Pooled(Only(s, T), fields) /\ Len(Only(s, T)) <= Len(s)
         /\ Among(Only(s, T), s) /\ \A i \in DOMAIN Only(s, T) : Only(s, T)[i] \in T
<1> DEFINE o == Only(s, T)
<1>1. s \in Seq(Range(s)) /\ DOMAIN s = 1..Len(s) /\ Len(s) \in Nat
  BY OwnRange DEF Pooled
<1>2. o \in Seq(Range(s)) /\ \E g : Picks(o, s, T, Len(s), g)
  BY <1>1, OnlyPicks
<1> HIDE DEF o
<1>3. o \in Seq(Range(o)) /\ DOMAIN o = 1..Len(o) /\ Len(o) \in Nat
  BY <1>2, OwnRange
<1>4. PICK g : Picks(o, s, T, Len(s), g)
  BY <1>2
<1>5. ASSUME NEW i \in DOMAIN o PROVE g[i] \in DOMAIN s /\ o[i] = s[g[i]] /\ o[i] \in T
  BY <1>1, <1>3, <1>4 DEF Picks
<1>6. ASSUME NEW i \in DOMAIN o, i > 1 PROVE o[i - 1].age >= o[i].age
  <2>1. i - 1 \in DOMAIN o /\ i - 1 < i
    BY <1>3, <1>6
  <2>2. g[i - 1] < g[i]
    BY <1>3, <1>4, <2>1 DEF Picks
  <2>3. s[g[i - 1]].age >= s[g[i]].age
    BY <1>5, <2>1, <2>2, AgesFall
  <2> QED
    BY <1>5, <2>1, <2>3
<1>7. Pooled(o, fields)
  BY <1>3, <1>5, <1>6 DEF Pooled
<1>8. Len(o) <= Len(s)
  BY <1>4 DEF Picks
<1> QED
  BY <1>5, <1>7, <1>8 DEF Among, o

(* So are its newest. *)
LEMMA NewestPool ==
  ASSUME NEW s, NEW fields, Pooled(s, fields), NEW n \in Nat
  PROVE  Pooled(Newest(s, n), fields) /\ Len(Newest(s, n)) <= n /\ Among(Newest(s, n), s)
<1> DEFINE t == Newest(s, n)
<1> DEFINE c == Len(s) - Len(t)
<1>1. s \in Seq(Range(s)) /\ DOMAIN s = 1..Len(s)
  BY OwnRange DEF Pooled
<1>2. /\ t \in Seq(Range(s)) /\ Len(t) \in Nat /\ Len(t) <= n /\ Len(s) \in Nat /\ Len(t) <= Len(s)
      /\ \A i \in 1..Len(t) : i + c \in 1..Len(s) /\ t[i] = s[i + c]
  BY <1>1, NewestLast
<1> HIDE DEF t
<1>3. c \in Nat
  BY <1>2
<1>4. t \in Seq(Range(t)) /\ DOMAIN t = 1..Len(t)
  BY <1>2, OwnRange
<1> HIDE DEF c
<1>5. ASSUME NEW i \in DOMAIN t PROVE i + c \in DOMAIN s /\ t[i] = s[i + c] /\ i \in Nat
  BY <1>1, <1>2, <1>4
<1>6. ASSUME NEW i \in DOMAIN t, i > 1 PROVE t[i - 1].age >= t[i].age
  <2>1. i - 1 \in DOMAIN t /\ i - 1 + c = (i + c) - 1 /\ i + c > 1
    BY <1>2, <1>3, <1>4, <1>6
  <2>2. t[i - 1] = s[(i + c) - 1] /\ t[i] = s[i + c] /\ i + c \in DOMAIN s
    BY <1>5, <2>1
  <2> DEFINE e == i + c
  <2>3. e \in DOMAIN s /\ e > 1 /\ t[i - 1] = s[e - 1] /\ t[i] = s[e]
    BY <2>1, <2>2
  <2> HIDE DEF e
  <2>4. s[e - 1].age >= s[e].age
    BY <2>3 DEF Pooled
  <2> QED
    BY <2>3, <2>4
<1>7. Pooled(t, fields)
  BY <1>4, <1>5, <1>6 DEF Pooled
<1> QED
  BY <1>2, <1>5, <1>7 DEF Among, t

(* What is born is the youngest. *)
LEMMA BornPool ==
  ASSUME NEW s, NEW fields, Pooled(s, fields), NEW S, NEW b \in Seq(S),
         \A i \in DOMAIN b : fields \subseteq DOMAIN b[i] /\ b[i].age = 0
  PROVE  /\ Pooled(s \o b, fields)
         /\ \A i \in DOMAIN (s \o b) : \/ \E j \in DOMAIN s : (s \o b)[i] = s[j]
                                       \/ \E j \in DOMAIN b : (s \o b)[i] = b[j]
<1> DEFINE t == s \o b
<1>1. /\ s \in Seq(Range(s)) /\ DOMAIN s = 1..Len(s) /\ Len(s) \in Nat
      /\ b \in Seq(Range(b)) /\ DOMAIN b = 1..Len(b) /\ Len(b) \in Nat
  BY OwnRange DEF Pooled
<1>2. s \in Seq(Range(s) \cup Range(b)) /\ b \in Seq(Range(s) \cup Range(b))
  <2>1. s \in [1..Len(s) -> Range(s)] /\ b \in [1..Len(b) -> Range(b)]
    BY <1>1, LenProperties
  <2>2. s \in [1..Len(s) -> Range(s) \cup Range(b)] /\ b \in [1..Len(b) -> Range(s) \cup Range(b)]
    BY <2>1
  <2> QED
    BY <1>1, <2>2, SeqDef
<1>3. /\ t \in Seq(Range(s) \cup Range(b)) /\ Len(t) = Len(s) + Len(b)
      /\ \A i \in 1..Len(s) + Len(b) : t[i] = IF i <= Len(s) THEN s[i] ELSE b[i - Len(s)]
  BY <1>2, ConcatProperties
<1> HIDE DEF t
<1>4. t \in Seq(Range(t)) /\ DOMAIN t = 1..Len(s) + Len(b)
  BY <1>3, OwnRange
<1>5. ASSUME NEW i \in DOMAIN t
      PROVE  \/ i \in DOMAIN s /\ t[i] = s[i]
             \/ i > Len(s) /\ i - Len(s) \in DOMAIN b /\ t[i] = b[i - Len(s)]
  BY <1>1, <1>3, <1>4
<1>6. ASSUME NEW i \in DOMAIN t PROVE fields \subseteq DOMAIN t[i] /\ t[i].age \in Nat
  BY <1>5 DEF Pooled
<1>7. ASSUME NEW i \in DOMAIN t, i > 1 PROVE t[i - 1].age >= t[i].age
  <2>1. i - 1 \in DOMAIN t
    BY <1>1, <1>4, <1>7
  <2>2. CASE i <= Len(s)
    <3>1. i \in DOMAIN s /\ i - 1 \in DOMAIN s /\ t[i] = s[i] /\ t[i - 1] = s[i - 1]
      BY <1>1, <1>3, <1>4, <1>7, <2>1, <2>2
    <3> QED
      BY <1>7, <3>1 DEF Pooled
  <2>3. CASE ~(i <= Len(s))
    <3>1. t[i].age = 0
      BY <1>1, <1>5, <2>3
    <3>2. t[i - 1].age \in Nat
      BY <1>6, <2>1
    <3> QED
      BY <3>1, <3>2
  <2> QED
    BY <2>2, <2>3
<1>8. Pooled(t, fields)
  BY <1>4, <1>6, <1>7 DEF Pooled
<1> QED
  BY <1>5, <1>8 DEF t

(* A pool ages as one, and loses what is as old as its life. *)
LEMMA AgedPool ==
  ASSUME NEW s, NEW fields, "age" \in fields, NEW life \in Nat, NEW cap, PoolOK(s, fields, life, cap), NEW dt \in Nat,
         cap \in Nat
  PROVE  /\ PoolOK(Aged(s, life, dt), fields, life, cap)
         /\ \A i \in DOMAIN Aged(s, life, dt) : \E j \in DOMAIN s :
              Aged(s, life, dt)[i] = [s[j] EXCEPT !.age = @ + dt]
<1> DEFINE older == [i \in DOMAIN s |-> [s[i] EXCEPT !.age = @ + dt]]
<1> DEFINE T == {p \in Range(older) : p.age < life}
<1> DEFINE t == Only(older, T)
<1>1. Pooled(s, fields) /\ Len(s) <= cap
  BY PoolIs
<1>2. DOMAIN s = 1..Len(s) /\ Len(s) \in Nat
  BY <1>1, OwnRange DEF Pooled
<1>3. DOMAIN older = DOMAIN s /\ \A i \in DOMAIN s : older[i] = [s[i] EXCEPT !.age = @ + dt]
  OBVIOUS
<1>4. older \in Seq(Range(older)) /\ Len(older) = Len(s)
  <2>1. older \in [1..Len(s) -> Range(older)]
    <3> HIDE DEF older
    <3>1. older = [i \in DOMAIN s |-> older[i]]
      BY <1>3 DEF older
    <3> QED
      BY <1>2, <1>3, <3>1 DEF Range
  <2> HIDE DEF older
  <2> QED
    BY <1>2, <2>1, SeqDef, LenProperties
<1> HIDE DEF older
<1>5. ASSUME NEW i \in DOMAIN s
      PROVE  fields \subseteq DOMAIN older[i] /\ older[i].age = s[i].age + dt /\ s[i].age \in Nat
  <2>1. fields \subseteq DOMAIN s[i] /\ s[i].age \in Nat /\ "age" \in DOMAIN s[i]
    BY <1>1 DEF Pooled
  <2> QED
    BY <1>3, <2>1
<1>6. Pooled(older, fields)
  <2>1. ASSUME NEW i \in DOMAIN s, i > 1 PROVE older[i - 1].age >= older[i].age
    <3>1. i - 1 \in DOMAIN s
      BY <1>2, <2>1
    <3>2. s[i - 1].age >= s[i].age
      BY <1>1, <2>1 DEF Pooled
    <3> QED
      BY <1>5, <3>1, <3>2
  <2> QED
    BY <1>3, <1>4, <1>5, <2>1 DEF Pooled
<1>7. /\ Pooled(t, fields) /\ Len(t) <= Len(older) /\ Among(t, older) /\ \A i \in DOMAIN t : t[i] \in T
  <2> HIDE DEF T
  <2> QED
    BY <1>6, OnlyPool
<1>8. Aged(s, life, dt) = t
  BY DEF Aged, older
<1> HIDE DEF t
<1>9. Len(t) \in Nat
  BY <1>7, OwnRange DEF Pooled
<1>10. PoolOK(t, fields, life, cap)
  <2>1. Young(t, life)
    BY <1>7 DEF Young
  <2>2. Len(t) <= cap
    BY <1>1, <1>2, <1>4, <1>7, <1>9
  <2> QED
    BY <1>7, <2>1, <2>2, PoolIs
<1> QED
  BY <1>3, <1>7, <1>8, <1>10 DEF Among

------------------------------------------------------------------------------
(* Bolts.                                                                       *)

(* The first of the largest. *)
FirstMax(v, n, i) == i \in 1..n /\ \A j \in 1..n : v[j] <= v[i] /\ (j < i => v[j] < v[i])

(* There is one. *)
LEMMA FirstMaxIs ==
  ASSUME NEW n \in Nat, n > 0, NEW v \in [1..n -> Int]
  PROVE  \E i \in 1..n : FirstMax(v, n, i)
<1> DEFINE U == {l \in Nat : l > 0 => \E i \in 1..l : FirstMax(v, l, i)}
<1>1. 0 \in U
  OBVIOUS
<1>2. ASSUME NEW l \in 0..n, l # n, l \in U PROVE l + 1 \in U
  <2>1. l \in Nat /\ l + 1 \in 1..n
    BY <1>2
  <2>2. CASE l = 0
    <3>1. FirstMax(v, l + 1, 1)
      BY <2>1, <2>2 DEF FirstMax
    <3> QED
      BY <2>1, <2>2, <3>1
  <2>3. CASE l # 0
    <3>1. PICK i \in 1..l : FirstMax(v, l, i)
      BY <1>2, <2>1, <2>3
    <3>2. \A j \in 1..l + 1 : j \in 1..l \/ j = l + 1
      BY <2>1
    <3>3. \A j \in 1..l + 1 : v[j] \in Int
      BY <2>1
    <3>4. CASE v[l + 1] <= v[i]
      <4>1. FirstMax(v, l + 1, i)
        BY <2>1, <3>1, <3>2, <3>4 DEF FirstMax
      <4> QED
        BY <2>1, <3>1, <4>1
    <3>5. CASE v[l + 1] > v[i]
      <4>1. \A j \in 1..l : v[j] < v[l + 1]
        BY <2>1, <3>1, <3>3, <3>5 DEF FirstMax
      <4>2. FirstMax(v, l + 1, l + 1)
        BY <2>1, <3>2, <3>3, <4>1 DEF FirstMax
      <4> QED
        BY <2>1, <4>2
    <3> QED
      BY <2>1, <3>1, <3>3, <3>4, <3>5
  <2> QED
    BY <2>2, <2>3
<1>3. \A l \in 0..n : l \in U
  <2> HIDE DEF U
  <2> QED
    BY <1>1, <1>2, Upward
<1> QED
  BY <1>3

(* ch is the channel of f, and g where its cells come from. *)
Ionized(f) == {j \in DOMAIN f.cells : Has(f, "ionization") /\ f.layers["ionization"][j] >= 8}
Volts(f) == {ValueAt(f, "potential", CellOf(f.cells[j])) : j \in IF Has(f, "potential") THEN Ionized(f) ELSE {}}
Channels(ch, f, g) ==
  /\ Len(ch) \in Nat /\ DOMAIN ch = 1..Len(ch)
  /\ \A i \in 1..Len(ch) : /\ g[i] \in Ionized(f) /\ ch[i].cell = CellOf(f.cells[g[i]])
                           /\ ch[i].potential = IF Has(f, "potential") THEN f.layers["potential"][g[i]] ELSE NaN
                           /\ ch[i].potential \in Int \cup {NaN}
  /\ \A i, j \in 1..Len(ch) : i # j => ch[i].cell # ch[j].cell
  /\ \A x \in Ionized(f) : \E i \in 1..Len(ch) : g[i] = x

(* The channel of a snapshot is its ionized cells. *)
LEMMA ChannelIs ==
  ASSUME NEW f, IsField(f), Has(f, "ionization")
  PROVE  \E g : Channels(Channel(f), f, g)
<1> DEFINE all == [i \in DOMAIN f.cells |->
                     [cell |-> CellOf(f.cells[i]), ionization |-> f.layers["ionization"][i],
                      potential |-> IF Has(f, "potential") THEN f.layers["potential"][i] ELSE NaN]]
<1> DEFINE T == {c \in Range(all) : c.ionization >= 8}
<1>1. f.cells \in Seq(Nat) /\ DOMAIN f.cells = 1..Len(f.cells) /\ Len(f.cells) \in Nat
  BY LenProperties DEF IsField
<1>2. DOMAIN all = DOMAIN f.cells /\ \A i \in DOMAIN f.cells :
        /\ all[i].cell = CellOf(f.cells[i]) /\ all[i].ionization = f.layers["ionization"][i]
        /\ all[i].potential = IF Has(f, "potential") THEN f.layers["potential"][i] ELSE NaN
        /\ all[i] \in Range(all)
  BY DEF Range
<1>3. all \in Seq(Range(all)) /\ Len(all) = Len(f.cells)
  <2>1. all \in [1..Len(f.cells) -> Range(all)]
    BY <1>1, <1>2
  <2> HIDE DEF all
  <2> QED
    BY <1>1, <2>1, SeqDef, LenProperties
<1>4. Channel(f) = Only(all, T)
  BY DEF Channel
<1> HIDE DEF all, T
<1> DEFINE ch == Only(all, T)
<1>5. ch \in Seq(Range(all)) /\ \E g : Picks(ch, all, T, Len(f.cells), g)
  BY <1>3, OnlyPicks
<1>6. PICK g : Picks(ch, all, T, Len(f.cells), g)
  BY <1>5
<1>7. Len(ch) \in Nat /\ DOMAIN ch = 1..Len(ch)
  BY <1>5, LenProperties
<1> HIDE DEF ch
<1>8. ASSUME NEW i \in 1..Len(ch)
      PROVE  /\ g[i] \in DOMAIN f.cells /\ ch[i] = all[g[i]] /\ g[i] \in Ionized(f)
  <2>1. g[i] \in DOMAIN f.cells /\ ch[i] = all[g[i]] /\ ch[i] \in T
    BY <1>1, <1>6, <1>7 DEF Picks
  <2>2. f.layers["ionization"][g[i]] >= 8
    BY <1>2, <2>1 DEF T
  <2> QED
    BY <2>1, <2>2 DEF Ionized
<1>9. ASSUME NEW i \in DOMAIN f.cells, Has(f, "potential") PROVE f.layers["potential"][i] \in Int \cup {NaN}
  <2>1. f.layers["potential"] \in [DOMAIN f.cells -> Int \cup {NaN}]
    BY <1>9 DEF IsField, Has
  <2> QED
    BY <2>1
<1>10. ASSUME NEW i \in 1..Len(ch), NEW j \in 1..Len(ch), i # j PROVE ch[i].cell # ch[j].cell
  <2>1. g[i] # g[j]
    <3>1. i < j \/ j < i
      BY <1>7, <1>10
    <3>2. g[i] < g[j] \/ g[j] < g[i]
      BY <1>6, <3>1 DEF Picks
    <3>3. g[i] \in Nat /\ g[j] \in Nat
      BY <1>1, <1>8
    <3> QED
      BY <3>2, <3>3
  <2>2. CellOf(f.cells[g[i]]) # CellOf(f.cells[g[j]])
    BY <1>8, <2>1 DEF IsField
  <2> QED
    BY <1>2, <1>8, <2>2
<1>11. ASSUME NEW x \in Ionized(f) PROVE \E i \in 1..Len(ch) : g[i] = x
  <2>1. x \in DOMAIN f.cells /\ f.layers["ionization"][x] >= 8
    BY DEF Ionized
  <2>2. all[x] \in T
    BY <1>2, <2>1 DEF T
  <2> QED
    BY <1>1, <1>6, <2>1, <2>2 DEF Picks
<1>12. Channels(ch, f, g)
  BY <1>2, <1>7, <1>8, <1>9, <1>10, <1>11 DEF Channels
<1> QED
  BY <1>4, <1>12 DEF ch

(* A cell has whole coordinates, and a distance is not negative. *)
LEMMA DistanceIs ==
  ASSUME NEW m \in Nat, NEW n \in Nat
  PROVE  Distance2(CellOf(m), CellOf(n)) \in Nat
<1> DEFINE whole(c) == c[1] \in Int /\ c[2] \in Int /\ c[3] \in Int
<1>1. ASSUME NEW i \in Nat PROVE whole(CellOf(i))
  <2>1. ChunkSize \in Nat /\ ChunkSize > 0 /\ ChunkSize * ChunkSize \in Nat /\ ChunkSize * ChunkSize > 0
    BY SizeAssumption
  <2>2. i % ChunkSize \in Int /\ i \div ChunkSize \in Nat
    BY <2>1
  <2>3. (i \div ChunkSize) % ChunkSize \in Int
    BY <2>1, <2>2
  <2>4. i \div (ChunkSize * ChunkSize) \in Int
    <3> DEFINE s == ChunkSize * ChunkSize
    <3> HIDE DEF s
    <3>1. s \in Nat /\ s > 0
      BY <2>1 DEF s
    <3>2. i \div s \in Int
      BY <3>1
    <3> QED
      BY <3>2 DEF s
  <2> QED
    BY <2>2, <2>3, <2>4 DEF CellOf
<1>2. \A x \in Int : Square(x) \in Nat
  BY DEF Square
<1> DEFINE a == CellOf(m)
<1> DEFINE b == CellOf(n)
<1>3. whole(a) /\ whole(b)
  BY <1>1
<1> HIDE DEF a, b
<1>4. Square(a[1] - b[1]) \in Nat /\ Square(a[2] - b[2]) \in Nat /\ Square(a[3] - b[3]) \in Nat
  BY <1>2, <1>3
<1>5. Distance2(a, b) \in Nat
  BY <1>4 DEF Distance2
<1> QED
  BY <1>5 DEF a, b

(* Two cells of a channel lie farthest apart. *)
LEMMA FarthestIs ==
  ASSUME NEW f, IsField(f), NEW ch, NEW g, Channels(ch, f, g), Len(ch) >= 2
  PROVE  /\ FarthestPair(ch)[1] \in 1..Len(ch) /\ FarthestPair(ch)[2] \in 1..Len(ch)
         /\ FarthestPair(ch)[1] # FarthestPair(ch)[2]
<1> DEFINE n == Len(ch)
<1> DEFINE pairs == {p \in (DOMAIN ch) \X (DOMAIN ch) : p[1] < p[2]}
<1> DEFINE d2(p) == Distance2(ch[p[1]].cell, ch[p[2]].cell)
<1> DEFINE Before(p, q) == p[1] < q[1] \/ (p[1] = q[1] /\ p[2] <= q[2])
<1> DEFINE best(p) == \A q \in pairs : d2(q) < d2(p) \/ (d2(q) = d2(p) /\ Before(p, q))
<1>1. n \in Nat /\ n >= 2 /\ DOMAIN ch = 1..n
  BY DEF Channels
<1> HIDE DEF n
<1> DEFINE D(a, b) == Distance2(ch[a].cell, ch[b].cell)
<1>2. ASSUME NEW a \in 1..n, NEW b \in 1..n PROVE D(a, b) \in Nat
  <2>1. \A i \in 1..n : g[i] \in DOMAIN f.cells /\ ch[i].cell = CellOf(f.cells[g[i]])
    BY DEF Channels, Ionized, n
  <2>2. \A i \in DOMAIN f.cells : f.cells[i] \in Nat
    <3>1. f.cells \in Seq(Nat) /\ DOMAIN f.cells = 1..Len(f.cells)
      BY LenProperties DEF IsField
    <3> QED
      BY <3>1, ElementOfSeq
  <2> QED
    BY <2>1, <2>2, DistanceIs
<1>3. \A p \in pairs : p[1] \in 1..n /\ p[2] \in 1..n /\ p[1] < p[2] /\ d2(p) = D(p[1], p[2])
  BY <1>1
<1>4. \A a, b \in 1..n : a < b => <<a, b>> \in pairs
  BY <1>1
<1> HIDE DEF D
<1> DEFINE row == [a \in 1..n |-> [b \in 1..n |-> IF a < b THEN D(a, b) ELSE -1]]
<1> DEFINE top == [a \in 1..n |-> CHOOSE b \in 1..n : FirstMax(row[a], n, b)]
<1>5. ASSUME NEW a \in 1..n PROVE top[a] \in 1..n /\ FirstMax(row[a], n, top[a])
  <2>1. row[a] \in [1..n -> Int]
    BY <1>2
  <2> HIDE DEF row
  <2>2. \E b \in 1..n : FirstMax(row[a], n, b)
    <3>1. n \in Nat /\ n > 0
      BY <1>1
    <3> QED
      BY <2>1, <3>1, FirstMaxIs
  <2> QED
    BY <2>2
<1>6. \A a, b \in 1..n : row[a][b] = IF a < b THEN D(a, b) ELSE -1
  OBVIOUS
<1> HIDE DEF row, top
<1> DEFINE rows == [a \in 1..n |-> row[a][top[a]]]
<1>7. rows \in [1..n -> Int] /\ \A a \in 1..n : rows[a] = row[a][top[a]]
  BY <1>2, <1>5, <1>6
<1> HIDE DEF rows
<1>8. PICK a \in 1..n : FirstMax(rows, n, a)
  BY <1>1, <1>7, FirstMaxIs
<1> DEFINE b == top[a]
<1>9. a < b /\ b \in 1..n /\ rows[a] = D(a, b)
  <2>1. 1 \in 1..n /\ 2 \in 1..n
    BY <1>1
  <2>2. rows[1] >= row[1][2]
    BY <1>5, <1>7, <2>1 DEF FirstMax
  <2>3. row[1][2] = D(1, 2) /\ D(1, 2) \in Nat
    BY <1>2, <1>6, <2>1
  <2>4. rows[1] <= rows[a] /\ rows[a] \in Int /\ rows[1] \in Int
    BY <1>7, <1>8, <2>1 DEF FirstMax
  <2>5. rows[a] >= 0
    BY <2>2, <2>3, <2>4
  <2>6. b \in 1..n /\ rows[a] = row[a][b]
    BY <1>5, <1>7
  <2> HIDE DEF b
  <2> QED
    BY <1>6, <2>5, <2>6
<1> HIDE DEF b
<1>10. <<a, b>> \in pairs /\ best(<<a, b>>)
  <2>1. <<a, b>> \in pairs
    BY <1>4, <1>9
  <2>2. ASSUME NEW q \in pairs PROVE d2(q) < d2(<<a, b>>) \/ (d2(q) = d2(<<a, b>>) /\ Before(<<a, b>>, q))
    <3> DEFINE x == q[1]
    <3> DEFINE y == q[2]
    <3>1. x \in 1..n /\ y \in 1..n /\ x < y /\ d2(q) = D(x, y)
      BY <1>3
    <3>2. d2(<<a, b>>) = D(a, b)
      BY <1>3, <2>1
    <3> HIDE DEF x, y
    <3>3. row[x][y] = D(x, y) /\ D(x, y) \in Nat /\ D(a, b) \in Nat
      BY <1>2, <1>6, <1>9, <3>1
    <3>4. /\ row[x][y] <= row[x][top[x]] /\ (y < top[x] => row[x][y] < row[x][top[x]])
          /\ top[x] \in 1..n
      BY <1>5, <3>1 DEF FirstMax
    <3>5. /\ rows[x] = row[x][top[x]] /\ rows[x] \in Int
          /\ rows[x] <= rows[a] /\ (x < a => rows[x] < rows[a])
      BY <1>7, <1>8, <3>1 DEF FirstMax
    <3>6. D(x, y) < D(a, b) \/ (D(x, y) = D(a, b) /\ (a < x \/ (a = x /\ b <= y)))
      <4>1. CASE D(x, y) < D(a, b)
        BY <4>1
      <4>2. CASE ~(D(x, y) < D(a, b))
        <5>1. D(x, y) = D(a, b) /\ rows[x] = rows[a] /\ row[x][y] = row[x][top[x]]
          BY <1>9, <3>3, <3>4, <3>5, <4>2
        <5>2. ~(x < a) /\ ~(y < top[x])
          BY <3>3, <3>4, <3>5, <5>1
        <5>3. x = a => top[x] = b
          BY DEF b
        <5> QED
          BY <1>9, <3>1, <3>4, <5>1, <5>2, <5>3
      <4> QED
        BY <4>1, <4>2
    <3> HIDE DEF d2
    <3> QED
      BY <3>1, <3>2, <3>6 DEF x, y
  <2> QED
    BY <2>1, <2>2
<1> HIDE DEF pairs, best
<1>11. FarthestPair(ch) = CHOOSE p \in pairs : best(p)
  BY DEF FarthestPair, pairs, best
<1>12. FarthestPair(ch) \in pairs
  BY <1>10, <1>11
<1>13. \A p \in pairs : p[1] \in 1..n /\ p[2] \in 1..n /\ p[1] # p[2]
  BY <1>3
<1> QED
  BY <1>12, <1>13 DEF n

(* The largest of some values that holds them all, and the smallest. *)
LEMMA MaxMinAre ==
  ASSUME NEW V, V \subseteq Int, NEW v \in V
  PROVE  /\ (\A w \in V : w <= v) => Max(V) = v
         /\ (\A w \in V : w >= v) => Min(V) = v
<1>1. ASSUME \A w \in V : w <= v PROVE Max(V) = v
  <2> DEFINE x == CHOOSE x \in V : \A y \in V : x >= y
  <2>1. x \in V /\ \A y \in V : x >= y
    BY <1>1
  <2>2. Max(V) = x
    BY DEF Max
  <2> HIDE DEF x
  <2> QED
    BY <1>1, <2>1, <2>2
<1>2. ASSUME \A w \in V : w >= v PROVE Min(V) = v
  <2> DEFINE x == CHOOSE x \in V : \A y \in V : x =< y
  <2>1. x \in V /\ \A y \in V : x <= y
    BY <1>2
  <2>2. Min(V) = x
    BY DEF Min
  <2> HIDE DEF x
  <2> QED
    BY <1>2, <2>1, <2>2
<1> QED
  BY <1>1, <1>2

(* A bolt of f runs on its channel, from the highest potential to the lowest. *)
Runs(source, target, f) ==
  /\ source # target
  /\ {source, target} \subseteq {CellOf(f.cells[j]) : j \in Ionized(f)}
  /\ Has(f, "potential") /\ NaN \notin Volts(f) =>
       /\ ValueAt(f, "potential", source) = Max(Volts(f))
       /\ ValueAt(f, "potential", target) = Min(Volts(f))

(* The potentials of a channel. *)
LEMMA VoltsAre ==
  ASSUME NEW f, IsField(f), NEW ch, NEW g, Channels(ch, f, g)
  PROVE  /\ Has(f, "potential") => Volts(f) = {ch[i].potential : i \in 1..Len(ch)}
         /\ Has(f, "potential") =>
              \A i \in 1..Len(ch) : ValueAt(f, "potential", ch[i].cell) = ch[i].potential
         /\ ~Has(f, "potential") => \A i \in 1..Len(ch) : ch[i].potential = NaN
<1>1. \A i \in 1..Len(ch) : /\ g[i] \in Ionized(f) /\ ch[i].cell = CellOf(f.cells[g[i]])
                            /\ ch[i].potential = IF Has(f, "potential") THEN f.layers["potential"][g[i]] ELSE NaN
  BY DEF Channels
<1>2. ASSUME Has(f, "potential"), NEW x \in Ionized(f)
      PROVE  ValueAt(f, "potential", CellOf(f.cells[x])) = f.layers["potential"][x]
  <2>1. x \in DOMAIN f.cells /\ "potential" \in Kinds
    BY DEF Ionized, Kinds
  <2> QED
    BY <1>2, <2>1, ValueAtIs
<1>3. ASSUME Has(f, "potential") PROVE Volts(f) = {ch[i].potential : i \in 1..Len(ch)}
  <2> DEFINE W == {ch[i].potential : i \in 1..Len(ch)}
  <2>1. ASSUME NEW v \in Volts(f) PROVE v \in W
    <3>1. PICK x \in Ionized(f) : v = ValueAt(f, "potential", CellOf(f.cells[x]))
      BY <1>3 DEF Volts
    <3>2. PICK i \in 1..Len(ch) : g[i] = x
      BY DEF Channels
    <3>3. v = ch[i].potential
      BY <1>1, <1>2, <1>3, <3>1, <3>2
    <3> QED
      BY <3>3
  <2>2. ASSUME NEW i \in 1..Len(ch) PROVE ch[i].potential \in Volts(f)
    <3>1. g[i] \in Ionized(f) /\ ch[i].potential = ValueAt(f, "potential", CellOf(f.cells[g[i]]))
      BY <1>1, <1>2, <1>3
    <3> QED
      BY <1>3, <3>1 DEF Volts
  <2> HIDE DEF W
  <2>3. Volts(f) \subseteq W
    BY <2>1
  <2>4. W \subseteq Volts(f)
    BY <2>2 DEF W
  <2> QED
    BY <2>3, <2>4 DEF W
<1> QED
  BY <1>1, <1>2, <1>3

(* A strike runs on the channel of its snapshot. *)
LEMMA StrikeRuns ==
  ASSUME NEW f, IsField(f), Has(f, "ionization"), InferStrike(f) # << >>
  PROVE  Runs(InferStrike(f)[1][1], InferStrike(f)[1][2], f)
<1> DEFINE ch == Channel(f)
<1>1. PICK g : Channels(ch, f, g)
  BY ChannelIs
<1> DEFINE told == \A i \in DOMAIN ch : Finite(ch[i].potential)
<1> DEFINE high == Highest(ch)
<1> DEFINE low == Lowest(ch)
<1> DEFINE flat == told => ch[high].potential = ch[low].potential
<1> DEFINE ends == IF flat THEN FarthestPair(ch) ELSE <<high, low>>
<1>2. InferStrike(f) = IF Len(ch) < 2 THEN << >> ELSE << <<ch[ends[1]].cell, ch[ends[2]].cell>> >>
  BY DEF InferStrike
<1> HIDE DEF ch
<1> DEFINE n == Len(ch)
<1>3. /\ n \in Nat /\ DOMAIN ch = 1..n
      /\ \A i \in 1..n : ch[i].cell = CellOf(f.cells[g[i]]) /\ g[i] \in Ionized(f)
                         /\ ch[i].potential \in Int \cup {NaN}
      /\ \A i, j \in 1..n : i # j => ch[i].cell # ch[j].cell
  BY <1>1 DEF Channels
<1>4. n >= 2
  BY <1>2, <1>3
<1> HIDE DEF n
<1>5. told => /\ high \in 1..n /\ \A i \in 1..n : ch[i].potential \in Int /\ ch[i].potential <= ch[high].potential
              /\ low \in 1..n /\ \A i \in 1..n : ch[i].potential >= ch[low].potential
  <2> SUFFICES ASSUME told
               PROVE  /\ high \in 1..n /\ \A i \in 1..n : ch[i].potential \in Int /\ ch[i].potential <= ch[high].potential
                      /\ low \in 1..n /\ \A i \in 1..n : ch[i].potential >= ch[low].potential
    OBVIOUS
  <2>1. \A i \in 1..n : ch[i].potential \in Int
    BY <1>3 DEF Finite
  <2> DEFINE up == [i \in 1..n |-> ch[i].potential]
  <2> DEFINE down == [i \in 1..n |-> 0 - ch[i].potential]
  <2>2. up \in [1..n -> Int] /\ down \in [1..n -> Int] /\ n > 0
    BY <1>3, <1>4, <2>1
  <2>3. \A i \in 1..n : up[i] = ch[i].potential /\ down[i] = 0 - ch[i].potential
    OBVIOUS
  <2> HIDE DEF up, down
  <2>4. PICK h \in 1..n : FirstMax(up, n, h)
    BY <1>3, <2>2, FirstMaxIs
  <2>5. PICK l \in 1..n : FirstMax(down, n, l)
    BY <1>3, <2>2, FirstMaxIs
  <2>6. high \in 1..n /\ \A j \in 1..n : ch[j].potential <= ch[high].potential
    <3>1. \A j \in 1..n : ch[j].potential <= ch[h].potential /\ (j < h => ch[j].potential < ch[h].potential)
      BY <2>3, <2>4 DEF FirstMax
    <3> QED
      BY <1>3, <3>1 DEF Highest
  <2>7. low \in 1..n /\ \A j \in 1..n : ch[j].potential >= ch[low].potential
    <3>1. ASSUME NEW j \in 1..n
          PROVE  ch[j].potential >= ch[l].potential /\ (j < l => ch[j].potential > ch[l].potential)
      <4>1. /\ 0 - ch[j].potential <= 0 - ch[l].potential
            /\ j < l => 0 - ch[j].potential < 0 - ch[l].potential
        BY <2>3, <2>5 DEF FirstMax
      <4> QED
        BY <2>1, <4>1
    <3> QED
      BY <1>3, <3>1 DEF Lowest
  <2> QED
    BY <2>1, <2>6, <2>7
<1> HIDE DEF high, low
<1>6. ends[1] \in 1..n /\ ends[2] \in 1..n /\ ends[1] # ends[2]
  <2>1. CASE flat
    <3>1. ends = FarthestPair(ch)
      BY <2>1
    <3> QED
      BY <1>1, <1>4, <3>1, FarthestIs DEF n
  <2>2. CASE ~flat
    <3>1. ends = <<high, low>> /\ told /\ ch[high].potential # ch[low].potential
      BY <2>2
    <3> HIDE DEF ends, told, flat
    <3> QED
      BY <1>5, <3>1
  <2> QED
    BY <2>1, <2>2
<1>7. told /\ ~(ch[high].potential = ch[low].potential) => ends[1] = high /\ ends[2] = low
  OBVIOUS
<1> HIDE DEF ends, flat
<1> DEFINE source == ch[ends[1]].cell
<1> DEFINE target == ch[ends[2]].cell
<1>8. source # target /\ {source, target} \subseteq {CellOf(f.cells[j]) : j \in Ionized(f)}
  BY <1>3, <1>6
<1>9. ASSUME Has(f, "potential"), NaN \notin Volts(f)
      PROVE  ValueAt(f, "potential", source) = Max(Volts(f)) /\ ValueAt(f, "potential", target) = Min(Volts(f))
  <2>1. /\ Volts(f) = {ch[i].potential : i \in 1..n}
        /\ \A i \in 1..n : ValueAt(f, "potential", ch[i].cell) = ch[i].potential
    BY <1>1, <1>9, VoltsAre DEF n
  <2>2. told
    BY <1>3, <1>9, <2>1 DEF Finite
  <2> HIDE DEF told
  <2>3. \A i \in 1..n : ch[i].potential \in Int /\ ch[i].potential <= ch[high].potential /\ ch[i].potential >= ch[low].potential
    BY <1>5, <2>2
  <2>4. ch[ends[1]].potential = ch[high].potential /\ ch[ends[2]].potential = ch[low].potential
    <3>1. CASE ch[high].potential = ch[low].potential
      <4>1. high \in 1..n /\ low \in 1..n
        BY <1>5, <2>2
      <4> QED
        BY <1>6, <2>3, <3>1, <4>1
    <3>2. CASE ch[high].potential # ch[low].potential
      BY <1>7, <2>2, <3>2
    <3> QED
      BY <3>1, <3>2
  <2>5. Volts(f) \subseteq Int /\ ch[high].potential \in Volts(f) /\ ch[low].potential \in Volts(f)
    BY <1>5, <2>1, <2>2, <2>3
  <2>6. Max(Volts(f)) = ch[high].potential
    <3>1. \A w \in Volts(f) : w <= ch[high].potential
      BY <2>1, <2>3
    <3> QED
      BY <2>5, <3>1, MaxMinAre
  <2>7. Min(Volts(f)) = ch[low].potential
    <3>1. \A w \in Volts(f) : w >= ch[low].potential
      BY <2>1, <2>3
    <3> QED
      BY <2>5, <3>1, MaxMinAre
  <2> QED
    BY <1>6, <2>1, <2>4, <2>6, <2>7
<1>10. Runs(source, target, f)
  BY <1>8, <1>9 DEF Runs
<1>11. InferStrike(f)[1] = <<source, target>>
  BY <1>2, <1>3, <1>4 DEF n
<1> QED
  BY <1>10, <1>11

(* A bolt that runs on the channel of a snapshot, and a pool of them. *)
OnChannel(b) == \E f \in FieldsTold : Runs(b.source, b.target, f)
BoltFields == {"source", "target", "age"}
BoltPool(s) == PoolOK(s, BoltFields, BoltLife, MaxBolts) /\ \A i \in DOMAIN s : OnChannel(s[i])

(* The constants of the pools. *)
LEMMA PoolConstants ==
  /\ {MaxBolts, BoltLife, MaxSmoke, SmokeLife, MaxSpawn, MaxDebris, DebrisLife, BurstSize} \subseteq Nat
  /\ MaxBolts > 0 /\ BoltLife > 0 /\ MaxSmoke > 0 /\ SmokeLife > 0 /\ MaxSpawn > 0
  /\ MaxDebris > 0 /\ DebrisLife > 0 /\ BurstSize > 0
  /\ \A dt \in Steps : dt \in Nat
<1>1. /\ MaxBolts \in Nat /\ MaxBolts # 0
      /\ BoltLife \in Nat /\ BoltLife # 0
      /\ MaxSmoke \in Nat /\ MaxSmoke # 0
      /\ SmokeLife \in Nat /\ SmokeLife # 0
      /\ MaxSpawn \in Nat /\ MaxSpawn # 0
      /\ MaxDebris \in Nat /\ MaxDebris # 0
      /\ DebrisLife \in Nat /\ DebrisLife # 0
      /\ BurstSize \in Nat /\ BurstSize # 0
  <2>1. {MaxBolts, BoltLife, MaxSmoke, SmokeLife, MaxSpawn, MaxDebris, DebrisLife, BurstSize}
          \subseteq Nat \ {0}
    BY FieldAssumption, Zenon
  <2> QED
    BY <2>1
<1>2. Steps \subseteq Nat
  <2>1. Steps \subseteq Nat \ {0}
    BY FieldAssumption, Zenon
  <2> QED
    BY <2>1
<1> QED
  BY <1>1, <1>2

(* An event carries a field that the server told. *)
LEMMA EventIs ==
  ASSUME NEW e \in Events
  PROVE  e.region \in Regions /\ e.field \in FieldsTold /\ IsField(e.field)
<1>1. e.region \in Regions /\ e.field \in FieldsTold
  BY DEF Events
<1>2. PICK m \in Messages : m.kind = "field" /\ e.field = m.field
  BY <1>1 DEF FieldsTold
<1> QED
  BY <1>1, <1>2, MessageTyped

(* A discharge strikes within the pool. *)
LEMMA StrikeKeeps ==
  ASSUME NEW s, BoltPool(s), NEW e \in Events, Has(e.field, "ionization")
  PROVE  BoltPool(Strike(s, e))
<1> DEFINE f == e.field
<1>1. f \in FieldsTold /\ IsField(f)
  BY EventIs
<1>2. CASE InferStrike(f) = << >>
  BY <1>2 DEF Strike
<1>3. CASE InferStrike(f) # << >>
  <2> DEFINE b == [chunk |-> ChunkOf[e.region], source |-> InferStrike(f)[1][1],
                   target |-> InferStrike(f)[1][2], age |-> 0]
  <2>1. Strike(s, e) = Newest(Append(s, b), MaxBolts)
    BY <1>3 DEF Strike
  <2>2. OnChannel(b)
    <3>1. Runs(InferStrike(f)[1][1], InferStrike(f)[1][2], f)
      BY <1>1, <1>3, StrikeRuns
    <3>2. b.source = InferStrike(f)[1][1] /\ b.target = InferStrike(f)[1][2]
      OBVIOUS
    <3> HIDE DEF b, f
    <3> QED
      BY <1>1, <3>1, <3>2 DEF OnChannel
  <2>3. BoltFields \subseteq DOMAIN b /\ b.age = 0
    BY DEF BoltFields
  <2> HIDE DEF b, f
  <2>4. Pooled(s, BoltFields) /\ Young(s, BoltLife) /\ \A i \in DOMAIN s : OnChannel(s[i])
    BY PoolIs, PoolConstants DEF BoltPool
  <2> DEFINE c == <<b>>
  <2>5. c \in Seq({b}) /\ DOMAIN c = {1} /\ c[1] = b
    OBVIOUS
  <2>6. Append(s, b) = s \o c
    <3>1. s \in Seq(Range(s))
      BY <2>4 DEF Pooled
    <3>2. s \in Seq(Range(s) \cup {b})
      BY <3>1, SeqMonotonic
    <3> QED
      BY <3>2, AppendIsConcat
  <2> HIDE DEF c
  <2> DEFINE t == s \o c
  <2>7. /\ Pooled(t, BoltFields)
        /\ \A i \in DOMAIN t : \/ \E j \in DOMAIN s : t[i] = s[j]
                               \/ \E j \in DOMAIN c : t[i] = c[j]
    <3>1. \A i \in DOMAIN c : BoltFields \subseteq DOMAIN c[i] /\ c[i].age = 0
      BY <2>3, <2>5
    <3> QED
      BY <2>4, <2>5, <3>1, BornPool
  <2> HIDE DEF t
  <2>8. /\ Pooled(Newest(t, MaxBolts), BoltFields) /\ Len(Newest(t, MaxBolts)) <= MaxBolts
        /\ Among(Newest(t, MaxBolts), t)
    BY <2>7, NewestPool, PoolConstants
  <2>9. \A i \in DOMAIN t : t[i].age < BoltLife /\ OnChannel(t[i])
    BY <2>2, <2>3, <2>4, <2>5, <2>7, PoolConstants DEF Young
  <2>10. Young(Newest(t, MaxBolts), BoltLife) /\ \A i \in DOMAIN Newest(t, MaxBolts) : OnChannel(Newest(t, MaxBolts)[i])
    BY <2>8, <2>9 DEF Young, Among
  <2>11. BoltPool(Newest(t, MaxBolts))
    BY <2>8, <2>10, PoolIs, PoolConstants DEF BoltPool
  <2> QED
    BY <2>1, <2>6, <2>11 DEF t
<1> QED
  BY <1>2, <1>3

(* So do the discharges of a frame. *)
LEMMA StrikesKeep ==
  ASSUME NEW s, BoltPool(s), NEW q \in Seq(Events), \A i \in DOMAIN q : Has(q[i].field, "ionization")
  PROVE  BoltPool(Strikes(s, q))
<1>1. PICK h : /\ h[0] = s
               /\ \A i \in 1..Len(q) : h[i] = Strike(h[i - 1], q[i])
               /\ Strikes(s, q) = h[Len(q)]
  BY StrikeRun
<1>2. Len(q) \in Nat /\ DOMAIN q = 1..Len(q) /\ \A i \in 1..Len(q) : q[i] \in Events
  BY LenProperties, ElementOfSeq
<1> DEFINE U == {n \in Nat : BoltPool(h[n])}
<1>3. 0 \in U
  BY <1>1
<1>4. ASSUME NEW n \in 0..Len(q), n # Len(q), n \in U PROVE n + 1 \in U
  <2>1. n + 1 \in 1..Len(q) /\ n + 1 - 1 = n /\ n + 1 \in Nat
    <3> HIDE DEF U
    <3>1. Len(q) \in Nat
      BY <1>2
    <3> QED
      BY <1>4, <3>1
  <2>2. h[n + 1] = Strike(h[n], q[n + 1]) /\ q[n + 1] \in Events /\ Has(q[n + 1].field, "ionization")
    BY <1>1, <1>2, <2>1
  <2> QED
    BY <1>4, <2>1, <2>2, StrikeKeeps
<1>5. \A n \in 0..Len(q) : n \in U
  <2> HIDE DEF U
  <2> QED
    BY <1>2, <1>3, <1>4, Upward
<1> QED
  BY <1>1, <1>2, <1>5

(* And so does a frame of age. *)
LEMMA BoltsAge ==
  ASSUME NEW s, BoltPool(s), NEW dt \in Nat
  PROVE  BoltPool(Aged(s, BoltLife, dt))
<1> DEFINE t == Aged(s, BoltLife, dt)
<1>1. /\ PoolOK(t, BoltFields, BoltLife, MaxBolts)
      /\ \A i \in DOMAIN t : \E j \in DOMAIN s : t[i] = [s[j] EXCEPT !.age = @ + dt]
  <2>1. "age" \in BoltFields /\ BoltLife \in Nat /\ MaxBolts \in Nat /\ PoolOK(s, BoltFields, BoltLife, MaxBolts)
    BY PoolConstants DEF BoltFields, BoltPool
  <2> QED
    BY <2>1, AgedPool
<1> HIDE DEF t
<1>2. ASSUME NEW i \in DOMAIN t PROVE OnChannel(t[i])
  <2>1. PICK j \in DOMAIN s : t[i] = [s[j] EXCEPT !.age = @ + dt]
    BY <1>1
  <2>2. BoltFields \subseteq DOMAIN s[j] /\ OnChannel(s[j])
    BY DEF BoltPool, PoolOK
  <2>3. t[i].source = s[j].source /\ t[i].target = s[j].target
    BY <2>1, <2>2 DEF BoltFields
  <2> QED
    BY <2>2, <2>3 DEF OnChannel
<1> QED
  BY <1>1, <1>2 DEF BoltPool, t

(* The invariant says this of the bolts. *)
LEMMA BoltsAre ==
  BoltPool(bolts) <=> PoolOK(bolts, {"source", "target", "age"}, BoltLife, MaxBolts) /\ BoltOnChannel
<1> DEFINE on(i) == \E f \in {m.field : m \in {n \in Messages : n.kind = "field"}} :
      LET ionized == {j \in DOMAIN f.cells : Has(f, "ionization") /\ f.layers["ionization"][j] >= 8}
          volts == {ValueAt(f, "potential", CellOf(f.cells[j])) :
                      j \in IF Has(f, "potential") THEN ionized ELSE {}}
      IN  /\ bolts[i].source # bolts[i].target
          /\ {bolts[i].source, bolts[i].target} \subseteq {CellOf(f.cells[j]) : j \in ionized}
          /\ Has(f, "potential") /\ NaN \notin volts =>
               /\ ValueAt(f, "potential", bolts[i].source) = Max(volts)
               /\ ValueAt(f, "potential", bolts[i].target) = Min(volts)
<1>1. ASSUME NEW i PROVE on(i) <=> OnChannel(bolts[i])
  BY DEF OnChannel, Runs, FieldsTold, Ionized, Volts
<1>2. BoltOnChannel <=> \A i \in DOMAIN bolts : on(i)
  BY DEF BoltOnChannel
<1> HIDE DEF on
<1> QED
  BY <1>1, <1>2 DEF BoltPool, BoltFields

------------------------------------------------------------------------------
(* Debris.                                                                      *)

DebrisPool(s) == PoolOK(s, {"age"}, DebrisLife, MaxDebris)

(* Each of u is one of s or of b. *)
Either(u, s, b) == \A i \in DOMAIN u : \/ \E j \in DOMAIN s : u[i] = s[j]
                                       \/ \E j \in DOMAIN b : u[i] = b[j]

(* A pool with its newborn, cut to its cap, is a pool. *)
LEMMA CutPool ==
  ASSUME NEW s, NEW fields, NEW life \in Nat, life > 0, NEW cap \in Nat, PoolOK(s, fields, life, cap),
         NEW S, NEW b \in Seq(S), \A i \in DOMAIN b : fields \subseteq DOMAIN b[i] /\ b[i].age = 0
  PROVE  /\ PoolOK(Newest(s \o b, cap), fields, life, cap)
         /\ Either(Newest(s \o b, cap), s, b)
<1>1. Pooled(s, fields) /\ Young(s, life)
  BY PoolIs
<1> DEFINE t == s \o b
<1>2. /\ Pooled(t, fields)
      /\ \A i \in DOMAIN t : \/ \E j \in DOMAIN s : t[i] = s[j]
                             \/ \E j \in DOMAIN b : t[i] = b[j]
  BY <1>1, BornPool
<1> HIDE DEF t
<1> DEFINE u == Newest(t, cap)
<1>3. Pooled(u, fields) /\ Len(u) <= cap /\ Among(u, t)
  BY <1>2, NewestPool
<1> HIDE DEF u
<1>4. ASSUME NEW i \in DOMAIN u
      PROVE  \/ \E j \in DOMAIN s : u[i] = s[j]
             \/ \E j \in DOMAIN b : u[i] = b[j]
  <2>1. PICK n \in DOMAIN t : u[i] = t[n]
    BY <1>3 DEF Among
  <2> QED
    BY <1>2, <2>1
<1>5. Young(u, life)
  BY <1>1, <1>4 DEF Young
<1>6. PoolOK(u, fields, life, cap)
  BY <1>3, <1>5, PoolIs
<1> QED
  BY <1>4, <1>6 DEF t, u, Either

(* A burst stays within the pool. *)
LEMMA BurstKeeps ==
  ASSUME NEW s, DebrisPool(s), NEW b \in Bursts
  PROVE  DebrisPool(Burst(s, b))
<1>1. CASE DebrisKind(b.flags) = {}
  BY <1>1 DEF Burst
<1>2. CASE DebrisKind(b.flags) # {}
  <2> DEFINE n == Len(b.chunks) * BurstSize
  <2> DEFINE born == [i \in 1..n |-> [chunk |-> b.chunks[((i - 1) \div BurstSize) + 1], age |-> 0]]
  <2>1. Burst(s, b) = Newest(s \o born, MaxDebris)
    BY <1>2 DEF Burst
  <2>2. n \in Nat
    <3>1. PICK m \in Messages : m.kind = "object" /\ b.chunks = m.chunks
      BY DEF Bursts
    <3>2. Len(b.chunks) \in Nat
      BY <3>1, MessageTyped, LenProperties
    <3> QED
      BY <3>2, PoolConstants
  <2> HIDE DEF n
  <2>3. DOMAIN born = 1..n /\ \A i \in 1..n : DOMAIN born[i] = {"chunk", "age"} /\ born[i].age = 0
    OBVIOUS
  <2>4. born \in Seq(Range(born))
    <3>1. born \in [1..n -> Range(born)]
      BY <2>3 DEF Range
    <3> HIDE DEF born
    <3> QED
      BY <2>2, <3>1, SeqDef
  <2> HIDE DEF born
  <2>5. \A i \in DOMAIN born : {"age"} \subseteq DOMAIN born[i] /\ born[i].age = 0
    BY <2>3
  <2>6. PoolOK(Newest(s \o born, MaxDebris), {"age"}, DebrisLife, MaxDebris)
    <3>1. DebrisLife \in Nat /\ DebrisLife > 0 /\ MaxDebris \in Nat /\ PoolOK(s, {"age"}, DebrisLife, MaxDebris)
      BY PoolConstants DEF DebrisPool
    <3> QED
      BY <2>4, <2>5, <3>1, CutPool
  <2> QED
    BY <2>1, <2>6 DEF DebrisPool
<1> QED
  BY <1>1, <1>2

(* So do the bursts of a frame. *)
LEMMA BurstsKeep ==
  ASSUME NEW s, DebrisPool(s), NEW q \in Seq(Bursts)
  PROVE  DebrisPool(BurstsOf(s, q))
<1>1. PICK h : /\ h[0] = s
               /\ \A i \in 1..Len(q) : h[i] = Burst(h[i - 1], q[i])
               /\ BurstsOf(s, q) = h[Len(q)]
  BY BurstRun
<1>2. Len(q) \in Nat /\ \A i \in 1..Len(q) : q[i] \in Bursts
  BY LenProperties, ElementOfSeq
<1> DEFINE U == {n \in Nat : DebrisPool(h[n])}
<1>3. 0 \in U
  BY <1>1
<1>4. ASSUME NEW n \in 0..Len(q), n # Len(q), n \in U PROVE n + 1 \in U
  <2>1. n + 1 \in 1..Len(q) /\ n + 1 - 1 = n /\ n + 1 \in Nat
    <3> HIDE DEF U
    <3>1. Len(q) \in Nat
      BY <1>2
    <3> QED
      BY <1>4, <3>1
  <2>2. h[n + 1] = Burst(h[n], q[n + 1]) /\ q[n + 1] \in Bursts
    BY <1>1, <1>2, <2>1
  <2> QED
    BY <1>4, <2>1, <2>2, BurstKeeps
<1>5. \A n \in 0..Len(q) : n \in U
  <2> HIDE DEF U
  <2> QED
    BY <1>2, <1>3, <1>4, Upward
<1> QED
  BY <1>1, <1>2, <1>5

(* And so does a frame of age. *)
LEMMA DebrisAges ==
  ASSUME NEW s, DebrisPool(s), NEW dt \in Nat
  PROVE  DebrisPool(Aged(s, DebrisLife, dt))
<1>1. "age" \in {"age"} /\ DebrisLife \in Nat /\ MaxDebris \in Nat /\ PoolOK(s, {"age"}, DebrisLife, MaxDebris)
  BY PoolConstants DEF DebrisPool
<1> QED
  BY <1>1, AgedPool DEF DebrisPool

------------------------------------------------------------------------------
(* Smoke.                                                                       *)

SmokeFields == {"region", "age"}
SmokePool(s) == PoolOK(s, SmokeFields, SmokeLife, MaxSmoke)
Clear(s, r) == \A i \in DOMAIN s : s[i].region # r

(* A field without active cells has no cells to smoke. *)
LEMMA ColdField ==
  ASSUME NEW f, IsField(f), ~ActiveField(f)
  PROVE  ActiveCells(f) = << >>
<1>1. ASSUME NEW layer \in {"current", "potential"}, NEW least, ActiveIn(f, layer, least) # << >>
      PROVE  \E v \in Range(Layer(f, layer)) : AtLeast(v, least)
  <2> DEFINE l == Layer(f, layer)
  <2> DEFINE all == [i \in DOMAIN l |-> i]
  <2> DEFINE T == {i \in DOMAIN l : AtLeast(f.layers[layer][i], least)}
  <2>1. ActiveIn(f, layer, least) = Only(all, T)
    BY DEF ActiveIn
  <2>2. /\ DOMAIN f.cells = 1..Len(f.cells) /\ Len(f.cells) \in Nat
        /\ Has(f, layer) => DOMAIN l = DOMAIN f.cells /\ l = f.layers[layer]
        /\ ~Has(f, layer) => DOMAIN l = {}
    <3>1. f.cells \in Seq(Nat)
      BY DEF IsField
    <3>2. DOMAIN f.cells = 1..Len(f.cells) /\ Len(f.cells) \in Nat
      BY <3>1, LenProperties
    <3>3. Has(f, layer) => DOMAIN f.layers[layer] = DOMAIN f.cells
      BY DEF IsField, Has
    <3> QED
      BY <3>2, <3>3 DEF Layer
  <2>3. all \in Seq(Int)
    <3>1. CASE Has(f, layer)
      <4>1. all \in [1..Len(f.cells) -> Int]
        BY <2>2, <3>1
      <4> HIDE DEF all
      <4> QED
        BY <2>2, <4>1, SeqDef
    <3>2. CASE ~Has(f, layer)
      <4>1. all \in [1..0 -> Int]
        BY <2>2, <3>2
      <4> HIDE DEF all
      <4> QED
        BY <4>1, SeqDef
    <3> QED
      BY <3>1, <3>2
  <2> HIDE DEF all, T
  <2> DEFINE o == Only(all, T)
  <2>4. o \in Seq(Int) /\ \E g : Picks(o, all, T, Len(all), g)
    BY <2>3, OnlyPicks
  <2>5. o # << >>
    BY <1>1, <2>1
  <2> HIDE DEF o
  <2>6. Len(o) \in Nat /\ Len(o) # 0
    BY <2>4, <2>5, LenProperties, EmptySeq
  <2>7. PICK g : Picks(o, all, T, Len(all), g)
    BY <2>4
  <2>8. 1 \in 1..Len(o)
    BY <2>6
  <2>9. o[1] \in T
    BY <2>7, <2>8 DEF Picks
  <2>10. o[1] \in DOMAIN l /\ AtLeast(f.layers[layer][o[1]], least)
    BY <2>9 DEF T
  <2>11. Has(f, layer) /\ l = f.layers[layer]
    BY <2>2, <2>10
  <2> HIDE DEF l
  <2>12. l[o[1]] \in Range(l) /\ AtLeast(l[o[1]], least)
    BY <2>10, <2>11 DEF Range
  <2> QED
    BY <2>12 DEF l
<1> QED
  BY <1>1 DEF ActiveCells, ActiveField

(* The heat of a field is a whole number. *)
LEMMA HeatIs ==
  ASSUME NEW f, IsField(f)
  PROVE  Heat(f) \in Nat
<1> DEFINE l == Layer(f, "current")
<1> DEFINE V == {0} \cup {Magnitude(v) : v \in {w \in Range(l) : Finite(w)}}
<1>1. PICK n \in Nat : DOMAIN l = 1..n /\ \A i \in 1..n : l[i] \in Int \cup {NaN}
  <2>1. f.cells \in Seq(Nat) /\ "current" \in {"temperature", "potential", "current"}
    BY DEF IsField
  <2>2. DOMAIN f.cells = 1..Len(f.cells) /\ Len(f.cells) \in Nat
    BY <2>1, LenProperties
  <2>3. CASE Has(f, "current")
    <3>1. l = f.layers["current"]
      BY <2>3 DEF Layer
    <3>2. f.layers["current"] \in [DOMAIN f.cells -> Int \cup {NaN}]
      BY <2>3 DEF IsField, Has
    <3> HIDE DEF l
    <3> QED
      BY <2>2, <3>1, <3>2
  <2>4. CASE ~Has(f, "current")
    <3>1. l = << >>
      BY <2>4 DEF Layer
    <3>2. DOMAIN l = 1..0
      BY <3>1
    <3> HIDE DEF l
    <3> QED
      BY <3>2
  <2> QED
    BY <2>3, <2>4
<1> HIDE DEF l
<1> DEFINE v == [i \in 1..n + 1 |-> IF i <= n /\ Finite(l[i]) THEN Magnitude(l[i]) ELSE 0]
<1>2. \A i \in 1..n + 1 : v[i] \in Nat /\ v[i] \in V
  <2>1. ASSUME NEW i \in 1..n + 1 PROVE v[i] \in Nat /\ v[i] \in V
    <3>1. CASE i <= n /\ Finite(l[i])
      <4>1. i \in 1..n /\ l[i] \in Int /\ l[i] \in Range(l)
        BY <1>1, <3>1 DEF Finite, Range
      <4>2. v[i] = Magnitude(l[i]) /\ Magnitude(l[i]) \in Nat
        BY <3>1, <4>1 DEF Magnitude
      <4> QED
        BY <3>1, <4>1, <4>2
    <3>2. CASE ~(i <= n /\ Finite(l[i]))
      BY <3>2
    <3> QED
      BY <3>1, <3>2
  <2> QED
    BY <2>1
<1>3. \A w \in V : w \in Nat /\ \E i \in 1..n + 1 : v[i] = w
  <2>1. ASSUME NEW w \in V PROVE w \in Nat /\ \E i \in 1..n + 1 : v[i] = w
    <3>1. CASE w = 0
      <4>1. n + 1 \in 1..n + 1 /\ v[n + 1] = 0
        BY <1>1
      <4> QED
        BY <3>1, <4>1
    <3>2. CASE w # 0
      <4>1. PICK x \in Range(l) : Finite(x) /\ w = Magnitude(x)
        BY <3>2
      <4>2. PICK i \in 1..n : l[i] = x
        BY <1>1, <4>1 DEF Range
      <4>3. i \in 1..n + 1 /\ i <= n /\ Finite(l[i])
        BY <1>1, <4>1, <4>2
      <4>4. v[i] = w
        BY <4>1, <4>2, <4>3
      <4> QED
        BY <1>2, <4>3, <4>4
    <3> QED
      BY <3>1, <3>2
  <2> QED
    BY <2>1
<1>4. v \in [1..n + 1 -> Int]
  BY <1>2
<1> HIDE DEF v
<1>5. PICK i \in 1..n + 1 : FirstMax(v, n + 1, i)
  <2>1. n + 1 \in Nat /\ n + 1 > 0
    BY <1>1
  <2> QED
    BY <1>4, <2>1, FirstMaxIs
<1>6. Heat(f) = Max(V)
  BY DEF Heat, l
<1> HIDE DEF V
<1>7. v[i] \in V /\ v[i] \in Nat /\ V \subseteq Int /\ \A w \in V : w <= v[i]
  BY <1>2, <1>3, <1>5 DEF FirstMax
<1>8. Max(V) = v[i]
  BY <1>7, MaxMinAre
<1> QED
  BY <1>6, <1>7, <1>8

(* Smoke is born over its region. *)
LEMMA SpawnKeeps ==
  ASSUME NEW s, SmokePool(s), NEW e \in Events
  PROVE  /\ SmokePool(SpawnFromElectric(s, e))
         /\ \A r : r # e.region /\ Clear(s, r) => Clear(SpawnFromElectric(s, e), r)
         /\ ~ActiveField(e.field) => Clear(SpawnFromElectric(s, e), e.region)
<1> DEFINE f == e.field
<1>1. IsField(f)
  BY EventIs
<1>2. Pooled(s, SmokeFields) /\ Young(s, SmokeLife) /\ Len(s) <= MaxSmoke
  BY PoolIs, PoolConstants DEF SmokePool
<1>3. CASE ActiveCells(f) = << >>
  <2> DEFINE T == {p \in Range(s) : p.region # e.region}
  <2> DEFINE o == Only(s, T)
  <2>1. SpawnFromElectric(s, e) = o
    BY <1>3 DEF SpawnFromElectric, ClearRegion
  <2>2. Pooled(o, SmokeFields) /\ Len(o) <= Len(s) /\ Among(o, s) /\ \A i \in DOMAIN o : o[i] \in T
    <3> HIDE DEF T
    <3> QED
      BY <1>2, OnlyPool
  <2> HIDE DEF o
  <2>3. Len(o) <= MaxSmoke /\ Young(o, SmokeLife)
    <3>1. Len(o) \in Nat /\ Len(s) \in Nat
      BY <1>2, <2>2, OwnRange DEF Pooled
    <3> QED
      BY <1>2, <2>2, <3>1, PoolConstants DEF Young, Among
  <2>4. SmokePool(o)
    BY <2>2, <2>3, PoolIs, PoolConstants DEF SmokePool
  <2>5. Clear(o, e.region)
    BY <2>2 DEF Clear
  <2>6. \A r : Clear(s, r) => Clear(o, r)
    BY <2>2 DEF Clear, Among
  <2> QED
    BY <2>1, <2>4, <2>5, <2>6
<1>4. CASE ActiveCells(f) # << >>
  <2> DEFINE active == ActiveCells(f)
  <2> DEFINE count == SpawnCount(Len(active), Heat(f))
  <2> DEFINE chosen == IF active = << >> THEN << >> ELSE FairSelection(Len(active), count)
  <2> DEFINE born == [i \in DOMAIN chosen |->
                        [region |-> e.region, cell |-> CellOf(f.cells[active[chosen[i]]]), age |-> 0]]
  <2>1. SpawnFromElectric(s, e) = IF active = << >> \/ Heat(f) = 0 THEN s ELSE Newest(s \o born, MaxSmoke)
    BY <1>4 DEF SpawnFromElectric, SpawnFromActive
  <2>2. ActiveField(f)
    BY <1>1, <1>4, ColdField
  <2>3. CASE Heat(f) = 0
    BY <2>1, <2>2, <2>3
  <2>4. CASE Heat(f) # 0
    <3>1. count \in Nat
      <4>1. Heat(f) \in Nat
        BY <1>1, HeatIs
      <4>2. Len(active) \in Nat
        <5>1. ASSUME NEW layer \in {"current", "potential"}, NEW least PROVE Len(ActiveIn(f, layer, least)) \in Nat
          <6> DEFINE l == Layer(f, layer)
          <6> DEFINE all == [i \in DOMAIN l |-> i]
          <6>1. f.cells \in Seq(Nat)
            BY <1>1 DEF IsField
          <6>2. DOMAIN f.cells = 1..Len(f.cells) /\ Len(f.cells) \in Nat
            BY <6>1, LenProperties
          <6>3. all \in Seq(Int)
            <7>1. CASE Has(f, layer)
              <8>1. DOMAIN l = DOMAIN f.cells
                BY <1>1, <7>1 DEF IsField, Has, Layer
              <8>2. all \in [1..Len(f.cells) -> Int]
                BY <6>2, <8>1
              <8> HIDE DEF all
              <8> QED
                BY <6>2, <8>2, SeqDef
            <7>2. CASE ~Has(f, layer)
              <8>1. all \in [1..0 -> Int]
                BY <7>2 DEF Layer
              <8> HIDE DEF all
              <8> QED
                BY <8>1, SeqDef
            <7> QED
              BY <7>1, <7>2
          <6> DEFINE T == {i \in DOMAIN l : AtLeast(f.layers[layer][i], least)}
          <6>4. ActiveIn(f, layer, least) = Only(all, T)
            BY DEF ActiveIn
          <6> HIDE DEF all, T
          <6>5. Only(all, T) \in Seq(Int)
            BY <6>3, OnlyPicks
          <6> QED
            BY <6>4, <6>5, LenProperties
        <5> QED
          BY <5>1 DEF ActiveCells
      <4> HIDE DEF active
      <4> DEFINE c == Len(active) * Heat(f) + 19999
      <4>3. c \in Nat
        BY <4>1, <4>2
      <4> DEFINE d == c \div 20000
      <4>4. count = IF d < 1 THEN 1 ELSE IF d > MaxSpawn THEN MaxSpawn ELSE d
        BY DEF SpawnCount
      <4> HIDE DEF c
      <4>5. d \in Nat
        BY <4>3
      <4> HIDE DEF count, d
      <4> QED
        BY <4>4, <4>5, PoolConstants
    <3> HIDE DEF count
    <3>2. DOMAIN chosen = 1..count
      BY <1>4 DEF FairSelection
    <3> HIDE DEF chosen
    <3>3. DOMAIN born = 1..count /\ \A i \in 1..count :
            DOMAIN born[i] = {"region", "cell", "age"} /\ born[i].age = 0 /\ born[i].region = e.region
      BY <3>2
    <3>4. born \in Seq(Range(born))
      <4>1. born \in [1..count -> Range(born)]
        BY <3>2 DEF Range
      <4> HIDE DEF born
      <4> QED
        BY <3>1, <4>1, SeqDef
    <3> HIDE DEF born, active
    <3> DEFINE t == Newest(s \o born, MaxSmoke)
    <3>5. /\ PoolOK(t, SmokeFields, SmokeLife, MaxSmoke)
          /\ \A i \in DOMAIN t : \/ \E j \in DOMAIN s : t[i] = s[j]
                                 \/ \E j \in DOMAIN born : t[i] = born[j]
      <4>1. /\ SmokeLife \in Nat /\ SmokeLife > 0 /\ MaxSmoke \in Nat
            /\ PoolOK(s, SmokeFields, SmokeLife, MaxSmoke)
        BY PoolConstants DEF SmokePool
      <4>2. \A i \in DOMAIN born : SmokeFields \subseteq DOMAIN born[i] /\ born[i].age = 0
        BY <3>3 DEF SmokeFields
      <4>3. PoolOK(Newest(s \o born, MaxSmoke), SmokeFields, SmokeLife, MaxSmoke)
        BY <3>4, <4>1, <4>2, CutPool
      <4>4. Either(Newest(s \o born, MaxSmoke), s, born)
        BY <3>4, <4>1, <4>2, CutPool
      <4> QED
        BY <4>3, <4>4 DEF Either
    <3> HIDE DEF t
    <3>6. \A r : r # e.region /\ Clear(s, r) => Clear(t, r)
      BY <3>3, <3>5 DEF Clear
    <3>7. SpawnFromElectric(s, e) = t
      BY <1>4, <2>1, <2>4 DEF t, active
    <3> QED
      BY <2>2, <3>5, <3>6, <3>7 DEF SmokePool
  <2> QED
    BY <2>3, <2>4
<1> QED
  BY <1>3, <1>4

(* A region that ended is cleared. *)
LEMMA ClearKeeps ==
  ASSUME NEW s, SmokePool(s), NEW r
  PROVE  /\ SmokePool(ClearRegion(s, r)) /\ Clear(ClearRegion(s, r), r)
         /\ \A q : Clear(s, q) => Clear(ClearRegion(s, r), q)
<1> DEFINE T == {p \in Range(s) : p.region # r}
<1> DEFINE o == Only(s, T)
<1>1. Pooled(s, SmokeFields) /\ Young(s, SmokeLife) /\ Len(s) <= MaxSmoke
  BY PoolIs, PoolConstants DEF SmokePool
<1>2. ClearRegion(s, r) = o
  BY DEF ClearRegion
<1>3. Pooled(o, SmokeFields) /\ Len(o) <= Len(s) /\ Among(o, s) /\ \A i \in DOMAIN o : o[i] \in T
  <2> HIDE DEF T
  <2> QED
    BY <1>1, OnlyPool
<1> HIDE DEF o
<1>4. Len(o) <= MaxSmoke /\ Young(o, SmokeLife)
  <2>1. Len(o) \in Nat /\ Len(s) \in Nat
    BY <1>1, <1>3, OwnRange DEF Pooled
  <2> QED
    BY <1>1, <1>3, <2>1, PoolConstants DEF Young, Among
<1>5. SmokePool(o)
  BY <1>3, <1>4, PoolIs, PoolConstants DEF SmokePool
<1>6. Clear(o, r)
  BY <1>3 DEF Clear
<1>7. \A q : Clear(s, q) => Clear(o, q)
  BY <1>3 DEF Clear, Among
<1> QED
  BY <1>2, <1>5, <1>6, <1>7

(* The regions that ended in a frame are all cleared. *)
LEMMA ClearingsKeep ==
  ASSUME NEW s, SmokePool(s), NEW q \in Seq(Regions)
  PROVE  /\ SmokePool(Clearings(s, q))
         /\ \A r : Clear(s, r) \/ (\E i \in DOMAIN q : q[i] = r) => Clear(Clearings(s, q), r)
<1>1. PICK h : /\ h[0] = s
               /\ \A i \in 1..Len(q) : h[i] = ClearRegion(h[i - 1], q[i])
               /\ Clearings(s, q) = h[Len(q)]
  BY ClearRun
<1>2. Len(q) \in Nat /\ DOMAIN q = 1..Len(q)
  BY LenProperties
<1> DEFINE gone(n) == \A r : Clear(s, r) \/ (\E i \in 1..n : q[i] = r) => Clear(h[n], r)
<1> DEFINE U == {n \in Nat : SmokePool(h[n]) /\ gone(n)}
<1>3. 0 \in U
  BY <1>1
<1>4. ASSUME NEW n \in 0..Len(q), n # Len(q), n \in U PROVE n + 1 \in U
  <2>1. n + 1 \in 1..Len(q) /\ n + 1 - 1 = n /\ n + 1 \in Nat /\ n \in Nat
    <3>1. Len(q) \in Nat /\ n \in 0..Len(q) /\ n # Len(q)
      BY <1>2, <1>4
    <3> HIDE DEF U
    <3> QED
      BY <3>1, SMTT(30)
  <2>2. h[n + 1] = ClearRegion(h[n], q[n + 1])
    BY <1>1, <2>1
  <2>3. /\ SmokePool(h[n + 1]) /\ Clear(h[n + 1], q[n + 1])
        /\ \A r : Clear(h[n], r) => Clear(h[n + 1], r)
    BY <1>4, <2>2, ClearKeeps
  <2>4. ASSUME NEW r, Clear(s, r) \/ \E i \in 1..n + 1 : q[i] = r PROVE Clear(h[n + 1], r)
    <3>1. CASE q[n + 1] = r
      BY <2>3, <3>1
    <3>2. CASE q[n + 1] # r
      <4>1. Clear(s, r) \/ \E i \in 1..n : q[i] = r
        BY <2>1, <2>4, <3>2
      <4> QED
        BY <1>4, <2>3, <4>1
    <3> QED
      BY <3>1, <3>2
  <2> QED
    BY <2>1, <2>3, <2>4
<1>5. \A n \in 0..Len(q) : n \in U
  <2> HIDE DEF U
  <2> QED
    BY <1>2, <1>3, <1>4, Upward
<1>6. SmokePool(h[Len(q)]) /\ gone(Len(q))
  BY <1>2, <1>5
<1> QED
  BY <1>1, <1>2, <1>6

(* What an electric frame leaves clear: what it does not touch, and what it saw *)
(* cold last.                                                                   *)
LEMMA SpawnsKeep ==
  ASSUME NEW s, SmokePool(s), NEW q \in Seq(Events)
  PROVE  /\ SmokePool(Spawns(s, q))
         /\ \A r : Clear(s, r) /\ (\A i \in DOMAIN q : q[i].region # r) => Clear(Spawns(s, q), r)
         /\ \A r, l : l \in DOMAIN q /\ LastOf(q, r, l) /\ ~ActiveField(q[l].field) => Clear(Spawns(s, q), r)
<1>1. PICK h : /\ h[0] = s
               /\ \A i \in 1..Len(q) : h[i] = SpawnFromElectric(h[i - 1], q[i])
               /\ Spawns(s, q) = h[Len(q)]
  BY SpawnRun
<1>2. Len(q) \in Nat /\ DOMAIN q = 1..Len(q) /\ \A i \in 1..Len(q) : q[i] \in Events
  BY LenProperties, ElementOfSeq
<1> DEFINE spared(n) == \A r : Clear(s, r) /\ (\A i \in DOMAIN q : q[i].region # r) => Clear(h[n], r)
<1> DEFINE cold(n) == \A r, l : l \in 1..n /\ LastOf(q, r, l) /\ ~ActiveField(q[l].field) => Clear(h[n], r)
<1> DEFINE U == {n \in Nat : SmokePool(h[n]) /\ spared(n) /\ cold(n)}
<1>3. 0 \in U
  BY <1>1
<1>4. ASSUME NEW n \in 0..Len(q), n # Len(q), n \in U PROVE n + 1 \in U
  <2>1. n + 1 \in 1..Len(q) /\ n + 1 - 1 = n /\ n + 1 \in Nat /\ n \in Nat
    <3>1. Len(q) \in Nat /\ n \in 0..Len(q) /\ n # Len(q)
      BY <1>2, <1>4
    <3> HIDE DEF U
    <3> QED
      BY <3>1, SMTT(30)
  <2> DEFINE e == q[n + 1]
  <2>2. h[n + 1] = SpawnFromElectric(h[n], e) /\ e \in Events /\ n + 1 \in DOMAIN q
    BY <1>1, <1>2, <2>1
  <2> HIDE DEF e
  <2>3. /\ SmokePool(h[n + 1])
        /\ \A r : r # e.region /\ Clear(h[n], r) => Clear(h[n + 1], r)
        /\ ~ActiveField(e.field) => Clear(h[n + 1], e.region)
    <3>1. SmokePool(h[n])
      BY <1>4
    <3> QED
      BY <2>2, <3>1, SpawnKeeps
  <2>4. spared(n + 1)
    <3> SUFFICES ASSUME NEW r, Clear(s, r), \A i \in DOMAIN q : q[i].region # r PROVE Clear(h[n + 1], r)
      OBVIOUS
    <3>1. Clear(h[n], r)
      BY <1>4
    <3>2. e.region # r
      BY <2>2 DEF e
    <3> QED
      BY <2>3, <3>1, <3>2
  <2>5. cold(n + 1)
    <3> SUFFICES ASSUME NEW r, NEW l \in 1..n + 1, LastOf(q, r, l), ~ActiveField(q[l].field)
                 PROVE  Clear(h[n + 1], r)
      OBVIOUS
    <3>1. CASE l = n + 1
      <4>1. e.region = r /\ ~ActiveField(e.field)
        BY <3>1 DEF e, LastOf
      <4> QED
        BY <2>3, <4>1
    <3>2. CASE l # n + 1
      <4>1. l \in 1..n
        BY <2>1, <3>2
      <4>2. Clear(h[n], r)
        BY <1>4, <4>1
      <4>3. e.region # r
        <5>1. ~(n + 1 <= l)
          BY <2>1, <4>1
        <5> QED
          BY <2>2, <5>1 DEF e, LastOf
      <4> QED
        BY <2>3, <4>2, <4>3
    <3> QED
      BY <3>1, <3>2
  <2> HIDE DEF spared, cold
  <2> QED
    BY <2>1, <2>3, <2>4, <2>5
<1>5. \A n \in 0..Len(q) : n \in U
  <2> HIDE DEF U
  <2> QED
    BY <1>2, <1>3, <1>4, Upward
<1>6. SmokePool(h[Len(q)]) /\ spared(Len(q)) /\ cold(Len(q))
  BY <1>2, <1>5
<1> QED
  BY <1>1, <1>2, <1>6

(* Smoke ages. *)
LEMMA SmokeAges ==
  ASSUME NEW s, SmokePool(s), NEW dt \in Nat
  PROVE  SmokePool(Aged(s, SmokeLife, dt)) /\ \A r : Clear(s, r) => Clear(Aged(s, SmokeLife, dt), r)
<1> DEFINE t == Aged(s, SmokeLife, dt)
<1>1. /\ PoolOK(t, SmokeFields, SmokeLife, MaxSmoke)
      /\ \A i \in DOMAIN t : \E j \in DOMAIN s : t[i] = [s[j] EXCEPT !.age = @ + dt]
  <2>1. "age" \in SmokeFields /\ SmokeLife \in Nat /\ MaxSmoke \in Nat /\ PoolOK(s, SmokeFields, SmokeLife, MaxSmoke)
    BY PoolConstants DEF SmokeFields, SmokePool
  <2> QED
    BY <2>1, AgedPool
<1> HIDE DEF t
<1>2. ASSUME NEW r, Clear(s, r) PROVE Clear(t, r)
  <2> SUFFICES ASSUME NEW i \in DOMAIN t PROVE t[i].region # r
    BY DEF Clear
  <2>1. PICK j \in DOMAIN s : t[i] = [s[j] EXCEPT !.age = @ + dt]
    BY <1>1
  <2>2. SmokeFields \subseteq DOMAIN s[j]
    BY DEF SmokePool, PoolOK
  <2>3. t[i].region = s[j].region
    BY <2>1, <2>2 DEF SmokeFields
  <2> QED
    BY <1>2, <2>3 DEF Clear
<1> QED
  BY <1>1, <1>2 DEF SmokePool, t

(* The smoke that the effects leave is warm. *)
LEMMA SmokeLogic ==
  ASSUME SmokePool(smoke), AppOK(app), SmokeCools, Logic
  PROVE  SmokePool(smoke') /\ SmokeIsWarm'
<1>1. /\ phase = "Logic" /\ smoke' = Spawns(Clearings(smoke, app.destroyed), app.electric) /\ quiet' = quiet
  BY LogicIs
<1>2. app.destroyed \in Seq(Regions) /\ app.electric \in Seq(Events)
  BY DEF AppOK
<1> DEFINE c == Clearings(smoke, app.destroyed)
<1>3. /\ SmokePool(c)
      /\ \A r : Clear(smoke, r) \/ (\E i \in DOMAIN app.destroyed : app.destroyed[i] = r) => Clear(c, r)
  BY <1>2, ClearingsKeep
<1> HIDE DEF c
<1> DEFINE t == Spawns(c, app.electric)
<1>4. /\ SmokePool(t)
      /\ \A r : Clear(c, r) /\ (\A i \in DOMAIN app.electric : app.electric[i].region # r) => Clear(t, r)
      /\ \A r, l : l \in DOMAIN app.electric /\ LastOf(app.electric, r, l) /\ ~ActiveField(app.electric[l].field)
                     => Clear(t, r)
  BY <1>2, <1>3, SpawnsKeep
<1> HIDE DEF t
<1>5. ASSUME NEW r \in quiet PROVE Clear(t, r)
  <2>1. Clears(r)
    BY <1>1 DEF SmokeCools
  <2>2. CASE \E i \in DOMAIN app.electric : LastOf(app.electric, r, i) /\ ~ActiveField(app.electric[i].field)
    BY <1>4, <2>2
  <2>3. CASE /\ \A i \in DOMAIN app.electric : app.electric[i].region # r
             /\ \/ \E i \in DOMAIN app.destroyed : app.destroyed[i] = r
                \/ \A i \in DOMAIN smoke : smoke[i].region # r
    <3>1. Clear(c, r)
      BY <1>3, <2>3 DEF Clear
    <3> QED
      BY <1>4, <2>3, <3>1
  <2> QED
    BY <2>1, <2>2, <2>3 DEF Clears
<1>6. smoke' = t
  BY <1>1 DEF t, c
<1>7. SmokeIsWarm'
  BY <1>1, <1>5, <1>6 DEF SmokeIsWarm, Clear
<1> QED
  BY <1>4, <1>6, <1>7

(* After a drain the effects clear what is quiet. *)
LEMMA SmokeIngest ==
  ASSUME SmokeIsWarm, AppOK(app), app.electric = << >>, app.destroyed = << >>, inbox \in Seq(Messages), Ingest
  PROVE  SmokeCools' /\ SmokeIsWarm'
<1>1. /\ phase = "Net" /\ app' = Frame(app, inbox) /\ phase' = "Logic" /\ smoke' = smoke
      /\ quiet' = {r \in Regions : QuietAfter(r)}
  BY IngestIs
<1>2. Queued(app', inbox, Len(inbox))
  BY <1>1, FrameHeeds
<1>3. DOMAIN inbox = 1..Len(inbox)
  BY LenProperties
<1>4. ASSUME NEW r \in quiet' PROVE Clears(r)'
  <2> DEFINE told == {i \in DOMAIN inbox : Electric(inbox[i]) /\ inbox[i].region = r}
  <2> DEFINE gone == \E i \in DOMAIN inbox : inbox[i].kind = "destroyed" /\ inbox[i].region = r
  <2>1. r \in Regions /\ QuietAfter(r)
    BY <1>1
  <2>2. IF told = {} THEN gone \/ r \in quiet
        ELSE \E i \in told : (\A j \in told : j <= i) /\ ~ActiveField(inbox[i].field)
    BY <2>1 DEF QuietAfter
  <2>3. CASE told = {}
    <3>1. \A i \in 1..Len(inbox) : ~Tells(inbox[i], r)
      BY <1>3, <2>3 DEF Tells
    <3>2. \A j \in DOMAIN app'.electric : app'.electric[j].region # r
      BY <1>2, <2>1, <3>1 DEF Queued
    <3>3. CASE gone
      <4>1. \E j \in DOMAIN app'.destroyed : app'.destroyed[j] = r
        BY <1>2, <1>3, <3>3 DEF Queued
      <4> QED
        BY <3>2, <4>1 DEF Clears
    <3>4. CASE r \in quiet
      <4>1. \A i \in DOMAIN smoke' : smoke'[i].region # r
        BY <1>1, <3>4 DEF SmokeIsWarm
      <4> QED
        BY <3>2, <4>1 DEF Clears
    <3> HIDE DEF told, gone
    <3> QED
      BY <2>2, <2>3, <3>3, <3>4
  <2>4. CASE told # {}
    <3>1. PICK i \in told : (\A j \in told : j <= i) /\ ~ActiveField(inbox[i].field)
      BY <2>2, <2>4
    <3>2. i \in 1..Len(inbox) /\ Tells(inbox[i], r) /\ \A j \in 1..Len(inbox) : Tells(inbox[j], r) => j <= i
      BY <1>3, <3>1 DEF Tells
    <3>3. \E j \in DOMAIN app'.electric : LastOf(app'.electric, r, j) /\ app'.electric[j].field = inbox[i].field
      BY <1>2, <2>1, <3>2 DEF Queued
    <3>4. \E j \in DOMAIN app'.electric : LastOf(app'.electric, r, j) /\ ~ActiveField(app'.electric[j].field)
      BY <3>1, <3>3
    <3> QED
      BY <3>4 DEF Clears
  <2> QED
    BY <2>3, <2>4
<1> QED
  BY <1>1, <1>4 DEF SmokeCools, SmokeIsWarm


------------------------------------------------------------------------------
(* Terrain: what is not marked is drawn as it is.                               *)

(* A mesh depends on its chunk, its neighbours and the light it is given. *)
LEMMA MeshSame ==
  ASSUME NEW a, NEW x, NEW k \in Int, SameChunk(a, x, k), SameChunk(a, x, k - 1), SameChunk(a, x, k + 1),
         k \in DOMAIN a.held, NEW g
  PROVE  MeshWith(x, k, g) = MeshWith(a, k, g)
<1>1. x.held[k] = a.held[k]
  BY DEF SameChunk
<1>2. ASSUME NEW d, NEW sign \in {1, -1}, NEW u, NEW v
      PROVE  OccludedAcross(x.held, k, d, sign, u, v) <=> OccludedAcross(a.held, k, d, sign, u, v)
  <2>1. SameChunk(a, x, k + sign)
    <3>1. CASE sign = 1
      BY <3>1
    <3>2. CASE sign = -1
      <4>1. k + sign = k - 1
        BY <3>2
      <4> QED
        BY <4>1
    <3> QED
      BY <3>1, <3>2
  <2> QED
    BY <2>1 DEF SameChunk, OccludedAcross, Loaded
<1>3. ASSUME NEW d, NEW sign \in {1, -1}, NEW s, NEW light
      PROVE  Mask(x.held, k, d, sign, s, light) = Mask(a.held, k, d, sign, s, light)
  <2>1. \A u, v : OccludedAcross(x.held, k, d, sign, u, v) <=> OccludedAcross(a.held, k, d, sign, u, v)
    BY <1>2
  <2> QED
    BY <1>1, <2>1 DEF Mask
<1>4. ASSUME NEW light PROVE GreedyMesh(x.held, k, light) = GreedyMesh(a.held, k, light)
  <2>1. \A d \in 0..2, sign \in {1, -1}, s \in Span :
          Mask(x.held, k, d, sign, s, light) = Mask(a.held, k, d, sign, s, light)
    BY <1>3
  <2> QED
    BY <2>1 DEF GreedyMesh
<1>5. ChunkRenderMesh(x.held, k, g) = ChunkRenderMesh(a.held, k, g)
  BY <1>1, <1>4 DEF ChunkRenderMesh
<1> QED
  BY <1>5 DEF MeshWith

(* So does the light of its regions. *)
LEMMA GridSame ==
  ASSUME NEW a, NEW x, NEW j, DOMAIN a.regions \subseteq Regions, DOMAIN x.regions \subseteq Regions,
         \A r \in Regions : ChunkOf[r] = j => LightOf(x, r) = LightOf(a, r)
  PROVE  BlockGrid(x, j) = BlockGrid(a, j)
<1> DEFINE lit(b) == {r \in DOMAIN b.regions : ChunkOf[r] = j /\ Has(b.regions[r], "light")}
<1> DEFINE At(f, c) == {f.layers["light"][i] : i \in {n \in DOMAIN f.cells : CellOf(f.cells[n]) = c}}
<1>1. ASSUME NEW r \in Regions, ChunkOf[r] = j
      PROVE  /\ r \in lit(a) <=> r \in lit(x)
             /\ r \in lit(a) => /\ a.regions[r].cells = x.regions[r].cells
                                /\ a.regions[r].layers["light"] = x.regions[r].layers["light"]
  <2>1. LightOf(x, r) = LightOf(a, r)
    BY <1>1
  <2>2. /\ r \in lit(a) => LightOf(a, r) = <<a.regions[r].cells, a.regions[r].layers["light"]>>
        /\ r \in lit(x) => LightOf(x, r) = <<x.regions[r].cells, x.regions[r].layers["light"]>>
        /\ r \notin lit(a) => LightOf(a, r) = << >>
        /\ r \notin lit(x) => LightOf(x, r) = << >>
    BY <1>1 DEF LightOf
  <2> HIDE DEF lit
  <2> QED
    BY <2>1, <2>2
<1>2. lit(a) = lit(x)
  BY <1>1
<1>3. \A r \in lit(a) : \A c : At(a.regions[r], c) = At(x.regions[r], c)
  BY <1>1
<1>4. \A c : UNION {At(a.regions[r], c) : r \in lit(a)} = UNION {At(x.regions[r], c) : r \in lit(x)}
  <2> HIDE DEF lit, At
  <2> QED
    BY <1>2, <1>3
<1> DEFINE grid(b) == [c \in Cells |-> Max({0} \cup UNION {At(b.regions[r], c) : r \in lit(b)})]
<1>5. grid(x) = grid(a)
  <2> HIDE DEF lit, At
  <2> QED
    BY <1>4
<1>6. BlockGrid(x, j) = grid(x) /\ BlockGrid(a, j) = grid(a)
  BY Zenon DEF BlockGrid
<1> HIDE DEF grid
<1> QED
  BY <1>5, <1>6

(* A drain marks each chunk whose mesh changes. *)
LEMMA TerrainIngest ==
  ASSUME TerrainDrawn, AppOK(app), AppOK(app'), Follows(app, app'), UNCHANGED <<terrain, queue>>,
         \A key \in DOMAIN terrain : key[1] \in Int
  PROVE  TerrainDrawn'
<1>1. ASSUME NEW key \in DOMAIN terrain PROVE key[1] \in DOMAIN app'.held \cup app'.remesh \cup Range(queue')
  <2>1. key[1] \in Int /\ key[1] \in DOMAIN app.held \cup app.remesh \cup Range(queue)
    BY DEF TerrainDrawn
  <2> QED
    BY <2>1 DEF Follows, SameChunk
<1>2. ASSUME NEW k \in DOMAIN app'.held, k \notin Waiting'
      PROVE  \E g : LitBy(app', k, g) /\ ShownAt(terrain', <<k, "mesh">>) = MeshWith(app', k, g)
  <2>1. k \in Int /\ DOMAIN app.regions \subseteq Regions /\ DOMAIN app'.regions \subseteq Regions
    BY FieldAssumption DEF AppOK
  <2>2. \A j \in {k, k - 1, k + 1} : j \in Int /\ j \notin app'.remesh /\ SameChunk(app, app', j)
    BY <1>2, <2>1 DEF Waiting, Follows
  <2>3. k \in DOMAIN app.held /\ k \notin Waiting
    BY <1>2, <2>2 DEF SameChunk, Waiting, Follows
  <2>4. PICK g : LitBy(app, k, g) /\ ShownAt(terrain, <<k, "mesh">>) = MeshWith(app, k, g)
    BY <2>3 DEF TerrainDrawn
  <2>5. MeshWith(app', k, g) = MeshWith(app, k, g)
    BY <2>1, <2>2, <2>3, MeshSame
  <2>6. ASSUME NEW j \in k - 1..k + 1, Loaded(app'.held, j) PROVE g[j] = BlockGrid(app', j)
    <3>1. j \in {k, k - 1, k + 1}
      BY <2>1
    <3>2. j \notin app'.remesh /\ SameChunk(app, app', j)
      BY <2>2, <3>1
    <3>3. \A r \in Regions : ChunkOf[r] = j => LightOf(app', r) = LightOf(app, r)
      BY <2>6, <3>2 DEF Follows, Loaded
    <3>4. BlockGrid(app', j) = BlockGrid(app, j)
      BY <2>1, <3>3, GridSame
    <3> QED
      BY <2>4, <2>6, <3>2, <3>4 DEF LitBy, Loaded, SameChunk
  <2>7. LitBy(app', k, g)
    BY <2>6 DEF LitBy
  <2> QED
    BY <2>4, <2>5, <2>7
<1>3. terrain' = terrain
  OBVIOUS
<1> QED
  BY <1>1, <1>2, <1>3 DEF TerrainDrawn

(* Drawing the first of the queue leaves none undrawn but the rest of it. *)
LEMMA TerrainStep ==
  ASSUME TerrainDrawn, TypeOK, AppOK(app), Render
  PROVE  TerrainDrawn'
<1> DEFINE mesh == [key \in Meshed \X {"mesh", "decals"} |-> TerrainMesh(app, key[1], key[2])]
<1>1. /\ terrain' = Upsert(terrain, mesh) /\ app'.regions = app.regions /\ app'.held = app.held
      /\ app'.remesh = {} /\ queue' = Left
  <2>1. DOMAIN app = DOMAIN EmptyApp
    BY DEF AppOK
  <2> QED
    BY <2>1, RenderIs, DrawnApp
<1>2. /\ DOMAIN mesh = Meshed \X {"mesh", "decals"}
      /\ \A key \in DOMAIN mesh : mesh[key] = TerrainMesh(app, key[1], key[2])
      /\ \A k \in Meshed : <<k, "mesh">> \in DOMAIN mesh /\ mesh[<<k, "mesh">>] = TerrainMesh(app, k, "mesh")
  OBVIOUS
<1> HIDE DEF mesh
<1>3. \A key : ShownAt(terrain', key) = IF key \in DOMAIN mesh THEN mesh[key] ELSE ShownAt(terrain, key)
  BY <1>1, UpsertShows
<1>4. DOMAIN terrain' = {j \in DOMAIN terrain \cup DOMAIN mesh : j \in DOMAIN mesh => mesh[j] # {}}
  BY <1>1 DEF Upsert
<1>w. Waiting \subseteq Meshed \cup Range(queue') /\ Waiting' = Range(queue')
  <2>1. Waiting \subseteq Meshed \cup Range(queue')
    BY <1>1, LeftIs
  <2> QED
    BY <1>1, <2>1 DEF Waiting
<1>5. ASSUME NEW key \in DOMAIN terrain' PROVE key[1] \in DOMAIN app'.held \cup app'.remesh \cup Range(queue')
  <2>1. CASE key \in DOMAIN mesh
    BY <1>1, <1>2, <1>4, <2>1 DEF TerrainMesh, Loaded
  <2>2. CASE key \notin DOMAIN mesh
    <3>1. key \in DOMAIN terrain /\ key \in Chunks \X {"mesh", "decals"}
      BY <1>4, <2>2 DEF TypeOK
    <3>2. key[1] \notin Meshed
      BY <1>2, <2>2, <3>1
    <3>3. key[1] \in DOMAIN app.held \cup app.remesh \cup Range(queue)
      BY <3>1 DEF TerrainDrawn
    <3> QED
      BY <1>1, <1>w, <3>2, <3>3 DEF Waiting
  <2> QED
    BY <2>1, <2>2
<1>6. ASSUME NEW k \in DOMAIN app'.held, k \notin Waiting'
      PROVE \E g : LitBy(app', k, g) /\ ShownAt(terrain', <<k, "mesh">>) = MeshWith(app', k, g)
  <2>0. k \in DOMAIN app.held /\ k \in Int
    BY <1>1, FieldAssumption DEF AppOK
  <2>1. \A g : MeshWith(app', k, g) = MeshWith(app, k, g)
    BY <1>1 DEF MeshWith
  <2>2. \A j : BlockGrid(app', j) = BlockGrid(app, j)
    BY <1>1 DEF BlockGrid
  <2>3. \A g : LitBy(app, k, g) => LitBy(app', k, g)
    BY <1>1, <2>2 DEF LitBy
  <2>4. CASE k \in Meshed
    <3> DEFINE g == Grids(app, k)
    <3>1. ShownAt(terrain', <<k, "mesh">>) = TerrainMesh(app, k, "mesh")
      BY <1>2, <1>3, <2>4
    <3>2. TerrainMesh(app, k, "mesh") = MeshWith(app, k, g)
      BY <2>0 DEF TerrainMesh, MeshWith, Loaded
    <3>3. LitBy(app, k, g)
      BY DEF LitBy, Grids
    <3> HIDE DEF g
    <3> QED
      BY <2>1, <2>3, <3>1, <3>2, <3>3
  <2>5. CASE k \notin Meshed
    <3>0. k \notin Waiting
      BY <1>w, <1>6, <2>5
    <3>1. PICK g : LitBy(app, k, g) /\ ShownAt(terrain, <<k, "mesh">>) = MeshWith(app, k, g)
      BY <2>0, <3>0 DEF TerrainDrawn
    <3>2. <<k, "mesh">> \notin DOMAIN mesh
      BY <1>2, <2>5
    <3> QED
      BY <1>3, <2>1, <2>3, <3>1, <3>2
  <2> QED
    BY <2>4, <2>5
<1> QED
  BY <1>5, <1>6 DEF TerrainDrawn


------------------------------------------------------------------------------
(* A slice is merged into rectangles.                                           *)

(* Some numbers up to a bound have a largest. *)
LEMMA MaxIn ==
  ASSUME NEW n \in Nat, NEW S, S \subseteq 1..n, NEW x \in S
  PROVE  Max(S) \in S /\ \A y \in S : y <= Max(S)
<1> DEFINE v == [i \in 1..n |-> IF i \in S THEN i ELSE 0]
<1>1. v \in [1..n -> Int] /\ n > 0 /\ (\A i \in S : i \in 1..n /\ v[i] = i /\ i >= 1)
      /\ \A i \in 1..n : i \notin S => v[i] = 0
  OBVIOUS
<1> HIDE DEF v
<1>2. PICK i \in 1..n : FirstMax(v, n, i)
  BY <1>1, FirstMaxIs
<1>3. \A y \in S : y <= v[i]
  BY <1>1, <1>2 DEF FirstMax
<1>4. i \in S
  <2>1. v[i] # 0
    BY <1>1, <1>3
  <2> QED
    BY <1>1, <2>1
<1>5. S \subseteq Int /\ \A y \in S : y <= i
  BY <1>1, <1>3, <1>4
<1>6. Max(S) = i
  BY <1>4, <1>5, MaxMinAre
<1> QED
  BY <1>4, <1>5, <1>6

(* A face of a slice; a slice has at most one at each place. *)
Face(u, v, value) == [u |-> u, v |-> v, value |-> value]
SliceOK(M) ==
  /\ \A m \in M : m.u \in Span /\ m.v \in Span /\ m = Face(m.u, m.v, m.value)
  /\ \A m, n \in M : m.u = n.u /\ m.v = n.v => m = n

(* A rectangle of faces that are alike. *)
Holds(r, u, v) == u \in r.u..(r.u + r.w) - 1 /\ v \in r.v..(r.v + r.h) - 1
RectOK(r, M) ==
  /\ r.u \in Span /\ r.v \in Span /\ r.w \in Nat /\ r.h \in Nat
  /\ r.u + r.w <= ChunkSize /\ r.v + r.h <= ChunkSize
  /\ \A u, v \in Int : Holds(r, u, v) => Face(u, v, r.value) \in M

(* What is merged of M, and what is left of it. *)
Merging(st, M) ==
  /\ st.mask \subseteq M
  /\ \A r \in st.rects : RectOK(r, M)
  /\ \A r \in st.rects, m \in st.mask : ~Holds(r, m.u, m.v)
  /\ \A m \in M : m \in st.mask \/ \E r \in st.rects : Holds(r, m.u, m.v)
  /\ \A r, t \in st.rects : \A u, v \in Int : Holds(r, u, v) /\ Holds(t, u, v) => r = t

(* A run of a row. *)
LEMMA RunIs ==
  ASSUME NEW N, SliceOK(N), NEW f \in N
  PROVE  /\ Run(N, f) \in 1..ChunkSize - f.u
         /\ \A i \in 0..Run(N, f) - 1 : Shifted(f, i, 0) \in N
<1>1. ChunkSize \in Nat /\ f.u \in 0..ChunkSize - 1 /\ f.v \in 0..ChunkSize - 1 /\ f = Face(f.u, f.v, f.value)
  BY SizeAssumption DEF SliceOK, Span
<1> DEFINE S == {w \in 1..ChunkSize - f.u : \A i \in 0..w - 1 : Shifted(f, i, 0) \in N}
<1>2. Shifted(f, 0, 0) \in N
  <2>1. f.u + 0 = f.u /\ f.v + 0 = f.v
    BY <1>1
  <2> QED
    BY <1>1, <2>1 DEF Shifted, Face
<1>3. 1 \in S
  <2>1. 1 \in 1..ChunkSize - f.u
    BY <1>1
  <2>2. \A i \in 0..1 - 1 : Shifted(f, i, 0) \in N
    <3>1. \A i \in 0..1 - 1 : i = 0
      OBVIOUS
    <3> QED
      BY <1>2, <3>1
  <2> QED
    BY <2>1, <2>2
<1>4. S \subseteq 1..ChunkSize - f.u /\ ChunkSize - f.u \in Nat
  BY <1>1
<1>5. Run(N, f) = Max(S)
  BY DEF Run
<1>6. Max(S) \in S
  <2> HIDE DEF S
  <2> QED
    BY <1>3, <1>4, MaxIn
<1>7. Run(N, f) \in S
  BY <1>5, <1>6
<1> QED
  BY <1>7

(* The rows that follow it. *)
LEMMA RowsIs ==
  ASSUME NEW N, SliceOK(N), NEW f \in N, NEW w \in 1..ChunkSize - f.u,
         \A i \in 0..w - 1 : Shifted(f, i, 0) \in N
  PROVE  /\ Rows(N, f, w) \in 1..ChunkSize - f.v
         /\ \A j \in 0..Rows(N, f, w) - 1, i \in 0..w - 1 : Shifted(f, i, j) \in N
<1>1. ChunkSize \in Nat /\ f.u \in 0..ChunkSize - 1 /\ f.v \in 0..ChunkSize - 1
  BY SizeAssumption DEF SliceOK, Span
<1> DEFINE S == {h \in 1..ChunkSize - f.v : \A j \in 0..h - 1, i \in 0..w - 1 : Shifted(f, i, j) \in N}
<1>3. 1 \in S
  <2>1. 1 \in 1..ChunkSize - f.v
    BY <1>1
  <2>2. \A j \in 0..1 - 1, i \in 0..w - 1 : Shifted(f, i, j) \in N
    <3>1. \A j \in 0..1 - 1 : j = 0
      OBVIOUS
    <3> QED
      BY <3>1
  <2> QED
    BY <2>1, <2>2
<1>4. S \subseteq 1..ChunkSize - f.v /\ ChunkSize - f.v \in Nat
  BY <1>1
<1>5. Rows(N, f, w) = Max(S)
  BY DEF Rows
<1>6. Max(S) \in S
  <2> HIDE DEF S
  <2> QED
    BY <1>3, <1>4, MaxIn
<1>7. Rows(N, f, w) \in S
  BY <1>5, <1>6
<1> QED
  BY <1>7

(* Merging at a face keeps the account, and takes the face. *)
LEMMA MergeIs ==
  ASSUME NEW M, SliceOK(M), NEW st, Merging(st, M), NEW f \in st.mask
  PROVE  LET t == Merge(st, f) IN Merging(t, M) /\ t.mask \subseteq st.mask /\ f \notin t.mask
<1> DEFINE N == st.mask
<1> DEFINE w == Run(N, f)
<1> DEFINE h == Rows(N, f, w)
<1> DEFINE t == Merge(st, f)
<1> DEFINE rect == [u |-> f.u, v |-> f.v, w |-> w, h |-> h, value |-> f.value]
<1>1. SliceOK(N) /\ N \subseteq M /\ f \in N
  BY DEF Merging, SliceOK
<1>2. ChunkSize \in Nat /\ f.u \in 0..ChunkSize - 1 /\ f.v \in 0..ChunkSize - 1 /\ f = Face(f.u, f.v, f.value)
  BY <1>1, SizeAssumption DEF SliceOK, Span
<1>3. w \in 1..ChunkSize - f.u /\ \A i \in 0..w - 1 : Shifted(f, i, 0) \in N
  BY <1>1, RunIs
<1>4. h \in 1..ChunkSize - f.v /\ \A j \in 0..h - 1, i \in 0..w - 1 : Shifted(f, i, j) \in N
  <2> HIDE DEF w
  <2> QED
    BY <1>1, <1>3, RowsIs
<1>5. /\ t.mask = {m \in N : ~(m.u \in f.u..f.u + w - 1 /\ m.v \in f.v..f.v + h - 1)}
      /\ t.rects = st.rects \cup {rect}
  BY DEF Merge
<1> HIDE DEF t, w, h
<1>6. rect.u = f.u /\ rect.v = f.v /\ rect.w = w /\ rect.h = h /\ rect.value = f.value
  OBVIOUS
<1> HIDE DEF rect
<1>7. \A u, v \in Int : Holds(rect, u, v) <=> u \in f.u..f.u + w - 1 /\ v \in f.v..f.v + h - 1
  BY <1>2, <1>3, <1>4, <1>6 DEF Holds
<1>8. ASSUME NEW u \in Int, NEW v \in Int, Holds(rect, u, v) PROVE Face(u, v, f.value) \in N
  <2>1. u \in f.u..(f.u + w) - 1 /\ v \in f.v..(f.v + h) - 1
    BY <1>6, <1>8 DEF Holds
  <2>2. u - f.u \in 0..w - 1 /\ v - f.v \in 0..h - 1 /\ f.u + (u - f.u) = u /\ f.v + (v - f.v) = v
    BY <1>2, <1>3, <1>4, <2>1
  <2>3. Shifted(f, u - f.u, v - f.v) \in N
    BY <1>4, <2>2
  <2>4. Shifted(f, u - f.u, v - f.v) = Face(u, v, f.value)
    BY <2>2 DEF Shifted, Face
  <2> QED
    BY <2>3, <2>4
<1>9. \A m \in N : m.u \in Int /\ m.v \in Int
  BY <1>1, SizeAssumption DEF SliceOK, Span
<1>10. t.mask = {m \in N : ~Holds(rect, m.u, m.v)}
  BY <1>5, <1>7, <1>9
<1>11. RectOK(rect, M)
  <2>1. rect.u \in Span /\ rect.v \in Span
    BY <1>2, <1>6 DEF Span
  <2>2. rect.w \in Nat /\ rect.h \in Nat /\ rect.u + rect.w <= ChunkSize /\ rect.v + rect.h <= ChunkSize
    BY <1>2, <1>3, <1>4, <1>6
  <2>3. \A u, v \in Int : Holds(rect, u, v) => Face(u, v, rect.value) \in M
    BY <1>1, <1>6, <1>8
  <2> QED
    BY <2>1, <2>2, <2>3 DEF RectOK
<1>12. ASSUME NEW r \in st.rects, NEW u \in Int, NEW v \in Int, Holds(rect, u, v) PROVE ~Holds(r, u, v)
  <2> DEFINE m == Face(u, v, f.value)
  <2>1. m \in st.mask /\ m.u = u /\ m.v = v
    BY <1>8, <1>12 DEF Face
  <2> QED
    BY <2>1 DEF Merging
<1>13. f \notin t.mask
  <2>1. Holds(rect, f.u, f.v)
    BY <1>2, <1>3, <1>4, <1>6 DEF Holds
  <2> QED
    BY <1>10, <2>1
<1>14. Merging(t, M)
  <2>1. \A r \in t.rects : RectOK(r, M)
    BY <1>5, <1>11 DEF Merging
  <2>2. \A r \in t.rects, m \in t.mask : ~Holds(r, m.u, m.v)
    BY <1>5, <1>10 DEF Merging
  <2>3. \A m \in M : m \in t.mask \/ \E r \in t.rects : Holds(r, m.u, m.v)
    BY <1>5, <1>10 DEF Merging
  <2>4. ASSUME NEW r \in t.rects, NEW q \in t.rects, NEW u \in Int, NEW v \in Int, Holds(r, u, v), Holds(q, u, v)
        PROVE  r = q
    BY <1>5, <1>12, <2>4 DEF Merging
  <2>5. t.mask \subseteq M
    BY <1>1, <1>10
  <2> QED
    BY <2>1, <2>2, <2>3, <2>4, <2>5 DEF Merging
<1> QED
  BY <1>10, <1>13, <1>14 DEF t

(* What is not at p is left for later. *)
LEMMA ConsumeIs ==
  ASSUME NEW M, SliceOK(M), NEW st, Merging(st, M), NEW p
  PROVE  LET t == Consume(st, p)
         IN  /\ Merging(t, M) /\ t.mask \subseteq st.mask
             /\ \A m \in t.mask : ~(m.u = p[1] /\ m.v = p[2])
<1> DEFINE t == Consume(st, p)
<1> DEFINE here == {m \in st.mask : m.u = p[1] /\ m.v = p[2]}
<1>1. t = IF here = {} THEN st ELSE Merge(st, CHOOSE m \in here : TRUE)
  BY DEF Consume
<1> HIDE DEF t
<1>2. CASE here = {}
  BY <1>1, <1>2 DEF t
<1>3. CASE here # {}
  <2> DEFINE f == CHOOSE m \in here : TRUE
  <2>1. f \in here
    BY <1>3
  <2>2. t = Merge(st, f)
    BY <1>1, <1>3
  <2> HIDE DEF f
  <2>3. f \in st.mask /\ f.u = p[1] /\ f.v = p[2]
    BY <2>1
  <2>4. Merging(t, M) /\ t.mask \subseteq st.mask /\ f \notin t.mask
    BY <2>2, <2>3, MergeIs
  <2>5. ASSUME NEW m \in t.mask, m.u = p[1], m.v = p[2] PROVE FALSE
    <3>1. m \in M /\ f \in M
      BY <2>3, <2>4 DEF Merging
    <3>2. m = f
      BY <2>3, <2>5, <3>1 DEF SliceOK
    <3> QED
      BY <2>4, <3>2
  <2> QED
    BY <2>4, <2>5 DEF t
<1> QED
  BY <1>2, <1>3

(* Numbers up to a square are pairs of numbers up to its side. *)
LEMMA PairOf ==
  ASSUME NEW c \in Nat, NEW u \in 0..c - 1, NEW v \in 0..c - 1
  PROVE  /\ v * c + u + 1 \in 1..c * c
         /\ (v * c + u) % c = u /\ (v * c + u) \div c = v
<1>1. c \in Nat /\ c > 0 /\ u \in Nat /\ v \in Nat /\ u < c /\ v + 1 <= c
  OBVIOUS
<1>2. v * c \in Nat /\ c * c \in Nat /\ (v + 1) * c = v * c + c /\ (v + 1) * c <= c * c
  BY <1>1
<1> DEFINE x == v * c + u
<1>3. x \in Nat /\ x < c * c
  BY <1>1, <1>2
<1> DEFINE q == x \div c
<1> DEFINE r == x % c
<1>4. q \in Nat /\ r \in Nat /\ r < c /\ x = c * q + r
  <2> HIDE DEF x
  <2> QED
    BY <1>1, <1>3
<1> HIDE DEF q, r
<1>5. q = v
  <2>1. c * q + r = v * c + u
    BY <1>4
  <2>2. CASE q < v
    <3>1. q + 1 <= v /\ q + 1 \in Nat
      BY <1>1, <1>4, <2>2
    <3>2. c * (q + 1) <= c * v
      BY <1>1, <3>1
    <3>3. c * (q + 1) = c * q + c /\ c * v = v * c
      BY <1>1, <1>4
    <3>4. c * q \in Nat
      BY <1>1, <1>4
    <3> QED
      BY <1>1, <1>2, <1>4, <2>1, <3>2, <3>3, <3>4
  <2>3. CASE q > v
    <3>1. v + 1 <= q /\ v + 1 \in Nat
      BY <1>1, <1>4, <2>3
    <3>2. c * (v + 1) <= c * q
      BY <1>1, <1>4, <3>1
    <3>3. c * (v + 1) = v * c + c
      BY <1>1
    <3>4. c * q \in Nat
      BY <1>1, <1>4
    <3> QED
      BY <1>1, <1>2, <1>4, <2>1, <3>2, <3>3, <3>4
  <2> QED
    BY <1>1, <1>4, <2>2, <2>3
<1>6. r = u
  <2>1. c * v = v * c
    BY <1>1
  <2> QED
    BY <1>1, <1>2, <1>4, <1>5, <2>1
<1>7. v * c + u + 1 \in 1..c * c
  BY <1>1, <1>2, <1>3
<1> QED
  BY <1>5, <1>6, <1>7 DEF q, r

(* Rectangles that hold each face of a slice once, and nothing else. *)
Tiles(R, M) ==
  /\ \A r \in R : RectOK(r, M)
  /\ \A m \in M : \E r \in R : Holds(r, m.u, m.v)
  /\ \A r, t \in R : \A u, v \in Int : Holds(r, u, v) /\ Holds(t, u, v) => r = t

(* The greedy merge of a slice tiles it. *)
LEMMA GreedyTiles ==
  ASSUME NEW M, SliceOK(M)
  PROVE  Tiles(GreedyMerge(M), M)
<1> DEFINE N == ChunkSize * ChunkSize
<1> DEFINE scan == [i \in 1..N |-> <<(i - 1) % ChunkSize, (i - 1) \div ChunkSize>>]
<1> DEFINE base == [mask |-> M, rects |-> {}]
<1>1. GreedyMerge(M) = Scan(base, scan).rects
  BY Zenon DEF GreedyMerge, Scan
<1>2. N \in Nat /\ ChunkSize \in Nat
  BY SizeAssumption
<1>3. \A u, v \in Span : \E i \in 1..N : scan[i] = <<u, v>>
  <2> SUFFICES ASSUME NEW u \in Span, NEW v \in Span PROVE \E i \in 1..N : scan[i] = <<u, v>>
    OBVIOUS
  <2> DEFINE x == v * ChunkSize + u
  <2>1. u \in 0..ChunkSize - 1 /\ v \in 0..ChunkSize - 1
    BY DEF Span
  <2>2. x + 1 \in 1..N /\ x % ChunkSize = u /\ x \div ChunkSize = v
    BY <1>2, <2>1, PairOf
  <2>3. x \in Int
    BY <1>2, <2>1
  <2> HIDE DEF x, N
  <2>4. (x + 1) - 1 = x
    BY <2>3
  <2>5. scan[x + 1] = <<u, v>>
    BY <2>2, <2>4
  <2> HIDE DEF scan
  <2> QED
    BY <2>2, <2>5
<1> HIDE DEF N
<1>4. scan \in Seq(Range(scan)) /\ Len(scan) = N
  <2>1. \A i \in 1..N : scan[i] \in Range(scan)
    BY DEF Range
  <2>2. scan \in [1..N -> Range(scan)]
    BY <2>1
  <2> HIDE DEF scan
  <2> QED
    BY <1>2, <2>2, SeqDef
<1> HIDE DEF scan
<1>5. PICK h : /\ h[0] = base
               /\ \A i \in 1..N : h[i] = Consume(h[i - 1], scan[i])
               /\ Scan(base, scan) = h[N]
  <2>1. \E h : /\ h[0] = base
               /\ \A i \in 1..Len(scan) : h[i] = Consume(h[i - 1], scan[i])
               /\ Scan(base, scan) = h[Len(scan)]
    BY <1>4, ConsumeRun, ZenonT(60)
  <2> QED
    BY <1>4, <2>1
<1>6. Merging(base, M)
  BY DEF Merging
<1> HIDE DEF base
<1> DEFINE past(n) == \A i \in 1..n : \A m \in h[n].mask : ~(m.u = scan[i][1] /\ m.v = scan[i][2])
<1> DEFINE U == {n \in Nat : Merging(h[n], M) /\ past(n)}
<1>7. 0 \in U
  <2>1. \A i \in 1..0 : FALSE
    OBVIOUS
  <2> QED
    BY <1>5, <1>6, <2>1
<1>8. ASSUME NEW n \in 0..N, n # N, n \in U PROVE n + 1 \in U
  <2>1. n + 1 \in 1..N /\ n + 1 - 1 = n /\ n + 1 \in Nat /\ n \in Nat
    <3> HIDE DEF U
    <3> QED
      BY <1>2, <1>8
  <2>2. h[n + 1] = Consume(h[n], scan[n + 1])
    BY <1>5, <2>1
  <2>3. Merging(h[n], M) /\ past(n)
    BY <1>8
  <2>4. /\ Merging(h[n + 1], M) /\ h[n + 1].mask \subseteq h[n].mask
        /\ \A m \in h[n + 1].mask : ~(m.u = scan[n + 1][1] /\ m.v = scan[n + 1][2])
    <3>1. PICK st : st = h[n] /\ Merging(st, M)
      BY <2>3
    <3>2. LET t == Consume(st, scan[n + 1])
          IN  /\ Merging(t, M) /\ t.mask \subseteq st.mask
              /\ \A m \in t.mask : ~(m.u = scan[n + 1][1] /\ m.v = scan[n + 1][2])
      <4> HIDE DEF past, U
      <4>1. SliceOK(M) /\ Merging(st, M)
        BY <3>1
      <4> QED
        BY <4>1, ConsumeIs
    <3> HIDE DEF past
    <3> QED
      BY <2>2, <3>1, <3>2
  <2>5. past(n + 1)
    <3> SUFFICES ASSUME NEW i \in 1..n + 1, NEW m \in h[n + 1].mask
                 PROVE  ~(m.u = scan[i][1] /\ m.v = scan[i][2])
      OBVIOUS
    <3>1. CASE i = n + 1
      BY <2>4, <3>1
    <3>2. CASE i # n + 1
      <4>1. i \in 1..n
        BY <2>1, <3>2
      <4> QED
        BY <2>3, <2>4, <4>1
    <3> QED
      BY <3>1, <3>2
  <2> HIDE DEF past
  <2> QED
    BY <2>1, <2>4, <2>5
<1>9. \A n \in 0..N : n \in U
  <2> HIDE DEF U
  <2> QED
    BY <1>2, <1>7, <1>8, Upward
<1>10. Merging(h[N], M) /\ past(N)
  BY <1>2, <1>9
<1>11. h[N].mask = {}
  <2> SUFFICES ASSUME NEW m \in h[N].mask PROVE FALSE
    OBVIOUS
  <2>1. m.u \in Span /\ m.v \in Span
    BY <1>10 DEF Merging, SliceOK
  <2>2. PICK i \in 1..N : scan[i] = <<m.u, m.v>>
    BY <1>3, <2>1
  <2>3. scan[i][1] = m.u /\ scan[i][2] = m.v
    BY <2>2
  <2> QED
    BY <1>10, <2>3
<1>12. Tiles(h[N].rects, M)
  BY <1>10, <1>11 DEF Merging, Tiles
<1> QED
  BY <1>1, <1>5, <1>12

------------------------------------------------------------------------------
(* The faces of a slice.                                                        *)

(* A cell beside another, and a cell across the side. *)
LEMMA NextIs ==
  ASSUME NEW x, NEW y, NEW z, NEW n
  PROVE  /\ NextTo(<<x, y, z>>, 0, n) = <<x + n, y, z>>
         /\ NextTo(<<x, y, z>>, 1, n) = <<x, y + n, z>>
         /\ NextTo(<<x, y, z>>, 2, n) = <<x, y, z + n>>
         /\ Folded(<<x, y, z>>) = <<x % ChunkSize, y, z>>
<1>1. 0 + 1 = 1 /\ 1 + 1 = 2 /\ 2 + 1 = 3
  OBVIOUS
<1>2. NextTo(<<x, y, z>>, 0, n) = <<x + n, y, z>>
  BY <1>1 DEF NextTo
<1>3. NextTo(<<x, y, z>>, 1, n) = <<x, y + n, z>>
  BY <1>1 DEF NextTo
<1>4. NextTo(<<x, y, z>>, 2, n) = <<x, y, z + n>>
  BY <1>1 DEF NextTo
<1>5. Folded(<<x, y, z>>) = <<x % ChunkSize, y, z>>
  BY DEF Folded
<1> QED
  BY <1>2, <1>3, <1>4, <1>5

(* A cell by its axes. *)
LEMMA CellAtIs ==
  ASSUME NEW a, NEW b, NEW c
  PROVE  /\ CellAt(0, a, b, c) = <<a, b, c>> /\ CellAt(1, a, b, c) = <<c, a, b>>
         /\ CellAt(2, a, b, c) = <<b, c, a>>
<1>1. (0 + 1) % 3 = 1 /\ (1 + 1) % 3 = 2 /\ (2 + 1) % 3 = 0
  OBVIOUS
<1> QED
  BY <1>1 DEF CellAt

(* The coordinates of a cell on an axis and the two that follow it. *)
On(cell, d) == cell[d + 1]
LEMMA AxesAre ==
  ASSUME NEW cell \in Cells, NEW d \in 0..2
  PROVE  /\ On(cell, d) \in Span /\ On(cell, (d + 1) % 3) \in Span /\ On(cell, (d + 2) % 3) \in Span
         /\ CellAt(d, On(cell, d), On(cell, (d + 1) % 3), On(cell, (d + 2) % 3)) = cell
<1>1. PICK x \in Span, y \in Span, z \in Span : cell = <<x, y, z>>
  BY DEF Cells
<1>2. On(cell, 0) = x /\ On(cell, 1) = y /\ On(cell, 2) = z
  BY <1>1 DEF On
<1>3. CASE d = 0
  <2>1. (d + 1) % 3 = 1 /\ (d + 2) % 3 = 2
    BY <1>3
  <2> QED
    BY <1>1, <1>2, <1>3, <2>1, CellAtIs
<1>4. CASE d = 1
  <2>1. (d + 1) % 3 = 2 /\ (d + 2) % 3 = 0
    BY <1>4
  <2> QED
    BY <1>1, <1>2, <1>4, <2>1, CellAtIs
<1>5. CASE d = 2
  <2>1. (d + 1) % 3 = 0 /\ (d + 2) % 3 = 1
    BY <1>5
  <2> QED
    BY <1>1, <1>2, <1>5, <2>1, CellAtIs
<1> QED
  BY <1>3, <1>4, <1>5

(* A face is covered, and a face is drawn with its material and light. *)
Covers(held, k, d, sign, s, u, v) ==
  LET facing == NextTo(CellAt(d, s, u, v), d, sign)
  IN  IF Within(facing) THEN Occupies(held[k].cells[facing]) ELSE OccludedAcross(held, k, d, sign, u, v)
Shows(held, k, d, sign, s, u, v) ==
  held[k].cells[CellAt(d, s, u, v)].kind = "solid" /\ ~Covers(held, k, d, sign, s, u, v)
Value(held, k, d, sign, s, light, u, v) ==
  <<held[k].cells[CellAt(d, s, u, v)].material, light[NextTo(CellAt(d, s, u, v), d, sign)]>>

(* The mask of a slice is its open faces. *)
LEMMA MaskIs ==
  ASSUME NEW held, NEW k, NEW d, NEW sign, NEW s, NEW light
  PROVE  LET M == Mask(held, k, d, sign, s, light)
         IN  /\ SliceOK(M)
             /\ \A u, v \in Span : \A x : Face(u, v, x) \in M <=>
                  Shows(held, k, d, sign, s, u, v) /\ x = Value(held, k, d, sign, s, light, u, v)
<1> DEFINE M == Mask(held, k, d, sign, s, light)
<1> DEFINE value(u, v) == Value(held, k, d, sign, s, light, u, v)
<1> DEFINE places == {q \in Slice : Shows(held, k, d, sign, s, q[1], q[2])}
<1>1. M = {Face(p[1], p[2], value(p[1], p[2])) : p \in places}
  BY Zenon DEF Mask, Face, Shows, Covers, Value
<1> HIDE DEF M, value
<1>2. \A m : m \in M <=> \E u, v \in Span : Shows(held, k, d, sign, s, u, v) /\ m = Face(u, v, value(u, v))
  <2>1. \A p \in places : p[1] \in Span /\ p[2] \in Span /\ Shows(held, k, d, sign, s, p[1], p[2])
    BY DEF Slice
  <2>2. ASSUME NEW u \in Span, NEW v \in Span, Shows(held, k, d, sign, s, u, v)
        PROVE  <<u, v>> \in places /\ <<u, v>>[1] = u /\ <<u, v>>[2] = v
    BY <2>2 DEF Slice
  <2> HIDE DEF places
  <2>3. ASSUME NEW m \in M
        PROVE  \E u, v \in Span : Shows(held, k, d, sign, s, u, v) /\ m = Face(u, v, value(u, v))
    BY <1>1, <2>1
  <2>4. ASSUME NEW u \in Span, NEW v \in Span, Shows(held, k, d, sign, s, u, v)
        PROVE  Face(u, v, value(u, v)) \in M
    <3>1. PICK p : p \in places /\ p[1] = u /\ p[2] = v
      BY <2>2, <2>4, ZenonT(60)
    <3> QED
      BY <1>1, <3>1
  <2> QED
    BY <2>3, <2>4
<1>3. \A u, v, x : Face(u, v, x).u = u /\ Face(u, v, x).v = v /\ Face(u, v, x).value = x
  BY DEF Face
<1>4. SliceOK(M)
  <2>1. \A m \in M : m.u \in Span /\ m.v \in Span /\ m = Face(m.u, m.v, value(m.u, m.v))
    BY <1>2, <1>3
  <2>2. \A m \in M : m = Face(m.u, m.v, m.value)
    BY <1>3, <2>1
  <2> QED
    BY <2>1, <2>2 DEF SliceOK
<1>5. ASSUME NEW u \in Span, NEW v \in Span, NEW x
      PROVE  Face(u, v, x) \in M <=> Shows(held, k, d, sign, s, u, v) /\ x = value(u, v)
  BY <1>2, <1>3
<1> QED
  BY <1>4, <1>5 DEF M, value

(* A face that looks into the open is not covered. *)
LEMMA OpenIs ==
  ASSUME NEW k \in Int, k \in DOMAIN app.held, NEW cell \in Cells, NEW d \in 0..2, NEW sign \in {1, -1}
  PROVE  Open(k, NextTo(cell, d, sign)) <=>
           ~Covers(app.held, k, d, sign, On(cell, d), On(cell, (d + 1) % 3), On(cell, (d + 2) % 3))
<1> DEFINE F == NextTo(cell, d, sign)
<1>1. PICK x \in Span, y \in Span, z \in Span : cell = <<x, y, z>>
  BY DEF Cells
<1>2. ChunkSize \in Nat /\ ChunkSize > 0 /\ Span = 0..ChunkSize - 1 /\ x \in Int /\ y \in Int /\ z \in Int
  BY SizeAssumption DEF Span
<1>3. Covers(app.held, k, d, sign, On(cell, d), On(cell, (d + 1) % 3), On(cell, (d + 2) % 3)) <=>
        IF Within(F) THEN Occupies(app.held[k].cells[F])
        ELSE OccludedAcross(app.held, k, d, sign, On(cell, (d + 1) % 3), On(cell, (d + 2) % 3))
  BY AxesAre DEF Covers
<1>4. /\ d = 0 => F = <<x + sign, y, z>> /\ On(cell, (d + 1) % 3) = y /\ On(cell, (d + 2) % 3) = z
      /\ d = 1 => F = <<x, y + sign, z>>
      /\ d = 2 => F = <<x, y, z + sign>>
  <2>1. (0 + 1) % 3 = 1 /\ (0 + 2) % 3 = 2
    OBVIOUS
  <2>2. d = 0 => On(cell, (d + 1) % 3) = y /\ On(cell, (d + 2) % 3) = z
    BY <1>1, <2>1 DEF On
  <2> QED
    BY <1>1, <2>2, NextIs
<1> HIDE DEF F
<1>5. PICK a, b, c : F = <<a, b, c>> /\ a \in Int
  BY <1>2, <1>4
<1>6. F[1] = a /\ F[2] = b /\ F[3] = c /\ Folded(F) = <<a % ChunkSize, b, c>>
  BY <1>5, NextIs
<1>w. \A p, q, r : Within(<<p, q, r>>) <=> p \in Span /\ q \in Span /\ r \in Span
  <2> SUFFICES ASSUME NEW p, NEW q, NEW r PROVE Within(<<p, q, r>>) <=> p \in Span /\ q \in Span /\ r \in Span
    OBVIOUS
  <2> DEFINE t == <<p, q, r>>
  <2>1. t[1] = p /\ t[2] = q /\ t[3] = r
    OBVIOUS
  <2>2. \A i \in 1..3 : i = 1 \/ i = 2 \/ i = 3
    OBVIOUS
  <2> HIDE DEF t
  <2>3. (\A i \in 1..3 : t[i] \in Span) <=> p \in Span /\ q \in Span /\ r \in Span
    BY <2>1, <2>2
  <2> QED
    BY <2>3 DEF Within, t
<1>7. CASE Within(F)
  <2>1. a \in Span
    BY <1>5, <1>7, <1>w
  <2>2. a % ChunkSize = a /\ ~(a < 0) /\ ~(a >= ChunkSize)
    BY <1>2, <1>5, <2>1
  <2>3. Folded(F) = F /\ Across(k, F) = k
    BY <1>5, <1>6, <2>2 DEF Across
  <2> QED
    BY <1>3, <1>7, <2>3 DEF Open, Loaded, F
<1>8. CASE ~Within(F)
  <2>1. CASE d = 0
    <3>1. F = <<x + sign, y, z>> /\ a = x + sign /\ b = y /\ c = z
      BY <1>4, <1>5, <2>1
    <3>2. a \notin Span
      BY <1>5, <1>8, <1>w, <3>1
    <3>3. /\ sign = 1 => a = ChunkSize
          /\ sign = -1 => a = -1
      BY <1>2, <3>1, <3>2
    <3> DEFINE e == IF sign > 0 THEN 0 ELSE ChunkSize - 1
    <3>4. a % ChunkSize = e /\ Across(k, F) = k + sign /\ e \in Span
      <4>1. CASE sign = 1
        <5>1. ChunkSize % ChunkSize = 0
          BY <1>2
        <5> QED
          BY <1>2, <1>6, <3>3, <4>1, <5>1 DEF Across
      <4>2. CASE sign = -1
        <5>1. (-1) % ChunkSize = ChunkSize - 1
          <6> DEFINE q == (-1) \div ChunkSize
          <6> DEFINE r == (-1) % ChunkSize
          <6>1. q \in Int /\ r \in Nat /\ r < ChunkSize /\ -1 = ChunkSize * q + r
            BY <1>2
          <6> HIDE DEF q, r
          <6>2. q = -1
            <7>1. CASE q >= 0
              <8>1. ChunkSize * q >= 0
                BY <1>2, <6>1, <7>1
              <8> QED
                BY <1>2, <6>1, <8>1
            <7>2. CASE q < -1
              <8>1. -q - 1 \in Nat /\ -q - 1 >= 1
                BY <6>1, <7>2
              <8>2. ChunkSize * (-q - 1) >= ChunkSize
                BY <1>2, <8>1
              <8>3. ChunkSize * (-q - 1) = -(ChunkSize * q) - ChunkSize
                BY <1>2, <6>1
              <8>4. ChunkSize * q \in Int
                BY <1>2, <6>1
              <8> QED
                BY <1>2, <6>1, <8>2, <8>3, <8>4
            <7> QED
              BY <6>1, <7>1, <7>2
          <6>3. r = ChunkSize - 1
            BY <1>2, <6>1, <6>2
          <6> QED
            BY <6>3 DEF r
        <5>2. k - 1 = k + sign /\ a < 0
          BY <3>3, <4>2
        <5> QED
          BY <1>2, <1>6, <3>3, <4>2, <5>1, <5>2 DEF Across
      <4> QED
        BY <4>1, <4>2
    <3> HIDE DEF e
    <3>5. Folded(F) = <<e, y, z>> /\ Within(<<e, y, z>>)
      BY <1>6, <1>w, <3>1, <3>4
    <3>6. CellAt(d, e, y, z) = <<e, y, z>>
      BY <2>1, CellAtIs
    <3>7. OccludedAcross(app.held, k, d, sign, y, z) <=>
            Loaded(app.held, k + sign) /\ Occupies(app.held[k + sign].cells[<<e, y, z>>])
      BY <2>1, <3>6 DEF OccludedAcross, e
    <3> QED
      BY <1>3, <1>4, <1>8, <2>1, <3>4, <3>5, <3>7 DEF Open, F
  <2>2. CASE d # 0
    <3>1. a = x /\ ~(b \in Span /\ c \in Span)
      BY <1>4, <1>5, <1>8, <1>w, <2>2
    <3>2. ~Within(Folded(F))
      BY <1>6, <1>w, <3>1
    <3> QED
      BY <1>3, <1>8, <2>2, <3>2 DEF Open, OccludedAcross, F
  <2> QED
    BY <2>1, <2>2
<1> QED
  BY <1>7, <1>8

------------------------------------------------------------------------------
(* A chunk that is drawn shows its world.                                       *)

(* Light in the loaded chunks is the light of their regions. *)
LEMMA LightSame ==
  ASSUME NEW k \in Int, NEW g, LitBy(app, k, g), NEW cell, cell[1] \in Int, Loaded(app.held, Across(k, cell)), NEW sky
  PROVE  LightAt(sky, g, k, cell) = LightAt(sky, Grids(app, k), k, cell)
<1> DEFINE G == Grids(app, k)
<1>1. Across(k, cell) \in k - 1..k + 1
  BY DEF Across
<1>2. g[Across(k, cell)] = G[Across(k, cell)]
  BY <1>1 DEF LitBy, Grids
<1> HIDE DEF G
<1>3. ChunkSize \in Nat /\ ChunkSize > 0 /\ Span = 0..ChunkSize - 1
  BY SizeAssumption DEF Span
<1> DEFINE block(b) == IF Within(cell) THEN b[k][cell]
                       ELSE IF cell[1] >= ChunkSize THEN b[k + 1][NextTo(cell, 0, -ChunkSize)]
                       ELSE IF cell[1] < 0 THEN b[k - 1][NextTo(cell, 0, ChunkSize)]
                       ELSE 0
<1>4. block(g) = block(G)
  <2>1. CASE Within(cell)
    <3>1. cell[1] \in Span
      BY <2>1 DEF Within
    <3>2. Across(k, cell) = k
      BY <1>3, <3>1 DEF Across
    <3> QED
      BY <1>2, <2>1, <3>2
  <2>2. CASE cell[1] >= ChunkSize
    <3>1. Across(k, cell) = k + 1
      BY <1>3, <2>2 DEF Across
    <3>2. ~Within(cell)
      <4>1. cell[1] \notin Span
        BY <1>3, <2>2
      <4> QED
        BY <4>1 DEF Within
    <3> QED
      BY <1>2, <2>2, <3>1, <3>2
  <2>3. CASE cell[1] < 0
    <3>1. Across(k, cell) = k - 1
      BY <2>3 DEF Across
    <3>2. ~Within(cell)
      <4>1. cell[1] \notin Span
        BY <1>3, <2>3
      <4> QED
        BY <4>1 DEF Within
    <3>3. ~(cell[1] >= ChunkSize)
      BY <1>3, <2>3
    <3> QED
      BY <1>2, <2>3, <3>1, <3>2, <3>3
  <2> QED
    BY <2>1, <2>2, <2>3
<1> DEFINE skyLight == IF cell[2] >= ChunkSize THEN 255 ELSE Quantize(sky[[a \in 1..3 |-> Clamp(cell[a])]])
<1>5. ASSUME NEW b PROVE LightAt(sky, b, k, cell) = IF block(b) > skyLight THEN block(b) ELSE skyLight
  BY Zenon DEF LightAt
<1> HIDE DEF block, skyLight
<1> QED
  BY <1>4, <1>5 DEF G

(* The quads of a chunk are the rectangles of its slices. *)
LEMMA QuadsAre ==
  ASSUME NEW held, NEW k, NEW light, NEW q
  PROVE  q \in GreedyMesh(held, k, light) <=>
           \E d \in 0..2, sign \in {1, -1}, s \in Span :
             \E r \in GreedyMerge(Mask(held, k, d, sign, s, light)) : q = Quad(d, sign, s, r)
<1> DEFINE tiles(d, sign, s) == GreedyMerge(Mask(held, k, d, sign, s, light))
<1> DEFINE part(d, sign, s) == {Quad(d, sign, s, r) : r \in tiles(d, sign, s)}
<1>1. q \in GreedyMesh(held, k, light) <=> \E d \in 0..2, sign \in {1, -1}, s \in Span : q \in part(d, sign, s)
  <2> DEFINE parts == {part(d, sign, s) : d \in 0..2, sign \in {1, -1}, s \in Span}
  <2>1. GreedyMesh(held, k, light) = UNION parts
    BY DEF GreedyMesh
  <2>2. q \in UNION parts <=> \E x \in parts : q \in x
    <3> HIDE DEF parts
    <3> QED
      OBVIOUS
  <2>3. \A x : x \in parts <=> \E d \in 0..2, sign \in {1, -1}, s \in Span : x = part(d, sign, s)
    <3> HIDE DEF part
    <3> QED
      OBVIOUS
  <2> HIDE DEF parts, part
  <2> QED
    BY <2>1, <2>2, <2>3
<1>2. \A d, sign, s : q \in part(d, sign, s) <=> \E r \in tiles(d, sign, s) : q = Quad(d, sign, s, r)
  <2> HIDE DEF tiles
  <2> QED
    BY SMTT(30)
<1> HIDE DEF part
<1> QED
  BY <1>1, <1>2

(* Each drawn chunk shows its world. *)
LEMMA ChunkIsShown ==
  ASSUME NEW k \in Int, k \in DOMAIN app.held, NEW g, LitBy(app, k, g),
         ShownAt(terrain, <<k, "mesh">>) = MeshWith(app, k, g)
  PROVE  ChunkShown(k)
<1> DEFINE sky == Skylight(app.held[k].cells)
<1> DEFINE light == [c \in Around |-> LightAt(sky, g, k, c)]
<1> DEFINE refined == {c \in Cells : app.held[k].cells[c].kind = "refined"}
<1> DEFINE micro == UNION {MicroMesh(app.held[k].cells[c], c, light[c]) : c \in refined}
<1> DEFINE all == GreedyMesh(app.held, k, light)
<1> DEFINE drawn == ShownAt(terrain, <<k, "mesh">>)
<1> DEFINE quads == {q \in drawn : "plane" \in DOMAIN q}
<1>1. drawn = all \cup micro
  <2>1. ChunkRenderMesh(app.held, k, g) = [quads |-> all, micro |-> micro]
    BY Zenon DEF ChunkRenderMesh
  <2> HIDE DEF all, micro
  <2>2. MeshWith(app, k, g) = all \cup micro
    BY <2>1 DEF MeshWith
  <2> QED
    BY <2>2
<1> HIDE DEF drawn
<1>2. \A q \in micro : "plane" \notin DOMAIN q
  <2>1. ASSUME NEW state, NEW c, NEW l, NEW q \in MicroMesh(state, c, l) PROVE "plane" \notin DOMAIN q
    BY DEF MicroMesh
  <2> HIDE DEF light, refined
  <2> QED
    BY <2>1
<1> HIDE DEF micro
<1> DEFINE mask(d, sign, s) == Mask(app.held, k, d, sign, s, light)
<1> DEFINE tiles(d, sign, s) == GreedyMerge(mask(d, sign, s))
<1>3. \A q : q \in all <=> \E d \in 0..2, sign \in {1, -1}, s \in Span : \E r \in tiles(d, sign, s) : q = Quad(d, sign, s, r)
  <2> HIDE DEF light
  <2> QED
    BY QuadsAre
<1> HIDE DEF all
<1>4. \A d, sign, s : SliceOK(mask(d, sign, s)) /\ Tiles(tiles(d, sign, s), mask(d, sign, s))
  <2> SUFFICES ASSUME NEW d, NEW sign, NEW s
               PROVE  SliceOK(mask(d, sign, s)) /\ Tiles(tiles(d, sign, s), mask(d, sign, s))
    OBVIOUS
  <2>1. SliceOK(mask(d, sign, s))
    BY MaskIs
  <2> HIDE DEF mask
  <2> QED
    BY <2>1, GreedyTiles
<1>5. ASSUME NEW d, NEW sign, NEW s, NEW u \in Span, NEW v \in Span, NEW x
      PROVE  Face(u, v, x) \in mask(d, sign, s) <=>
               Shows(app.held, k, d, sign, s, u, v) /\ x = Value(app.held, k, d, sign, s, light, u, v)
  BY MaskIs
<1>6. ASSUME NEW c \in Around PROVE light[c] = LightAt(sky, g, k, c)
  OBVIOUS
<1> HIDE DEF mask, tiles, light, sky
<1>7. ASSUME NEW d, NEW sign, NEW s, NEW r
      PROVE  LET q == Quad(d, sign, s, r)
             IN  /\ "plane" \in DOMAIN q /\ q.axis = d /\ q.sign = sign
                 /\ q.plane = (IF sign > 0 THEN s + 1 ELSE s) /\ q.u = r.u /\ q.v = r.v /\ q.w = r.w /\ q.h = r.h
                 /\ q.material = r.value[1] /\ q.light = r.value[2]
  BY DEF Quad
<1>8. quads = all
  <2>1. \A q \in all : "plane" \in DOMAIN q
    BY <1>3, <1>7
  <2> QED
    BY <1>1, <1>2, <2>1
<1>9. ChunkSize \in Nat /\ Span = 0..ChunkSize - 1
  BY SizeAssumption DEF Span
<1>10. ASSUME NEW q \in quads PROVE q.u + q.w <= ChunkSize /\ q.v + q.h <= ChunkSize
  <2>1. PICK d \in 0..2, sign \in {1, -1}, s \in Span : \E r \in tiles(d, sign, s) : q = Quad(d, sign, s, r)
    BY <1>3, <1>8
  <2>2. PICK r \in tiles(d, sign, s) : q = Quad(d, sign, s, r)
    BY <2>1
  <2>3. r.u + r.w <= ChunkSize /\ r.v + r.h <= ChunkSize
    BY <1>4 DEF Tiles, RectOK
  <2> QED
    BY <1>7, <2>2, <2>3
<1>11. ASSUME NEW cell \in Cells, NEW d \in 0..2, NEW sign \in {1, -1}
       PROVE  LET state == app.held[k].cells[cell]
                  facing == NextTo(cell, d, sign)
                  over == {q \in quads : q.axis = d /\ q.sign = sign /\ Lies(q, cell)}
              IN  IF state.kind = "solid" /\ Open(k, facing)
                  THEN /\ Cardinality(over) = 1
                       /\ \A q \in over : /\ q.material = state.material
                                          /\ Loaded(app.held, Across(k, facing)) =>
                                               q.light = LightAt(sky, Grids(app, k), k, facing)
                  ELSE over = {}
  <2> DEFINE state == app.held[k].cells[cell]
  <2> DEFINE facing == NextTo(cell, d, sign)
  <2> DEFINE over == {q \in quads : q.axis = d /\ q.sign = sign /\ Lies(q, cell)}
  <2> DEFINE s == On(cell, d)
  <2> DEFINE u == On(cell, (d + 1) % 3)
  <2> DEFINE v == On(cell, (d + 2) % 3)
  <2>1. s \in Span /\ u \in Span /\ v \in Span /\ CellAt(d, s, u, v) = cell
    BY AxesAre
  <2>2. ASSUME NEW q, q.axis = d
        PROVE  Lies(q, cell) <=> /\ q.plane = (IF q.sign > 0 THEN s + 1 ELSE s)
                                 /\ u \in q.u..q.u + q.w - 1 /\ v \in q.v..q.v + q.h - 1
    BY <2>2 DEF Lies, On
  <2>3. Open(k, facing) <=> ~Covers(app.held, k, d, sign, s, u, v)
    BY OpenIs
  <2>4. state.kind = "solid" /\ Open(k, facing) <=> Shows(app.held, k, d, sign, s, u, v)
    BY <2>1, <2>3 DEF Shows
  <2>5. facing \in Around /\ facing[1] \in Int
    <3>1. facing \in Around
      BY DEF Around
    <3>2. facing[1] \in Int
      <4>1. PICK x \in Span, y \in Span, z \in Span : cell = <<x, y, z>>
        BY DEF Cells
      <4>2. x \in Int
        BY <1>9
      <4>3. \/ d = 0 /\ facing = <<x + sign, y, z>>
            \/ d = 1 /\ facing = <<x, y + sign, z>>
            \/ d = 2 /\ facing = <<x, y, z + sign>>
        BY <4>1, NextIs
      <4> HIDE DEF facing
      <4> QED
        BY <4>2, <4>3
    <3> QED
      BY <3>1, <3>2
  <2>6. Value(app.held, k, d, sign, s, light, u, v) = <<state.material, light[facing]>>
    BY <2>1 DEF Value
  <2> HIDE DEF s, u, v, facing
  <2>7. \A q \in over : \E r \in tiles(d, sign, s) : Holds(r, u, v) /\ q = Quad(d, sign, s, r)
    <3> SUFFICES ASSUME NEW q \in over
                 PROVE  \E r \in tiles(d, sign, s) : Holds(r, u, v) /\ q = Quad(d, sign, s, r)
      OBVIOUS
    <3>1. PICK e \in 0..2, n \in {1, -1}, j \in Span : \E r \in tiles(e, n, j) : q = Quad(e, n, j, r)
      BY <1>3, <1>8
    <3>2. PICK r \in tiles(e, n, j) : q = Quad(e, n, j, r)
      BY <3>1
    <3>3. e = d /\ n = sign
      BY <1>7, <3>2
    <3>4. /\ q.plane = (IF q.sign > 0 THEN s + 1 ELSE s) /\ q.plane = (IF sign > 0 THEN j + 1 ELSE j)
          /\ q.sign = sign
          /\ u \in q.u..q.u + q.w - 1 /\ v \in q.v..q.v + q.h - 1
          /\ q.u = r.u /\ q.v = r.v /\ q.w = r.w /\ q.h = r.h
      BY <1>7, <2>2, <3>2, <3>3
    <3>5. j = s
      <4>1. j \in Int /\ s \in Int
        BY <1>9, <2>1
      <4> QED
        BY <3>4, <4>1
    <3>6. r.u \in Int /\ r.v \in Int /\ r.w \in Int /\ r.h \in Int
      BY <1>4, <1>9 DEF Tiles, RectOK
    <3>7. Holds(r, u, v)
      BY <3>4, <3>6 DEF Holds
    <3> QED
      BY <3>2, <3>3, <3>5, <3>7
  <2>8. ASSUME NEW r \in tiles(d, sign, s), Holds(r, u, v) PROVE Quad(d, sign, s, r) \in over
    <3> DEFINE q == Quad(d, sign, s, r)
    <3>1. q \in quads
      BY <1>3, <1>8, <2>1
    <3>2. r.u \in Int /\ r.v \in Int /\ r.w \in Int /\ r.h \in Int
      BY <1>4, <1>9 DEF Tiles, RectOK
    <3>3. /\ q.axis = d /\ q.sign = sign /\ q.plane = (IF sign > 0 THEN s + 1 ELSE s)
          /\ q.u = r.u /\ q.v = r.v /\ q.w = r.w /\ q.h = r.h
      BY <1>7
    <3> HIDE DEF q
    <3>4. Lies(q, cell)
      BY <2>2, <2>8, <3>2, <3>3 DEF Holds
    <3> HIDE DEF quads
    <3> QED
      BY <3>1, <3>3, <3>4 DEF q
  <2> HIDE DEF over
  <2>9. u \in Int /\ v \in Int
    BY <1>9, <2>1
  <2>10. ASSUME NEW r \in tiles(d, sign, s), Holds(r, u, v)
         PROVE  Shows(app.held, k, d, sign, s, u, v) /\ r.value = <<state.material, light[facing]>>
    <3>1. Face(u, v, r.value) \in mask(d, sign, s)
      BY <1>4, <2>9, <2>10 DEF Tiles, RectOK
    <3> QED
      BY <1>5, <2>1, <2>6, <3>1
  <2>11. CASE Shows(app.held, k, d, sign, s, u, v)
    <3> DEFINE f == Face(u, v, <<state.material, light[facing]>>)
    <3>1. f \in mask(d, sign, s) /\ f.u = u /\ f.v = v
      BY <1>5, <2>1, <2>6, <2>11 DEF Face
    <3> HIDE DEF f
    <3>2. PICK r \in tiles(d, sign, s) : Holds(r, u, v)
      BY <1>4, <3>1 DEF Tiles
    <3>3. over = {Quad(d, sign, s, r)}
      <4>1. \A t \in tiles(d, sign, s) : Holds(t, u, v) => t = r
        BY <1>4, <2>9, <3>2 DEF Tiles
      <4> QED
        BY <2>7, <2>8, <3>2, <4>1
    <3>4. Cardinality(over) = 1
      BY <3>3, FS_Singleton
    <3>5. ASSUME NEW q \in over
          PROVE  /\ q.material = state.material
                 /\ Loaded(app.held, Across(k, facing)) => q.light = LightAt(sky, Grids(app, k), k, facing)
      <4>1. q = Quad(d, sign, s, r)
        BY <3>3
      <4>2. r.value[1] = state.material /\ r.value[2] = light[facing]
        BY <2>10, <3>2
      <4>3. q.material = state.material /\ q.light = LightAt(sky, g, k, facing)
        BY <1>6, <1>7, <2>5, <4>1, <4>2
      <4> QED
        BY <2>5, <4>3, LightSame
    <3> QED
      BY <2>4, <2>11, <3>4, <3>5 DEF facing, over
  <2>12. CASE ~Shows(app.held, k, d, sign, s, u, v)
    <3>1. over = {}
      BY <2>7, <2>10, <2>12
    <3> QED
      BY <2>4, <2>12, <3>1 DEF facing, over
  <2> QED
    BY <2>11, <2>12
<1> QED
  BY <1>10, <1>11 DEF ChunkShown, drawn, sky

(* What is drawn between two frames, and does not wait, is the world. *)
LEMMA TerrainShows ==
  ASSUME TerrainDrawn, AppOK(app)
  PROVE  TerrainIsWorld
<1> SUFFICES ASSUME Settled
             PROVE  /\ \A key \in DOMAIN terrain : Loaded(app.held, key[1]) \/ key[1] \in Range(queue)
                    /\ \A k \in DOMAIN app.held \ Range(queue) : ChunkShown(k)
  BY DEF TerrainIsWorld
<1>1. app.remesh = {} /\ Waiting = Range(queue)
  BY DEF Settled, Waiting
<1>2. ASSUME NEW k \in DOMAIN app.held \ Range(queue) PROVE ChunkShown(k)
  <2>1. k \in Int
    BY FieldAssumption DEF AppOK
  <2>2. PICK g : LitBy(app, k, g) /\ ShownAt(terrain, <<k, "mesh">>) = MeshWith(app, k, g)
    BY <1>1 DEF TerrainDrawn
  <2> QED
    BY <2>1, <2>2, ChunkIsShown
<1> QED
  BY <1>1, <1>2 DEF TerrainDrawn, Loaded

------------------------------------------------------------------------------
(* Every step keeps the invariant.                                              *)

ShownOK == OverlaysDrawn /\ GlowDrawn /\ ReadoutDrawn /\ TerrainDrawn
EffectsPooled ==
  /\ PoolOK(bolts, {"source", "target", "age"}, BoltLife, MaxBolts) /\ BoltOnChannel
  /\ PoolOK(smoke, {"region", "age"}, SmokeLife, MaxSmoke)
  /\ PoolOK(debris, {"age"}, DebrisLife, MaxDebris)

(* The invariant by what it is about. *)
LEMMA InvIs ==
  FieldInv <=> TypeOK /\ AppOK(app) /\ EffectsPooled /\ Drained /\ ShownOK /\ SmokeIsWarm /\ SmokeCools
  BY Zenon DEF FieldInv, Types, EffectsPooled, ShownOK

(* The pools are the bolts on their channels, the smoke and the debris. *)
LEMMA PooledIs ==
  EffectsPooled <=> BoltPool(bolts) /\ SmokePool(smoke) /\ DebrisPool(debris)
  BY BoltsAre DEF EffectsPooled, SmokePool, SmokeFields, DebrisPool

(* What is shown stays right when all that changes is marked. *)
LEMMA ShownKept ==
  ASSUME ShownOK, TypeOK, AppOK(app), AppOK(app'), Follows(app, app'),
         overlays' = overlays, glow' = glow, readout' = readout, terrain' = terrain, queue' = queue,
         rewired \subseteq rewired', \A c \in Chunks \ rewired' : SameChunk(app, app', c)
  PROVE  ShownOK'
<1>1. OverlaysDrawn' /\ GlowDrawn'
  <2>1. UNCHANGED <<overlays, glow>> /\ OverlaysDrawn /\ GlowDrawn
    BY DEF ShownOK
  <2> QED
    BY <2>1, OverlaysIngest
<1>2. ReadoutDrawn'
  <2>1. UNCHANGED readout /\ ReadoutDrawn
    BY DEF ShownOK
  <2> QED
    BY <2>1, ReadoutIngest
<1>3. TerrainDrawn'
  <2>1. UNCHANGED <<terrain, queue>> /\ TerrainDrawn
    BY DEF ShownOK
  <2>2. \A key \in DOMAIN terrain : key[1] \in Int
    BY FieldAssumption DEF TypeOK
  <2> QED
    BY <2>1, <2>2, TerrainIngest
<1> QED
  BY <1>1, <1>2, <1>3 DEF ShownOK

(* Nothing changes but the inbox. *)
LEMMA InboxOnly ==
  ASSUME FieldInv, TypeOK', phase' = phase, app' = app, bolts' = bolts, smoke' = smoke, debris' = debris,
         overlays' = overlays, glow' = glow, readout' = readout, terrain' = terrain, queue' = queue,
         quiet' = quiet, rewired' = rewired
  PROVE  FieldInv'
<1>1. TypeOK /\ AppOK(app) /\ EffectsPooled /\ Drained /\ ShownOK /\ SmokeIsWarm /\ SmokeCools
  BY InvIs
<1>2. AppOK(app')
  BY <1>1
<1>3. Follows(app, app') /\ \A c \in Chunks \ rewired' : SameChunk(app, app', c)
  BY DEF Follows, SameRegion, SameChunk, LightOf
<1>4. ShownOK'
  BY <1>1, <1>2, <1>3, ShownKept
<1>5. EffectsPooled'
  BY <1>1 DEF EffectsPooled, BoltOnChannel
<1>6. Drained' /\ SmokeIsWarm' /\ SmokeCools'
  BY <1>1 DEF Drained, SmokeIsWarm, SmokeCools, Clears
<1> QED
  BY <1>2, <1>4, <1>5, <1>6, Zenon DEF FieldInv, Types, EffectsPooled, ShownOK

(* Nothing is loaded but the first chunks, and those are marked. *)
LEMMA InitInv ==
  ASSUME Init
  PROVE  FieldInv
<1>1. PICK f \in Starts : app = [EmptyApp EXCEPT !.held = f, !.remesh = DOMAIN f]
  BY DEF Init
<1>2. /\ DOMAIN app = DOMAIN EmptyApp /\ app.held = f /\ app.remesh = DOMAIN f
      /\ app.regions = << >> /\ app.dirty = {} /\ app.glowDirty = {} /\ app.logicDirty = {}
      /\ app.electric = << >> /\ app.discharges = << >> /\ app.destroyed = << >> /\ app.bursts = << >>
  BY <1>1 DEF EmptyApp
<1>3. DOMAIN f \subseteq Chunks /\ IsFiniteSet(DOMAIN f) /\ Chunks \subseteq Int /\ MaxEvents \in Nat
  BY FieldAssumption
<1>4. /\ phase = "Net" /\ inbox = << >> /\ overlays = << >> /\ glow = << >> /\ readout = << >>
      /\ terrain = << >> /\ queue = << >> /\ bolts = << >> /\ smoke = << >> /\ debris = << >>
      /\ spent = 0 /\ quiet = Regions /\ rewired = Chunks
  BY DEF Init, NoOverlays, NoGlow, NoReadout, NoTerrain, NoBolts, NoSmoke, NoDebris
<1>5. DOMAIN << >> = {} /\ Len(<< >>) = 0 /\ \A S : << >> \in Seq(S)
  OBVIOUS
<1>6. AppOK(app)
  BY <1>2, <1>3, <1>5 DEF AppOK
<1>7. TypeOK
  BY <1>2, <1>3, <1>4, <1>5 DEF TypeOK, IsInjective
<1>8. EffectsPooled
  <2>1. ASSUME NEW fields, NEW life, NEW cap \in Nat PROVE PoolOK(<< >>, fields, life, cap)
    BY <1>5 DEF PoolOK, OldestFirst
  <2>2. BoltOnChannel
    BY <1>4, <1>5 DEF BoltOnChannel
  <2> QED
    BY <1>4, <2>1, <2>2, PoolConstants DEF EffectsPooled
<1>9. Drained /\ SmokeIsWarm /\ SmokeCools
  BY <1>2, <1>4, <1>5 DEF Drained, SmokeIsWarm, SmokeCools
<1>10. ShownOK
  <2>1. \A key : ShownAt(<< >>, key) = {}
    BY <1>5 DEF ShownAt
  <2>2. \A r, kind : RegionMesh(app, r, kind) = {}
    BY <1>2, <1>5 DEF RegionMesh
  <2>3. OverlaysDrawn /\ GlowDrawn
    BY <1>4, <1>5, <2>1, <2>2 DEF OverlaysDrawn, GlowDrawn
  <2>4. ReadoutDrawn
    BY <1>4 DEF ReadoutDrawn
  <2>5. DOMAIN app.held \subseteq Waiting
    BY <1>2 DEF Waiting
  <2>6. TerrainDrawn
    BY <1>4, <1>5, <2>5 DEF TerrainDrawn
  <2> QED
    BY <2>3, <2>4, <2>6 DEF ShownOK
<1> QED
  BY <1>6, <1>7, <1>8, <1>9, <1>10, InvIs

(* A message arrives. *)
LEMMA ReceiveInv ==
  ASSUME FieldInv, NEW m \in Messages, Receive(m)
  PROVE  FieldInv'
<1>1. /\ spent < MaxEvents /\ inbox' = Append(inbox, m) /\ spent' = spent + 1
      /\ phase' = phase /\ app' = app /\ bolts' = bolts /\ smoke' = smoke /\ debris' = debris
      /\ overlays' = overlays /\ glow' = glow /\ readout' = readout /\ terrain' = terrain /\ queue' = queue
      /\ quiet' = quiet /\ rewired' = rewired
  BY DEF Receive, effects, shown
<1>2. TypeOK /\ MaxEvents \in Nat
  BY InvIs, FieldAssumption
<1>3. inbox' \in Seq(Messages)
  BY <1>1, <1>2, AppendProperties DEF TypeOK
<1>4. spent' \in 0..MaxEvents
  BY <1>1, <1>2 DEF TypeOK
<1>5. TypeOK'
  BY <1>1, <1>2, <1>3, <1>4 DEF TypeOK
<1> QED
  BY <1>1, <1>5, InboxOnly

(* The inbox is drained. *)
LEMMA IngestInv ==
  ASSUME FieldInv, Ingest
  PROVE  FieldInv'
<1>1. TypeOK /\ AppOK(app) /\ EffectsPooled /\ Drained /\ ShownOK /\ SmokeIsWarm /\ SmokeCools
  BY InvIs
<1>2. /\ phase = "Net" /\ app' = Frame(app, inbox) /\ inbox' = << >> /\ phase' = "Logic"
      /\ quiet' = {r \in Regions : QuietAfter(r)}
      /\ rewired' = rewired \cup {k \in Chunks : \E i \in DOMAIN inbox :
                                    inbox[i].kind = "chunk" /\ inbox[i].chunk = k}
      /\ bolts' = bolts /\ smoke' = smoke /\ debris' = debris
      /\ overlays' = overlays /\ glow' = glow /\ readout' = readout /\ terrain' = terrain /\ queue' = queue
      /\ spent' = spent
  BY IngestIs
<1>3. app.electric = << >> /\ app.destroyed = << >> /\ inbox \in Seq(Messages) /\ DOMAIN inbox = 1..Len(inbox)
  BY <1>1, <1>2, LenProperties DEF Drained, TypeOK
<1>4. /\ AppOK(app') /\ Follows(app, app')
      /\ \A k \in Chunks : (\A i \in 1..Len(inbox) : inbox[i].kind = "chunk" => inbox[i].chunk # k)
                             => SameChunk(app, app', k)
  BY <1>1, <1>2, <1>3, FrameHeeds
<1>5. rewired \subseteq rewired' /\ \A c \in Chunks \ rewired' : SameChunk(app, app', c)
  BY <1>2, <1>3, <1>4
<1>6. ShownOK'
  BY <1>1, <1>2, <1>4, <1>5, ShownKept
<1>7. EffectsPooled'
  BY <1>1, <1>2 DEF EffectsPooled, BoltOnChannel
<1>8. SmokeCools' /\ SmokeIsWarm'
  BY <1>1, <1>3, SmokeIngest
<1>9. Drained'
  BY <1>2 DEF Drained
<1>10. TypeOK'
  <2>1. inbox' \in Seq(Messages) /\ phase' = "Logic"
    BY <1>2
  <2>2. DOMAIN app'.regions \subseteq Regions /\ DOMAIN app'.held \subseteq Chunks
    BY <1>4 DEF AppOK
  <2>3. quiet' \subseteq Regions /\ rewired' \subseteq Chunks
    BY <1>1, <1>2 DEF TypeOK
  <2> QED
    BY <1>1, <1>2, <2>1, <2>2, <2>3 DEF TypeOK
<1> QED
  BY <1>4, <1>6, <1>7, <1>8, <1>9, <1>10, Zenon DEF FieldInv, Types, EffectsPooled, ShownOK

(* The pools of the next state are the pools of its variables. *)
LEMMA PooledNext ==
  ASSUME BoltPool(bolts'), SmokePool(smoke'), DebrisPool(debris')
  PROVE  EffectsPooled'
<1> DEFINE on(i) == \E f \in {m.field : m \in {n \in Messages : n.kind = "field"}} :
      LET ionized == {j \in DOMAIN f.cells : Has(f, "ionization") /\ f.layers["ionization"][j] >= 8}
          volts == {ValueAt(f, "potential", CellOf(f.cells[j])) :
                      j \in IF Has(f, "potential") THEN ionized ELSE {}}
      IN  /\ bolts'[i].source # bolts'[i].target
          /\ {bolts'[i].source, bolts'[i].target} \subseteq {CellOf(f.cells[j]) : j \in ionized}
          /\ Has(f, "potential") /\ NaN \notin volts =>
               /\ ValueAt(f, "potential", bolts'[i].source) = Max(volts)
               /\ ValueAt(f, "potential", bolts'[i].target) = Min(volts)
<1>1. ASSUME NEW i, OnChannel(bolts'[i]) PROVE on(i)
  BY <1>1 DEF OnChannel, Runs, FieldsTold, Ionized, Volts
<1>2. BoltOnChannel' <=> \A i \in DOMAIN bolts' : on(i)
  BY DEF BoltOnChannel
<1> HIDE DEF on
<1>3. BoltOnChannel'
  BY <1>1, <1>2 DEF BoltPool
<1> QED
  BY <1>3 DEF EffectsPooled, BoltPool, BoltFields, SmokePool, SmokeFields, DebrisPool

(* The effects take the events. *)
LEMMA LogicInv ==
  ASSUME FieldInv, Logic
  PROVE  FieldInv'
<1>1. TypeOK /\ AppOK(app) /\ EffectsPooled /\ Drained /\ ShownOK /\ SmokeIsWarm /\ SmokeCools
  BY InvIs
<1>2. /\ phase = "Logic" /\ phase' = "Render"
      /\ bolts' = Strikes(bolts, app.discharges) /\ debris' = BurstsOf(debris, app.bursts)
      /\ app' = [app EXCEPT !.discharges = << >>, !.electric = << >>, !.destroyed = << >>,
                            !.bursts = << >>]
      /\ overlays' = overlays /\ glow' = glow /\ readout' = readout /\ terrain' = terrain /\ queue' = queue
      /\ inbox' = inbox /\ spent' = spent /\ quiet' = quiet /\ rewired' = rewired
  BY LogicIs
<1>3. /\ DOMAIN app' = DOMAIN EmptyApp
      /\ app'.held = app.held /\ app'.objects = app.objects /\ app'.regions = app.regions
      /\ app'.remesh = app.remesh /\ app'.dirty = app.dirty
      /\ app'.glowDirty = app.glowDirty /\ app'.logicDirty = app.logicDirty
      /\ app'.electric = << >> /\ app'.discharges = << >>
      /\ app'.destroyed = << >> /\ app'.bursts = << >>
  <2>1. DOMAIN app = DOMAIN EmptyApp
    BY <1>1 DEF AppOK
  <2> QED
    BY <1>2, <2>1, TakenApp
<1>4. AppOK(app')
  <2>1. DOMAIN << >> = {} /\ \A S : << >> \in Seq(S)
    OBVIOUS
  <2> QED
    BY <1>1, <1>3, <2>1 DEF AppOK
<1>5. Follows(app, app') /\ \A c \in Chunks \ rewired' : SameChunk(app, app', c)
  BY <1>3 DEF Follows, SameRegion, SameChunk, LightOf
<1>6. ShownOK'
  BY <1>1, <1>2, <1>4, <1>5, ShownKept
<1>7. BoltPool(bolts) /\ SmokePool(smoke) /\ DebrisPool(debris)
  BY <1>1, PooledIs
<1>8. BoltPool(bolts') /\ DebrisPool(debris')
  <2>1. /\ app.discharges \in Seq(Events) /\ \A i \in DOMAIN app.discharges : Has(app.discharges[i].field, "ionization")
        /\ app.bursts \in Seq(Bursts)
    BY <1>1 DEF AppOK
  <2> QED
    BY <1>2, <1>7, <2>1, StrikesKeep, BurstsKeep
<1>9. SmokePool(smoke') /\ SmokeIsWarm'
  BY <1>1, <1>7, SmokeLogic
<1>10. EffectsPooled'
  BY <1>8, <1>9, PooledNext
<1>11. Drained' /\ SmokeCools'
  BY <1>2, <1>3 DEF Drained, SmokeCools
<1>12. TypeOK'
  BY <1>1, <1>2, <1>3 DEF TypeOK
<1> QED
  BY <1>4, <1>6, <1>9, <1>10, <1>11, <1>12, Zenon DEF FieldInv, Types, EffectsPooled, ShownOK

(* What is drawn lies where it may. *)
LEMMA RenderTypes ==
  ASSUME TypeOK, AppOK(app), Render
  PROVE  TypeOK'
<1>1. /\ phase' = "Net" /\ queue' = Left /\ inbox' = inbox /\ spent' = spent /\ quiet' = quiet /\ rewired' = rewired \ app.logicDirty
      /\ overlays' = Upsert(overlays, [key \in app.dirty \X Kinds |-> RegionMesh(app, key[1], key[2])])
      /\ glow' = Upsert(glow, [r \in app.glowDirty |-> RegionMesh(app, r, "glow")])
      /\ terrain' = Upsert(terrain, [key \in Meshed \X {"mesh", "decals"} |->
                                       TerrainMesh(app, key[1], key[2])])
  BY RenderIs
<1>2. PICK order \in Orders : readout' = Upsert(readout, [k \in app.logicDirty |-> ReadoutMesh(app, k, order)])
  BY RenderIs
<1>3. app'.held = app.held /\ app'.regions = app.regions
  <2>1. DOMAIN app = DOMAIN EmptyApp
    BY DEF AppOK
  <2> QED
    BY <2>1, RenderIs, DrawnApp
<1>4. /\ app.dirty \subseteq Regions /\ app.glowDirty \subseteq Regions /\ app.logicDirty \subseteq Chunks
      /\ DOMAIN app.held \subseteq Chunks
  BY DEF AppOK
<1>5. DOMAIN overlays' \subseteq DOMAIN overlays \cup (app.dirty \X Kinds)
  <2> DEFINE mesh == [key \in app.dirty \X Kinds |-> RegionMesh(app, key[1], key[2])]
  <2>1. DOMAIN mesh = app.dirty \X Kinds
    OBVIOUS
  <2> HIDE DEF mesh
  <2> QED
    BY <1>1, <2>1, UpsertShows DEF mesh
<1>6. DOMAIN glow' \subseteq DOMAIN glow \cup app.glowDirty
  <2> DEFINE mesh == [r \in app.glowDirty |-> RegionMesh(app, r, "glow")]
  <2>1. DOMAIN mesh = app.glowDirty
    OBVIOUS
  <2> HIDE DEF mesh
  <2> QED
    BY <1>1, <2>1, UpsertShows DEF mesh
<1>7. DOMAIN readout' \subseteq DOMAIN readout \cup app.logicDirty
  <2> DEFINE mesh == [k \in app.logicDirty |-> ReadoutMesh(app, k, order)]
  <2>1. DOMAIN mesh = app.logicDirty
    OBVIOUS
  <2> HIDE DEF mesh
  <2> QED
    BY <1>2, <2>1, UpsertShows DEF mesh
<1>8. DOMAIN terrain' \subseteq Chunks \X {"mesh", "decals"}
  <2> DEFINE mesh == [key \in Meshed \X {"mesh", "decals"} |-> TerrainMesh(app, key[1], key[2])]
  <2>1. DOMAIN mesh = Meshed \X {"mesh", "decals"}
    OBVIOUS
  <2> HIDE DEF mesh
  <2>2. DOMAIN terrain' \subseteq DOMAIN terrain \cup DOMAIN mesh
    BY <1>1, UpsertShows DEF mesh
  <2>3. \A key \in DOMAIN mesh : mesh[key] # {} => key[1] \in Chunks
    BY <1>4 DEF mesh, TerrainMesh, Loaded
  <2>4. \A key \in DOMAIN terrain' : key \in DOMAIN mesh => mesh[key] # {}
    BY <1>1 DEF Upsert, mesh
  <2>5. ASSUME NEW key \in DOMAIN terrain' PROVE key \in Chunks \X {"mesh", "decals"}
    <3>1. key \in DOMAIN mesh => key[1] \in Chunks
      BY <2>3, <2>4
    <3>2. CASE key \in DOMAIN terrain
      BY <3>2 DEF TypeOK
    <3>3. CASE key \in Meshed \X {"mesh", "decals"}
      BY <2>1, <3>1, <3>3
    <3> QED
      BY <2>1, <2>2, <3>2, <3>3
  <2> QED
    BY <2>5
<1>9. queue' \in Seq(Int) /\ IsInjective(queue')
  BY <1>1, LeftIs DEF QueueOK
<1> QED
  BY <1>1, <1>3, <1>4, <1>5, <1>6, <1>7, <1>8, <1>9 DEF TypeOK

(* A frame is drawn. *)
LEMMA RenderInv ==
  ASSUME FieldInv, Render
  PROVE  FieldInv'
<1>1. TypeOK /\ AppOK(app) /\ EffectsPooled /\ Drained /\ ShownOK /\ SmokeIsWarm /\ SmokeCools
  BY InvIs
<1>d. DOMAIN app = DOMAIN EmptyApp /\ app.dirty \subseteq Regions
  BY <1>1 DEF AppOK
<1>2. /\ DOMAIN app' = DOMAIN EmptyApp
      /\ app'.held = app.held /\ app'.objects = app.objects /\ app'.regions = app.regions
      /\ app'.remesh = {} /\ app'.dirty = {} /\ app'.glowDirty = {} /\ app'.logicDirty = {}
      /\ app'.electric = app.electric /\ app'.discharges = app.discharges
      /\ app'.destroyed = app.destroyed /\ app'.bursts = app.bursts
  BY <1>d, RenderIs, DrawnApp
<1>3. phase = "Render" /\ phase' = "Net" /\ quiet' = quiet
  BY RenderIs
<1>4. PICK dt \in Steps : /\ bolts' = Aged(bolts, BoltLife, dt) /\ smoke' = Aged(smoke, SmokeLife, dt)
                          /\ debris' = Aged(debris, DebrisLife, dt)
  BY RenderIs
<1>5. AppOK(app')
  BY <1>1, <1>2, FS_EmptySet DEF AppOK
<1>6. OverlaysDrawn' /\ GlowDrawn' /\ ReadoutDrawn' /\ TerrainDrawn'
  BY <1>1, <1>d, OverlaysStep, GlowStep, ReadoutStep, TerrainStep DEF ShownOK
<1>7. BoltPool(bolts) /\ SmokePool(smoke) /\ DebrisPool(debris) /\ dt \in Nat
  BY <1>1, PooledIs, PoolConstants
<1>8. /\ BoltPool(bolts') /\ DebrisPool(debris')
      /\ SmokePool(smoke') /\ \A r : Clear(smoke, r) => Clear(smoke', r)
  BY <1>4, <1>7, BoltsAge, DebrisAges, SmokeAges
<1>9. EffectsPooled'
  BY <1>8, PooledNext
<1>10. SmokeIsWarm'
  <2>1. \A r \in quiet : Clear(smoke, r)
    BY <1>1, <1>3 DEF SmokeIsWarm, Clear
  <2> QED
    BY <1>3, <1>8, <2>1 DEF SmokeIsWarm, Clear
<1>11. Drained' /\ SmokeCools'
  BY <1>1, <1>2, <1>3 DEF Drained, SmokeCools
<1>12. TypeOK'
  BY <1>1, RenderTypes
<1> QED
  BY <1>5, <1>6, <1>9, <1>10, <1>11, <1>12, Zenon DEF FieldInv, Types, EffectsPooled, ShownOK

------------------------------------------------------------------------------
(* The theorems.                                                                *)

(* The invariant of FieldView: between the systems of a frame, whatever is not  *)
(* marked, and no chunk of the queue, is drawn as it is, whatever the budget of *)
(* a frame, and the effects keep their pools (authority_plugin.rs, the plugins  *)
(* of field_render.rs and its siblings).                                        *)
THEOREM FieldInvariantHolds == Spec => []FieldInv
<1>1. Init => FieldInv
  BY InitInv
<1>2. FieldInv /\ [Next]_vars => FieldInv'
  <2> SUFFICES ASSUME FieldInv, [Next]_vars PROVE FieldInv'
    OBVIOUS
  <2>1. CASE \E m \in Messages : Receive(m)
    BY <2>1, ReceiveInv
  <2>2. CASE Ingest
    BY <2>2, IngestInv
  <2>3. CASE Logic
    BY <2>3, LogicInv
  <2>4. CASE Render
    BY <2>4, RenderInv
  <2>5. CASE UNCHANGED vars
    <3>1. /\ inbox' = inbox /\ spent' = spent
          /\ phase' = phase /\ app' = app /\ bolts' = bolts /\ smoke' = smoke /\ debris' = debris
          /\ overlays' = overlays /\ glow' = glow /\ readout' = readout /\ terrain' = terrain /\ queue' = queue
          /\ quiet' = quiet /\ rewired' = rewired
      BY <2>5 DEF vars, effects, shown
    <3>2. TypeOK
      BY InvIs
    <3>3. TypeOK'
      BY <3>1, <3>2 DEF TypeOK
    <3> QED
      BY <3>1, <3>3, InboxOnly
  <2> QED
    BY <2>1, <2>2, <2>3, <2>4, <2>5 DEF Next
<1> QED
  BY <1>1, <1>2, PTL DEF Spec

(* Lightning, smoke and debris keep their caps, lives and order of age, a bolt  *)
(* runs on the channel of a snapshot, and smoke rises where the last snapshot   *)
(* found heat, whatever a frame brings at once (strike, spawn_heat_smoke).      *)
THEOREM EffectsAreOK == Spec => []EffectsOK
<1>1. FieldInv => EffectsOK
  BY PoolConstants DEF FieldInv, Types, PoolOK, EffectsOK, PoolsOK
<1> QED
  BY <1>1, FieldInvariantHolds, PTL

(* Between two frames the overlays and the glow are the fields that are held,   *)
(* in colors that tell their values apart (render_dirty_field_regions,          *)
(* render_dirty_incandescence).                                                 *)
THEOREM OverlaysFollow == Spec => []OverlaysAreField
<1>1. FieldInv => OverlaysAreField
  BY OverlaysShow DEF FieldInv, Types
<1> QED
  BY <1>1, FieldInvariantHolds, PTL

(* Between two frames the readout of a chunk that did not change is what its    *)
(* fields say (render_dirty_semiconductor_chunks, electric_grids).              *)
THEOREM ReadoutIsField == Spec => []ReadoutFollowsField
<1>1. FieldInv => ReadoutFollowsField
  BY ReadoutFollows DEF FieldInv
<1> QED
  BY <1>1, FieldInvariantHolds, PTL

(* Between two frames each open face of a loaded chunk that does not wait in    *)
(* the queue is drawn once, as its material and its light, and no other face    *)
(* is drawn, whatever the budget of a frame and whichever chunks wait           *)
(* (render_dirty_chunks, greedy_mesh_chunk_with_neighbors_lit).                 *)
THEOREM TerrainShowsWorld == Spec => []TerrainIsWorld
<1>1. FieldInv => TerrainIsWorld
  BY TerrainShows DEF FieldInv, Types
<1> QED
  BY <1>1, FieldInvariantHolds, PTL
==============================================================================
