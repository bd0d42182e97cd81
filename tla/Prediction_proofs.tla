-------------------------- MODULE Prediction_proofs --------------------------
(* Proofs about Prediction.  Synthesised idle steps and replayed inputs are     *)
(* folds, so the module begins with what a fold keeps; then come the rings, and *)
(* what reconciling one ack makes of a runtime.  Each conjunct of PredictionInv *)
(* is kept by every step; the theorems are at the end.                          *)
EXTENDS PredictionInvariant, SequenceTheorems, WellFoundedInduction, TLAPS

--------------------------------------------------------------------------------
(* Induction over a set of numbers, and the runs of a step function.            *)

(* Every natural number is in a set that goes on from zero. *)
LEMMA Reached ==
  ASSUME NEW T, 0 \in T, \A k \in Nat : k \in T => k + 1 \in T
  PROVE  \A k \in Nat : k \in T
<1> SUFFICES ASSUME NEW k \in Nat, k \notin T PROVE FALSE
  OBVIOUS
<1> DEFINE R == OpToRel(<, Nat)
<1> DEFINE W == {n \in Nat : n \notin T}
<1>1. IsWellFoundedOn(R, Nat)
  BY NatLessThanWellFounded
<1>2. W \subseteq Nat /\ W # {}
  OBVIOUS
<1>3. PICK n \in W : \A m \in W : ~(<<m, n>> \in R)
  <2> HIDE DEF R, W
  <2> QED
    BY <1>1, <1>2, WFMin
<1>4. \A m \in Nat : m < n => m \in T
  <2> SUFFICES ASSUME NEW m \in Nat, m < n, m \notin T PROVE FALSE
    OBVIOUS
  <2>1. <<m, n>> \in R
    BY DEF OpToRel
  <2> QED
    BY <1>3, <2>1
<1>5. n \in Nat /\ n # 0
  OBVIOUS
<1>6. n - 1 \in Nat /\ n - 1 < n
  BY <1>5
<1>7. n - 1 \in T
  BY <1>4, <1>6
<1>8. n - 1 + 1 \in T
  BY <1>6, <1>7
<1> QED
  BY <1>5, <1>6, <1>8

(* By g every step from S with a message of M ends in S. *)
Closed(g, S, M) == \A x \in S, m \in M : g[<<x, m>>] \in S

(* f goes through q from b, by g. *)
Goes(g, b, q, f) == f[0] = b /\ \A i \in 1..Len(q) : f[i] = g[<<f[i - 1], q[i]>>]
(* Such an f with all its values in S. *)
IsRun(S, g, b, q, f) == f \in [0..Len(q) -> S] /\ Goes(g, b, q, f)

(* There is a run. *)
LEMMA RunExists ==
  ASSUME NEW S, NEW M, NEW g, Closed(g, S, M), NEW b \in S, NEW q \in Seq(M)
  PROVE  \E f : IsRun(S, g, b, q, f)
<1> DEFINE upto(f, k) == f \in [0..k -> S] /\ f[0] = b /\ \A i \in 1..k : f[i] = g[<<f[i - 1], q[i]>>]
<1> DEFINE T == {k \in Nat : k <= Len(q) => \E f : upto(f, k)}
<1>1. Len(q) \in Nat
  BY LenProperties
<1>2. 0 \in T
  <2> DEFINE f == [i \in 0..0 |-> b]
  <2>1. f \in [0..0 -> S] /\ f[0] = b /\ 1..0 = {}
    OBVIOUS
  <2>2. upto(f, 0)
    BY <2>1
  <2> QED
    BY <2>2
<1>3. ASSUME NEW k \in Nat, k \in T PROVE k + 1 \in T
  <2> SUFFICES ASSUME k + 1 <= Len(q) PROVE \E f : upto(f, k + 1)
    OBVIOUS
  <2>1. k <= Len(q)
    BY <1>1
  <2>2. PICK f : upto(f, k)
    BY <1>3, <2>1
  <2>3. q[k + 1] \in M /\ f[k] \in S
    <3>1. k + 1 \in 1..Len(q) /\ k \in 0..k
      BY <1>1
    <3> QED
      BY <2>2, <3>1, ElementOfSeq
  <2> DEFINE y == g[<<f[k], q[k + 1]>>]
  <2> DEFINE h == [i \in 0..k + 1 |-> IF i = k + 1 THEN y ELSE f[i]]
  <2>4. y \in S
    BY <2>3 DEF Closed
  <2>5. \A i \in 0..k : h[i] = f[i] /\ i \in 0..k + 1
    OBVIOUS
  <2>6. h[k + 1] = y /\ h[k] = f[k] /\ h[0] = b
    BY <2>2, <2>5
  <2>7. h \in [0..k + 1 -> S]
    <3>1. \A i \in 0..k + 1 : i = k + 1 \/ i \in 0..k
      OBVIOUS
    <3>2. \A i \in 0..k : f[i] \in S
      BY <2>2
    <3> HIDE DEF y
    <3> QED
      BY <2>4, <3>1, <3>2
  <2>8. ASSUME NEW i \in 1..k + 1 PROVE h[i] = g[<<h[i - 1], q[i]>>]
    <3>1. CASE i = k + 1
      <4>1. i - 1 = k
        BY <3>1
      <4> HIDE DEF h
      <4> QED
        BY <2>6, <3>1, <4>1
    <3>2. CASE i # k + 1
      <4>1. i \in 1..k /\ i \in 0..k /\ i - 1 \in 0..k
        BY <3>2
      <4> HIDE DEF h
      <4> QED
        BY <2>2, <2>5, <4>1
    <3> QED
      BY <3>1, <3>2
  <2> HIDE DEF h, y
  <2> QED
    BY <2>6, <2>7, <2>8
<1> HIDE DEF upto
<1>4. Len(q) \in T
  <2> HIDE DEF T
  <2> QED
    BY <1>1, <1>2, <1>3, Reached
<1>5. PICK f : upto(f, Len(q))
  BY <1>1, <1>4
<1> QED
  BY <1>5 DEF upto, IsRun, Goes

(* What goes on along a run holds at its end. *)
LEMMA RunKeeps ==
  ASSUME NEW S, NEW M, NEW g, Closed(g, S, M), NEW b \in S, NEW q \in Seq(M), NEW f,
         IsRun(S, g, b, q, f), NEW T, b \in T,
         \A i \in 1..Len(q), x \in S : x \in T => g[<<x, q[i]>>] \in T
  PROVE  f[Len(q)] \in T /\ f[Len(q)] \in S
<1> DEFINE U == {k \in Nat : k <= Len(q) => f[k] \in T}
<1>1. Len(q) \in Nat /\ Len(q) \in 0..Len(q)
  BY LenProperties
<1>2. 0 \in U
  BY DEF IsRun, Goes
<1>3. ASSUME NEW k \in Nat, k \in U PROVE k + 1 \in U
  <2> SUFFICES ASSUME k + 1 <= Len(q) PROVE f[k + 1] \in T
    OBVIOUS
  <2>1. k \in 0..Len(q) /\ k <= Len(q) /\ k + 1 \in 1..Len(q) /\ k + 1 - 1 = k
    BY <1>1
  <2>2. f[k] \in T /\ f[k] \in S /\ f[k + 1] = g[<<f[k], q[k + 1]>>]
    BY <1>3, <2>1 DEF IsRun, Goes
  <2> QED
    BY <2>1, <2>2
<1>4. Len(q) \in U
  <2> HIDE DEF U
  <2> QED
    BY <1>1, <1>2, <1>3, Reached
<1>5. f[Len(q)] \in S
  BY <1>1 DEF IsRun, Goes
<1> QED
  BY <1>1, <1>4, <1>5

(* There is one run only. *)
LEMMA SameRun ==
  ASSUME NEW n \in Nat, NEW f, NEW h, h[0] = f[0],
         \A i \in 1..n : h[i - 1] = f[i - 1] => h[i] = f[i]
  PROVE  \A k \in 0..n : h[k] = f[k]
<1> DEFINE U == {k \in Nat : k <= n => h[k] = f[k]}
<1>1. 0 \in U
  OBVIOUS
<1>2. ASSUME NEW k \in Nat, k \in U PROVE k + 1 \in U
  <2> SUFFICES ASSUME k + 1 <= n PROVE h[k + 1] = f[k + 1]
    OBVIOUS
  <2>1. k <= n /\ k + 1 \in 1..n /\ k + 1 - 1 = k
    OBVIOUS
  <2>2. h[k] = f[k]
    BY <1>2, <2>1
  <2>3. h[k + 1 - 1] = f[k + 1 - 1] => h[k + 1] = f[k + 1]
    BY <2>1
  <2> QED
    BY <2>1, <2>2, <2>3
<1>3. \A k \in Nat : k \in U
  <2> HIDE DEF U
  <2> QED
    BY <1>1, <1>2, Reached
<1> QED
  BY <1>3

--------------------------------------------------------------------------------
(* Least and greatest numbers, and the rings.                                   *)

(* A nonempty set of numbers has a least one. *)
LEMMA LeastIs ==
  ASSUME NEW S \in SUBSET Nat, S # {}
  PROVE  Min(S) \in S /\ \A j \in S : Min(S) <= j
<1> DEFINE T == {n \in Nat : \A k \in 0..n : k \notin S}
<1>1. \E m \in S : \A j \in S : m <= j
  <2> SUFFICES ASSUME \A m \in S : \E j \in S : ~(m <= j) PROVE FALSE
    OBVIOUS
  <2>1. 0 \in T
    BY DEF T
  <2>2. ASSUME NEW k \in Nat, k \in T PROVE k + 1 \in T
    <3>1. ASSUME k + 1 \in S PROVE FALSE
      <4>1. PICK j \in S : ~(k + 1 <= j)
        BY <3>1
      <4>2. j \in 0..k
        BY <4>1
      <4> QED
        BY <2>2, <4>2
    <3> QED
      BY <2>2, <3>1
  <2>3. \A k \in Nat : k \in T
    <3> HIDE DEF T
    <3> QED
      BY <2>1, <2>2, Reached
  <2>4. PICK s \in S : TRUE
    OBVIOUS
  <2>5. s \in T /\ s \in 0..s
    BY <2>3, <2>4
  <2> QED
    BY <2>4, <2>5
<1> QED
  BY <1>1 DEF Min

(* Positions up to a bound have a last one. *)
LEMMA GreatestIs ==
  ASSUME NEW n \in Nat, NEW S \in SUBSET (1..n), S # {}
  PROVE  Max(S) \in S /\ \A j \in S : j <= Max(S)
<1> DEFINE D == {n - j : j \in S}
<1>1. D \in SUBSET Nat /\ D # {}
  <2>1. \A j \in S : n - j \in Nat
    OBVIOUS
  <2>2. PICK j \in S : TRUE
    OBVIOUS
  <2> QED
    BY <2>1, <2>2
<1>2. Min(D) \in D /\ \A d \in D : Min(D) <= d
  <2> HIDE DEF D
  <2> QED
    BY <1>1, LeastIs
<1>3. PICK m \in S : Min(D) = n - m
  BY <1>2
<1>4. \A j \in S : m >= j
  <2> TAKE j \in S
  <2>1. n - m <= n - j
    BY <1>2, <1>3
  <2> QED
    BY <2>1
<1>5. \E x \in S : \A y \in S : x >= y
  BY <1>4
<1>6. Max(S) \in S /\ \A y \in S : Max(S) >= y
  BY <1>5 DEF Max
<1> QED
  BY <1>6

(* Something is pushed on a ring. *)
LEMMA PushFacts ==
  ASSUME NEW T, NEW ring \in Seq(T), NEW x \in T, NEW cap \in Counts, Len(ring) <= cap
  PROVE  /\ Push(ring, x, cap) \in Seq(T) /\ Len(Push(ring, x, cap)) \in 1..cap
         /\ Last(Push(ring, x, cap)) = x /\ Push(ring, x, cap) # << >>
<1> DEFINE rest == IF Len(ring) = cap THEN Tail(ring) ELSE ring
<1>1. cap \in Nat /\ cap # 0 /\ Len(ring) \in Nat
  BY LenProperties DEF Counts
<1>2. rest \in Seq(T) /\ Len(rest) < cap /\ Len(rest) \in Nat
  <2>1. CASE Len(ring) = cap
    <3>1. ring # << >>
      BY <1>1, <2>1, EmptySeq
    <3>2. Tail(ring) \in Seq(T) /\ Len(Tail(ring)) = Len(ring) - 1
      BY <3>1, HeadTailProperties
    <3> QED
      BY <1>1, <2>1, <3>2
  <2>2. CASE Len(ring) # cap
    BY <1>1, <2>2
  <2> QED
    BY <2>1, <2>2
<1>3. Push(ring, x, cap) = Append(rest, x)
  BY DEF Push
<1> HIDE DEF rest
<1>4. /\ Append(rest, x) \in Seq(T) /\ Append(rest, x) # << >>
      /\ Len(Append(rest, x)) = Len(rest) + 1 /\ Append(rest, x)[Len(rest) + 1] = x
  BY <1>2, AppendProperties
<1> QED
  BY <1>1, <1>2, <1>3, <1>4 DEF Last

(* The last of a sequence. *)
LEMMA LastFacts ==
  ASSUME NEW T, NEW s \in Seq(T), s # << >>
  PROVE  Last(s) \in T /\ Len(s) \in Nat \ {0} /\ Last(s) = s[Len(s)] /\ Len(s) \in 1..Len(s)
<1>1. Len(s) \in Nat \ {0}
  BY EmptySeq
<1>2. s[Len(s)] \in T
  BY <1>1, ElementOfSeq
<1> QED
  BY <1>1, <1>2 DEF Last

(* What is left of a sequence from a place on. *)
LEMMA SuffixFacts ==
  ASSUME NEW T, NEW s \in Seq(T), NEW k \in 1..Len(s)
  PROVE  LET w == SubSeq(s, k, Len(s))
         IN  /\ w \in Seq(T) /\ w # << >> /\ s # << >> /\ Len(w) = Len(s) - k + 1 /\ Last(w) = Last(s)
             /\ w[1] = s[k]
<1> DEFINE w == SubSeq(s, k, Len(s))
<1>1. Len(s) \in Nat /\ \A i \in k..Len(s) : s[i] \in T
  BY LenProperties, ElementOfSeq
<1>2. k \in Int /\ Len(s) \in Int /\ k <= Len(s)
  BY <1>1
<1>3. /\ w \in Seq(T) /\ Len(w) = Len(s) - k + 1
      /\ \A i \in 1..Len(s) - k + 1 : w[i] = s[k + i - 1]
  BY <1>1, <1>2, SubSeqProperties
<1> HIDE DEF w
<1>4. w[Len(w)] = s[Len(s)]
  <2>1. Len(w) \in 1..Len(s) - k + 1 /\ k + Len(w) - 1 = Len(s)
    BY <1>1, <1>2, <1>3
  <2> QED
    BY <1>3, <2>1
<1>5. w # << >> /\ s # << >>
  BY <1>1, <1>2, <1>3, EmptySeq
<1>6. w[1] = s[k]
  <2>1. 1 \in 1..Len(s) - k + 1 /\ k + 1 - 1 = k
    BY <1>1, <1>2
  <2> QED
    BY <1>3, <2>1
<1> QED
  BY <1>3, <1>4, <1>5, <1>6 DEF Last, w

(* The inputs that an ack leaves pending are the last ones. *)
LEMMA PendingFacts ==
  ASSUME NEW T, NEW frames \in Seq(T), NEW ack
  PROVE  LET p == StillPending(frames, ack)
         IN  /\ p \in Seq(T) /\ Len(p) <= Len(frames)
             /\ p # << >> => frames # << >> /\ Last(p) = Last(frames) /\ Outlasts(p[1], ack)
             /\ p = << >> => \A i \in 1..Len(frames) : ~Outlasts(frames[i], ack)
<1> DEFINE left == {i \in DOMAIN frames : Outlasts(frames[i], ack)}
<1> DEFINE p == StillPending(frames, ack)
<1>1. DOMAIN frames = 1..Len(frames) /\ Len(frames) \in Nat
  BY LenProperties
<1>2. CASE left = {}
  <2>1. p = << >>
    BY <1>2 DEF StillPending
  <2>2. p \in Seq(T) /\ Len(p) = 0
    BY <2>1, EmptySeq
  <2>3. \A i \in 1..Len(frames) : ~Outlasts(frames[i], ack)
    BY <1>1, <1>2
  <2> HIDE DEF p, left
  <2> QED
    BY <1>1, <2>1, <2>2, <2>3 DEF p
<1>3. CASE left # {}
  <2>1. p = SubSeq(frames, Min(left), Len(frames))
    BY <1>3 DEF StillPending
  <2>2. left \subseteq 1..Len(frames) /\ left \in SUBSET Nat
    BY <1>1
  <2> HIDE DEF p, left
  <2>3. Min(left) \in left /\ Min(left) \in 1..Len(frames)
    BY <1>3, <2>2, LeastIs
  <2>4. p \in Seq(T) /\ p # << >> /\ frames # << >> /\ Len(p) = Len(frames) - Min(left) + 1 /\ Last(p) = Last(frames)
        /\ p[1] = frames[Min(left)]
    BY <2>1, <2>3, SuffixFacts
  <2>5. Outlasts(frames[Min(left)], ack)
    BY <2>3 DEF left
  <2> QED
    BY <1>1, <2>3, <2>4, <2>5 DEF p
<1> QED
  BY <1>2, <1>3

(* The newest of a history. *)
LEMMA RecentFacts ==
  ASSUME NEW T, NEW ring \in Seq(T), NEW n \in Counts
  PROVE  LET k == RetainRecent(ring, n)
         IN  /\ k \in Seq(T) /\ Len(k) <= Len(ring)
             /\ k = << >> <=> ring = << >>
             /\ ring # << >> => Last(k) = Last(ring)
<1>1. Len(ring) \in Nat /\ n \in Nat /\ n # 0
  BY LenProperties DEF Counts
<1>2. CASE Len(ring) > n
  <2>1. RetainRecent(ring, n) = SubSeq(ring, Len(ring) - n + 1, Len(ring))
    BY <1>2 DEF RetainRecent
  <2>2. Len(ring) - n + 1 \in 1..Len(ring)
    BY <1>1, <1>2
  <2> DEFINE w == SubSeq(ring, Len(ring) - n + 1, Len(ring))
  <2>3. w \in Seq(T) /\ w # << >> /\ ring # << >> /\ Last(w) = Last(ring) /\ Len(w) = Len(ring) - (Len(ring) - n + 1) + 1
    BY <2>2, SuffixFacts
  <2>4. Len(w) <= Len(ring)
    BY <1>1, <1>2, <2>3
  <2> HIDE DEF w
  <2> QED
    BY <2>1, <2>3, <2>4 DEF w
<1>3. CASE ~(Len(ring) > n)
  <2>1. RetainRecent(ring, n) = ring
    BY <1>3 DEF RetainRecent
  <2> QED
    BY <1>1, <2>1
<1> QED
  BY <1>2, <1>3

(* A ring cut after the last of some places. *)
LEMMA UpToFacts ==
  ASSUME NEW T, NEW ring \in Seq(T), NEW kept \in SUBSET (1..Len(ring))
  PROVE  /\ UpTo(ring, kept) \in Seq(T) /\ Len(UpTo(ring, kept)) <= Len(ring)
         /\ kept # {} => Len(UpTo(ring, kept)) >= 1
<1>1. Len(ring) \in Nat
  BY LenProperties
<1>2. CASE kept = {}
  <2>1. UpTo(ring, kept) = << >>
    BY <1>2 DEF UpTo
  <2>2. << >> \in Seq(T) /\ Len(<< >>) = 0
    BY EmptySeq
  <2>3. UpTo(ring, kept) \in Seq(T) /\ Len(UpTo(ring, kept)) = 0
    BY <2>1, <2>2
  <2>4. Len(UpTo(ring, kept)) <= Len(ring)
    BY <1>1, <2>3
  <2> QED
    BY <1>2, <2>3, <2>4
<1>3. CASE kept # {}
  <2>1. Max(kept) \in 1..Len(ring)
    BY <1>1, <1>3, GreatestIs
  <2>2. UpTo(ring, kept) = SubSeq(ring, 1, Max(kept))
    BY <1>3 DEF UpTo
  <2> DEFINE m == Max(kept)
  <2> HIDE DEF m
  <2>3. m \in Int /\ 1 <= m /\ m <= Len(ring) /\ \A i \in 1..m : ring[i] \in T
    BY <1>1, <2>1, ElementOfSeq DEF m
  <2>4. SubSeq(ring, 1, m) \in Seq(T) /\ Len(SubSeq(ring, 1, m)) = m - 1 + 1
    BY <2>3, SubSeqProperties
  <2> QED
    BY <1>1, <2>2, <2>3, <2>4 DEF m
<1> QED
  BY <1>2, <1>3

--------------------------------------------------------------------------------
(* Idle steps and replayed inputs.                                              *)

(* Numbers and constants. *)
LEMMA Constants ==
  /\ InputCap \in Counts /\ StateCap \in Counts /\ MaxReplay \in Counts /\ MaxPending \in Counts
  /\ BaseSoft \in Nat /\ MaxSoft \in Nat /\ Hard \in Nat /\ Still \in Nat /\ BaseSoft <= MaxSoft
  /\ 0 \in Dirs /\ Dirs \subseteq Int
BY PredictionAssumption DEF Counts

(* One step of the integrator. *)
LEMMA StepFacts ==
  ASSUME NEW s \in States, NEW f, f.seq \in Nat, f.tick \in Nat, f.dir \in Int
  PROVE  Step(s, f) \in States /\ Step(s, f).seq = f.seq /\ Step(s, f).tick = f.tick
<1>1. s.vel \in Int /\ s.pos \in Int
  BY DEF States
<1> DEFINE v == IF f.dir = 0 THEN Slower(s.vel) ELSE 2 * f.dir
<1>2. v \in Int
  BY <1>1 DEF Slower
<1>3. Step(s, f) = [seq |-> f.seq, tick |-> f.tick, pos |-> s.pos + v, vel |-> v]
  BY DEF Step
<1> HIDE DEF v
<1>4. s.pos + v \in Int
  BY <1>1, <1>2
<1> QED
  BY <1>2, <1>3, <1>4 DEF States

(* Only the prediction and its history differ. *)
Alike(x, r) == x.seq = r.seq /\ x.tick = r.tick /\ x.ih = r.ih /\ x.ack = r.ack /\ x.soft = r.soft
(* What a runtime can come to in predicting up to a tick. *)
Rolls(r, B) ==
  {x \in Runtimes : Alike(x, r) /\ x.cur \in Known(B) /\ x.ph \in Seq(Known(B)) /\ Len(x.ph) <= StateCap}

(* The newest prediction is added to the history. *)
LEMMA RollsOn ==
  ASSUME NEW r, NEW B \in Nat, NEW x \in Rolls(r, B), NEW s \in Known(B)
  PROVE  LET y == [x EXCEPT !.cur = s, !.ph = Push(@, s, StateCap)]
         IN  y \in Rolls(r, B) /\ y.cur = s /\ Last(y.ph) = s /\ Len(y.ph) \in 1..StateCap
<1> DEFINE p == Push(x.ph, s, StateCap)
<1>1. x \in Runtimes /\ Alike(x, r) /\ x.ph \in Seq(Known(B)) /\ Len(x.ph) <= StateCap
  BY DEF Rolls
<1>2. p \in Seq(Known(B)) /\ Len(p) \in 1..StateCap /\ Last(p) = s
  BY <1>1, Constants, PushFacts
<1>3. Known(B) \subseteq States /\ s \in States
  BY DEF Known
<1>4. p \in Seq(States)
  BY <1>2, <1>3, SeqMonotonic
<1>5. StateCap \in Nat
  BY Constants DEF Counts
<1> HIDE DEF p
<1>6. Len(p) <= StateCap
  BY <1>2, <1>5
<1> DEFINE y == [x EXCEPT !.cur = s, !.ph = p]
<1>7. y \in Runtimes
  BY <1>1, <1>3, <1>4 DEF Runtimes
<1>8. y.cur = s /\ y.ph = p /\ Alike(y, r)
  BY <1>1 DEF Runtimes, Alike
<1> HIDE DEF y
<1>9. y \in Rolls(r, B)
  BY <1>2, <1>6, <1>7, <1>8 DEF Rolls
<1> QED
  BY <1>2, <1>8, <1>9 DEF p, y

(* An idle step. *)
LEMMA IdledTyped ==
  ASSUME NEW r, NEW B \in Nat, NEW x \in Rolls(r, B), NEW t \in {k \in Nat : k < B}
  PROVE  /\ Idled(x, t) \in Rolls(r, B) /\ Idled(x, t).cur.tick = t
         /\ Last(Idled(x, t).ph) = Idled(x, t).cur /\ Len(Idled(x, t).ph) \in 1..StateCap
<1> DEFINE f == [seq |-> 0, tick |-> t, dir |-> 0]
<1> DEFINE s == Step(x.cur, f)
<1>1. x.cur \in States
  BY DEF Rolls, Known
<1>2. s \in States /\ s.tick = t
  BY <1>1, StepFacts
<1>3. s \in Known(B)
  <2> HIDE DEF s
  <2> QED
    BY <1>2 DEF Known
<1>4. Idled(x, t) = [x EXCEPT !.cur = s, !.ph = Push(@, s, StateCap)]
  BY DEF Idled
<1> HIDE DEF s, f
<1> DEFINE y == [x EXCEPT !.cur = s, !.ph = Push(@, s, StateCap)]
<1>5. y \in Rolls(r, B) /\ y.cur = s /\ Last(y.ph) = s /\ Len(y.ph) \in 1..StateCap
  BY <1>3, RollsOn
<1>6. Idled(x, t) = y
  BY <1>4
<1> HIDE DEF y
<1> QED
  BY <1>2, <1>5, <1>6

(* A replayed input. *)
LEMMA ReplayedTyped ==
  ASSUME NEW r, NEW B \in Nat, NEW x \in Rolls(r, B), NEW f \in {k \in Frames : k.tick < B}
  PROVE  /\ Replayed(x, f) \in Rolls(r, B)
         /\ Last(Replayed(x, f).ph) = Replayed(x, f).cur /\ Len(Replayed(x, f).ph) \in 1..StateCap
<1> DEFINE s == Step(x.cur, f)
<1>1. x.cur \in States
  BY DEF Rolls, Known
<1>2. f.seq \in Nat /\ f.tick \in Nat /\ f.dir \in Int /\ f.tick < B
  BY Constants DEF Frames, Counts
<1>3. s \in States /\ s.tick = f.tick
  BY <1>1, <1>2, StepFacts
<1>4. s \in Known(B)
  <2> HIDE DEF s
  <2> QED
    BY <1>2, <1>3 DEF Known
<1>5. Replayed(x, f) = [x EXCEPT !.cur = s, !.ph = Push(@, s, StateCap)]
  BY DEF Replayed
<1> HIDE DEF s
<1> DEFINE y == [x EXCEPT !.cur = s, !.ph = Push(@, s, StateCap)]
<1>6. y \in Rolls(r, B) /\ y.cur = s /\ Last(y.ph) = s /\ Len(y.ph) \in 1..StateCap
  BY <1>4, RollsOn
<1>7. Replayed(x, f) = y
  BY <1>5
<1> HIDE DEF y
<1> QED
  BY <1>6, <1>7

(* Idle steps follow one another. *)
LEMMA IdledRuns ==
  ASSUME NEW r, NEW B \in Nat, NEW b \in Rolls(r, B), NEW q \in Seq({k \in Nat : k < B})
  PROVE  q # << >> => \E y \in Rolls(r, B) : IdledThrough(b, q) = Idled(y, q[Len(q)])
<1> DEFINE S == Rolls(r, B)
<1> DEFINE M == {k \in Nat : k < B}
<1> DEFINE g == [z \in S \X M |-> Idled(z[1], z[2])]
<1>1. \A x \in S, m \in M : g[<<x, m>>] = Idled(x, m)
  OBVIOUS
<1>2. Closed(g, S, M)
  <2>1. \A x \in S, m \in M : Idled(x, m) \in S
    BY IdledTyped
  <2> HIDE DEF S, M, g
  <2> QED
    BY <1>1, <2>1 DEF Closed
<1> HIDE DEF S, M, g
<1>b. b \in S /\ q \in Seq(M)
  BY DEF S, M
<1>3. PICK f : IsRun(S, g, b, q, f)
  BY <1>2, <1>b, RunExists
<1> DEFINE steps(h) == [i \in 0..Len(q) |-> IF i = 0 THEN b ELSE Idled(h[i - 1], q[i])]
<1>4. Len(q) \in Nat /\ \A i \in 1..Len(q) : q[i] \in M
  BY <1>b, LenProperties, ElementOfSeq
<1>5. f = steps(f)
  <2>1. f \in [0..Len(q) -> S] /\ f[0] = b
    BY <1>3 DEF IsRun, Goes
  <2>2. ASSUME NEW i \in 1..Len(q) PROVE f[i] = Idled(f[i - 1], q[i])
    <3>1. i - 1 \in 0..Len(q)
      BY <1>4
    <3>2. f[i] = g[<<f[i - 1], q[i]>>] /\ f[i - 1] \in S /\ q[i] \in M
      BY <1>3, <1>4, <2>1, <3>1 DEF IsRun, Goes
    <3> QED
      BY <1>1, <3>2
  <2> QED
    BY <1>4, <2>1, <2>2
<1> DEFINE h == CHOOSE h : h = steps(h)
<1>6. h = steps(h)
  <2> HIDE DEF steps
  <2> QED
    BY <1>5
<1>7. \A k \in 0..Len(q) : h[k] = f[k]
  <2>1. h[0] = f[0]
    <3> HIDE DEF h
    <3> QED
      BY <1>4, <1>5, <1>6
  <2>2. ASSUME NEW i \in 1..Len(q), h[i - 1] = f[i - 1] PROVE h[i] = f[i]
    <3> HIDE DEF h
    <3>1. i \in 0..Len(q) /\ i # 0
      BY <1>4
    <3>2. steps(h)[i] = Idled(h[i - 1], q[i]) /\ steps(f)[i] = Idled(f[i - 1], q[i])
      BY <3>1
    <3> QED
      BY <1>5, <1>6, <2>2, <3>2
  <2> HIDE DEF h
  <2> QED
    BY <1>4, <2>1, <2>2, SameRun
<1>8. IdledThrough(b, q) = h[Len(q)]
  BY DEF IdledThrough, Fold
<1>9. h[Len(q)] = f[Len(q)]
  <2> HIDE DEF h
  <2> QED
    BY <1>4, <1>7
<1> HIDE DEF h, steps
<1>10. IdledThrough(b, q) = f[Len(q)]
  BY <1>8, <1>9
<1>11. CASE q = << >>
  <2>1. Len(q) = 0
    BY <1>11, EmptySeq
  <2>2. f[0] = b
    BY <1>3 DEF IsRun, Goes
  <2> QED
    BY <1>10, <1>11, <2>1, <2>2
<1>12. CASE q # << >>
  <2>1. Len(q) # 0 /\ Len(q) \in 1..Len(q) /\ Len(q) - 1 \in 0..Len(q)
    BY <1>4, <1>12, <1>b, EmptySeq
  <2>2. f[Len(q)] = g[<<f[Len(q) - 1], q[Len(q)]>>] /\ f[Len(q) - 1] \in S /\ q[Len(q)] \in M
    BY <1>3, <1>4, <2>1 DEF IsRun, Goes
  <2>3. f[Len(q)] = Idled(f[Len(q) - 1], q[Len(q)])
    BY <1>1, <2>2
  <2>4. f[Len(q) - 1] \in Rolls(r, B)
    BY <2>2 DEF S
  <2> QED
    BY <1>10, <1>12, <2>1, <2>3, <2>4
<1> QED
  BY <1>11, <1>12

(* Inputs are replayed one after another. *)
LEMMA ReplayedRuns ==
  ASSUME NEW r, NEW B \in Nat, NEW b \in Rolls(r, B), NEW q \in Seq({k \in Frames : k.tick < B})
  PROVE  \E y \in Rolls(r, B) : ReplayedAll(b, q) = IF q = << >> THEN b ELSE Replayed(y, q[Len(q)])
<1> DEFINE S == Rolls(r, B)
<1> DEFINE M == {k \in Frames : k.tick < B}
<1> DEFINE g == [z \in S \X M |-> Replayed(z[1], z[2])]
<1>1. \A x \in S, m \in M : g[<<x, m>>] = Replayed(x, m)
  OBVIOUS
<1>2. Closed(g, S, M)
  <2>1. \A x \in S, m \in M : Replayed(x, m) \in S
    BY ReplayedTyped
  <2> HIDE DEF S, M, g
  <2> QED
    BY <1>1, <2>1 DEF Closed
<1> HIDE DEF S, M, g
<1>b. b \in S /\ q \in Seq(M)
  BY DEF S, M
<1>3. PICK f : IsRun(S, g, b, q, f)
  BY <1>2, <1>b, RunExists
<1> DEFINE steps(h) == [i \in 0..Len(q) |-> IF i = 0 THEN b ELSE Replayed(h[i - 1], q[i])]
<1>4. Len(q) \in Nat /\ \A i \in 1..Len(q) : q[i] \in M
  BY <1>b, LenProperties, ElementOfSeq
<1>5. f = steps(f)
  <2>1. f \in [0..Len(q) -> S] /\ f[0] = b
    BY <1>3 DEF IsRun, Goes
  <2>2. ASSUME NEW i \in 1..Len(q) PROVE f[i] = Replayed(f[i - 1], q[i])
    <3>1. i - 1 \in 0..Len(q)
      BY <1>4
    <3>2. f[i] = g[<<f[i - 1], q[i]>>] /\ f[i - 1] \in S /\ q[i] \in M
      BY <1>3, <1>4, <2>1, <3>1 DEF IsRun, Goes
    <3> QED
      BY <1>1, <3>2
  <2> QED
    BY <1>4, <2>1, <2>2
<1> DEFINE h == CHOOSE h : h = steps(h)
<1>6. h = steps(h)
  <2> HIDE DEF steps
  <2> QED
    BY <1>5
<1>7. \A k \in 0..Len(q) : h[k] = f[k]
  <2>1. h[0] = f[0]
    <3> HIDE DEF h
    <3> QED
      BY <1>4, <1>5, <1>6
  <2>2. ASSUME NEW i \in 1..Len(q), h[i - 1] = f[i - 1] PROVE h[i] = f[i]
    <3> HIDE DEF h
    <3>1. i \in 0..Len(q) /\ i # 0
      BY <1>4
    <3>2. steps(h)[i] = Replayed(h[i - 1], q[i]) /\ steps(f)[i] = Replayed(f[i - 1], q[i])
      BY <3>1
    <3> QED
      BY <1>5, <1>6, <2>2, <3>2
  <2> HIDE DEF h
  <2> QED
    BY <1>4, <2>1, <2>2, SameRun
<1>8. ReplayedAll(b, q) = h[Len(q)]
  BY DEF ReplayedAll, Fold
<1>9. h[Len(q)] = f[Len(q)]
  <2> HIDE DEF h
  <2> QED
    BY <1>4, <1>7
<1> HIDE DEF h, steps
<1>10. ReplayedAll(b, q) = f[Len(q)]
  BY <1>8, <1>9
<1>11. CASE q = << >>
  <2>1. Len(q) = 0
    BY <1>11, EmptySeq
  <2>2. f[0] = b
    BY <1>3 DEF IsRun, Goes
  <2> QED
    BY <1>10, <1>11, <2>1, <2>2
<1>12. CASE q # << >>
  <2>1. Len(q) # 0 /\ Len(q) \in 1..Len(q) /\ Len(q) - 1 \in 0..Len(q)
    BY <1>4, <1>12, <1>b, EmptySeq
  <2>2. f[Len(q)] = g[<<f[Len(q) - 1], q[Len(q)]>>] /\ f[Len(q) - 1] \in S /\ q[Len(q)] \in M
    BY <1>3, <1>4, <2>1 DEF IsRun, Goes
  <2>3. f[Len(q)] = Replayed(f[Len(q) - 1], q[Len(q)])
    BY <1>1, <2>2
  <2>4. f[Len(q) - 1] \in Rolls(r, B)
    BY <2>2 DEF S
  <2> QED
    BY <1>10, <1>12, <2>1, <2>3, <2>4
<1> QED
  BY <1>11, <1>12


(* What is known early is known later. *)
LEMMA KnownGrows == \A A, B \in Nat : A <= B => Known(A) \subseteq Known(B)
BY DEF Known, States

(* The parts of a runtime. *)
LEMMA RuntimeFacts ==
  ASSUME NEW r, RuntimeOK(r)
  PROVE  /\ r \in Runtimes /\ r.seq \in Counts /\ r.tick \in Counts /\ r.tick \in Nat
         /\ r.cur \in States /\ r.cur \in Known(r.tick) /\ r.cur.tick \in Nat /\ r.cur.tick < r.tick
         /\ r.ih \in Seq(Sent(r.seq, r.tick)) /\ Len(r.ih) <= InputCap
         /\ r.ph \in Seq(Known(r.tick)) /\ Len(r.ph) \in 1..StateCap /\ Len(r.ph) <= StateCap
         /\ r.ph # << >> /\ Last(r.ph) \in Known(r.tick)
         /\ r.ack.seq \in Nat /\ r.ack.tick \in Nat /\ r.soft \in BaseSoft..MaxSoft
<1>1. /\ r \in Runtimes /\ r.cur \in Known(r.tick) /\ r.ih \in Seq(Sent(r.seq, r.tick)) /\ Len(r.ih) <= InputCap
      /\ r.ph \in Seq(Known(r.tick)) /\ Len(r.ph) \in 1..StateCap
  BY DEF RuntimeOK
<1>2. /\ r.seq \in Counts /\ r.tick \in Counts /\ r.tick \in Nat /\ r.ack.seq \in Nat /\ r.ack.tick \in Nat
      /\ r.soft \in BaseSoft..MaxSoft
  BY <1>1 DEF Runtimes, Counts
<1>3. r.cur \in States /\ r.cur.tick < r.tick /\ r.cur.tick \in Nat
  BY <1>1 DEF Known, States
<1>4. Len(r.ph) <= StateCap /\ Len(r.ph) # 0
  BY <1>1, Constants DEF Counts
<1>5. r.ph # << >>
  BY <1>4, EmptySeq
<1>6. Last(r.ph) \in Known(r.tick)
  BY <1>1, <1>5, LastFacts
<1> QED
  BY <1>1, <1>2, <1>3, <1>4, <1>5, <1>6

(* The prediction idles up to the tick of an ack. *)
LEMMA ExtendFacts ==
  ASSUME NEW r, RuntimeOK(r), NEW t \in Nat, NEW B \in Nat, r.tick <= B, t < B
  PROVE  LET e == Extend(r, t)
         IN  /\ e \in Rolls(r, B) /\ Len(e.ph) \in 1..StateCap
             /\ t <= r.cur.tick => e = r
             /\ r.cur.tick < t => e.cur.tick = t /\ Last(e.ph) = e.cur
<1>1. /\ r \in Runtimes /\ r.tick \in Nat /\ r.cur \in Known(r.tick) /\ r.cur.tick \in Nat
      /\ r.ph \in Seq(Known(r.tick)) /\ Len(r.ph) \in 1..StateCap /\ Len(r.ph) <= StateCap
  BY RuntimeFacts
<1>2. Known(r.tick) \subseteq Known(B)
  BY <1>1, KnownGrows
<1>3. r.cur \in Known(B) /\ r.ph \in Seq(Known(B))
  BY <1>1, <1>2, SeqMonotonic
<1>4. r \in Rolls(r, B)
  BY <1>1, <1>3 DEF Rolls, Alike
<1>5. CASE t <= r.cur.tick
  <2>1. Extend(r, t) = r
    BY <1>5 DEF Extend
  <2>2. ~(r.cur.tick < t)
    BY <1>1, <1>5
  <2> QED
    BY <1>1, <1>4, <2>1, <2>2
<1>6. CASE ~(t <= r.cur.tick)
  <2> DEFINE n == t - r.cur.tick
  <2> DEFINE q == [i \in 1..n |-> r.cur.tick + i]
  <2> DEFINE M == {k \in Nat : k < B}
  <2>1. n \in Nat /\ n # 0 /\ r.cur.tick < t
    BY <1>1, <1>6
  <2>2. \A i \in 1..n : r.cur.tick + i \in M
    BY <1>1, <2>1
  <2>3. q \in [1..n -> M] /\ q[n] = t
    <3>1. n \in 1..n /\ r.cur.tick + n = t
      BY <1>1, <2>1
    <3> HIDE DEF n, M
    <3> QED
      BY <2>2, <3>1
  <2>4. Extend(r, t) = IdledThrough(r, q)
    BY <1>6 DEF Extend
  <2> HIDE DEF n, q, M
  <2>5. q \in Seq(M)
    BY <2>1, <2>3, SeqDef
  <2>6. Len(q) = n
    <3>1. DOMAIN q = 1..n /\ DOMAIN q = 1..Len(q) /\ Len(q) \in Nat
      BY <2>3, <2>5, LenProperties
    <3> QED
      BY <2>1, <3>1
  <2>7. q # << >>
    BY <2>1, <2>6, EmptySeq
  <2>8. PICK y \in Rolls(r, B) : IdledThrough(r, q) = Idled(y, q[Len(q)])
    BY <1>4, <2>5, <2>7, IdledRuns DEF M
  <2>9. Extend(r, t) = Idled(y, t)
    BY <2>3, <2>4, <2>6, <2>8
  <2>10. /\ Idled(y, t) \in Rolls(r, B) /\ Idled(y, t).cur.tick = t
         /\ Last(Idled(y, t).ph) = Idled(y, t).cur /\ Len(Idled(y, t).ph) \in 1..StateCap
    BY IdledTyped
  <2> QED
    BY <1>6, <2>9, <2>10
<1> QED
  BY <1>5, <1>6

(* Inputs are replayed on top of what the server says. *)
LEMMA ReplayFacts ==
  ASSUME NEW r \in Runtimes, NEW B \in Nat, NEW ring \in Seq(Known(B)), Len(ring) <= StateCap,
         NEW auth \in Known(B), NEW frames \in Seq(Sent(r.seq, B)), NEW x, x = ReplayOn(r, ring, auth, frames)
  PROVE  /\ x \in Runtimes /\ x.seq = r.seq /\ x.tick = r.tick /\ x.ack = r.ack /\ x.soft = r.soft
         /\ x.cur \in Known(B) /\ x.ph \in Seq(Known(B)) /\ Len(x.ph) <= StateCap
         /\ (x.ih = r.ih \/ x.ih = RetainRecent(r.ih, MaxPending))
         /\ (frames = << >> => x.cur = auth /\ x.ph = ring)
         /\ (frames # << >> => Last(x.ph) = x.cur /\ Len(x.ph) \in 1..StateCap)
<1> DEFINE ih == IF Trimmed(frames) THEN RetainRecent(r.ih, MaxPending) ELSE r.ih
<1> DEFINE b == [r EXCEPT !.cur = auth, !.ph = ring,
                          !.ih = IF Trimmed(frames) THEN RetainRecent(@, MaxPending) ELSE @]
<1> DEFINE q == RetainRecent(frames, MaxReplay)
<1> DEFINE M == {k \in Frames : k.tick < B}
<1>1. r.ih \in Seq(Frames) /\ auth \in States /\ Known(B) \subseteq States
  BY DEF Runtimes, Known
<1>2. ih \in Seq(Frames) /\ (ih = r.ih \/ ih = RetainRecent(r.ih, MaxPending))
  <2>1. RetainRecent(r.ih, MaxPending) \in Seq(Frames)
    BY <1>1, Constants, RecentFacts
  <2> QED
    BY <1>1, <2>1
<1>3. ring \in Seq(States)
  BY <1>1, SeqMonotonic
<1>4. b = [r EXCEPT !.cur = auth, !.ph = ring, !.ih = ih]
  BY DEF Runtimes
<1> HIDE DEF ih, b
<1>5. /\ b \in Runtimes /\ b.seq = r.seq /\ b.tick = r.tick /\ b.ack = r.ack /\ b.soft = r.soft
      /\ b.cur = auth /\ b.ph = ring /\ b.ih = ih
  BY <1>1, <1>2, <1>3, <1>4 DEF Runtimes
<1>6. b \in Rolls(b, B)
  BY <1>5 DEF Rolls, Alike
<1>7. q \in Seq(M) /\ (q = << >> <=> frames = << >>)
  <2>1. q \in Seq(Sent(r.seq, B)) /\ (q = << >> <=> frames = << >>)
    BY Constants, RecentFacts
  <2>2. Sent(r.seq, B) \subseteq M
    BY DEF Sent
  <2> HIDE DEF M, q
  <2> QED
    BY <2>1, <2>2, SeqMonotonic
<1>8. x = ReplayedAll(b, q)
  BY DEF ReplayOn, b
<1> HIDE DEF q
<1>9. CASE frames = << >>
  <2>1. q = << >>
    BY <1>7, <1>9
  <2>2. ReplayedAll(b, q) = b
    BY <1>6, <1>7, <2>1, ReplayedRuns
  <2> QED
    BY <1>2, <1>5, <1>8, <1>9, <2>1, <2>2
<1>10. CASE frames # << >>
  <2>1. PICK y \in Rolls(b, B) : ReplayedAll(b, q) = Replayed(y, q[Len(q)])
    BY <1>6, <1>7, <1>10, ReplayedRuns
  <2>5. x = Replayed(y, q[Len(q)])
    BY <1>8, <2>1
  <2>2. q[Len(q)] \in M
    <3> HIDE DEF M
    <3> QED
      BY <1>7, <1>10, LastFacts
  <2>3. x \in Rolls(b, B) /\ Last(x.ph) = x.cur /\ Len(x.ph) \in 1..StateCap
    BY <2>2, <2>5, ReplayedTyped
  <2>4. /\ x \in Runtimes /\ x.seq = b.seq /\ x.tick = b.tick /\ x.ih = b.ih /\ x.ack = b.ack /\ x.soft = b.soft
        /\ x.cur \in Known(B) /\ x.ph \in Seq(Known(B)) /\ Len(x.ph) <= StateCap
    BY <2>3 DEF Rolls, Alike
  <2> QED
    BY <1>2, <1>5, <1>10, <2>3, <2>4
<1> QED
  BY <1>9, <1>10

--------------------------------------------------------------------------------
(* One ack is reconciled.                                                       *)

(* What becomes of the inputs: none or the last ones are left, within bounds.   *)
KeepsInputs(x, r, auth) ==
  LET p == StillPending(r.ih, auth)
  IN  /\ x.ih \in Seq(Sent(r.seq, r.tick)) /\ Len(x.ih) <= InputCap
      /\ x.ih # << >> => p # << >> /\ Last(x.ih) = Last(p)
(* And of the runtime otherwise. *)
Reconciled(x, r, auth) ==
  /\ x \in Runtimes /\ x.seq = r.seq /\ x.tick = r.tick /\ x.ack = r.ack /\ x.soft = r.soft
  /\ x.cur \in Known(r.tick) /\ x.ph \in Seq(Known(r.tick)) /\ Len(x.ph) \in 1..StateCap
  /\ KeepsInputs(x, r, auth)
(* The prediction is the server's state; or the newest that was predicted, with *)
(* the server's state older or no match at all; or replayed to a newer one.     *)
Outcome(x, r, auth) ==
  \/ x.cur = auth
  \/ /\ x.cur = Last(r.ph) /\ x.ph = r.ph /\ auth.tick < Last(r.ph).tick
     /\ x.ih = StillPending(r.ih, auth)
  \/ /\ x.cur = Last(r.ph) /\ Last(x.ph) = auth /\ Matches(r.ph, auth) = {}
     /\ StillPending(r.ih, auth) = << >> /\ x.ih = << >>
  \/ StillPending(r.ih, auth) # << >> /\ x.ih # << >> /\ Last(x.ph) = x.cur

(* What is pending was sent. *)
LEMMA PendingSent ==
  ASSUME NEW r, RuntimeOK(r), NEW auth
  PROVE  LET p == StillPending(r.ih, auth)
         IN  /\ p \in Seq(Sent(r.seq, r.tick)) /\ p \in Seq(Frames) /\ Len(p) <= InputCap
             /\ StillPending(p, auth) \in Seq(Sent(r.seq, r.tick))
             /\ StillPending(p, auth) = << >> <=> p = << >>
<1> DEFINE p == StillPending(r.ih, auth)
<1> DEFINE p2 == StillPending(p, auth)
<1>1. r.ih \in Seq(Sent(r.seq, r.tick)) /\ Len(r.ih) <= InputCap /\ Len(r.ih) \in Nat
  BY RuntimeFacts, LenProperties
<1>2. p \in Seq(Sent(r.seq, r.tick)) /\ Len(p) <= Len(r.ih) /\ (p # << >> => Outlasts(p[1], auth))
  BY <1>1, PendingFacts
<1> HIDE DEF p
<1>3. /\ p2 \in Seq(Sent(r.seq, r.tick)) /\ (p2 # << >> => p # << >>)
      /\ p2 = << >> => \A i \in 1..Len(p) : ~Outlasts(p[i], auth)
  BY <1>2, PendingFacts
<1> HIDE DEF p2
<1>4. p # << >> => p2 # << >>
  <2> SUFFICES ASSUME p # << >> PROVE p2 # << >>
    OBVIOUS
  <2>1. 1 \in 1..Len(p)
    BY <1>2, EmptySeq
  <2> QED
    BY <1>2, <1>3, <2>1
<1>5. Sent(r.seq, r.tick) \subseteq Frames
  BY DEF Sent
<1>6. p \in Seq(Frames)
  BY <1>2, <1>5, SeqMonotonic
<1>7. Len(p) <= InputCap
  BY <1>1, <1>2, LenProperties, Constants DEF Counts
<1> QED
  BY <1>2, <1>3, <1>4, <1>6, <1>7 DEF p, p2

(* The runtime without the inputs the ack answers. *)
Dropped(r, auth) == [r EXCEPT !.ih = StillPending(@, auth)]
LEMMA DroppedFacts ==
  ASSUME NEW r, RuntimeOK(r), NEW auth, NEW d, d = Dropped(r, auth)
  PROVE  /\ d \in Runtimes /\ d.seq = r.seq /\ d.tick = r.tick /\ d.ack = r.ack /\ d.soft = r.soft
         /\ d.cur = r.cur /\ d.ph = r.ph /\ d.ih = StillPending(r.ih, auth) /\ KeepsInputs(d, r, auth)
         /\ RuntimeOK(d)
<1> DEFINE p == StillPending(r.ih, auth)
<1>1. p \in Seq(Sent(r.seq, r.tick)) /\ p \in Seq(Frames) /\ Len(p) <= InputCap
  BY PendingSent
<1>2. r \in Runtimes
  BY RuntimeFacts
<1>3. d = [r EXCEPT !.ih = p]
  BY <1>2 DEF Runtimes, Dropped
<1> HIDE DEF p
<1>4. /\ d \in Runtimes /\ d.seq = r.seq /\ d.tick = r.tick /\ d.ack = r.ack /\ d.soft = r.soft
      /\ d.cur = r.cur /\ d.ph = r.ph /\ d.ih = p
  BY <1>1, <1>2, <1>3 DEF Runtimes
<1>5. KeepsInputs(d, r, auth)
  BY <1>1, <1>4 DEF KeepsInputs, p
<1>6. RuntimeOK(d)
  BY <1>1, <1>4, RuntimeFacts DEF RuntimeOK
<1> QED
  BY <1>4, <1>5, <1>6 DEF p

(* The client takes the server's word and forgets the rest. *)
LEMMA SnapReconciles ==
  ASSUME NEW r, RuntimeOK(r), NEW auth \in Known(r.tick), NEW d, d = Dropped(r, auth)
  PROVE  Reconciled(Snap(d, auth), r, auth) /\ Outcome(Snap(d, auth), r, auth)
<1> DEFINE x == Snap(d, auth)
<1>1. auth \in States /\ d \in Runtimes /\ d.seq = r.seq /\ d.tick = r.tick /\ d.ack = r.ack /\ d.soft = r.soft
  BY DroppedFacts DEF Known
<1>2. << >> \in Seq(Frames) /\ << >> \in Seq(Sent(r.seq, r.tick)) /\ Len(<< >>) = 0
  BY EmptySeq
<1>3. <<auth>> \in Seq(States) /\ <<auth>> \in Seq(Known(r.tick)) /\ Len(<<auth>>) = 1
  BY <1>1
<1>4. x = [d EXCEPT !.cur = auth, !.ih = << >>, !.ph = <<auth>>]
  BY DEF Snap
<1>5. /\ x \in Runtimes /\ x.seq = r.seq /\ x.tick = r.tick /\ x.ack = r.ack /\ x.soft = r.soft
      /\ x.cur = auth /\ x.ih = << >> /\ x.ph = <<auth>>
  BY <1>1, <1>2, <1>3, <1>4 DEF Runtimes
<1> HIDE DEF x
<1>6. Len(x.ih) <= InputCap /\ Len(x.ph) \in 1..StateCap
  BY <1>2, <1>3, <1>5, Constants DEF Counts
<1>7. KeepsInputs(x, r, auth)
  BY <1>2, <1>5, <1>6 DEF KeepsInputs
<1> QED
  BY <1>3, <1>5, <1>6, <1>7 DEF Reconciled, Outcome, x

(* A new prediction and history, the inputs as they are. *)
Recast(d, s, ring) == [d EXCEPT !.cur = s, !.ph = ring]
LEMMA Reshaped ==
  ASSUME NEW r, RuntimeOK(r), NEW auth, NEW d, d = Dropped(r, auth),
         NEW s \in Known(r.tick), NEW ring \in Seq(Known(r.tick)), Len(ring) \in 1..StateCap,
         NEW x, x = Recast(d, s, ring)
  PROVE  Reconciled(x, r, auth) /\ x.cur = s /\ x.ph = ring /\ x.ih = d.ih
<1>1. /\ d \in Runtimes /\ d.seq = r.seq /\ d.tick = r.tick /\ d.ack = r.ack /\ d.soft = r.soft
      /\ KeepsInputs(d, r, auth)
  BY DroppedFacts
<1>2. s \in States /\ Known(r.tick) \subseteq States
  BY DEF Known
<1>3. ring \in Seq(States)
  BY <1>2, SeqMonotonic
<1>4. /\ x \in Runtimes /\ x.seq = r.seq /\ x.tick = r.tick /\ x.ack = r.ack /\ x.soft = r.soft
      /\ x.cur = s /\ x.ph = ring /\ x.ih = d.ih
  BY <1>1, <1>2, <1>3 DEF Runtimes, Recast
<1>5. KeepsInputs(x, r, auth)
  BY <1>1, <1>4 DEF KeepsInputs
<1> QED
  BY <1>4, <1>5 DEF Reconciled

(* The history after what the server says is pushed on some of it. *)
LEMMA PushKnown ==
  ASSUME NEW r, RuntimeOK(r), NEW auth \in Known(r.tick), NEW ring \in Seq(Known(r.tick)), Len(ring) <= Len(r.ph)
  PROVE  /\ Push(ring, auth, StateCap) \in Seq(Known(r.tick)) /\ Len(Push(ring, auth, StateCap)) \in 1..StateCap
         /\ Last(Push(ring, auth, StateCap)) = auth
<1>1. StateCap \in Counts /\ StateCap \in Nat /\ Len(r.ph) <= StateCap /\ Len(r.ph) \in Nat /\ Len(ring) \in Nat
  BY Constants, RuntimeFacts, LenProperties DEF Counts
<1>2. Len(ring) <= StateCap
  BY <1>1
<1> QED
  BY <1>1, <1>2, PushFacts

(* The history cut after a tick or an input. *)
LEMMA TruncatedFacts ==
  ASSUME NEW r, RuntimeOK(r), NEW n
  PROVE  /\ TruncateAfterSeq(r.ph, n) \in Seq(Known(r.tick)) /\ Len(TruncateAfterSeq(r.ph, n)) <= Len(r.ph)
         /\ TruncateAfterTick(r.ph, n) \in Seq(Known(r.tick)) /\ Len(TruncateAfterTick(r.ph, n)) <= Len(r.ph)
         /\ \A i \in 1..Len(r.ph) : /\ r.ph[i].seq <= n => Len(TruncateAfterSeq(r.ph, n)) >= 1
                                    /\ r.ph[i].tick <= n => Len(TruncateAfterTick(r.ph, n)) >= 1
<1> DEFINE bySeq == {i \in DOMAIN r.ph : r.ph[i].seq <= n}
<1> DEFINE byTick == {i \in DOMAIN r.ph : r.ph[i].tick <= n}
<1>1. r.ph \in Seq(Known(r.tick)) /\ DOMAIN r.ph = 1..Len(r.ph)
  BY RuntimeFacts, LenProperties
<1>2. bySeq \in SUBSET (1..Len(r.ph)) /\ byTick \in SUBSET (1..Len(r.ph))
  BY <1>1
<1>3. \A i \in 1..Len(r.ph) : (r.ph[i].seq <= n => bySeq # {}) /\ (r.ph[i].tick <= n => byTick # {})
  BY <1>1
<1>4. TruncateAfterSeq(r.ph, n) = UpTo(r.ph, bySeq) /\ TruncateAfterTick(r.ph, n) = UpTo(r.ph, byTick)
  BY DEF TruncateAfterSeq, TruncateAfterTick
<1> HIDE DEF bySeq, byTick
<1>5. /\ UpTo(r.ph, bySeq) \in Seq(Known(r.tick)) /\ Len(UpTo(r.ph, bySeq)) <= Len(r.ph)
      /\ bySeq # {} => Len(UpTo(r.ph, bySeq)) >= 1
  BY <1>1, <1>2, UpToFacts
<1>6. /\ UpTo(r.ph, byTick) \in Seq(Known(r.tick)) /\ Len(UpTo(r.ph, byTick)) <= Len(r.ph)
      /\ byTick # {} => Len(UpTo(r.ph, byTick)) >= 1
  BY <1>1, <1>2, UpToFacts
<1> QED
  BY <1>3, <1>4, <1>5, <1>6

(* The server's status is taken, what is pending left where it is. *)
LEMMA OverrideReconciles ==
  ASSUME NEW r, RuntimeOK(r), NEW auth \in Known(r.tick), NEW d, d = Dropped(r, auth)
  PROVE  Reconciled(Override(d, auth), r, auth) /\ Outcome(Override(d, auth), r, auth)
<1> DEFINE kept == IF auth.seq > 0 THEN TruncateAfterSeq(r.ph, auth.seq) ELSE TruncateAfterTick(r.ph, auth.tick)
<1> DEFINE ring == Push(kept, auth, StateCap)
<1>1. d \in Runtimes /\ d.ph = r.ph
  BY DroppedFacts
<1>2. Override(d, auth) = Recast(d, auth, ring)
  BY <1>1 DEF Override, Recast
<1>3. kept \in Seq(Known(r.tick)) /\ Len(kept) <= Len(r.ph)
  BY TruncatedFacts
<1> HIDE DEF kept
<1>4. ring \in Seq(Known(r.tick)) /\ Len(ring) \in 1..StateCap
  BY <1>3, PushKnown
<1> HIDE DEF ring
<1> DEFINE x == Recast(d, auth, ring)
<1>x. x = Recast(d, auth, ring)
  OBVIOUS
<1> HIDE DEF x
<1>5. Reconciled(x, r, auth) /\ x.cur = auth
  BY <1>4, <1>x, Reshaped
<1>6. Outcome(x, r, auth)
  BY <1>5 DEF Outcome
<1> QED
  BY <1>2, <1>5, <1>6 DEF x

(* The prediction is kept. *)
LEMMA AcceptReconciles ==
  ASSUME NEW r, RuntimeOK(r), NEW auth \in Known(r.tick), NEW d, d = Dropped(r, auth)
  PROVE  Reconciled(Accept(d, auth), r, auth) /\ Outcome(Accept(d, auth), r, auth)
<1>1. d \in Runtimes /\ d.ph = r.ph
  BY DroppedFacts
<1>2. /\ r.ph # << >> /\ r.ph \in Seq(Known(r.tick)) /\ Len(r.ph) \in 1..StateCap /\ Len(r.ph) <= Len(r.ph)
      /\ Last(r.ph) \in Known(r.tick) /\ Last(r.ph).tick \in Nat /\ auth.tick \in Nat
  <2>1. Last(r.ph) \in Known(r.tick) /\ r.ph \in Seq(Known(r.tick)) /\ Len(r.ph) \in 1..StateCap /\ r.ph # << >>
    BY RuntimeFacts
  <2>2. Last(r.ph).tick \in Nat /\ auth.tick \in Nat
    BY <2>1 DEF Known, States
  <2>3. Len(r.ph) \in Nat
    BY <2>1, LenProperties
  <2> QED
    BY <2>1, <2>2, <2>3
<1>3. CASE auth.tick >= Last(r.ph).tick
  <2> DEFINE ring == Push(r.ph, auth, StateCap)
  <2> DEFINE x == Recast(d, auth, ring)
  <2>1. Accept(d, auth) = x
    BY <1>1, <1>3 DEF Accept, Recast
  <2>2. ring \in Seq(Known(r.tick)) /\ Len(ring) \in 1..StateCap
    BY <1>2, PushKnown
  <2> HIDE DEF ring
  <2>x. x = Recast(d, auth, ring)
    OBVIOUS
  <2> HIDE DEF x
  <2>3. Reconciled(x, r, auth) /\ x.cur = auth
    BY <2>2, <2>x, Reshaped
  <2> QED
    BY <2>1, <2>3 DEF Outcome
<1>4. CASE ~(auth.tick >= Last(r.ph).tick)
  <2> DEFINE x == Recast(d, Last(r.ph), r.ph)
  <2>1. Accept(d, auth) = [d EXCEPT !.cur = Last(r.ph)]
    BY <1>1, <1>2, <1>4 DEF Accept
  <2>2. Accept(d, auth) = x
    BY <1>1, <2>1 DEF Runtimes, Recast
  <2>x. x = Recast(d, Last(r.ph), r.ph)
    OBVIOUS
  <2> HIDE DEF x
  <2>3. Reconciled(x, r, auth) /\ x.cur = Last(r.ph) /\ x.ph = r.ph /\ x.ih = StillPending(r.ih, auth)
    BY <1>2, <2>x, Reshaped, DroppedFacts
  <2>4. auth.tick < Last(r.ph).tick
    BY <1>2, <1>4
  <2> QED
    BY <2>2, <2>3, <2>4 DEF Outcome
<1> QED
  BY <1>3, <1>4


(* What is pending is replayed on a history known before. *)
LEMMA ReplayReconciles ==
  ASSUME NEW r, RuntimeOK(r), NEW auth \in Known(r.tick), NEW d, d = Dropped(r, auth),
         NEW ring \in Seq(Known(r.tick)), Len(ring) \in 1..StateCap,
         NEW x, x = ReplayOn(d, ring, auth, StillPending(d.ih, auth))
  PROVE  Reconciled(x, r, auth) /\ Outcome(x, r, auth)
<1> DEFINE p == StillPending(r.ih, auth)
<1> DEFINE p2 == StillPending(p, auth)
<1>1. /\ p \in Seq(Sent(r.seq, r.tick)) /\ p \in Seq(Frames) /\ Len(p) <= InputCap
      /\ p2 \in Seq(Sent(r.seq, r.tick)) /\ (p2 = << >> <=> p = << >>)
  BY PendingSent
<1>2. /\ d \in Runtimes /\ d.seq = r.seq /\ d.tick = r.tick /\ d.ack = r.ack /\ d.soft = r.soft
      /\ d.ih = p
  BY DroppedFacts
<1>3. Len(ring) <= StateCap /\ r.tick \in Nat /\ MaxPending \in Counts /\ InputCap \in Nat /\ Len(p) \in Nat
  BY <1>1, Constants, RuntimeFacts, LenProperties DEF Counts
<1>4. x = ReplayOn(d, ring, auth, p2)
  BY <1>2
<1> DEFINE k == RetainRecent(p, MaxPending)
<1>5. /\ k \in Seq(Sent(r.seq, r.tick)) /\ Len(k) <= Len(p) /\ (k = << >> <=> p = << >>)
      /\ p # << >> => Last(k) = Last(p)
  BY <1>1, <1>3, RecentFacts
<1>6. Len(k) \in Nat
  <2> HIDE DEF k
  <2> QED
    BY <1>5, LenProperties
<1> HIDE DEF p2, p, k
<1>p. p2 \in Seq(Sent(d.seq, r.tick)) /\ d \in Runtimes /\ r.tick \in Nat /\ Len(ring) <= StateCap
  BY <1>1, <1>2, <1>3
<1>7. /\ x \in Runtimes /\ x.seq = d.seq /\ x.tick = d.tick /\ x.ack = d.ack /\ x.soft = d.soft
      /\ x.cur \in Known(r.tick) /\ x.ph \in Seq(Known(r.tick)) /\ Len(x.ph) <= StateCap
      /\ (x.ih = d.ih \/ x.ih = RetainRecent(d.ih, MaxPending))
      /\ (p2 = << >> => x.cur = auth /\ x.ph = ring)
      /\ (p2 # << >> => Last(x.ph) = x.cur /\ Len(x.ph) \in 1..StateCap)
  BY <1>4, <1>p, ReplayFacts
<1>8. x.ih = p \/ x.ih = k
  BY <1>2, <1>7 DEF k
<1>9. KeepsInputs(x, r, auth)
  <2>1. x.ih \in Seq(Sent(r.seq, r.tick)) /\ Len(x.ih) <= InputCap
    BY <1>1, <1>3, <1>5, <1>6, <1>8
  <2>2. x.ih # << >> => p # << >> /\ Last(x.ih) = Last(p)
    BY <1>5, <1>8
  <2> QED
    BY <2>1, <2>2 DEF KeepsInputs, p
<1>10. Len(x.ph) \in 1..StateCap
  BY <1>7
<1>11. Reconciled(x, r, auth)
  BY <1>2, <1>7, <1>9, <1>10 DEF Reconciled
<1>12. Outcome(x, r, auth)
  <2>1. CASE p = << >>
    BY <1>1, <1>7, <2>1 DEF Outcome
  <2>2. CASE p # << >>
    BY <1>1, <1>5, <1>7, <1>8, <2>2 DEF Outcome, p
  <2> QED
    BY <2>1, <2>2
<1> QED
  BY <1>11, <1>12

(* The prediction is rewound to the match. *)
LEMMA RewindReconciles ==
  ASSUME NEW r, RuntimeOK(r), NEW auth \in Known(r.tick), NEW d, d = Dropped(r, auth), NEW i \in 1..Len(r.ph)
  PROVE  Reconciled(Rewind(d, r.ph[i], auth), r, auth) /\ Outcome(Rewind(d, r.ph[i], auth), r, auth)
<1> DEFINE m == r.ph[i]
<1> DEFINE kept == IF m.seq > 0 THEN TruncateAfterSeq(r.ph, m.seq) ELSE TruncateAfterTick(r.ph, m.tick)
<1>1. d.ph = r.ph
  BY DroppedFacts
<1>2. Rewind(d, m, auth) = ReplayOn(d, kept, auth, StillPending(d.ih, auth))
  BY <1>1 DEF Rewind
<1>3. m.seq \in Nat /\ m.tick \in Nat
  <2>1. m \in Known(r.tick)
    BY RuntimeFacts, ElementOfSeq
  <2> QED
    BY <2>1 DEF Known, States
<1>4. kept \in Seq(Known(r.tick)) /\ Len(kept) <= Len(r.ph) /\ Len(kept) >= 1
  <2>1. m.seq <= m.seq /\ m.tick <= m.tick
    BY <1>3
  <2> QED
    BY <2>1, TruncatedFacts
<1> HIDE DEF kept, m
<1>5. Len(kept) \in 1..StateCap
  BY <1>4, RuntimeFacts, LenProperties, Constants DEF Counts
<1> DEFINE x == Rewind(d, m, auth)
<1>x. x = ReplayOn(d, kept, auth, StillPending(d.ih, auth))
  BY <1>2
<1> HIDE DEF x
<1>6. Reconciled(x, r, auth) /\ Outcome(x, r, auth)
  BY <1>4, <1>5, <1>x, ReplayReconciles
<1> QED
  BY <1>6 DEF x, m

(* There is nothing to compare with. *)
LEMMA UnmatchedReconciles ==
  ASSUME NEW r, RuntimeOK(r), NEW auth \in Known(r.tick), NEW d, d = Dropped(r, auth), Matches(r.ph, auth) = {}
  PROVE  Reconciled(WithoutMatch(d, auth), r, auth) /\ Outcome(WithoutMatch(d, auth), r, auth)
<1> DEFINE p == StillPending(r.ih, auth)
<1> DEFINE ring == Push(r.ph, auth, StateCap)
<1>1. d.ph = r.ph /\ d.ih = p /\ d \in Runtimes
  BY DroppedFacts
<1>2. r.ph # << >> /\ Last(r.ph) \in Known(r.tick) /\ r.ph \in Seq(Known(r.tick)) /\ Len(r.ph) <= Len(r.ph)
  <2>1. r.ph # << >> /\ Last(r.ph) \in Known(r.tick) /\ r.ph \in Seq(Known(r.tick))
    BY RuntimeFacts
  <2>2. Len(r.ph) \in Nat
    BY <2>1, LenProperties
  <2> QED
    BY <2>1, <2>2
<1>3. ring \in Seq(Known(r.tick)) /\ Len(ring) \in 1..StateCap /\ Last(ring) = auth
  BY <1>2, PushKnown
<1>4. StillPending(p, auth) = << >> <=> p = << >>
  BY PendingSent
<1>5. WithoutMatch(d, auth) =
        IF Gap(Last(r.ph), auth) >= Hard THEN Snap(d, auth)
        ELSE IF StillPending(p, auth) = << >> THEN [d EXCEPT !.cur = Last(r.ph), !.ph = ring]
        ELSE ReplayOn(d, ring, auth, StillPending(d.ih, auth))
  BY <1>1, <1>2 DEF WithoutMatch
<1> HIDE DEF ring, p
<1>6. CASE Gap(Last(r.ph), auth) >= Hard
  BY <1>5, <1>6, SnapReconciles
<1>7. CASE ~(Gap(Last(r.ph), auth) >= Hard) /\ p = << >>
  <2> DEFINE x == Recast(d, Last(r.ph), ring)
  <2>1. WithoutMatch(d, auth) = x
    BY <1>4, <1>5, <1>7 DEF Recast
  <2>x. x = Recast(d, Last(r.ph), ring)
    OBVIOUS
  <2> HIDE DEF x
  <2>2. Reconciled(x, r, auth) /\ x.cur = Last(r.ph) /\ x.ph = ring /\ x.ih = d.ih
    BY <1>2, <1>3, <2>x, Reshaped
  <2>3. Outcome(x, r, auth)
    BY <1>1, <1>3, <1>7, <2>2 DEF Outcome, p
  <2> QED
    BY <2>1, <2>2, <2>3
<1>8. CASE ~(Gap(Last(r.ph), auth) >= Hard) /\ p # << >>
  <2>1. WithoutMatch(d, auth) = ReplayOn(d, ring, auth, StillPending(d.ih, auth))
    BY <1>4, <1>5, <1>8
  <2> DEFINE x == WithoutMatch(d, auth)
  <2>x. x = ReplayOn(d, ring, auth, StillPending(d.ih, auth))
    BY <2>1
  <2> HIDE DEF x
  <2>2. Reconciled(x, r, auth) /\ Outcome(x, r, auth)
    BY <1>3, <2>x, ReplayReconciles
  <2> QED
    BY <2>2 DEF x
<1> QED
  BY <1>6, <1>7, <1>8

(* The places of matches are places of the history. *)
LEMMA MatchFacts ==
  ASSUME NEW r, RuntimeOK(r), NEW auth \in Known(r.tick)
  PROVE  /\ Matches(r.ph, auth) # {} => Min(Matches(r.ph, auth)) \in 1..Len(r.ph)
         /\ Matches(r.ph, auth) = {} => \A i \in 1..Len(r.ph) :
               r.ph[i].tick # auth.tick /\ (r.ph[i].seq = auth.seq => auth.seq = 0)
<1>1. DOMAIN r.ph = 1..Len(r.ph) /\ Len(r.ph) \in Nat
  BY RuntimeFacts, LenProperties
<1>2. Matches(r.ph, auth) \subseteq 1..Len(r.ph)
  BY <1>1 DEF Matches
<1>3. Matches(r.ph, auth) \in SUBSET Nat
  BY <1>1, <1>2
<1>4. Matches(r.ph, auth) # {} => Min(Matches(r.ph, auth)) \in 1..Len(r.ph)
  BY <1>2, <1>3, LeastIs
<1>5. ASSUME Matches(r.ph, auth) = {}, NEW i \in 1..Len(r.ph)
      PROVE  r.ph[i].tick # auth.tick /\ (r.ph[i].seq = auth.seq => auth.seq = 0)
  BY <1>1, <1>5 DEF Matches
<1> QED
  BY <1>4, <1>5

(* An ack is reconciled. *)
LEMMA ReconcileFacts ==
  ASSUME NEW r, RuntimeOK(r), NEW ack, ack.state \in Known(r.tick), NEW x, x = Reconcile(r, ack)
  PROVE  Reconciled(x, r, ack.state) /\ Outcome(x, r, ack.state)
<1> DEFINE auth == ack.state
<1> DEFINE d == Dropped(r, auth)
<1> DEFINE matches == Matches(r.ph, auth)
<1>1. d.ph = r.ph
  BY DroppedFacts
<1>2. x = IF ack.kind = "teleport" THEN Snap(d, auth)
          ELSE IF ack.kind = "status" THEN Override(d, auth)
          ELSE IF matches = {} THEN WithoutMatch(d, auth)
          ELSE Compare(d, r.ph[Min(matches)], auth, ack.kind)
  BY <1>1 DEF Reconcile, Dropped
<1>a. auth \in Known(r.tick)
  OBVIOUS
<1>d. d = Dropped(r, auth)
  OBVIOUS
<1>m. matches = Matches(r.ph, auth)
  OBVIOUS
<1> HIDE DEF auth, d, matches
<1>3. Reconciled(Snap(d, auth), r, auth) /\ Outcome(Snap(d, auth), r, auth)
  BY <1>a, <1>d, SnapReconciles
<1>4. Reconciled(Override(d, auth), r, auth) /\ Outcome(Override(d, auth), r, auth)
  BY <1>a, <1>d, OverrideReconciles
<1>5. matches = {} => Reconciled(WithoutMatch(d, auth), r, auth) /\ Outcome(WithoutMatch(d, auth), r, auth)
  BY <1>a, <1>d, <1>m, UnmatchedReconciles
<1>6. ASSUME matches # {}
      PROVE  LET y == Compare(d, r.ph[Min(matches)], auth, ack.kind)
             IN  Reconciled(y, r, auth) /\ Outcome(y, r, auth)
  <2>1. Min(matches) \in 1..Len(r.ph)
    BY <1>a, <1>m, <1>6, MatchFacts
  <2>2. Reconciled(Rewind(d, r.ph[Min(matches)], auth), r, auth) /\ Outcome(Rewind(d, r.ph[Min(matches)], auth), r, auth)
    BY <1>a, <1>d, <2>1, RewindReconciles
  <2>3. Reconciled(Accept(d, auth), r, auth) /\ Outcome(Accept(d, auth), r, auth)
    BY <1>a, <1>d, AcceptReconciles
  <2> QED
    BY <1>3, <2>2, <2>3 DEF Compare
<1> QED
  BY <1>2, <1>3, <1>4, <1>5, <1>6 DEF auth

--------------------------------------------------------------------------------
(* One ack is handled.                                                          *)

(* The runtime an ack is reconciled on: predicted up to its tick, its clock     *)
(* beyond.                                                                      *)
Ahead(r, t) == [Extend(r, t) EXCEPT !.tick = IF @ > t THEN @ ELSE t + 1]
LEMMA AheadFacts ==
  ASSUME NEW r, RuntimeOK(r), NEW t, t \in Nat, NEW h, h = Ahead(r, t)
  PROVE  /\ RuntimeOK(h) /\ h.seq = r.seq /\ h.ih = r.ih /\ h.ack = r.ack /\ h.soft = r.soft
         /\ r.tick <= h.tick /\ t < h.tick /\ h.tick \in {r.tick, t + 1}
         /\ (t <= r.cur.tick => h.cur = r.cur /\ h.ph = r.ph)
         /\ (r.cur.tick < t => h.cur.tick = t /\ Last(h.ph) = h.cur)
<1> DEFINE e == Extend(r, t)
<1> DEFINE B == IF r.tick > t THEN r.tick ELSE t + 1
<1>1. /\ r \in Runtimes /\ r.tick \in Counts /\ r.seq \in Counts /\ r.tick \in Nat
      /\ r.ih \in Seq(Sent(r.seq, r.tick)) /\ Len(r.ih) <= InputCap
  BY RuntimeFacts
<1>2. B \in Nat /\ B \in Counts /\ r.tick <= B /\ t < B /\ B \in {r.tick, t + 1}
  BY <1>1 DEF Counts
<1> HIDE DEF B
<1>3. /\ e \in Rolls(r, B) /\ Len(e.ph) \in 1..StateCap
      /\ (t <= r.cur.tick => e = r) /\ (r.cur.tick < t => e.cur.tick = t /\ Last(e.ph) = e.cur)
  BY <1>2, ExtendFacts
<1> HIDE DEF e
<1>4. /\ e \in Runtimes /\ e.seq = r.seq /\ e.tick = r.tick /\ e.ih = r.ih /\ e.ack = r.ack /\ e.soft = r.soft
      /\ e.cur \in Known(B) /\ e.ph \in Seq(Known(B))
  BY <1>3 DEF Rolls, Alike
<1>5. h = [e EXCEPT !.tick = B]
  BY <1>4 DEF Ahead, e, B, Runtimes
<1>6. /\ h \in Runtimes /\ h.seq = r.seq /\ h.tick = B /\ h.ih = r.ih /\ h.ack = r.ack /\ h.soft = r.soft
      /\ h.cur = e.cur /\ h.ph = e.ph
  BY <1>2, <1>4, <1>5 DEF Runtimes
<1>7. Sent(r.seq, r.tick) \subseteq Sent(r.seq, B)
  BY <1>1, <1>2 DEF Sent, Frames, Counts
<1>8. h.ih \in Seq(Sent(r.seq, B))
  BY <1>1, <1>6, <1>7, SeqMonotonic
<1>9. RuntimeOK(h)
  BY <1>1, <1>3, <1>4, <1>6, <1>8 DEF RuntimeOK
<1> QED
  BY <1>2, <1>3, <1>6, <1>9
(* It reaches the tick of an ack that is ahead of it, *)
LEMMA AheadReaches ==
  ASSUME NEW r, RuntimeOK(r), NEW t, t \in Nat, NEW h, h = Ahead(r, t), r.cur.tick < t
  PROVE  h.cur.tick = t /\ Last(h.ph) = h.cur
BY AheadFacts
(* and is the same where the ack is not. *)
LEMMA AheadStays ==
  ASSUME NEW r, RuntimeOK(r), NEW t, t \in Nat, NEW h, h = Ahead(r, t), t <= r.cur.tick
  PROVE  h.cur = r.cur /\ h.ph = r.ph
BY AheadFacts

(* And what is left of it when the ack counts. *)
Handled(r, a) == [ApplyAck(r, a) EXCEPT !.ack = [seq |-> a.state.seq, tick |-> a.state.tick]]
LEMMA HandledFacts ==
  ASSUME NEW r, RuntimeOK(r), NEW a, NEW s \in States, s = a.state, NEW h, h = Ahead(r, s.tick), NEW x, x = Handled(r, a)
  PROVE  /\ RuntimeOK(x) /\ x.seq = r.seq /\ x.tick = h.tick /\ x.soft = r.soft
         /\ x.ack = [seq |-> s.seq, tick |-> s.tick]
         /\ (x.ih # << >> => StillPending(r.ih, s) # << >> /\ r.ih # << >> /\ Last(x.ih) = Last(r.ih))
         /\ Outcome(x, h, s)
<1> DEFINE y == Reconcile(h, a)
<1>1. s.tick \in Nat /\ s.seq \in Nat
  BY DEF States
<1>2. RuntimeOK(h) /\ h.seq = r.seq /\ h.ih = r.ih /\ h.ack = r.ack /\ h.soft = r.soft /\ s.tick < h.tick
  BY <1>1, AheadFacts
<1>3. s \in Known(h.tick)
  BY <1>2 DEF Known
<1>4. Reconciled(y, h, s) /\ Outcome(y, h, s)
  BY <1>2, <1>3, ReconcileFacts
<1>5. x = [y EXCEPT !.ack = [seq |-> s.seq, tick |-> s.tick]]
  BY DEF Handled, ApplyAck, Ahead
<1> HIDE DEF y
<1>6. /\ y \in Runtimes /\ y.seq = h.seq /\ y.tick = h.tick /\ y.soft = h.soft
      /\ y.cur \in Known(h.tick) /\ y.ph \in Seq(Known(h.tick)) /\ Len(y.ph) \in 1..StateCap
      /\ KeepsInputs(y, h, s)
  BY <1>4 DEF Reconciled
<1>7. /\ x \in Runtimes /\ x.seq = y.seq /\ x.tick = y.tick /\ x.soft = y.soft /\ x.cur = y.cur
      /\ x.ph = y.ph /\ x.ih = y.ih /\ x.ack = [seq |-> s.seq, tick |-> s.tick]
  BY <1>1, <1>5, <1>6 DEF Runtimes
<1>8. /\ x.ih \in Seq(Sent(x.seq, x.tick)) /\ Len(x.ih) <= InputCap
      /\ (x.ih # << >> => StillPending(r.ih, s) # << >> /\ Last(x.ih) = Last(StillPending(r.ih, s)))
  BY <1>2, <1>6, <1>7 DEF KeepsInputs
<1>9. RuntimeOK(x)
  BY <1>6, <1>7, <1>8 DEF RuntimeOK
<1>10. StillPending(r.ih, s) # << >> => r.ih # << >> /\ Last(StillPending(r.ih, s)) = Last(r.ih)
  BY PendingFacts, RuntimeFacts
<1>11. Outcome(x, h, s)
  BY <1>4, <1>7 DEF Outcome
<1> QED
  BY <1>2, <1>6, <1>7, <1>8, <1>9, <1>10, <1>11

(* A state that counts: newer than the last ack, of an input that was sent.     *)
Newer(r, s) == s \in States /\ s.seq < r.seq /\ ~Stale(r, s) /\ Rises(r.ack, s)
LEMMA NewerFacts ==
  ASSUME NEW r, RuntimeOK(r), NEW s, Newer(r, s)
  PROVE  /\ s \in States /\ s.seq \in Nat /\ s.tick \in Nat /\ s.seq < r.seq
         /\ r.ack.tick < s.tick /\ r.ack.seq <= s.seq /\ r.ack.seq \in Nat /\ r.ack.tick \in Nat
<1>1. s.seq \in Nat /\ s.tick \in Nat /\ r.ack.seq \in Nat /\ r.ack.tick \in Nat
  BY RuntimeFacts DEF Newer, States
<1> QED
  BY <1>1 DEF Newer, Stale, Rises

(* What is pending still ends with the last input. *)
LEMMA HandledPending ==
  ASSUME NEW r, RuntimeOK(r), NEW a, NEW s, s = a.state, Newer(r, s), PendingOK(r), NEW x, x = Handled(r, a)
  PROVE  PendingOK(x)
<1> DEFINE h == Ahead(r, s.tick)
<1>h. h = Ahead(r, s.tick)
  OBVIOUS
<1> HIDE DEF h
<1>1. /\ s \in States /\ s.seq \in Nat /\ s.tick \in Nat /\ r.ack.tick < s.tick /\ r.ack.tick \in Nat
  BY NewerFacts
<1>2. h.tick \in {r.tick, s.tick + 1}
  BY <1>1, <1>h, AheadFacts
<1>3. /\ x.seq = r.seq /\ x.tick = h.tick /\ x.ack = [seq |-> s.seq, tick |-> s.tick]
      /\ (x.ih # << >> => r.ih # << >> /\ Last(x.ih) = Last(r.ih))
  BY <1>1, <1>h, HandledFacts
<1>4. x.ack.tick = s.tick
  BY <1>3
<1> SUFFICES ASSUME x.ih # << >>
             PROVE  Last(x.ih).seq = x.seq - 1 /\ (x.tick <= Last(x.ih).tick + 1 \/ x.tick <= x.ack.tick + 1)
  BY DEF PendingOK
<1>5. Last(r.ih).seq = r.seq - 1 /\ (r.tick <= Last(r.ih).tick + 1 \/ r.tick <= r.ack.tick + 1)
  BY <1>3 DEF PendingOK
<1>6. r.tick \in Nat
  BY RuntimeFacts
<1> QED
  BY <1>1, <1>2, <1>3, <1>4, <1>5, <1>6

(* Nothing is pending any more, and the newest prediction is later than the     *)
(* server's state: that was the answer to the last input.                       *)
LEMMA HandledIsLast ==
  ASSUME NEW r, RuntimeOK(r), NEW s, Newer(r, s), PendingOK(r), AheadOK(r), StillPending(r.ih, s) = << >>,
         NEW h, h = Ahead(r, s.tick), s.tick < Last(h.ph).tick
  PROVE  s.seq = r.seq - 1 /\ s.seq > 0
<1>1. /\ s.seq \in Nat /\ s.tick \in Nat /\ s.seq < r.seq /\ s \in States
      /\ r.ack.tick < s.tick /\ r.ack.seq <= s.seq /\ r.ack.seq \in Nat /\ r.ack.tick \in Nat
  BY NewerFacts
<1>t. RuntimeOK(h) /\ h.tick \in {r.tick, s.tick + 1} /\ s.tick < h.tick
  BY <1>1, AheadFacts
<1>n. r.cur.tick < s.tick => h.cur.tick = s.tick /\ Last(h.ph) = h.cur
  BY <1>1, AheadReaches
<1>2. /\ RuntimeOK(h) /\ h.tick \in {r.tick, s.tick + 1} /\ s.tick < h.tick
      /\ (r.cur.tick < s.tick => h.cur.tick = s.tick /\ Last(h.ph) = h.cur)
  BY <1>t, <1>n
<1>3. Last(h.ph).tick < h.tick /\ Last(h.ph).tick \in Nat
  <2>1. Last(h.ph) \in Known(h.tick)
    BY <1>2, RuntimeFacts
  <2> QED
    BY <2>1 DEF Known, States
<1>4. /\ r.seq \in Nat /\ r.tick \in Nat /\ r.cur.tick \in Nat /\ r.ih \in Seq(Sent(r.seq, r.tick)) /\ h.tick \in Nat
  BY <1>2, RuntimeFacts DEF Counts
<1>5. CASE r.ih = << >>
  <2>1. ~(r.cur.tick < s.tick)
    BY <1>2, <1>3
  <2>2. r.ack.seq = r.seq - 1 /\ r.ack.seq > 0
    BY <1>1, <1>4, <1>5, <2>1 DEF AheadOK
  <2> QED
    BY <1>1, <1>4, <2>2
<1>6. CASE r.ih # << >>
  <2> DEFINE f == Last(r.ih)
  <2>1. f.seq = r.seq - 1 /\ (r.tick <= f.tick + 1 \/ r.tick <= r.ack.tick + 1)
    BY <1>6 DEF PendingOK
  <2>2. f \in Sent(r.seq, r.tick) /\ ~Outlasts(f, s)
    <3>1. f \in Sent(r.seq, r.tick) /\ f = r.ih[Len(r.ih)] /\ Len(r.ih) \in 1..Len(r.ih)
      BY <1>4, <1>6, LastFacts
    <3>2. \A i \in 1..Len(r.ih) : ~Outlasts(r.ih[i], s)
      BY <1>4, PendingFacts
    <3> QED
      BY <3>1, <3>2
  <2>3. f.seq \in Nat /\ f.tick \in Nat
    BY <2>2 DEF Sent, Frames, Counts
  <2> HIDE DEF f
  <2>4. CASE s.seq > 0
    BY <1>1, <1>4, <2>1, <2>2, <2>3, <2>4 DEF Outlasts
  <2>5. CASE ~(s.seq > 0)
    <3>1. f.tick <= s.tick
      BY <1>1, <2>2, <2>3, <2>5 DEF Outlasts
    <3>2. r.tick <= s.tick + 1
      BY <1>1, <1>4, <2>1, <2>3, <3>1
    <3>3. h.tick = s.tick + 1
      BY <1>1, <1>2, <1>4, <3>2
    <3> QED
      BY <1>1, <1>3, <3>3
  <2> QED
    BY <2>4, <2>5
<1> QED
  BY <1>5, <1>6

(* So the prediction is ahead of an ack with reason. *)
LEMMA HandledAhead ==
  ASSUME NEW r, RuntimeOK(r), NEW a, NEW s, s = a.state, Newer(r, s), PendingOK(r), AheadOK(r), NEW x, x = Handled(r, a)
  PROVE  AheadOK(x)
<1> DEFINE h == Ahead(r, s.tick)
<1>h. h = Ahead(r, s.tick)
  OBVIOUS
<1> HIDE DEF h
<1>1. s \in States /\ s.seq \in Nat /\ s.tick \in Nat
  BY NewerFacts
<1>2. RuntimeOK(h) /\ h.ih = r.ih
  BY <1>1, <1>h, AheadFacts
<1>3. RuntimeOK(x) /\ x.seq = r.seq /\ x.ack = [seq |-> s.seq, tick |-> s.tick] /\ Outcome(x, h, s)
  BY <1>1, <1>h, HandledFacts
<1>4. x.ack.tick = s.tick /\ x.ack.seq = s.seq
  BY <1>3
<1>5. x.cur.tick \in Nat
  BY <1>3, RuntimeFacts
<1> SUFFICES ASSUME x.ih = << >>, ~(x.cur.tick <= s.tick)
             PROVE  s.seq = r.seq - 1 /\ s.seq > 0
  BY <1>3, <1>4 DEF AheadOK
<1>6. x.cur # s
  BY <1>1
<1>7. x.cur = Last(h.ph) /\ StillPending(r.ih, s) = << >>
  BY <1>2, <1>3, <1>6 DEF Outcome
<1>8. s.tick < Last(h.ph).tick
  BY <1>1, <1>5, <1>7
<1> QED
  BY <1>h, <1>7, <1>8, HandledIsLast

(* It is that of the newest state, or the ack is no match for any other. *)
LEMMA HandledTip ==
  ASSUME NEW r, RuntimeOK(r), NEW a, NEW s, s = a.state, Newer(r, s), NEW x, x = Handled(r, a)
  PROVE  TipOK(x)
<1> DEFINE h == Ahead(r, s.tick)
<1>h. h = Ahead(r, s.tick)
  OBVIOUS
<1> HIDE DEF h
<1>1. s \in States /\ s.seq \in Nat /\ s.tick \in Nat
  BY NewerFacts
<1>2. RuntimeOK(x) /\ x.ack = [seq |-> s.seq, tick |-> s.tick] /\ Outcome(x, h, s)
  BY <1>1, <1>h, HandledFacts
<1>3. x.ack.tick = s.tick /\ x.ack.seq = s.seq
  BY <1>2
<1>4. x.cur.tick \in Nat
  BY <1>2, RuntimeFacts
<1>5. CASE x.cur = s
  BY <1>1, <1>3, <1>5 DEF TipOK
<1>6. CASE Last(x.ph) = x.cur
  BY <1>4, <1>6 DEF TipOK
<1>7. CASE x.ih = << >> /\ Last(x.ph) = s
  BY <1>3, <1>7 DEF TipOK
<1> QED
  BY <1>2, <1>5, <1>6, <1>7 DEF Outcome

(* The answer to the last input, not behind the prediction, is taken. *)
LEMMA HandledSettles ==
  ASSUME NEW r, RuntimeOK(r), NEW a, NEW s, s = a.state, Newer(r, s), AheadOK(r), TipOK(r), NEW x, x = Handled(r, a),
         s.seq = r.seq - 1, x.cur.tick <= s.tick
  PROVE  x.cur.pos = s.pos /\ x.cur.vel = s.vel
<1> DEFINE h == Ahead(r, s.tick)
<1>h. h = Ahead(r, s.tick)
  OBVIOUS
<1> HIDE DEF h
<1>1. /\ s.seq \in Nat /\ s.tick \in Nat /\ s \in States
      /\ r.ack.tick < s.tick /\ r.ack.seq <= s.seq /\ r.ack.seq \in Nat /\ r.ack.tick \in Nat
  BY NewerFacts
<1>0. s.tick \in Nat
  BY <1>1
<1>t. RuntimeOK(h) /\ h.ih = r.ih /\ s.tick < h.tick
  BY <1>0, <1>h, AheadFacts
<1>m. s.tick <= r.cur.tick => h.ph = r.ph
  BY <1>1, <1>h, AheadStays
<1>n. r.cur.tick < s.tick => h.cur.tick = s.tick /\ Last(h.ph) = h.cur
  BY <1>1, <1>h, AheadReaches
<1>2. /\ RuntimeOK(h) /\ h.ih = r.ih /\ s.tick < h.tick
      /\ (s.tick <= r.cur.tick => h.ph = r.ph)
      /\ (r.cur.tick < s.tick => h.cur.tick = s.tick /\ Last(h.ph) = h.cur)
  BY <1>t, <1>m, <1>n
<1>3. RuntimeOK(x) /\ Outcome(x, h, s)
  BY <1>1, <1>h, HandledFacts
<1>4. x.cur.tick \in Nat /\ r.cur.tick \in Nat /\ r.seq \in Nat /\ r.ih \in Seq(Sent(r.seq, r.tick))
  BY <1>3, RuntimeFacts DEF Counts
<1>5. StillPending(r.ih, s) = << >>
  <2> SUFFICES ASSUME StillPending(r.ih, s) # << >> PROVE FALSE
    OBVIOUS
  <2> DEFINE p == StillPending(r.ih, s)
  <2>1. p \in Seq(Sent(r.seq, r.tick)) /\ Outlasts(p[1], s)
    BY <1>4, PendingFacts
  <2>2. p # << >>
    OBVIOUS
  <2> HIDE DEF p
  <2>3. 1 \in 1..Len(p)
    BY <2>1, <2>2, LastFacts
  <2>4. p[1] \in Sent(r.seq, r.tick)
    BY <2>1, <2>3, ElementOfSeq
  <2>5. p[1].seq \in Nat /\ p[1].seq > 0 /\ p[1].seq < r.seq
    BY <2>4 DEF Sent, Frames, Counts
  <2> QED
    BY <1>1, <1>4, <2>1, <2>5 DEF Outlasts
<1>6. CASE x.cur = s
  BY <1>6
<1>7. CASE x.cur = Last(h.ph) /\ s.tick < Last(h.ph).tick
  BY <1>1, <1>4, <1>7
<1>8. CASE x.cur = Last(h.ph) /\ Matches(h.ph, s) = {}
  <2> DEFINE tip == Last(h.ph)
  <2>1. h.ph # << >> /\ h.ph \in Seq(Known(h.tick)) /\ tip \in Known(h.tick)
    BY <1>2, RuntimeFacts
  <2>2. tip = h.ph[Len(h.ph)] /\ Len(h.ph) \in 1..Len(h.ph)
    BY <2>1, LastFacts
  <2>3. s \in Known(h.tick)
    BY <1>1, <1>2 DEF Known
  <2>4. tip.tick # s.tick /\ (tip.seq = s.seq => s.seq = 0)
    <3>1. \A i \in 1..Len(h.ph) : h.ph[i].tick # s.tick /\ (h.ph[i].seq = s.seq => s.seq = 0)
      BY <1>2, <1>8, <2>3, MatchFacts
    <3> QED
      BY <2>2, <3>1
  <2>5. tip.tick \in Nat /\ tip.seq \in Nat
    BY <2>1 DEF Known, States
  <2>6. ~(r.cur.tick < s.tick)
    BY <1>2, <2>4
  <2>7. tip = Last(r.ph)
    BY <1>1, <1>2, <1>4, <2>6
  <2>8. tip.tick < s.tick
    BY <1>1, <1>8, <2>4, <2>5
  <2> HIDE DEF tip
  <2>9. r.ih = << >> /\ tip.seq = r.ack.seq
    BY <1>1, <1>4, <2>5, <2>6, <2>7, <2>8 DEF TipOK
  <2>10. r.ack.seq = r.seq - 1 /\ r.ack.seq > 0
    BY <1>1, <1>4, <2>6, <2>9 DEF AheadOK
  <2> QED
    BY <1>1, <2>4, <2>9, <2>10
<1> QED
  BY <1>2, <1>3, <1>5, <1>6, <1>7, <1>8 DEF Outcome

--------------------------------------------------------------------------------
(* The steps.                                                                   *)

(* The first state, and a runtime that starts from a place. *)
LEMMA NewRuntimeFacts ==
  ASSUME NEW pos \in Int, NEW seq \in Counts, NEW x, x = NewRuntime(pos, seq)
  PROVE  /\ RuntimeOK(x) /\ PendingOK(x) /\ AheadOK(x) /\ TipOK(x) /\ x.seq = seq
         /\ x.cur.pos = pos /\ x.cur.vel = 0 /\ x.ack.seq = 0 /\ x.ack.tick = 0
<1> DEFINE s == Idle(pos)
<1>1. s \in States /\ s.tick = 0 /\ s.pos = pos /\ s.vel = 0
  BY DEF Idle, States
<1>2. FirstSeq(seq) = seq
  BY DEF FirstSeq, Counts
<1>3. x = [seq |-> seq, tick |-> 1, cur |-> s, ih |-> << >>, ph |-> <<s>>,
           ack |-> [seq |-> 0, tick |-> 0], soft |-> BaseSoft]
  BY <1>2 DEF NewRuntime
<1> HIDE DEF s
<1>4. s \in Known(1)
  BY <1>1 DEF Known
<1>5. << >> \in Seq(Frames) /\ << >> \in Seq(Sent(seq, 1)) /\ Len(<< >>) = 0
  BY EmptySeq
<1>6. <<s>> \in Seq(States) /\ <<s>> \in Seq(Known(1)) /\ Len(<<s>>) = 1 /\ Last(<<s>>) = s
  BY <1>1, <1>4 DEF Last
<1>7. BaseSoft \in BaseSoft..MaxSoft /\ InputCap \in Counts /\ StateCap \in Counts
  BY Constants
<1>8. x \in Runtimes
  BY <1>1, <1>3, <1>5, <1>6, <1>7 DEF Runtimes, Counts
<1>9. RuntimeOK(x)
  BY <1>3, <1>4, <1>5, <1>6, <1>7, <1>8 DEF RuntimeOK, Counts
<1>10. PendingOK(x)
  BY <1>3 DEF PendingOK
<1>11. AheadOK(x) /\ TipOK(x)
  BY <1>1, <1>3, <1>6 DEF AheadOK, TipOK
<1> QED
  BY <1>1, <1>3, <1>9, <1>10, <1>11

(* The invariant holds at first. *)
LEMMA InitOK == Init => PredictionInv
<1> SUFFICES ASSUME Init PROVE PredictionInv
  OBVIOUS
<1>1. /\ RuntimeOK(c) /\ PendingOK(c) /\ AheadOK(c) /\ TipOK(c) /\ c.seq = 1
      /\ c.cur.pos = 0 /\ c.cur.vel = 0 /\ c.ack.seq = 0 /\ c.ack.tick = 0
  BY NewRuntimeFacts DEF Init, Counts
<1>2. srv \in States /\ srv.seq = 0 /\ srv.tick = 0 /\ srv.pos = 0 /\ srv.vel = 0
  BY DEF Init, Idle, States
<1>3. PredictionTypes
  <2>1. inputs \in Seq(Frames)
    BY EmptySeq DEF Init
  <2> QED
    BY <1>1, <1>2, <2>1, Constants DEF Init, PredictionTypes
<1>4. InputsOK
  BY <1>1, <1>2, EmptySeq DEF Init, InputsOK
<1>5. AcksOK
  BY <1>1, <1>2 DEF Init, AcksOK
<1>6. Heard
  BY <1>1, <1>2 DEF Init, Heard, Settled
<1>7. ToldOK
  BY <1>1 DEF Init, ToldOK
<1> QED
  BY <1>1, <1>3, <1>4, <1>5, <1>6, <1>7 DEF PredictionInv

(* The keys. *)
LEMMA SampleInputKeeps ==
  ASSUME PredictionInv, NEW dir \in Dirs, SampleInput(dir)
  PROVE  PredictionInv'
<1>1. app' = [app EXCEPT !.dir = dir] /\ UNCHANGED <<c, told, inputs, acks, srv, unheard, spent>>
  BY DEF SampleInput
<1>2. app \in [dir : Dirs, stop : BOOLEAN, vel : Int]
  BY DEF PredictionInv, PredictionTypes
<1>3. app' \in [dir : Dirs, stop : BOOLEAN, vel : Int] /\ app'.vel = app.vel
  BY <1>1, <1>2
<1>4. PredictionTypes'
  BY <1>1, <1>3 DEF PredictionInv, PredictionTypes
<1>5. InputsOK' /\ AcksOK'
  BY <1>1 DEF PredictionInv, InputsOK, AcksOK
<1>6. Heard' /\ ToldOK'
  BY <1>1, <1>3 DEF PredictionInv, Heard, Settled, ToldOK
<1> QED
  BY <1>1, <1>4, <1>5, <1>6 DEF PredictionInv

(* A sample is predicted. *)
LEMMA ApplyFacts ==
  ASSUME NEW r, RuntimeOK(r), NEW dir \in Dirs, NEW f, f = Frame(r, dir), NEW x, x = ApplyInput(r, f)
  PROVE  /\ f \in Frames /\ f.seq = r.seq /\ f.tick = r.tick
         /\ RuntimeOK(x) /\ PendingOK(x) /\ AheadOK(x) /\ TipOK(x) /\ x.seq = r.seq + 1 /\ x.ack = r.ack
<1> DEFINE s == Step(r.cur, f)
<1> DEFINE ih == Push(r.ih, f, InputCap)
<1> DEFINE ph == Push(r.ph, s, StateCap)
<1> DEFINE B == r.tick + 1
<1>1. /\ r \in Runtimes /\ r.seq \in Counts /\ r.tick \in Counts /\ r.tick \in Nat /\ r.cur \in States
      /\ r.ih \in Seq(Sent(r.seq, r.tick)) /\ Len(r.ih) <= InputCap
      /\ r.ph \in Seq(Known(r.tick)) /\ Len(r.ph) <= StateCap
  BY RuntimeFacts
<1>2. r.seq \in Nat /\ r.seq + 1 \in Counts /\ B \in Counts /\ B \in Nat /\ r.tick <= B /\ r.tick < B /\ r.tick \in Nat
  BY <1>1 DEF Counts
<1>3. f \in Frames /\ f.seq = r.seq /\ f.tick = r.tick /\ f.dir = dir
  BY <1>1 DEF Frame, Frames
<1>4. dir \in Int
  BY Constants
<1>5. s \in States /\ s.seq = r.seq /\ s.tick = r.tick
  BY <1>1, <1>2, <1>3, <1>4, StepFacts
<1> HIDE DEF s
<1>6. s \in Known(B)
  BY <1>2, <1>5 DEF Known
<1>7. f \in Sent(r.seq + 1, B)
  BY <1>2, <1>3 DEF Sent
<1>8. Sent(r.seq, r.tick) \subseteq Sent(r.seq + 1, B) /\ Known(r.tick) \subseteq Known(B)
  <2>1. Known(r.tick) \subseteq Known(B)
    BY <1>2, KnownGrows
  <2>2. ASSUME NEW g \in Sent(r.seq, r.tick) PROVE g \in Sent(r.seq + 1, B)
    <3>1. g \in Frames /\ g.seq < r.seq /\ g.tick < r.tick
      BY DEF Sent
    <3>2. g.seq \in Nat /\ g.tick \in Nat
      BY <3>1 DEF Frames, Counts
    <3>3. g.seq < r.seq + 1 /\ g.tick < B
      BY <1>2, <3>1, <3>2
    <3> QED
      BY <3>1, <3>3 DEF Sent
  <2> QED
    BY <2>1, <2>2
<1>9. r.ih \in Seq(Sent(r.seq + 1, B)) /\ r.ph \in Seq(Known(B))
  BY <1>1, <1>8, SeqMonotonic
<1> HIDE DEF B
<1>10. ih \in Seq(Sent(r.seq + 1, B)) /\ Len(ih) \in 1..InputCap /\ Last(ih) = f /\ ih # << >>
  BY <1>1, <1>7, <1>9, PushFacts, Constants
<1>11. ph \in Seq(Known(B)) /\ Len(ph) \in 1..StateCap /\ Last(ph) = s
  BY <1>1, <1>6, <1>9, PushFacts, Constants
<1>12. x = [r EXCEPT !.seq = r.seq + 1, !.tick = B, !.cur = s, !.ih = ih, !.ph = ph]
  BY <1>1 DEF ApplyInput, s, B, Runtimes
<1> HIDE DEF ih, ph
<1>13. Sent(r.seq + 1, B) \subseteq Frames /\ Known(B) \subseteq States
  BY DEF Sent, Known
<1>14. ih \in Seq(Frames) /\ ph \in Seq(States)
  BY <1>10, <1>11, <1>13, SeqMonotonic
<1>15. /\ x \in Runtimes /\ x.seq = r.seq + 1 /\ x.tick = B /\ x.cur = s /\ x.ih = ih /\ x.ph = ph
       /\ x.ack = r.ack
  BY <1>1, <1>2, <1>5, <1>12, <1>14 DEF Runtimes
<1>16. Len(ih) <= InputCap
  BY <1>10, Constants DEF Counts
<1>17. RuntimeOK(x)
  BY <1>6, <1>10, <1>11, <1>15, <1>16 DEF RuntimeOK
<1>18. PendingOK(x)
  <2>1. x.tick <= Last(x.ih).tick + 1
    BY <1>2, <1>3, <1>10, <1>15 DEF B
  <2>2. Last(x.ih).seq = x.seq - 1
    BY <1>2, <1>3, <1>10, <1>15
  <2> QED
    BY <2>1, <2>2 DEF PendingOK
<1>19. AheadOK(x)
  BY <1>10, <1>15 DEF AheadOK
<1>20. TipOK(x)
  <2>1. x.cur.tick <= Last(x.ph).tick
    BY <1>2, <1>5, <1>11, <1>15
  <2> QED
    BY <2>1 DEF TipOK
<1> QED
  BY <1>3, <1>15, <1>17, <1>18, <1>19, <1>20

(* The sample is the last input under way. *)
LEMMA SendMoveKeeps ==
  ASSUME PredictionInv, SendMove
  PROVE  PredictionInv'
<1> DEFINE f == Frame(c, app.dir)
<1>1. /\ c' = ApplyInput(c, f) /\ inputs' = Append(inputs, f) /\ told' = {c'.cur.vel}
      /\ app' = [app EXCEPT !.stop = app.dir = 0 /\ Abs(app.vel) <= Still]
      /\ UNCHANGED <<acks, srv, unheard, spent>>
  BY DEF SendMove, Tell
<1>2. /\ RuntimeOK(c) /\ app \in [dir : Dirs, stop : BOOLEAN, vel : Int] /\ inputs \in Seq(Frames)
      /\ srv \in States /\ unheard \in BOOLEAN /\ spent \in Nat /\ acks \subseteq [state : States, kind : Reasons]
  BY DEF PredictionInv, PredictionTypes
<1>3. app.dir \in Dirs
  BY <1>2
<1>f. f = Frame(c, app.dir)
  OBVIOUS
<1> HIDE DEF f
<1>4. /\ f \in Frames /\ f.seq = c.seq
      /\ RuntimeOK(c') /\ PendingOK(c') /\ AheadOK(c') /\ TipOK(c') /\ c'.seq = c.seq + 1 /\ c'.ack = c.ack
  BY <1>1, <1>2, <1>3, <1>f, ApplyFacts
<1>5. c.seq \in Nat /\ srv.seq \in Nat /\ srv.seq < c.seq
  BY <1>2, RuntimeFacts DEF PredictionInv, InputsOK, States, Counts
<1>6. PredictionTypes'
  <2>1. inputs' \in Seq(Frames)
    BY <1>1, <1>2, <1>4, AppendProperties
  <2>2. app' \in [dir : Dirs, stop : BOOLEAN, vel : Int]
    BY <1>1, <1>2
  <2> QED
    BY <1>1, <1>2, <1>4, <2>1, <2>2 DEF PredictionTypes
<1>7. InputsOK'
  <2> DEFINE n == Len(inputs)
  <2>1. /\ n \in Nat /\ DOMAIN inputs = 1..n /\ DOMAIN inputs' = 1..n + 1
        /\ inputs'[n + 1] = f /\ \A i \in 1..n : inputs'[i] = inputs[i]
    <3>1. n \in Nat /\ DOMAIN inputs = 1..n
      BY <1>2, LenProperties
    <3>2. inputs' \in Seq(Frames) /\ Len(inputs') = n + 1
      BY <1>1, <1>2, <1>4, AppendProperties
    <3>3. DOMAIN inputs' = 1..n + 1
      BY <3>2, LenProperties
    <3>4. inputs'[n + 1] = f /\ \A i \in 1..n : inputs'[i] = inputs[i]
      BY <1>1, <1>2, <1>4, AppendProperties
    <3> QED
      BY <3>1, <3>3, <3>4
  <2>2. /\ \A i \in 1..n : srv.seq < inputs[i].seq /\ inputs[i].seq < c.seq
        /\ \A i, j \in 1..n : i < j => inputs[i].seq < inputs[j].seq
    BY <2>1 DEF PredictionInv, InputsOK
  <2>3. \A i \in 1..n : inputs[i].seq \in Nat
    <3>1. \A i \in 1..n : inputs[i] \in Frames
      BY <1>2, <2>1, ElementOfSeq
    <3> QED
      BY <3>1 DEF Frames, Counts
  <2> HIDE DEF n
  <2>4. \A i \in 1..n + 1 : srv.seq < inputs'[i].seq /\ inputs'[i].seq < c.seq + 1
    <3> SUFFICES ASSUME NEW i \in 1..n + 1 PROVE srv.seq < inputs'[i].seq /\ inputs'[i].seq < c.seq + 1
      OBVIOUS
    <3>1. CASE i = n + 1
      BY <1>4, <1>5, <2>1, <3>1
    <3>2. CASE i \in 1..n
      BY <1>5, <2>1, <2>2, <2>3, <3>2
    <3> QED
      BY <2>1, <3>1, <3>2
  <2>5. \A i, j \in 1..n + 1 : i < j => inputs'[i].seq < inputs'[j].seq
    <3> SUFFICES ASSUME NEW i \in 1..n + 1, NEW j \in 1..n + 1, i < j PROVE inputs'[i].seq < inputs'[j].seq
      OBVIOUS
    <3>1. i \in 1..n /\ inputs'[i] = inputs[i]
      BY <2>1
    <3>2. CASE j = n + 1
      BY <1>4, <2>1, <2>2, <3>1, <3>2
    <3>3. CASE j \in 1..n
      BY <2>1, <2>2, <3>1, <3>3
    <3> QED
      BY <2>1, <3>2, <3>3
  <2> QED
    BY <1>1, <1>4, <1>5, <2>1, <2>4, <2>5 DEF InputsOK
<1>8. AcksOK'
  BY <1>1, <1>4 DEF PredictionInv, AcksOK
<1>9. Heard'
  <2>1. ~(c'.seq = srv'.seq + 1)
    BY <1>1, <1>4, <1>5
  <2>2. Settled'
    BY <2>1 DEF Settled
  <2>3. \A s : Stale(c', s) <=> Stale(c, s)
    BY <1>4 DEF Stale
  <2> QED
    BY <1>1, <2>2, <2>3 DEF PredictionInv, Heard
<1>10. ToldOK'
  BY <1>1 DEF ToldOK
<1> QED
  BY <1>4, <1>6, <1>7, <1>8, <1>9, <1>10 DEF PredictionInv

(* An old ack is ignored. *)
LEMMA IgnoreKeeps ==
  ASSUME PredictionInv, NEW a \in acks, HandleAck(a), Stale(c, a.state)
  PROVE  PredictionInv'
<1>1. acks' = acks \ {a} /\ UNCHANGED <<c, told, app, inputs, srv, unheard, spent>>
  BY DEF HandleAck
<1>2. PredictionTypes' /\ InputsOK' /\ AcksOK'
  BY <1>1 DEF PredictionInv, PredictionTypes, InputsOK, AcksOK
<1>3. Heard'
  <2>1. \A b \in acks : ~Stale(c, b.state) => b \in acks'
    BY <1>1
  <2> QED
    BY <1>1, <2>1 DEF PredictionInv, Heard, Settled
<1>4. ToldOK'
  BY <1>1 DEF PredictionInv, ToldOK
<1> QED
  BY <1>1, <1>2, <1>3, <1>4 DEF PredictionInv

(* An ack that counts brings the prediction to where the server was. *)
LEMMA AnswerKeeps ==
  ASSUME PredictionInv, NEW a \in acks, HandleAck(a), ~Stale(c, a.state)
  PROVE  PredictionInv'
<1> DEFINE s == a.state
<1>1. /\ acks' = acks \ {a} /\ c' = Handled(c, a) /\ told' = {c'.cur.vel}
      /\ UNCHANGED <<app, inputs, srv, unheard, spent>>
  BY DEF HandleAck, Handled, Tell
<1>2. /\ RuntimeOK(c) /\ acks \subseteq [state : States, kind : Reasons] /\ srv \in States
  BY DEF PredictionInv, PredictionTypes
<1>3. /\ s \in States /\ s.seq \in Nat /\ s.tick \in Nat /\ srv.seq \in Nat /\ srv.tick \in Nat
      /\ c.seq \in Nat /\ srv.seq < c.seq
  BY <1>2, RuntimeFacts DEF PredictionInv, InputsOK, States, Counts
<1>4. /\ s.tick \in 1..srv.tick /\ s.seq <= srv.seq /\ Rises(c.ack, s) /\ (s.tick = srv.tick => s = srv)
      /\ \A b \in acks : Rises(s, b.state)
  BY DEF PredictionInv, AcksOK
<1>5. s.seq < c.seq
  BY <1>3, <1>4
<1>6. Newer(c, s)
  BY <1>3, <1>4, <1>5 DEF Newer
<1>7. PendingOK(c) /\ AheadOK(c) /\ TipOK(c)
  BY DEF PredictionInv
<1>s. s = a.state
  OBVIOUS
<1> HIDE DEF s
<1>8. RuntimeOK(c') /\ c'.seq = c.seq /\ c'.ack = [seq |-> s.seq, tick |-> s.tick]
  <2>1. Ahead(c, s.tick) = Ahead(c, s.tick)
    OBVIOUS
  <2> QED
    BY <1>1, <1>2, <1>3, <1>s, <2>1, HandledFacts
<1>9. PendingOK(c')
  BY <1>1, <1>2, <1>6, <1>7, <1>s, HandledPending
<1>10. AheadOK(c')
  BY <1>1, <1>2, <1>6, <1>7, <1>s, HandledAhead
<1>11. TipOK(c')
  BY <1>1, <1>2, <1>6, <1>s, HandledTip
<1>12. c'.ack.seq = s.seq /\ c'.ack.tick = s.tick
  BY <1>8
<1>13. PredictionTypes'
  BY <1>1, <1>8 DEF PredictionInv, PredictionTypes
<1>14. InputsOK'
  BY <1>1, <1>8 DEF PredictionInv, InputsOK
<1>15. AcksOK'
  <2>1. c'.ack.seq <= srv.seq /\ c'.ack.tick <= srv.tick
    BY <1>3, <1>4, <1>12
  <2>2. \A b \in acks : Rises(c'.ack, b.state)
    BY <1>4, <1>12 DEF Rises
  <2> QED
    BY <1>1, <2>1, <2>2 DEF PredictionInv, AcksOK
<1>16. Heard'
  <2>1. CASE unheard
    BY <1>1, <2>1 DEF Heard
  <2>2. CASE s = srv
    <3>1. c'.seq = srv'.seq + 1 /\ c'.cur.tick <= srv'.tick => c'.cur.pos = srv'.pos /\ c'.cur.vel = srv'.vel
      <4> SUFFICES ASSUME c'.seq = srv'.seq + 1, c'.cur.tick <= srv'.tick
                   PROVE  c'.cur.pos = srv'.pos /\ c'.cur.vel = srv'.vel
        OBVIOUS
      <4>1. s.seq = c.seq - 1 /\ c'.cur.tick <= s.tick
        BY <1>1, <1>3, <1>8, <2>2
      <4>2. c'.cur.pos = s.pos /\ c'.cur.vel = s.vel
        BY <1>1, <1>2, <1>6, <1>7, <1>s, <4>1, HandledSettles
      <4> QED
        BY <1>1, <2>2, <4>2
    <3>2. \A b \in acks : Stale(c', b.state)
      <4> SUFFICES ASSUME NEW b \in acks PROVE Stale(c', b.state)
        OBVIOUS
      <4>1. b.state.tick \in 1..srv.tick /\ b.state.seq <= srv.seq /\ b.state \in States
        BY <1>2 DEF PredictionInv, AcksOK
      <4>2. b.state.seq \in Nat /\ b.state.tick \in Nat
        BY <4>1 DEF States
      <4> QED
        BY <1>3, <1>12, <2>2, <4>1, <4>2 DEF Stale
    <3> QED
      BY <1>1, <3>1, <3>2 DEF Heard, Settled
  <2>3. CASE ~unheard /\ s # srv
    <3>1. PICK b \in acks : b.state = srv /\ ~Stale(c, b.state)
      BY <2>3, <1>s DEF PredictionInv, Heard
    <3>2. b \in acks'
      BY <1>1, <1>s, <2>3, <3>1
    <3>3. s.seq <= srv.seq /\ s.tick < srv.tick
      BY <1>3, <1>4, <2>3
    <3>4. ~Stale(c', srv)
      BY <1>3, <1>12, <3>3 DEF Stale
    <3> QED
      BY <1>1, <3>1, <3>2, <3>4 DEF Heard
  <2> QED
    BY <2>1, <2>2, <2>3
<1>17. ToldOK'
  BY <1>1 DEF ToldOK
<1> QED
  BY <1>8, <1>9, <1>10, <1>11, <1>13, <1>14, <1>15, <1>16, <1>17 DEF PredictionInv

(* The app takes the velocity last told. *)
LEMMA PollPositionKeeps ==
  ASSUME PredictionInv, PollPosition
  PROVE  PredictionInv'
<1>1. PICK vel \in told : app' = [app EXCEPT !.vel = vel]
  BY DEF PollPosition
<1>2. told' = {} /\ UNCHANGED <<c, inputs, acks, srv, unheard, spent>>
  BY DEF PollPosition
<1>3. RuntimeOK(c) /\ app \in [dir : Dirs, stop : BOOLEAN, vel : Int]
  BY DEF PredictionInv, PredictionTypes
<1>4. vel = c.cur.vel
  BY DEF PredictionInv, ToldOK
<1>5. vel \in Int
  BY <1>3, <1>4, RuntimeFacts DEF States
<1>6. app' \in [dir : Dirs, stop : BOOLEAN, vel : Int] /\ app'.vel = vel
  BY <1>1, <1>3, <1>5
<1>7. PredictionTypes'
  BY <1>2, <1>6 DEF PredictionInv, PredictionTypes
<1>8. InputsOK' /\ AcksOK' /\ Heard'
  BY <1>2 DEF PredictionInv, InputsOK, AcksOK, Heard, Settled
<1>9. ToldOK'
  BY <1>2, <1>4, <1>6 DEF ToldOK
<1> QED
  BY <1>2, <1>7, <1>8, <1>9 DEF PredictionInv

(* The soft distance follows the jitter. *)
LEMMA ObserveRttKeeps ==
  ASSUME PredictionInv, ObserveRtt
  PROVE  PredictionInv'
<1>1. /\ spent' = spent + 1 /\ UNCHANGED <<app, told, inputs, acks, srv, unheard>>
  BY DEF ObserveRtt, Happens
<1>2. RuntimeOK(c) /\ spent \in Nat
  BY DEF PredictionInv, PredictionTypes
<1>3. c \in Runtimes /\ c.soft \in BaseSoft..MaxSoft /\ BaseSoft \in Nat /\ MaxSoft \in Nat
  BY <1>2, RuntimeFacts, Constants
<1>4. PICK soft \in BaseSoft..MaxSoft : c' = [c EXCEPT !.soft = soft]
  <2>1. PICK target \in BaseSoft..MaxSoft :
          \E soft \in IF target >= c.soft THEN {target} ELSE target..c.soft : c' = [c EXCEPT !.soft = soft]
    BY DEF ObserveRtt
  <2>2. PICK soft \in IF target >= c.soft THEN {target} ELSE target..c.soft : c' = [c EXCEPT !.soft = soft]
    BY <2>1
  <2>3. soft \in BaseSoft..MaxSoft
    BY <1>3, <2>2
  <2> QED
    BY <2>2, <2>3
<1>5. /\ c' \in Runtimes /\ c'.seq = c.seq /\ c'.tick = c.tick /\ c'.cur = c.cur /\ c'.ih = c.ih
      /\ c'.ph = c.ph /\ c'.ack = c.ack
  BY <1>3, <1>4 DEF Runtimes
<1>6. RuntimeOK(c')
  BY <1>2, <1>5 DEF RuntimeOK
<1>7. PendingOK(c') /\ AheadOK(c') /\ TipOK(c')
  BY <1>5 DEF PredictionInv, PendingOK, AheadOK, TipOK
<1>8. PredictionTypes'
  BY <1>1, <1>2, <1>6 DEF PredictionInv, PredictionTypes
<1>9. InputsOK' /\ AcksOK'
  BY <1>1, <1>5 DEF PredictionInv, InputsOK, AcksOK
<1>10. Heard'
  <2>1. \A s : Stale(c', s) <=> Stale(c, s)
    BY <1>5 DEF Stale
  <2>2. Settled' <=> Settled
    BY <1>1, <1>5 DEF Settled
  <2> QED
    BY <1>1, <2>1, <2>2 DEF PredictionInv, Heard
<1>11. ToldOK'
  BY <1>1, <1>5 DEF PredictionInv, ToldOK
<1> QED
  BY <1>7, <1>8, <1>9, <1>10, <1>11 DEF PredictionInv

(* The next session starts where the server has the player. *)
LEMMA RejoinKeeps ==
  ASSUME PredictionInv, Rejoin
  PROVE  PredictionInv'
<1>1. /\ inputs' = << >> /\ acks' = {} /\ told' = {} /\ unheard' = FALSE /\ spent' = spent + 1
      /\ srv' = [srv EXCEPT !.vel = 0, !.tick = 0] /\ c' = NewRuntime(srv.pos, srv.seq + 1)
      /\ app' = [app EXCEPT !.stop = TRUE, !.vel = 0]
  BY DEF Rejoin, Happens
<1>2. srv \in States /\ spent \in Nat /\ app \in [dir : Dirs, stop : BOOLEAN, vel : Int]
  BY DEF PredictionInv, PredictionTypes
<1>3. srv.pos \in Int /\ srv.seq \in Nat /\ srv.seq + 1 \in Counts
  BY <1>2 DEF States, Counts
<1>4. /\ srv' \in States /\ srv'.seq = srv.seq /\ srv'.tick = 0 /\ srv'.pos = srv.pos /\ srv'.vel = 0
  <2> DEFINE zero == 0
  <2>1. srv' = [srv EXCEPT !.vel = zero, !.tick = zero]
    BY DEF Rejoin
  <2>2. zero \in Int /\ zero \in Nat
    OBVIOUS
  <2> HIDE DEF zero
  <2>3. srv' \in States /\ srv'.seq = srv.seq /\ srv'.tick = zero /\ srv'.pos = srv.pos /\ srv'.vel = zero
    BY <1>2, <2>1, <2>2 DEF States
  <2> QED
    BY <2>3 DEF zero
<1>5. /\ RuntimeOK(c') /\ PendingOK(c') /\ AheadOK(c') /\ TipOK(c') /\ c'.seq = srv.seq + 1
      /\ c'.cur.pos = srv.pos /\ c'.cur.vel = 0 /\ c'.ack.seq = 0 /\ c'.ack.tick = 0
  BY <1>1, <1>3, NewRuntimeFacts
<1>6. app' \in [dir : Dirs, stop : BOOLEAN, vel : Int] /\ app'.vel = 0
  <2> DEFINE zero == 0
  <2> DEFINE stop == TRUE
  <2>1. app' = [app EXCEPT !.stop = stop, !.vel = zero]
    BY DEF Rejoin
  <2>2. zero \in Int /\ stop \in BOOLEAN
    OBVIOUS
  <2> HIDE DEF zero, stop
  <2>3. app' \in [dir : Dirs, stop : BOOLEAN, vel : Int] /\ app'.vel = zero
    BY <1>2, <2>1, <2>2
  <2> QED
    BY <2>3 DEF zero
<1>7. PredictionTypes'
  <2>0. spent' = spent + 1 /\ acks' = {} /\ unheard' = FALSE
    BY DEF Rejoin, Happens
  <2>2. unheard' \in BOOLEAN /\ acks' \subseteq [state : States, kind : Reasons]
    BY <2>0
  <2>3. spent' \in Nat
    BY <1>2, <2>0
  <2>1. inputs' \in Seq(Frames)
    BY <1>1, EmptySeq
  <2> QED
    BY <1>2, <1>4, <1>5, <1>6, <2>0, <2>1, <2>2, <2>3 DEF PredictionTypes
<1>8. InputsOK'
  BY <1>1, <1>3, <1>4, <1>5, EmptySeq DEF InputsOK
<1>9. AcksOK'
  BY <1>1, <1>3, <1>4, <1>5 DEF AcksOK
<1>10. Heard'
  BY <1>1, <1>4, <1>5 DEF Heard, Settled
<1>11. ToldOK'
  BY <1>1, <1>5, <1>6 DEF ToldOK
<1> QED
  BY <1>5, <1>7, <1>8, <1>9, <1>10, <1>11 DEF PredictionInv

(* The server's word is on its way, and counts. *)
LEMMA TickKeeps ==
  ASSUME PredictionInv, NEW stepped \in States, stepped.tick = srv.tick + 1,
         srv.seq <= stepped.seq, stepped.seq < c.seq, Tick(stepped), inputs' \in Seq(Frames)
  PROVE  /\ PredictionTypes' /\ AcksOK' /\ Heard' /\ ToldOK' /\ c' = c /\ srv'.seq = stepped.seq
<1>1. PICK kind \in Reasons :
        /\ srv' = Moved(kind, stepped) /\ acks' = acks \cup {[state |-> srv', kind |-> kind]}
        /\ IF kind = "none" THEN UNCHANGED spent ELSE Happens(kind)
  BY DEF Tick, Says, Reasons
<1>2. unheard' = FALSE /\ UNCHANGED <<c, app, told>>
  BY DEF Tick, Says
<1>3. /\ RuntimeOK(c) /\ acks \subseteq [state : States, kind : Reasons] /\ srv \in States /\ spent \in Nat
      /\ app \in [dir : Dirs, stop : BOOLEAN, vel : Int]
  BY DEF PredictionInv, PredictionTypes
<1>4. spent' \in Nat
  BY <1>1, <1>3 DEF Happens
<1>5. srv' \in States /\ srv'.seq = stepped.seq /\ srv'.tick = srv.tick + 1
  <2>1. srv.pos \in Int /\ Hard \in Nat
    BY <1>3, Constants DEF States
  <2> DEFINE zero == 0
  <2>0. zero \in Int
    OBVIOUS
  <2> HIDE DEF zero
  <2>2. CASE kind = "none"
    BY <1>1, <2>2 DEF Moved
  <2>3. CASE kind \in {"push", "status"}
    <3>1. srv' = [stepped EXCEPT !.pos = srv.pos, !.vel = zero]
      BY <1>1, <2>3 DEF Moved, zero
    <3> QED
      BY <2>0, <2>1, <3>1 DEF States
  <2>4. CASE kind = "drift"
    <3>1. srv' = [stepped EXCEPT !.pos = @ + 3]
      BY <1>1, <2>4 DEF Moved
    <3> QED
      BY <3>1 DEF States
  <2>5. CASE kind = "teleport"
    <3> DEFINE far == stepped.pos + Hard + 3
    <3>1. srv' = [stepped EXCEPT !.pos = far, !.vel = zero]
      BY <1>1, <2>5 DEF Moved, States, zero
    <3>2. far \in Int
      BY <2>1 DEF States
    <3> HIDE DEF far
    <3> QED
      BY <2>0, <3>1, <3>2 DEF States
  <2> QED
    BY <2>2, <2>3, <2>4, <2>5 DEF Reasons
<1>6. srv.seq \in Nat /\ srv.tick \in Nat /\ stepped.seq \in Nat /\ c.ack.seq \in Nat /\ c.ack.tick \in Nat
  BY <1>3, RuntimeFacts DEF States
<1>7. c.ack.seq <= srv.seq /\ c.ack.tick <= srv.tick
  BY DEF PredictionInv, AcksOK
<1>8. PredictionTypes'
  <2>1. acks' \subseteq [state : States, kind : Reasons]
    BY <1>1, <1>3, <1>5
  <2> QED
    BY <1>2, <1>3, <1>4, <1>5, <2>1 DEF PredictionTypes
<1>9. \A a \in acks : /\ a.state.tick \in 1..srv.tick /\ a.state.seq <= srv.seq /\ Rises(c.ack, a.state)
                      /\ a.state.seq \in Nat /\ a.state.tick \in Nat
  BY <1>3 DEF PredictionInv, AcksOK, States
<1>10. \A a \in acks' : a \in acks \/ a.state = srv'
  BY <1>1
<1>11. AcksOK'
  <2>1. c.ack.seq <= srv'.seq /\ c.ack.tick <= srv'.tick
    BY <1>5, <1>6, <1>7
  <2>2. ASSUME NEW a \in acks'
        PROVE  /\ a.state.tick \in 1..srv'.tick /\ a.state.seq <= srv'.seq
               /\ (a.state.tick = srv'.tick => a.state = srv') /\ Rises(c.ack, a.state)
    <3>1. CASE a \in acks
      <4>1. a.state.tick \in 1..srv.tick /\ a.state.seq <= srv.seq /\ a.state.seq \in Nat /\ Rises(c.ack, a.state)
        BY <1>9, <3>1
      <4> QED
        BY <1>5, <1>6, <4>1
    <3>2. CASE a.state = srv'
      BY <1>5, <1>6, <1>7, <3>2 DEF Rises
    <3> QED
      BY <1>10, <3>1, <3>2
  <2>3. ASSUME NEW a \in acks', NEW b \in acks' PROVE Rises(a.state, b.state)
    <3>1. CASE a \in acks /\ b \in acks
      BY <3>1 DEF PredictionInv, AcksOK
    <3>2. CASE a \in acks /\ b.state = srv'
      <4>1. a.state.tick \in 1..srv.tick
        BY <1>9, <3>2
      <4> QED
        BY <1>5, <1>6, <3>2, <4>1 DEF Rises
    <3>3. CASE a.state = srv' /\ b \in acks
      <4>1. b.state.seq <= srv.seq /\ b.state.seq \in Nat
        BY <1>9, <3>3
      <4> QED
        BY <1>5, <1>6, <3>3, <4>1 DEF Rises
    <3>4. CASE a.state = srv' /\ b.state = srv'
      BY <1>5, <1>6, <3>4 DEF Rises
    <3> QED
      BY <1>10, <3>1, <3>2, <3>3, <3>4
  <2> QED
    BY <1>2, <2>1, <2>2, <2>3 DEF AcksOK
<1>12. Heard'
  <2>1. ~Stale(c, srv')
    BY <1>5, <1>6, <1>7 DEF Stale
  <2>2. \E a \in acks' : a.state = srv'
    <3>1. [state |-> srv', kind |-> kind] \in acks'
      BY <1>1
    <3>2. [state |-> srv', kind |-> kind].state = srv'
      OBVIOUS
    <3> QED
      BY <3>1, <3>2
  <2> QED
    BY <1>2, <2>1, <2>2 DEF Heard
<1>13. ToldOK'
  BY <1>2 DEF PredictionInv, ToldOK
<1> QED
  BY <1>2, <1>5, <1>8, <1>11, <1>12, <1>13

(* The server applies an input. *)
LEMMA ServerInputKeeps ==
  ASSUME PredictionInv, ServerInput
  PROVE  PredictionInv'
<1> DEFINE f == [Head(inputs) EXCEPT !.tick = srv.tick + 1]
<1> DEFINE stepped == Step(srv, f)
<1> DEFINE n == Len(inputs)
<1>1. inputs # << >> /\ inputs' = Tail(inputs) /\ Tick(stepped)
  BY DEF ServerInput
<1>2. inputs \in Seq(Frames) /\ srv \in States /\ RuntimeOK(c)
  BY DEF PredictionInv, PredictionTypes
<1>3. srv.tick \in Nat /\ srv.seq \in Nat /\ c.seq \in Nat
  BY <1>2, RuntimeFacts DEF States, Counts
<1>4. n \in Nat /\ n >= 1 /\ DOMAIN inputs = 1..n /\ Head(inputs) = inputs[1] /\ Head(inputs) \in Frames
  <2>1. n \in Nat /\ DOMAIN inputs = 1..n
    BY <1>2, LenProperties
  <2>2. n # 0
    BY <1>1, <1>2, EmptySeq
  <2>3. Head(inputs) = inputs[1] /\ Head(inputs) \in Frames
    BY <1>1, <1>2, HeadTailProperties
  <2> QED
    BY <2>1, <2>2, <2>3
<1>5. /\ \A i \in 1..n : srv.seq < inputs[i].seq /\ inputs[i].seq < c.seq
      /\ \A i, j \in 1..n : i < j => inputs[i].seq < inputs[j].seq
  BY <1>4 DEF PredictionInv, InputsOK
<1>6. f.seq = inputs[1].seq /\ f.tick = srv.tick + 1 /\ f.dir \in Int /\ f.seq \in Nat
  <2>1. Head(inputs).seq \in Nat /\ Head(inputs).dir \in Dirs
    BY <1>4 DEF Frames, Counts
  <2>2. f.seq = Head(inputs).seq /\ f.tick = srv.tick + 1 /\ f.dir = Head(inputs).dir
    BY <1>4 DEF Frames
  <2> QED
    BY <1>4, <2>1, <2>2, Constants
<1> HIDE DEF f
<1>7. stepped \in States /\ stepped.seq = inputs[1].seq /\ stepped.tick = srv.tick + 1
  BY <1>2, <1>3, <1>6, StepFacts
<1> HIDE DEF stepped
<1>8. srv.seq <= stepped.seq /\ stepped.seq < c.seq
  BY <1>3, <1>4, <1>5, <1>6, <1>7
<1>9. inputs' \in Seq(Frames) /\ Len(inputs') = n - 1 /\ \A i \in 1..n - 1 : inputs'[i] = inputs[i + 1]
  BY <1>1, <1>2, HeadTailProperties
<1>10. /\ PredictionTypes' /\ AcksOK' /\ Heard' /\ ToldOK' /\ c' = c /\ srv'.seq = stepped.seq
  BY <1>1, <1>7, <1>8, <1>9, TickKeeps
<1>11. DOMAIN inputs' = 1..n - 1
  BY <1>9, LenProperties
<1> HIDE DEF n
<1>12. InputsOK'
  <2>1. \A i \in 1..n - 1 : i + 1 \in 1..n /\ 1 \in 1..n /\ 1 < i + 1
    BY <1>4
  <2>2. \A i \in 1..n - 1 : srv'.seq < inputs'[i].seq /\ inputs'[i].seq < c.seq
    BY <1>5, <1>7, <1>9, <1>10, <2>1
  <2>3. \A i, j \in 1..n - 1 : i < j => inputs'[i].seq < inputs'[j].seq
    <3> SUFFICES ASSUME NEW i \in 1..n - 1, NEW j \in 1..n - 1, i < j PROVE inputs'[i].seq < inputs'[j].seq
      OBVIOUS
    <3>1. i + 1 \in 1..n /\ j + 1 \in 1..n /\ i + 1 < j + 1
      BY <1>4
    <3>2. inputs[i + 1].seq < inputs[j + 1].seq
      BY <1>5, <3>1
    <3> QED
      BY <1>9, <3>2
  <2> QED
    BY <1>8, <1>10, <1>11, <2>2, <2>3 DEF InputsOK
<1>13. PendingOK(c') /\ AheadOK(c') /\ TipOK(c')
  BY <1>10 DEF PredictionInv
<1> QED
  BY <1>10, <1>12, <1>13 DEF PredictionInv

(* The server idles. *)
LEMMA ServerIdleKeeps ==
  ASSUME PredictionInv, ServerIdle
  PROVE  PredictionInv'
<1> DEFINE f == [seq |-> srv.seq, tick |-> srv.tick + 1, dir |-> 0]
<1> DEFINE stepped == Step(srv, f)
<1>1. inputs' = inputs /\ Tick(stepped)
  BY DEF ServerIdle
<1>2. inputs \in Seq(Frames) /\ srv \in States
  BY DEF PredictionInv, PredictionTypes
<1>3. srv.tick \in Nat /\ srv.seq \in Nat /\ srv.seq < c.seq
  BY <1>2 DEF PredictionInv, InputsOK, States
<1>4. f.seq = srv.seq /\ f.tick = srv.tick + 1 /\ f.dir = 0
  OBVIOUS
<1> HIDE DEF f
<1>5. stepped \in States /\ stepped.seq = srv.seq /\ stepped.tick = srv.tick + 1
  BY <1>2, <1>3, <1>4, StepFacts
<1> HIDE DEF stepped
<1>6. srv.seq <= stepped.seq /\ stepped.seq < c.seq /\ inputs' \in Seq(Frames)
  BY <1>1, <1>2, <1>3, <1>5
<1>7. /\ PredictionTypes' /\ AcksOK' /\ Heard' /\ ToldOK' /\ c' = c /\ srv'.seq = stepped.seq
  BY <1>1, <1>5, <1>6, TickKeeps
<1>8. InputsOK'
  BY <1>1, <1>5, <1>7 DEF PredictionInv, InputsOK
<1>9. PendingOK(c') /\ AheadOK(c') /\ TipOK(c')
  BY <1>7 DEF PredictionInv
<1> QED
  BY <1>7, <1>8, <1>9 DEF PredictionInv

(* An input is lost: the others keep their order. *)
LEMMA WithoutOne ==
  ASSUME NEW s \in Seq(Frames), NEW k \in 1..Len(s)
  PROVE  LET w == RemoveAt(s, k)
         IN  /\ w \in Seq(Frames) /\ DOMAIN w = 1..Len(s) - 1
             /\ \A i \in 1..Len(s) - 1 : w[i] = s[IF i < k THEN i ELSE i + 1]
<1> DEFINE n == Len(s)
<1> DEFINE left == SubSeq(s, 1, k - 1)
<1> DEFINE right == SubSeq(s, k + 1, n)
<1> DEFINE w == left \o right
<1>1. n \in Nat /\ k \in Int /\ 1 <= k /\ k <= n
  BY LenProperties
<1>2. left \in Seq(Frames) /\ Len(left) = k - 1 /\ \A i \in 1..k - 1 : left[i] = s[i]
  BY <1>1
<1>3. right \in Seq(Frames) /\ Len(right) = n - k /\ \A i \in 1..n - k : right[i] = s[k + i]
  BY <1>1
<1> HIDE DEF left, right
<1>4. w \in Seq(Frames) /\ Len(w) = n - 1
  <2>1. w \in Seq(Frames) /\ Len(w) = Len(left) + Len(right)
    BY <1>2, <1>3, ConcatProperties
  <2> QED
    BY <1>1, <1>2, <1>3, <2>1
<1>5. \A i \in 1..n - 1 : w[i] = s[IF i < k THEN i ELSE i + 1]
  <2> SUFFICES ASSUME NEW i \in 1..n - 1 PROVE w[i] = s[IF i < k THEN i ELSE i + 1]
    OBVIOUS
  <2>1. CASE i < k
    <3>1. i \in 1..k - 1
      BY <1>1, <2>1
    <3>2. w[i] = left[i]
      BY <1>1, <1>2, <1>3, <3>1
    <3> QED
      BY <1>2, <2>1, <3>1, <3>2
  <2>2. CASE ~(i < k)
    <3>1. i - (k - 1) \in 1..n - k /\ k + (i - (k - 1)) = i + 1
      BY <1>1, <2>2
    <3>2. w[i] = right[i - (k - 1)]
      BY <1>1, <1>2, <1>3, <2>2
    <3> QED
      BY <1>3, <2>2, <3>1, <3>2
  <2> QED
    BY <2>1, <2>2
<1>6. RemoveAt(s, k) = w
  BY DEF RemoveAt, left, right
<1> HIDE DEF w
<1>7. DOMAIN w = 1..n - 1
  BY <1>4, LenProperties
<1> QED
  BY <1>4, <1>5, <1>6, <1>7

(* An input or an ack is lost. *)
LEMMA LoseInputKeeps ==
  ASSUME PredictionInv, NEW k \in DOMAIN inputs, inputs' = RemoveAt(inputs, k), spent' \in Nat,
         UNCHANGED <<c, app, told, srv, acks, unheard>>
  PROVE  PredictionInv'
<1> DEFINE n == Len(inputs)
<1>1. inputs \in Seq(Frames)
  BY DEF PredictionInv, PredictionTypes
<1>2. n \in Nat /\ DOMAIN inputs = 1..n
  BY <1>1, LenProperties
<1>3. /\ inputs' \in Seq(Frames) /\ DOMAIN inputs' = 1..n - 1
      /\ \A i \in 1..n - 1 : inputs'[i] = inputs[IF i < k THEN i ELSE i + 1]
  BY <1>1, <1>2, WithoutOne
<1>4. PredictionTypes'
  BY <1>3 DEF PredictionInv, PredictionTypes
<1> HIDE DEF n
<1>5. InputsOK'
  <2>1. /\ srv.seq < c.seq
        /\ \A i \in 1..n : srv.seq < inputs[i].seq /\ inputs[i].seq < c.seq
        /\ \A i, j \in 1..n : i < j => inputs[i].seq < inputs[j].seq
    BY <1>2 DEF PredictionInv, InputsOK
  <2>2. k \in Int
    BY <1>2
  <2>3. \A i \in 1..n - 1 : srv.seq < inputs'[i].seq /\ inputs'[i].seq < c.seq
    <3> SUFFICES ASSUME NEW i \in 1..n - 1 PROVE srv.seq < inputs'[i].seq /\ inputs'[i].seq < c.seq
      OBVIOUS
    <3>1. i \in 1..n /\ i + 1 \in 1..n
      BY <1>2
    <3> QED
      BY <1>3, <2>1, <3>1
  <2>4. \A i, j \in 1..n - 1 : i < j => inputs'[i].seq < inputs'[j].seq
    <3> SUFFICES ASSUME NEW i \in 1..n - 1, NEW j \in 1..n - 1, i < j PROVE inputs'[i].seq < inputs'[j].seq
      OBVIOUS
    <3> DEFINE p == IF i < k THEN i ELSE i + 1
    <3> DEFINE q == IF j < k THEN j ELSE j + 1
    <3>1. p \in 1..n /\ q \in 1..n /\ p < q
      BY <1>2, <2>2
    <3>2. inputs'[i] = inputs[p] /\ inputs'[j] = inputs[q]
      BY <1>3
    <3> HIDE DEF p, q
    <3> QED
      BY <2>1, <3>1, <3>2
  <2> QED
    BY <1>3, <2>1, <2>3, <2>4 DEF InputsOK
<1>6. AcksOK' /\ Heard' /\ ToldOK'
  BY DEF PredictionInv, AcksOK, Heard, Settled, ToldOK
<1> QED
  BY <1>4, <1>5, <1>6 DEF PredictionInv

LEMMA LoseAckKeeps ==
  ASSUME PredictionInv, NEW a \in acks, acks' = acks \ {a}, unheard' = (unheard \/ a.state.tick = srv.tick),
         spent' \in Nat, UNCHANGED <<c, app, told, srv, inputs>>
  PROVE  PredictionInv'
<1>1. unheard' \in BOOLEAN
  BY DEF PredictionInv, PredictionTypes
<1>2. PredictionTypes'
  BY <1>1 DEF PredictionInv, PredictionTypes
<1>3. InputsOK' /\ AcksOK' /\ ToldOK'
  BY DEF PredictionInv, InputsOK, AcksOK, ToldOK
<1>4. Heard'
  <2>1. CASE unheard \/ a.state.tick = srv.tick
    BY <2>1 DEF Heard
  <2>2. CASE ~unheard /\ a.state.tick # srv.tick
    <3>1. \A b \in acks : b.state = srv => b \in acks'
      BY <2>2
    <3> QED
      BY <2>2, <3>1 DEF PredictionInv, Heard, Settled
  <2> QED
    BY <2>1, <2>2
<1> QED
  BY <1>2, <1>3, <1>4 DEF PredictionInv

--------------------------------------------------------------------------------
(* The theorems.                                                                *)

(* Every step keeps the invariant. *)
LEMMA StepKeeps == PredictionInv /\ [Next]_vars => PredictionInv'
<1> SUFFICES ASSUME PredictionInv, [Next]_vars PROVE PredictionInv'
  OBVIOUS
<1>1. ASSUME NEW dir \in Dirs, SampleInput(dir) PROVE PredictionInv'
  BY <1>1, SampleInputKeeps
<1>2. CASE SendMove
  BY <1>2, SendMoveKeeps
<1>3. ASSUME NEW a \in acks, HandleAck(a) PROVE PredictionInv'
  BY <1>3, IgnoreKeeps, AnswerKeeps
<1>4. CASE PollPosition
  BY <1>4, PollPositionKeeps
<1>5. CASE ObserveRtt
  BY <1>5, ObserveRttKeeps
<1>6. CASE Rejoin
  BY <1>6, RejoinKeeps
<1>7. CASE ServerInput
  BY <1>7, ServerInputKeeps
<1>8. CASE ServerIdle
  BY <1>8, ServerIdleKeeps
<1>9. CASE Lose
  <2>1. spent' \in Nat /\ UNCHANGED <<c, app, told, srv>>
    BY <1>9 DEF Lose, Happens, PredictionInv, PredictionTypes
  <2>2. ASSUME NEW i \in DOMAIN inputs, inputs' = RemoveAt(inputs, i), UNCHANGED <<acks, unheard>>
        PROVE  PredictionInv'
    BY <2>1, <2>2, LoseInputKeeps
  <2>3. ASSUME NEW a \in acks, acks' = acks \ {a}, UNCHANGED inputs, unheard' = (unheard \/ a.state.tick = srv.tick)
        PROVE  PredictionInv'
    BY <2>1, <2>3, LoseAckKeeps
  <2> QED
    BY <1>9, <2>2, <2>3 DEF Lose
<1>10. CASE UNCHANGED vars
  BY <1>10 DEF vars, PredictionInv, PredictionTypes, InputsOK, AcksOK, Heard, Settled, ToldOK
<1> QED
  BY <1>1, <1>2, <1>3, <1>4, <1>5, <1>6, <1>7, <1>8, <1>9, <1>10 DEF Next

(* The invariant holds of every behaviour: whatever the acks that are lost,     *)
(* overtake each other or correct the prediction.                               *)
THEOREM PredictionInvariantHolds == Spec => []PredictionInv
<1>1. Init => PredictionInv
  BY InitOK
<1>2. PredictionInv /\ [Next]_vars => PredictionInv'
  BY StepKeeps
<1> QED
  BY <1>1, <1>2, PTL DEF Spec

(* The histories of inputs and of states stay within their capacities, also     *)
(* when acks make the client synthesise idle steps or replay what is pending    *)
(* (sim/history.rs), and the server finds the inputs of a session in order.     *)
THEOREM BuffersBounded == Spec => []BufferOK
<1>1. PredictionInv => BufferOK
  <2> SUFFICES ASSUME PredictionInv PROVE BufferOK
    OBVIOUS
  <2>1. /\ RuntimeOK(c) /\ app \in [dir : Dirs, stop : BOOLEAN, vel : Int] /\ inputs \in Seq(Frames)
    BY DEF PredictionInv, PredictionTypes
  <2>2. TypeOK
    BY <2>1, RuntimeFacts DEF TypeOK, Counts
  <2>3. Len(inputs) \in Nat /\ DOMAIN inputs = 1..Len(inputs)
    BY <2>1, LenProperties
  <2>4. InOrder
    <3>1. ASSUME NEW i \in DOMAIN inputs PROVE inputs[i].seq > srv.seq
      <4>1. srv.seq < inputs[i].seq
        BY DEF PredictionInv, InputsOK
      <4> QED
        BY <4>1
    <3>2. ASSUME NEW i \in 1..Len(inputs) - 1 PROVE inputs[i].seq < inputs[i + 1].seq
      <4>1. i \in DOMAIN inputs /\ i + 1 \in DOMAIN inputs /\ i < i + 1
        BY <2>3
      <4> QED
        BY <4>1 DEF PredictionInv, InputsOK
    <3> QED
      BY <3>1, <3>2 DEF InOrder
  <2> QED
    BY <2>2, <2>4 DEF BufferOK
<1> QED
  BY <1>1, PredictionInvariantHolds, PTL

(* When the last answer is in, the prediction is where the server is and goes   *)
(* as fast: no order, loss or kind of correction leaves it off                  *)
(* (net/runtime.rs, sim/reconcile.rs).                                          *)
THEOREM PredictionSettles == Spec => []SettlesTogether
<1>1. PredictionInv => SettlesTogether
  <2> SUFFICES ASSUME PredictionInv, Quiet PROVE c.cur.pos = srv.pos /\ c.cur.vel = srv.vel
    BY DEF SettlesTogether
  <2>1. Settled
    BY DEF PredictionInv, Heard, Quiet
  <2> QED
    BY <2>1 DEF Settled, Quiet
<1> QED
  BY <1>1, PredictionInvariantHolds, PTL

(* And when the player has let go and nothing more is sent, the server has come *)
(* to rest: the velocity the app stops braking by is the server's               *)
(* (movement/plugin.rs, should_send_stop_sync).                                 *)
THEOREM PredictionStops == Spec => []StopsTogether
<1>1. PredictionInv => StopsTogether
  <2> SUFFICES ASSUME PredictionInv, Quiet, Abs(app.vel) <= Still PROVE Abs(srv.vel) <= Still
    BY DEF StopsTogether
  <2>1. Settled
    BY DEF PredictionInv, Heard, Quiet
  <2>2. c.cur.vel = srv.vel
    BY <2>1 DEF Settled, Quiet
  <2>3. app.vel = c.cur.vel
    BY DEF PredictionInv, ToldOK, Quiet
  <2> QED
    BY <2>2, <2>3
<1> QED
  BY <1>1, PredictionInvariantHolds, PTL
==============================================================================
