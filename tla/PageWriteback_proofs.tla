------------------------- MODULE PageWriteback_proofs -------------------------
(***************************************************************************)
(* Proofs about PageWriteback, for any number of page units, callers,      *)
(* batches in flight, transactions and crashes.                            *)
(***************************************************************************)
EXTENDS PageWriteback, FiniteSetTheorems, SequenceTheorems, WellFoundedInduction, TLAPS

-----------------------------------------------------------------------------
(* What the queries of PageStore return, whatever the tables hold. *)

(* A non-empty set of naturals has a least element. *)
LEMMA NatMin ==
  ASSUME NEW T \in SUBSET Nat, T # {}
  PROVE  \E n \in T : \A m \in T : n <= m
<1>1. \E n \in T : \A m \in T : ~ (<<m, n>> \in OpToRel(<, Nat))
  BY NatLessThanWellFounded, WFMin, Zenon
<1>2. PICK n \in T : \A m \in T : ~ (<<m, n>> \in OpToRel(<, Nat))
  BY <1>1
<1>3. ASSUME NEW m \in T, m < n PROVE <<m, n>> \in OpToRel(<, Nat)
  <2>1. m \in Nat /\ n \in Nat OBVIOUS
  <2> QED BY <1>3, <2>1 DEF OpToRel
<1>4. \A m \in T : ~ (m < n)
  BY <1>2, <1>3, Zenon
<1>5. n \in Nat /\ \A m \in T : m \in Nat
  OBVIOUS
<1> QED
  BY <1>4, <1>5

(* A non-empty bounded set of naturals has a greatest element: the newest   *)
(* version that read_pages selects exists.                                 *)
LEMMA BoundedMax ==
  ASSUME NEW S \in SUBSET Nat, S # {}, NEW b \in Nat, \A x \in S : x <= b
  PROVE  \E m \in S : \A x \in S : x <= m
<1> DEFINE T == {b - x : x \in S}
<1>1. T \in SUBSET Nat 
  <2> SUFFICES ASSUME NEW x \in S PROVE b - x \in Nat  OBVIOUS
  <2>1. x \in Nat /\ x <= b OBVIOUS
  <2> QED BY <2>1
<1>5. T # {} OBVIOUS
<1>4. \A x \in S : b - x \in T
  BY DEF T
<1>6. \A n \in T : \E m \in S : n = b - m
  BY DEF T
<1> HIDE DEF T
<1>2. PICK n \in T : \A m \in T : n <= m
  BY <1>1, <1>5, NatMin
<1>3. PICK m \in S : n = b - m
  BY <1>6
<1>7. ASSUME NEW x \in S PROVE x <= m
  <2>1. b - m <= b - x BY <1>2, <1>3, <1>4
  <2>2. x \in Nat /\ m \in Nat OBVIOUS
  <2> QED BY <2>1, <2>2
<1> QED
  BY <1>7

(* A unit with a published version has a visible one, at least as new. *)
LEMMA VisibleExists ==
  ASSUME NEW rows, \A x \in rows : x.cut \in Nat, NEW p \in Int, NEW u,
         NEW r \in rows, r.unit = u, r.cut <= p
  PROVE  \E v \in VisibleRows(rows, p, u) : r.cut <= v.cut
<1> DEFINE S == {x.cut : x \in {y \in rows : y.unit = u /\ y.cut <= p}}
<1>1. S \in SUBSET Nat /\ r.cut \in S /\ p \in Nat
  OBVIOUS
<1>2. \A n \in S : n <= p
  OBVIOUS
<1>3. \A n \in S : \E y \in rows : y.unit = u /\ y.cut <= p /\ y.cut = n
  OBVIOUS
<1>4. \A y \in rows : y.unit = u /\ y.cut <= p => y.cut \in S
  OBVIOUS
<1> HIDE DEF S
<1>5. PICK m \in S : \A n \in S : n <= m
  BY <1>1, <1>2, BoundedMax
<1>6. PICK v \in rows : v.unit = u /\ v.cut <= p /\ v.cut = m
  BY <1>3
<1>7. v \in VisibleRows(rows, p, u)
  BY <1>4, <1>5, <1>6 DEF VisibleRows
<1> QED
  BY <1>1, <1>5, <1>6, <1>7

(* collect keeps, of every published version it deletes, a newer one.      *)
LEMMA CollectKeepsNewest ==
  ASSUME NEW rows, \A x \in rows : x.cut \in Nat, NEW p \in Int, NEW c \in Int, c <= p,
         NEW r \in rows, r.cut <= p
  PROVE  \E n \in rows \ Superseded(rows, c) :
           n.unit = r.unit /\ r.cut <= n.cut /\ n.cut <= p
<1>1. PICK v \in VisibleRows(rows, p, r.unit) : r.cut <= v.cut
  BY VisibleExists
<1>2. v \in rows /\ v.unit = r.unit /\ v.cut <= p
  BY DEF VisibleRows
<1>3. \A n \in rows : n.unit = r.unit /\ n.cut <= p => n.cut <= v.cut
  BY DEF VisibleRows
<1>4. ASSUME v \in Superseded(rows, c) PROVE FALSE
  <2>1. PICK n \in rows : n.unit = v.unit /\ n.cut > v.cut /\ n.cut <= c
    BY <1>4 DEF Superseded
  <2>2. n.cut \in Nat /\ v.cut \in Nat
    BY <1>2
  <2> QED
    BY <1>2, <1>3, <2>1, <2>2
<1> QED
  BY <1>1, <1>2, <1>4

(* Rows that are snapshots, a version for every published edit and the log       *)
(* above the prefix are all a restart needs.                               *)
LEMMA RecoveredIsComplete ==
  ASSUME NEW appended, NEW past, NEW rows, NEW p \in Int, NEW u,
         \A t \in past : t.seq \in Nat,
         \A r \in rows : r.cut \in Nat,
         appended \subseteq past,
         \A t \in past : t \in appended \/ t.seq <= p,
         \A r \in rows : r.val = {s \in Edits(past, r.unit) : s <= r.cut},
         \A t \in past : t.seq <= p =>
           \A w \in t.units : \E r \in rows : r.unit = w /\ t.seq <= r.cut /\ r.cut <= p
  PROVE  Recovered(appended, rows, p, u) = Edits(past, u)
<1>1. ASSUME NEW s \in Recovered(appended, rows, p, u) PROVE s \in Edits(past, u)
  <2>1. CASE s \in Visible(rows, p, u)
    <3>1. PICK r \in VisibleRows(rows, p, u) : s \in r.val
      BY <2>1 DEF Visible
    <3>2. r \in rows /\ r.unit = u
      BY DEF VisibleRows
    <3> QED
      BY <3>1, <3>2
  <2>2. CASE s \in Edits(Suffix(appended, p), u)
    BY <2>2 DEF Edits, Suffix
  <2> QED
    BY <1>1, <2>1, <2>2 DEF Recovered
<1>2. ASSUME NEW s \in Edits(past, u) PROVE s \in Recovered(appended, rows, p, u)
  <2>1. PICK t \in past : t.seq = s /\ u \in t.units
    BY DEF Edits
  <2>2. CASE t.seq <= p
    <3>1. PICK r \in rows : r.unit = u /\ t.seq <= r.cut /\ r.cut <= p
      BY <2>1, <2>2
    <3>2. PICK v \in VisibleRows(rows, p, u) : r.cut <= v.cut
      BY <3>1, VisibleExists
    <3>3. v \in rows /\ v.unit = u
      BY DEF VisibleRows
    <3>4. s <= v.cut
      BY <2>1, <3>1, <3>2, <3>3
    <3>5. s \in v.val
      BY <3>3, <3>4
    <3> QED
      BY <3>2, <3>5 DEF Recovered, Visible
  <2>3. CASE t.seq > p
    <3>1. t \in Suffix(appended, p)
      BY <2>3 DEF Suffix
    <3> QED
      BY <2>1, <3>1 DEF Recovered, Edits
  <2> QED
    BY <2>2, <2>3
<1> QED
  BY <1>1, <1>2

-----------------------------------------------------------------------------
(* Types. *)

(* cut = nil is a cut record. *)
LEMMA NoCutType == NoCut \in Cut
<1> USE ParameterAssumption
<1> QED BY DEF NoCut, Cut, Empty, Content

(* The backlog level is one of the four. *)
LEMMA LevelType ==
  ASSUME NEW s, NEW p, NEW d
  PROVE  LevelOf(s, p, d) \in Levels
<1>1. \A v, l : GradeOf(v, l) \in 0..3
  BY DEF GradeOf
<1> QED
  BY <1>1 DEF LevelOf, Levels

(* A message to the writer is a request. *)
LEMMA SendType ==
  ASSUME NEW type \in {"begin", "batch", "publish"}, NEW c \in Cut, NEW B \in SUBSET Units
  PROVE  Send(type, c, B) \in Requests
BY DEF Send, Cut, Requests, Empty, Content

(* An edit keeps the content of every unit a set of numbers. *)
LEMMA ApplyType ==
  ASSUME NEW m \in Content, NEW s \in Nat, NEW U
  PROVE  Apply(m, s, U) \in Content
BY DEF Apply, Content

(* Whether or not the cut opens, its state is well typed. *)
LEMMA OpenType ==
  ASSUME NEW wants \in BOOLEAN, NEW c \in Cut, NEW r \in BOOLEAN, NEW s \in Nat,
         NEW p, NEW m \in Content, NEW d \in SUBSET Units, NEW q \in Seq(Requests),
         MaybeOpen(wants, c, r, s, p, m, d, q)
  PROVE  cut' \in Cut /\ dirty' \in SUBSET Units /\ wanted' \in BOOLEAN
         /\ wq' \in Seq(Requests)
<1> DEFINE n == NewCut(s, m, d)
<1>1. n \in Cut
  BY ParameterAssumption DEF NewCut, Cut
<1>2. Send("begin", n, {}) \in Requests
  BY <1>1, SendType
<1> HIDE DEF n
<1>3. Append(q, Send("begin", n, {})) \in Seq(Requests)
  BY <1>2
<1>4. CASE Opens(wants, c, r, s, p)
  BY <1>1, <1>3, <1>4 DEF MaybeOpen, n
<1>5. CASE ~Opens(wants, c, r, s, p)
  BY <1>5 DEF MaybeOpen
<1> QED
  BY <1>4, <1>5

(* What the two steps of pump do to a cut. *)
LEMMA CutSendType ==
  ASSUME NEW c \in Cut, NEW B \in SUBSET c.todo, MaySend(c)
  PROVE  [c EXCEPT !.todo = @ \ B, !.credits = @ - 1] \in Cut
<1>1. c.todo \ B \in SUBSET Units /\ c.credits - 1 \in Nat
  BY DEF Cut, MaySend
<1> QED
  BY <1>1 DEF Cut

(* The publish request goes out. *)
LEMMA CutPublishType ==
  ASSUME NEW c \in Cut
  PROVE  [c EXCEPT !.publishing = TRUE] \in Cut
BY DEF Cut

(* The writer has answered the begin. *)
LEMMA CutBegunType ==
  ASSUME NEW c \in Cut, c.attempt # 0
  PROVE  [c EXCEPT !.begun = TRUE] \in Cut
BY DEF Cut

(* An acknowledgement gives one credit back. *)
LEMMA CreditedType ==
  ASSUME cut \in Cut
  PROVE  Credited \in Cut
BY DEF Cut, Credited

(* pump keeps the cut, the queue and the pumps well typed. *)
LEMMA PumpType ==
  ASSUME NEW c \in Cut, NEW n \in Nat, wq \in Seq(Requests), pumps \in Nat, Pump(c, n)
  PROVE  cut' \in Cut /\ wq' \in Seq(Requests) /\ pumps' \in Nat
<1>1. CASE MaySend(c) /\ \E B \in SUBSET c.todo :
          /\ cut' = [c EXCEPT !.todo = @ \ B, !.credits = @ - 1]
          /\ wq' = Append(wq, Send("batch", c, B))
          /\ pumps' = IF c.todo # B THEN n + 1 ELSE n
  <2>1. PICK B \in SUBSET c.todo :
          /\ cut' = [c EXCEPT !.todo = @ \ B, !.credits = @ - 1]
          /\ wq' = Append(wq, Send("batch", c, B))
          /\ pumps' = IF c.todo # B THEN n + 1 ELSE n
    BY <1>1
  <2>2. B \in SUBSET Units
    BY DEF Cut
  <2>3. Send("batch", c, B) \in Requests
    BY <2>2, SendType
  <2>4. cut' \in Cut
    BY <1>1, <2>1, CutSendType
  <2> QED
    BY <2>1, <2>3, <2>4
<1>2. CASE cut' = [c EXCEPT !.publishing = TRUE] /\ pumps' = n
           /\ wq' = Append(wq, Send("publish", c, {}))
  <2>1. Send("publish", c, {}) \in Requests
    BY SendType
  <2> QED
    BY <1>2, <2>1, CutPublishType
<1>3. CASE cut' = c /\ wq' = wq /\ pumps' = n
  BY <1>3
<1> QED
  BY <1>1, <1>2, <1>3 DEF Pump

(* assess keeps the scheduling state well typed. *)
LEMMA AssessType ==
  ASSUME NEW s, NEW q, NEW d, NEW p, NEW r, NEW woken, Assess(LevelOf(s, q, d), p, r, woken)
  PROVE  level' \in Levels /\ paused' \in BOOLEAN /\ tick' \in BOOLEAN
BY LevelType DEF Assess

(* The next transaction is one. *)
LEMMA NextTxnType ==
  ASSUME TypeOK, NEW U \in SUBSET Units
  PROVE  NextTxn(U) \in Txn
BY DEF TypeOK, NextTxn, Txn

(* Every action keeps the types. *)
LEMMA InitType == Init => TypeOK
<1> SUFFICES ASSUME Init PROVE TypeOK
  OBVIOUS
<1>1. log \subseteq Txn /\ hist \subseteq Txn
  BY ParameterAssumption DEF Init
<1>2. mem \in Content /\ waiters \in [Callers -> Prefixes] /\ cut \in Cut
  BY NoCutType DEF Init, Prefixes, Empty, Content
<1>3. wq \in Seq(Requests) /\ inbox \in Seq(Replies)
  BY DEF Init
<1> QED
  BY <1>1, <1>2, <1>3 DEF Init, TypeOK, Prefixes, Levels

(* An append keeps the log and the history sets of transactions. *)
LEMMA AppendLogType ==
  ASSUME TypeOK, NEW U \in SUBSET Units, AppendLog(U)
  PROVE  log' \subseteq Txn /\ hist' \subseteq Txn
BY NextTxnType DEF AppendLog, TypeOK

(* remember_entry keeps the World well typed. *)
LEMMA RememberEntryType ==
  ASSUME TypeOK, NEW m \in Content, NEW U, NEW r, RememberEntry(m, U, r)
  PROVE  /\ seq' \in Nat /\ mem' \in Content /\ entries' \subseteq Nat
         /\ level' \in Levels /\ paused' \in BOOLEAN /\ tick' \in BOOLEAN
<1>1. seq' \in Nat /\ entries' \subseteq Nat
  BY DEF RememberEntry, TypeOK
<1>2. mem' \in Content
  BY <1>1, ApplyType DEF RememberEntry
<1>3. level' \in Levels /\ paused' \in BOOLEAN /\ tick' \in BOOLEAN
  BY AssessType DEF RememberEntry
<1> QED
  BY <1>1, <1>2, <1>3

(* The commit of an operation or a drop keeps the types. *)
LEMMA CommitTxnType ==
  ASSUME TypeOK, NEW U \in SUBSET Units, CommitTxn(U)
  PROVE  TypeOK'
<1>1. mem \in Content
  BY DEF TypeOK
<1>2. log' \subseteq Txn /\ hist' \subseteq Txn
  BY AppendLogType DEF CommitTxn
<1>3. /\ seq' \in Nat /\ mem' \in Content /\ entries' \subseteq Nat
      /\ level' \in Levels /\ paused' \in BOOLEAN /\ tick' \in BOOLEAN
  BY <1>1, RememberEntryType DEF CommitTxn
<1> QED
  BY <1>2, <1>3 DEF CommitTxn, Mark, TypeOK

(* The commit of a thermal run keeps the types. *)
LEMMA CommitThermalType ==
  ASSUME TypeOK, NEW U \in SUBSET Units, CommitThermal(U),
         cut' \in Cut, dirty' \subseteq Units, wanted' \in BOOLEAN, wq' \in Seq(Requests)
  PROVE  TypeOK'
<1>1. Settled \in Content
  BY DEF TypeOK, Settled, Content
<1>2. log' \subseteq Txn /\ hist' \subseteq Txn
  BY AppendLogType DEF CommitThermal
<1>3. /\ seq' \in Nat /\ mem' \in Content /\ entries' \subseteq Nat
      /\ level' \in Levels /\ paused' \in BOOLEAN /\ tick' \in BOOLEAN
  BY <1>1, RememberEntryType DEF CommitThermal
<1> QED
  BY <1>2, <1>3 DEF CommitThermal, TypeOK

(* The World a crash leaves behind is well typed. *)
LEMMA LostType == ASSUME TypeOK, Lost
  PROVE  /\ up' \in BOOLEAN /\ seq' \in Nat /\ mem' \in Content
         /\ dirty' \subseteq Units /\ entries' \subseteq Nat /\ published' \in Prefixes
         /\ cut' \in Cut /\ wanted' \in BOOLEAN /\ waiters' \in [Callers -> Prefixes]
         /\ wq' \in Seq(Requests) /\ inbox' \in Seq(Replies) /\ pumps' \in Nat
         /\ collecting' \in Prefixes
         /\ timer' \in BOOLEAN /\ level' \in Levels /\ paused' \in BOOLEAN
         /\ tick' \in BOOLEAN /\ run' \in BOOLEAN /\ crashes' \in Nat
<1>1. mem' \in Content /\ waiters' \in [Callers -> Prefixes] /\ cut' \in Cut
  BY NoCutType DEF Lost, Prefixes, Empty, Content
<1>2. wq' \in Seq(Requests) /\ inbox' \in Seq(Replies)
  BY DEF Lost
<1>3. published' \in Prefixes /\ collecting' \in Prefixes /\ level' \in Levels
  BY DEF Lost, Prefixes, Levels
<1>4. seq' \in Nat /\ pumps' \in Nat /\ crashes' \in Nat
  BY DEF Lost, TypeOK
<1> QED
  BY <1>1, <1>2, <1>3, <1>4, Zenon DEF Lost

(* An answer of the writer is a reply. *)
LEMMA ReplyType ==
  ASSUME TypeOK, wq # <<>>, NEW type \in {"begun", "ack", "published", "failed"}, Reply(type)
  PROVE  inbox' \in Seq(Replies)
<1>1. Head(wq) \in Requests
  BY DEF TypeOK
<1> QED
  BY <1>1 DEF Reply, TypeOK, Requests, Replies

(* The steps of the writer keep the types. *)
LEMMA WriterType ==
  ASSUME TypeOK, Writer
  PROVE  TypeOK'
<1> USE DEF tables, worldVars, schedVars
<1>1. ASSUME WriterBegin PROVE TypeOK'
  <2>1. wq # <<>> /\ wq' \in Seq(Requests)
    BY <1>1 DEF WriterBegin, WriterTakes, TypeOK
  <2>2. inbox' \in Seq(Replies)
    BY <1>1, <2>1, ReplyType DEF WriterBegin
  <2>3. seg' \subseteq Row /\ globals' \subseteq Nat
    BY <1>1 DEF WriterBegin, ClearSegments, ClearGlobals, TypeOK
  <2> QED
    BY <1>1, <2>1, <2>2, <2>3 DEF WriterBegin, TypeOK
<1>2. ASSUME WriterBatch PROVE TypeOK'
  <2>1. wq # <<>> /\ wq' \in Seq(Requests) /\ Head(wq) \in Requests
    BY <1>2 DEF WriterBatch, WriterTakes, TypeOK
  <2>2. inbox' \in Seq(Replies)
    BY <1>2, <2>1, ReplyType DEF WriterBatch
  <2>3. RowsOf(Head(wq)) \subseteq Row
    BY <2>1 DEF RowsOf, Requests, Row, Content
  <2> QED
    BY <1>2, <2>1, <2>2, <2>3 DEF WriterBatch, TypeOK
<1>3. ASSUME WriterPublish PROVE TypeOK'
  <2>1. wq # <<>> /\ wq' \in Seq(Requests) /\ Head(wq) \in Requests
    BY <1>3 DEF WriterPublish, WriterTakes, TypeOK
  <2>2. inbox' \in Seq(Replies)
    BY <1>3, <2>1, ReplyType DEF WriterPublish
  <2>3. Head(wq).seq \in Nat
    BY <2>1 DEF Requests
  <2> QED
    BY <1>3, <2>1, <2>2, <2>3 DEF WriterPublish, TypeOK, Prefixes
<1>4. ASSUME WriterCollect PROVE TypeOK'
  BY <1>4 DEF WriterCollect, TypeOK
<1>5. ASSUME WriterCollected PROVE TypeOK'
  BY <1>5 DEF WriterCollected, TypeOK, Prefixes
<1> QED
  BY <1>1, <1>2, <1>3, <1>4, <1>5 DEF Writer

(* The handlers of its replies keep the types. *)
LEMMA HandlerType ==
  ASSUME TypeOK, Handler
  PROVE  TypeOK'
<1> USE DEF tables, worldVars, schedVars
<1>1. cut \in Cut /\ wq \in Seq(Requests) /\ pumps \in Nat
  BY DEF TypeOK
<1>2. ASSUME HandlerFrame, inbox' \in Seq(Replies),
             cut' \in Cut /\ wq' \in Seq(Requests) /\ pumps' \in Nat
      PROVE  TypeOK'
  BY <1>2 DEF HandlerFrame, TypeOK
<1>3. ASSUME PageBegun PROVE TypeOK'
  <2>1. inbox' \in Seq(Replies)
    BY <1>3 DEF PageBegun, Receive, TypeOK
  <2>2. Current => [cut EXCEPT !.begun = TRUE] \in Cut
    BY <1>1, CutBegunType DEF Current, Cutting
  <2>3. cut' \in Cut /\ wq' \in Seq(Requests) /\ pumps' \in Nat
    BY <1>1, <1>3, <2>2, PumpType DEF PageBegun
  <2> QED
    BY <1>2, <1>3, <2>1, <2>3 DEF PageBegun
<1>4. ASSUME PageAck PROVE TypeOK'
  <2>1. inbox' \in Seq(Replies)
    BY <1>4 DEF PageAck, Receive, TypeOK
  <2>2. Credited \in Cut
    BY <1>1, CreditedType
  <2>3. cut' \in Cut /\ wq' \in Seq(Requests) /\ pumps' \in Nat
    BY <1>1, <1>4, <2>2, PumpType DEF PageAck
  <2> QED
    BY <1>2, <1>4, <2>1, <2>3 DEF PageAck
<1>5. ASSUME PagePump PROVE TypeOK'
  <2>1. inbox' \in Seq(Replies)
    BY <1>5 DEF PagePump, TypeOK
  <2>2. pumps - 1 \in Nat
    BY <1>1, <1>5 DEF PagePump
  <2>3. cut' \in Cut /\ wq' \in Seq(Requests) /\ pumps' \in Nat
    BY <1>1, <1>5, <2>2, PumpType DEF PagePump
  <2> QED
    BY <1>2, <1>5, <2>1, <2>3 DEF PagePump
<1>6. ASSUME PagePublished PROVE TypeOK'
  <2>1. inbox' \in Seq(Replies) /\ Head(inbox) \in Replies
    BY <1>6 DEF PagePublished, Receive, TypeOK
  <2>2. CASE ~Current
    BY <1>6, <2>1, <2>2 DEF PagePublished, TypeOK
  <2>3. CASE Current
    <3> DEFINE p == Head(inbox).seq
    <3>1. p \in Nat
      BY <2>1 DEF Replies
    <3>2. PICK R \in SUBSET Units : Confirm(p, R)
      BY <1>6, <2>3 DEF PagePublished
    <3> HIDE DEF p
    <3>3. published' \in Prefixes /\ entries' \subseteq Nat
      BY <3>1, <3>2 DEF Confirm, Prefixes, TypeOK, Retained
    <3>4. waiters' \in [Callers -> Prefixes]
      BY <3>2 DEF Confirm, StillWaiting, TypeOK, Prefixes
    <3>5. cut' \in Cut /\ dirty' \in SUBSET Units /\ wanted' \in BOOLEAN
          /\ wq' \in Seq(Requests)
      <4>1. seq \in Nat /\ run \in BOOLEAN /\ mem \in Content /\ Mark(R) \in SUBSET Units
        BY DEF TypeOK, Mark
      <4>2. (\E c \in Callers : StillWaiting(p)[c] # NoPrefix) \in BOOLEAN
        OBVIOUS
      <4> QED
        BY <1>1, <3>2, <4>1, <4>2, NoCutType, OpenType DEF Confirm
    <3>6. level' \in Levels /\ paused' \in BOOLEAN /\ tick' \in BOOLEAN
      BY <3>2, AssessType DEF Confirm
    <3>7. timer' \in BOOLEAN
      BY <3>2 DEF Confirm
    <3> QED
      BY <1>6, <2>1, <3>3, <3>4, <3>5, <3>6, <3>7 DEF PagePublished, TypeOK
  <2> QED
    BY <2>2, <2>3
<1> QED
  BY <1>3, <1>4, <1>5, <1>6 DEF Handler

(* The restarted World is well typed. *)
LEMMA RestartType ==
  ASSUME TypeOK, Restart
  PROVE  TypeOK'
<1> DEFINE first == prefix = NoPrefix
           loaded == [u \in Units |-> Recovered(log, seg, prefix, u)]
           touched == UNION {t.units : t \in Suffix(log, prefix)}
           heads == {IF first THEN 0 ELSE prefix} \cup {t.seq : t \in Suffix(log, prefix)}
           d == IF first THEN {u \in Units : loaded[u] # {}} ELSE touched
<1>1. PICK s \in heads :
        /\ seq' = s
        /\ MaybeOpen(first, NoCut, FALSE, s, prefix, loaded, d, <<>>)
        /\ level' = LevelOf(s, prefix, dirty')
  BY DEF Restart
<1>2. s \in Nat
  BY DEF TypeOK, Prefixes, Suffix, Txn
<1>3. loaded \in Content
  <2>1. ASSUME NEW u \in Units, NEW n \in Recovered(log, seg, prefix, u) PROVE n \in Nat
    BY DEF Recovered, Visible, VisibleRows, Edits, Suffix, TypeOK, Row, Txn
  <2> QED
    BY <2>1 DEF Content
<1>4. d \in SUBSET Units
  BY DEF Suffix, TypeOK, Txn
<1>5. first \in BOOLEAN /\ FALSE \in BOOLEAN /\ <<>> \in Seq(Requests)
  OBVIOUS
<1>6. mem' \in Content /\ entries' \subseteq Nat /\ timer' \in BOOLEAN
  BY <1>3 DEF Restart, TypeOK, Suffix, Txn
<1>8. seg' \subseteq Row /\ globals' \subseteq Nat
  BY DEF Restart, ClearSegments, ClearGlobals, TypeOK
<1> HIDE DEF first, loaded, touched, heads, d
<1>7. cut' \in Cut /\ dirty' \in SUBSET Units /\ wanted' \in BOOLEAN /\ wq' \in Seq(Requests)
  BY <1>1, <1>2, <1>3, <1>4, <1>5, NoCutType, OpenType
<1>9. level' \in Levels
  BY <1>1, LevelType
<1> QED
  BY <1>1, <1>2, <1>6, <1>7, <1>8, <1>9 DEF Restart, TypeOK

(* Every step keeps the types. *)
LEMMA TypeStep ==
  ASSUME TypeOK, [LateNext]_vars
  PROVE  TypeOK'
<1> USE DEF tables, worldVars, schedVars
<1>1. ASSUME UNCHANGED vars PROVE TypeOK'
  BY <1>1 DEF vars, TypeOK
<1>2. ASSUME NEW U \in SUBSET Units, CommitOperation(U) \/ CommitDeathDrop(U) PROVE TypeOK'
  BY <1>2, CommitTxnType DEF CommitOperation, CommitDeathDrop
<1>3. ASSUME ThermalTick PROVE TypeOK'
  BY <1>3 DEF ThermalTick, TypeOK
<1>4. ASSUME NEW U \in SUBSET Units, ThermalStep(U) PROVE TypeOK'
  <2>1. mem' \in Content
    BY <1>4, ApplyType DEF ThermalStep, Live, TypeOK
  <2> QED
    BY <1>4, <2>1 DEF ThermalStep, TypeOK
<1>5. ASSUME NEW U \in SUBSET Units, ThermalDone(U) PROVE TypeOK'
  <2>1. cut \in Cut /\ wanted \in BOOLEAN /\ wq \in Seq(Requests) /\ FALSE \in BOOLEAN
        /\ seq + 1 \in Nat /\ Mark(U) \in SUBSET Units
    BY DEF TypeOK, Mark
  <2>2. mem' \in Content
    <3>1. Settled \in Content
      BY DEF TypeOK, Settled, Content
    <3> QED
      BY <1>5, <2>1, <3>1, ApplyType DEF ThermalDone, CommitThermal, RememberEntry
  <2>3. cut' \in Cut /\ dirty' \in SUBSET Units /\ wanted' \in BOOLEAN /\ wq' \in Seq(Requests)
    BY <1>5, <2>1, <2>2, OpenType DEF ThermalDone
  <2> QED
    BY <1>5, <2>3, CommitThermalType DEF ThermalDone
<1>6. ASSUME NEW U \in SUBSET Units, DrainThermal(U) PROVE TypeOK'
  <2>1. cut' \in Cut /\ dirty' \subseteq Units /\ wanted' \in BOOLEAN /\ wq' \in Seq(Requests)
    BY <1>6 DEF DrainThermal, Mark, TypeOK
  <2> QED
    BY <1>6, <2>1, CommitThermalType DEF DrainThermal
<1>7. ASSUME NEW U \in SUBSET Units, CrashInAppend(U) PROVE TypeOK'
  BY <1>7, AppendLogType, LostType DEF CrashInAppend, TypeOK
<1>8. ASSUME NEW c \in Callers, NEW R \in SUBSET Units, Compact(c, R) PROVE TypeOK'
  <2>1. cut \in Cut /\ wq \in Seq(Requests) /\ run \in BOOLEAN /\ TRUE \in BOOLEAN
        /\ seq \in Nat /\ mem \in Content /\ Mark(R) \in SUBSET Units
    BY DEF TypeOK, Mark
  <2>2. CASE seq <= published
    BY <1>8, <2>1, <2>2 DEF Compact, TypeOK
  <2>3. CASE ~(seq <= published)
    <3>1. MaybeOpen(TRUE, cut, run, seq, published, mem, Mark(R), wq)
      BY <1>8, <2>3 DEF Compact
    <3>2. cut' \in Cut /\ dirty' \in SUBSET Units /\ wanted' \in BOOLEAN
          /\ wq' \in Seq(Requests)
      BY <2>1, <3>1, OpenType
    <3>3. waiters' \in [Callers -> Prefixes] /\ timer' \in BOOLEAN
      BY <1>8, <2>3 DEF Compact, TypeOK, Prefixes, Retries
    <3> QED
      BY <1>8, <3>2, <3>3 DEF Compact, TypeOK
  <2> QED
    BY <2>2, <2>3
<1>9. ASSUME CutTimer PROVE TypeOK'
  <2>1. cut \in Cut /\ wq \in Seq(Requests) /\ run \in BOOLEAN /\ TRUE \in BOOLEAN
        /\ seq \in Nat /\ mem \in Content /\ dirty \in SUBSET Units
    BY DEF TypeOK
  <2>2. cut' \in Cut /\ dirty' \in SUBSET Units /\ wanted' \in BOOLEAN /\ wq' \in Seq(Requests)
    BY <1>9, <2>1, OpenType DEF CutTimer
  <2>3. timer' \in BOOLEAN
    BY <1>9 DEF CutTimer, Retries
  <2> QED
    BY <1>9, <2>2, <2>3 DEF CutTimer, TypeOK
<1>10. ASSUME Crash PROVE TypeOK'
  <2>1. late' \in Prefixes
    <3>1. wq # <<>> => Head(wq) \in Requests
      BY DEF TypeOK
    <3> QED
      BY <1>10, <3>1 DEF Crash, Committing, TypeOK, Prefixes, Requests
  <2> QED
    BY <1>10, <2>1, LostType DEF Crash, TypeOK
<1>11. ASSUME LatePublish PROVE TypeOK'
  BY <1>11 DEF LatePublish, TypeOK, Prefixes
<1> QED
  BY <1>1, <1>2, <1>3, <1>4, <1>5, <1>6, <1>7, <1>8, <1>9, <1>10, <1>11,
     WriterType, HandlerType, RestartType DEF LateNext, Next

-----------------------------------------------------------------------------
(* The inductive invariant.  It is inductive when no COMMIT of a dead       *)
(* writer completes later, and is broken otherwise: see LatePublish.       *)

(* What the head and the tail of a queue are. *)
LEMMA QueueFacts ==
  ASSUME NEW S, NEW q \in Seq(S), q # <<>>
  PROVE  /\ Len(q) \in Nat \ {0} /\ Head(q) = q[1] /\ Head(q) \in S
         /\ Tail(q) \in Seq(S) /\ Len(Tail(q)) = Len(q) - 1
         /\ \A i \in 1..Len(Tail(q)) : Tail(q)[i] = q[i + 1]
BY HeadTailProperties, EmptySeq, LenProperties

(* What a message appended to a queue leaves where. *)
LEMMA AppendFacts ==
  ASSUME NEW S, NEW q \in Seq(S), NEW e \in S
  PROVE  /\ Append(q, e) \in Seq(S) /\ Len(Append(q, e)) = Len(q) + 1 /\ Len(q) \in Nat
         /\ \A i \in 1..Len(q) : Append(q, e)[i] = q[i]
         /\ Append(q, e)[Len(q) + 1] = e
OBVIOUS

(* A transaction adds its number to the edits of its units, and none at or  *)
(* below the head.                                                         *)
LEMMA EditsOfAppend ==
  ASSUME IInv, up, NEW U \in SUBSET Units, AppendLog(U)
  PROVE  /\ hist' = hist \cup {NextTxn(U)}
         /\ \A u \in Units : Edits(hist', u) =
              IF u \in U THEN Edits(hist, u) \cup {seq + 1} ELSE Edits(hist, u)
         /\ \A u \in Units, c \in Int : c <= seq =>
              {s \in Edits(hist', u) : s <= c} = {s \in Edits(hist, u) : s <= c}
<1>1. hist' = hist \cup {NextTxn(U)} /\ NextTxn(U).seq = seq + 1 /\ NextTxn(U).units = U
  BY DEF AppendLog, NextTxn
<1>2. \A u \in Units : Edits(hist', u) =
        IF u \in U THEN Edits(hist, u) \cup {seq + 1} ELSE Edits(hist, u)
  BY <1>1 DEF Edits
<1>3. seq \in Nat
  BY DEF IInv, TypeOK
<1>4. ASSUME NEW u \in Units, NEW c \in Int, c <= seq, NEW s
      PROVE  s \in Edits(hist', u) /\ s <= c <=> s \in Edits(hist, u) /\ s <= c
  <2>1. ~ (seq + 1 <= c)
    BY <1>3, <1>4
  <2> QED
    BY <1>2, <2>1
<1>5. ASSUME NEW u \in Units, NEW c \in Int, c <= seq
      PROVE  {s \in Edits(hist', u) : s <= c} = {s \in Edits(hist, u) : s <= c}
  BY <1>4, <1>5
<1> QED
  BY <1>1, <1>2, <1>5

(* No row is of a cut above the head. *)
LEMMA RowsBelowHead ==
  ASSUME IInv, up
  PROVE  \A r \in seg : r.cut \in Nat /\ r.cut <= seq
<1> SUFFICES ASSUME NEW r \in seg PROVE r.cut \in Nat /\ r.cut <= seq
  OBVIOUS
<1>1. r.cut \in Nat /\ seq \in Nat /\ prefix \in Int
  BY DEF IInv, TypeOK, Row, Prefixes, NoPrefix
<1>2. Reached(r.cut) /\ prefix <= seq /\ \A t \in hist : t.seq <= seq
  BY DEF IInv, SegmentsKept, HeadReached
<1>3. \A t \in hist : t.seq \in Nat
  BY DEF IInv, TypeOK, Txn
<1> QED
  BY <1>1, <1>2, <1>3 DEF Reached

(* An append keeps the log and the rows complete. *)
LEMMA AppendKeepsTables ==
  ASSUME IInv, up, NEW U \in SUBSET Units, AppendLog(U), UNCHANGED <<seg, globals, prefix>>
  PROVE  LogKept' /\ SegmentsKept' /\ RowsAreSnapshots'
<1>1. hist' = hist \cup {NextTxn(U)} /\ log' = log \cup {NextTxn(U)}
      /\ NextTxn(U).seq = seq + 1
  BY DEF AppendLog, NextTxn
<1>2. LogKept'
  BY <1>1 DEF IInv, LogKept
<1>3. SegmentsKept'
  <2>1. prefix \in Int /\ seq \in Nat /\ prefix <= seq
    BY DEF IInv, HeadReached, TypeOK, Prefixes, NoPrefix
  <2>2. \A t \in hist' : t.seq <= prefix => t \in hist
    BY <1>1, <2>1
  <2>3. \A c : Reached(c) => c <= 0 \/ \E t \in hist' : c <= t.seq
    BY <1>1 DEF Reached
  <2> QED
    BY <2>2, <2>3 DEF IInv, SegmentsKept, Reached
<1>4. RowsAreSnapshots'
  <2> SUFFICES ASSUME NEW r \in seg'
               PROVE  r.val = {s \in Edits(hist', r.unit) : s <= r.cut}
    BY DEF RowsAreSnapshots
  <2>1. r \in seg /\ r.unit \in Units /\ r.cut \in Int /\ r.cut <= seq
    BY RowsBelowHead DEF IInv, TypeOK, Row
  <2>2. r.val = {s \in Edits(hist, r.unit) : s <= r.cut}
    BY <2>1 DEF IInv, RowsAreSnapshots
  <2> QED
    BY <2>1, <2>2, EditsOfAppend
<1> QED
  BY <1>2, <1>3, <1>4

(* The content the World holds after a commit over the content m. *)
LEMMA CommitKeepsMemory ==
  ASSUME IInv, up, TypeOK', NEW U \in SUBSET Units, AppendLog(U),
         NEW m \in Content, \A u \in Units : m[u] \ {Live} = mem[u] \ {Live},
         NEW r, RememberEntry(m, U, r), published' = published
  PROVE  /\ \A u \in Units : mem'[u] \ {Live} = Edits(hist', u)
         /\ \A u \in Units : Live \in mem'[u] <=> Live \in m[u]
         /\ entries' = {t.seq : t \in {x \in hist' : x.seq > published'}}
<1>1. seq' = seq + 1 /\ mem' = Apply(m, seq + 1, U) /\ entries' = entries \cup {seq + 1}
  BY DEF RememberEntry
<1>2. seq \in Nat
  BY DEF IInv, TypeOK
<1>3. \A u \in Units : mem'[u] = IF u \in U THEN m[u] \cup {seq + 1} ELSE m[u]
  BY <1>1 DEF Apply
<1>4. seq + 1 # Live
  BY <1>2 DEF Live
<1>5. \A u \in Units : mem[u] \ {Live} = Edits(hist, u)
  BY DEF IInv, MemoryIsCurrent
<1>6. \A u \in Units : mem'[u] \ {Live} = Edits(hist', u)
  BY <1>3, <1>4, <1>5, EditsOfAppend
<1>7. published \in Int /\ published < seq + 1
  BY <1>2 DEF IInv, TypeOK, Prefixes, NoPrefix, ConfirmedIsDurable, HeadReached
<1>8. hist' = hist \cup {NextTxn(U)} /\ NextTxn(U).seq = seq + 1
  BY EditsOfAppend DEF NextTxn
<1>9. entries = {t.seq : t \in {x \in hist : x.seq > published}}
  BY DEF IInv, MemoryIsCurrent
<1>10. entries' = {t.seq : t \in {x \in hist' : x.seq > published'}}
  BY <1>1, <1>7, <1>8, <1>9
<1> QED
  BY <1>3, <1>4, <1>6, <1>10

(* After a commit the World is at the number it appended. *)
LEMMA CommitKeepsHead ==
  ASSUME IInv, up, NEW U \in SUBSET Units, AppendLog(U), seq' = seq + 1,
         UNCHANGED <<up, prefix, collecting>>
  PROVE  HeadReached'
<1>1. hist' = hist \cup {NextTxn(U)} /\ NextTxn(U).seq = seq + 1
  BY EditsOfAppend DEF NextTxn
<1>2. seq \in Nat /\ prefix \in Int
  BY DEF IInv, TypeOK, Prefixes, NoPrefix
<1>3. prefix <= seq /\ collecting <= prefix /\ \A t \in hist : t.seq <= seq
  BY DEF IInv, HeadReached
<1>4. \A t \in hist : t.seq \in Nat
  BY DEF IInv, TypeOK, Txn
<1>5. Reached(seq)'
  BY <1>1, <1>2 DEF Reached
<1>6. prefix' <= seq' /\ \A t \in hist' : t.seq <= seq'
  BY <1>1, <1>2, <1>3, <1>4
<1>7. Reached(prefix)'
  BY <1>1 DEF IInv, HeadReached, Reached
<1> QED
  BY <1>3, <1>5, <1>6, <1>7 DEF HeadReached

(* The commit leaves the cut under way as frozen and its units unforgotten. *)
LEMMA CommitKeepsCut ==
  ASSUME IInv, up, NEW U \in SUBSET Units, AppendLog(U), seq' = seq + 1, dirty' = Mark(U),
         UNCHANGED <<up, published, cut>>
  PROVE  CutFrozen' /\ NothingForgotten'
<1>1. hist' = hist \cup {NextTxn(U)} /\ NextTxn(U).seq = seq + 1 /\ NextTxn(U).units = U
  BY EditsOfAppend DEF NextTxn
<1>2. seq \in Nat /\ cut.seq \in Nat
  BY DEF IInv, TypeOK, Cut
<1>3. Cutting => cut.seq <= seq
  BY DEF IInv, CutFrozen
<1>4. CutFrozen'
  <2> SUFFICES ASSUME Cutting PROVE CutFrozen'
    BY DEF CutFrozen, Cutting
  <2>1. \A u \in Units : cut.frozen[u] = {s \in Edits(hist', u) : s <= cut.seq}
    BY <1>2, <1>3, EditsOfAppend DEF IInv, CutFrozen
  <2> QED
    BY <1>2, <1>3, <2>1 DEF IInv, CutFrozen, Cutting
<1>5. NothingForgotten'
  <2> SUFFICES ASSUME NEW t \in hist', t.seq > published
               PROVE  t.units \subseteq IF Cutting /\ t.seq <= cut.seq
                                        THEN cut.units ELSE dirty'
    BY DEF NothingForgotten, Cutting
  <2>1. CASE t \in hist
    BY <2>1 DEF IInv, NothingForgotten, Mark
  <2>2. CASE t = NextTxn(U)
    BY <1>1, <1>2, <1>3, <2>2 DEF Mark
  <2> QED
    BY <1>1, <2>1, <2>2
<1> QED
  BY <1>4, <1>5

(* A queue that holds only the begin of a new cut. *)
LEMMA FirstRequest ==
  ASSUME NEW S, NEW q \in Seq(S), q = <<>>, NEW e \in S
  PROVE  Len(Append(q, e)) = 1 /\ Append(q, e)[1] = e
<1>1. Len(q) = 0
  BY EmptySeq
<1> QED
  BY <1>1, AppendFacts

(* A cut that opens over the current, settled content. *)
LEMMA OpenKeeps ==
  ASSUME TypeOK', up', NEW d \in SUBSET Units,
         cut' = NewCut(seq', mem', d),
         Len(wq') = 1, wq'[1] = Send("begin", NewCut(seq', mem', d), {}),
         published' < seq',
         \A u \in Units : mem'[u] = Edits(hist', u),
         \A t \in hist' : t.seq <= seq' /\ (t.seq > published' => t.units \subseteq d)
  PROVE  NothingForgotten' /\ CutFrozen' /\ WriterQueue' /\ CutWritten'
<1>1. /\ cut'.attempt = seq' + 1 /\ cut'.seq = seq' /\ cut'.frozen = mem' /\ cut'.units = d
      /\ cut'.todo = d /\ ~cut'.publishing
  BY DEF NewCut
<1>2. seq' \in Nat /\ \A t \in hist' : t.seq \in Nat
  BY DEF TypeOK, Txn
<1>7. cut'.attempt # 0
  <2>1. seq' + 1 # 0
    BY <1>2
  <2> QED
    BY <1>1, <2>1, Zenon
<1>3. NothingForgotten'
  <2>1. ASSUME NEW t \in hist', t.seq > published'
        PROVE  t.units \subseteq d /\ t.seq <= cut'.seq
    BY <1>1, <2>1
  <2> QED
    BY <1>1, <1>7, <2>1 DEF NothingForgotten, Cutting
<1>4. CutFrozen'
  <2>1. \A u \in Units : Edits(hist', u) = {s \in Edits(hist', u) : s <= seq'}
    BY DEF Edits
  <2> QED
    BY <1>1, <1>2, <2>1 DEF CutFrozen, Cutting
<1>5. WriterQueue'
  <2>2. wq'[1].type = "begin" /\ wq'[1].seq = seq' /\ wq'[1].attempt = seq' + 1
    BY DEF Send, NewCut
  <2>3. \A i \in 1..Len(wq') : i = 1
    OBVIOUS
  <2> QED
    BY <1>1, <1>7, <2>2, <2>3 DEF WriterQueue, Cutting
<1>6. CutWritten'
  BY <1>1 DEF CutWritten
<1> QED
  BY <1>3, <1>4, <1>5, <1>6

(* What a step does not touch, it keeps. *)
LEMMA Frames ==
  ASSUME IInv
  PROVE  /\ UNCHANGED <<log, hist, prefix>> => LogKept'
         /\ UNCHANGED <<seg, globals, hist, prefix>> => SegmentsKept' /\ RowsAreSnapshots'
         /\ up /\ UNCHANGED <<up, seq, hist, prefix, collecting>> => HeadReached'
         /\ UNCHANGED <<up, mem, hist, run, entries, published>> => MemoryIsCurrent'
         /\ UNCHANGED <<up, hist, published, cut, dirty>> => NothingForgotten'
         /\ UNCHANGED <<up, cut, published, seq, hist>> => CutFrozen'
         /\ UNCHANGED <<up, wq, cut>> => WriterQueue'
         /\ UNCHANGED <<up, cut, prefix, wq, seg>> => CutWritten'
         /\ UNCHANGED <<up, published, prefix, cut, inbox>> => ConfirmedIsDurable'
         /\ UNCHANGED <<up, prefix, published, wq, cut, inbox>> => Confirmation'
<1>1. UNCHANGED <<log, hist, prefix>> => LogKept'
  BY DEF IInv, LogKept
<1>2. UNCHANGED <<seg, globals, hist, prefix>> => SegmentsKept' /\ RowsAreSnapshots'
  BY DEF IInv, SegmentsKept, RowsAreSnapshots, Reached
<1>3. up /\ UNCHANGED <<up, seq, hist, prefix, collecting>> => HeadReached'
  BY DEF IInv, HeadReached, Reached
<1>4. UNCHANGED <<up, mem, hist, run, entries, published>> => MemoryIsCurrent'
  BY DEF IInv, MemoryIsCurrent, LiveUnits
<1>5. UNCHANGED <<up, hist, published, cut, dirty>> => NothingForgotten'
  BY DEF IInv, NothingForgotten, Cutting
<1>6. UNCHANGED <<up, cut, published, seq, hist>> => CutFrozen'
  BY DEF IInv, CutFrozen, Cutting
<1>7. UNCHANGED <<up, wq, cut>> => WriterQueue'
  BY DEF IInv, WriterQueue, Cutting
<1>8. UNCHANGED <<up, cut, prefix, wq, seg>> => CutWritten'
  BY DEF IInv, CutWritten, Cutting
<1>9. UNCHANGED <<up, published, prefix, cut, inbox>> => ConfirmedIsDurable'
  BY DEF IInv, ConfirmedIsDurable, Cutting
<1>10. UNCHANGED <<up, prefix, published, wq, cut, inbox>> => Confirmation'
  BY DEF IInv, Confirmation
<1> QED
  BY <1>1, <1>2, <1>3, <1>4, <1>5, <1>6, <1>7, <1>8, <1>9, <1>10

(* A cut opens over a settled content, or nothing changes for the cut. *)
LEMMA MaybeOpenCases ==
  ASSUME NEW wants, NEW c \in Cut, NEW r, NEW s \in Nat, NEW p, NEW m \in Content,
         NEW d \in SUBSET Units, NEW q \in Seq(Requests), c.attempt = 0 => q = <<>>,
         MaybeOpen(wants, c, r, s, p, m, d, q)
  PROVE  \/ /\ c.attempt = 0 /\ ~r /\ s > p /\ cut' = NewCut(s, m, d)
            /\ Len(wq') = 1 /\ wq'[1] = Send("begin", NewCut(s, m, d), {})
         \/ cut' = c /\ dirty' = d /\ wq' = q
<1>1. CASE Opens(wants, c, r, s, p)
  <2>1. NewCut(s, m, d) \in Cut
    BY ParameterAssumption DEF NewCut, Cut
  <2>2. Send("begin", NewCut(s, m, d), {}) \in Requests
    BY <2>1, SendType
  <2>3. c.attempt = 0 /\ ~r /\ s > p
    BY <1>1 DEF Opens
  <2>4. cut' = NewCut(s, m, d) /\ wq' = Append(q, Send("begin", NewCut(s, m, d), {}))
    BY <1>1 DEF MaybeOpen
  <2> QED
    BY <2>2, <2>3, <2>4, FirstRequest
<1>2. CASE ~Opens(wants, c, r, s, p)
  BY <1>2 DEF MaybeOpen
<1> QED
  BY <1>1, <1>2

(* The commit of an operation or a drop keeps the invariant. *)
LEMMA CommitTxnKeeps ==
  ASSUME IInv, TypeOK', NEW U \in SUBSET Units, CommitTxn(U)
  PROVE  IInv'
<1> USE DEF tables, worldVars, schedVars
<1>1. up /\ AppendLog(U) /\ RememberEntry(mem, U, run) /\ dirty' = Mark(U) /\ mem \in Content
      /\ UNCHANGED <<seg, globals, prefix, late, up, published, cut, wq, inbox, collecting, run>>
  BY DEF CommitTxn, IInv, TypeOK
<1>2. seq' = seq + 1
  BY <1>1 DEF RememberEntry
<1>3. LogKept' /\ SegmentsKept' /\ RowsAreSnapshots'
  BY <1>1, AppendKeepsTables
<1>4. HeadReached'
  BY <1>1, <1>2, CommitKeepsHead
<1>5. MemoryIsCurrent'
  <2>1. /\ \A u \in Units : mem'[u] \ {Live} = Edits(hist', u)
        /\ \A u \in Units : Live \in mem'[u] <=> Live \in mem[u]
        /\ entries' = {t.seq : t \in {x \in hist' : x.seq > published'}}
    BY <1>1, CommitKeepsMemory
  <2>2. ~run => LiveUnits' = {}
    BY <1>1, <2>1 DEF IInv, MemoryIsCurrent, LiveUnits
  <2> QED
    BY <1>1, <2>1, <2>2 DEF MemoryIsCurrent
<1>6. CutFrozen' /\ NothingForgotten'
  BY <1>1, <1>2, CommitKeepsCut
<1>7. WriterQueue' /\ CutWritten' /\ ConfirmedIsDurable' /\ Confirmation'
  BY <1>1, Frames
<1> QED
  BY <1>1, <1>3, <1>4, <1>5, <1>6, <1>7 DEF IInv

(* The commit of a thermal run, before it may open a cut. *)
LEMMA CommitThermalFacts ==
  ASSUME IInv, TypeOK', NEW U \in SUBSET Units, CommitThermal(U)
  PROVE  /\ up /\ up' /\ seq' = seq + 1 /\ AppendLog(U)
         /\ late' = NoPrefix /\ published' = published /\ prefix' = prefix /\ inbox' = inbox
         /\ LogKept' /\ SegmentsKept' /\ RowsAreSnapshots' /\ HeadReached' /\ MemoryIsCurrent'
         /\ \A u \in Units : mem'[u] = Edits(hist', u)
<1>1. up /\ AppendLog(U) /\ RememberEntry(Settled, U, FALSE) /\ ~run'
      /\ UNCHANGED <<seg, globals, prefix, late, up, published, inbox, collecting>>
  BY DEF CommitThermal
<1>2. seq' = seq + 1
  BY <1>1 DEF RememberEntry
<1>3. LogKept' /\ SegmentsKept' /\ RowsAreSnapshots'
  BY <1>1, AppendKeepsTables
<1>4. HeadReached'
  BY <1>1, <1>2, CommitKeepsHead
<1>5. Settled \in Content /\ \A u \in Units : Settled[u] = mem[u] \ {Live}
  BY DEF IInv, TypeOK, Settled, Content
<1>6. /\ \A u \in Units : mem'[u] \ {Live} = Edits(hist', u)
      /\ \A u \in Units : Live \in mem'[u] <=> Live \in Settled[u]
      /\ entries' = {t.seq : t \in {x \in hist' : x.seq > published'}}
  <2>1. \A u \in Units : Settled[u] \ {Live} = mem[u] \ {Live}
    BY <1>5
  <2> QED
    BY <1>1, <1>5, <2>1, CommitKeepsMemory
<1>7. \A u \in Units : Live \notin mem'[u]
  BY <1>5, <1>6
<1>8. \A u \in Units : mem'[u] = Edits(hist', u)
  BY <1>6, <1>7
<1>9. MemoryIsCurrent'
  BY <1>1, <1>6, <1>7 DEF MemoryIsCurrent, LiveUnits
<1> QED
  BY <1>1, <1>2, <1>3, <1>4, <1>8, <1>9 DEF IInv

(* Between cuts the confirmed prefix is the durable one and nothing is       *)
(* queued for the writer.                                                  *)
LEMMA Idle ==
  ASSUME IInv, up, ~Cutting
  PROVE  wq = <<>> /\ prefix = published
BY DEF IInv, WriterQueue, ConfirmedIsDurable

(* The end of a thermal run, which may open a cut, keeps it. *)
LEMMA ThermalDoneKeeps ==
  ASSUME IInv, TypeOK', NEW U \in SUBSET Units, ThermalDone(U)
  PROVE  IInv'
<1>1. /\ up /\ up' /\ seq' = seq + 1 /\ AppendLog(U)
      /\ late' = NoPrefix /\ published' = published /\ prefix' = prefix /\ inbox' = inbox
      /\ LogKept' /\ SegmentsKept' /\ RowsAreSnapshots' /\ HeadReached' /\ MemoryIsCurrent'
      /\ \A u \in Units : mem'[u] = Edits(hist', u)
  BY CommitThermalFacts DEF ThermalDone
<1>2. MaybeOpen(wanted, cut, FALSE, seq', published, mem', Mark(U), wq)
  BY <1>1 DEF ThermalDone
<1>3. cut \in Cut /\ seq' \in Nat /\ mem' \in Content /\ Mark(U) \in SUBSET Units
      /\ wq \in Seq(Requests)
  BY DEF IInv, TypeOK, Mark
<1>4. seg' = seg
  BY DEF ThermalDone, CommitThermal
<1>5. cut.attempt = 0 => wq = <<>>
  BY <1>1, Idle DEF Cutting
<1>6. CASE cut' = cut /\ dirty' = Mark(U) /\ wq' = wq
  <2>1. CutFrozen' /\ NothingForgotten'
    BY <1>1, <1>6, CommitKeepsCut
  <2>2. WriterQueue' /\ CutWritten' /\ ConfirmedIsDurable' /\ Confirmation'
    BY <1>1, <1>4, <1>6, Frames
  <2> QED
    BY <1>1, <2>1, <2>2 DEF IInv
<1>7. CASE /\ cut.attempt = 0 /\ seq' > published /\ cut' = NewCut(seq', mem', Mark(U))
           /\ Len(wq') = 1 /\ wq'[1] = Send("begin", NewCut(seq', mem', Mark(U)), {})
  <2>1. ~Cutting /\ prefix = published
    BY <1>1, <1>7, Idle DEF Cutting
  <2>2. \A t \in hist' : t.seq <= seq' /\ (t.seq > published' => t.units \subseteq Mark(U))
    <3>1. \A t \in hist : t.seq > published => t.units \subseteq dirty
      BY <1>1, <2>1 DEF IInv, NothingForgotten
    <3>2. hist' = hist \cup {NextTxn(U)} /\ NextTxn(U).units = U
      BY <1>1 DEF AppendLog, NextTxn
    <3>3. \A t \in hist' : t.seq <= seq'
      BY <1>1 DEF HeadReached
    <3> QED
      BY <1>1, <3>1, <3>2, <3>3 DEF Mark
  <2>3. published' < seq'
    BY <1>1, <1>7 DEF IInv, TypeOK, Prefixes, NoPrefix
  <2>4. NothingForgotten' /\ CutFrozen' /\ WriterQueue' /\ CutWritten'
    BY <1>1, <1>3, <1>7, <2>2, <2>3, OpenKeeps
  <2>5. ConfirmedIsDurable' /\ Confirmation'
    BY <1>1, <2>1 DEF IInv, ConfirmedIsDurable, Confirmation
  <2> QED
    BY <1>1, <2>4, <2>5 DEF IInv
<1> QED
  BY <1>2, <1>3, <1>5, <1>6, <1>7, MaybeOpenCases

(* A run drained by another simulation keeps it. *)
LEMMA DrainThermalKeeps ==
  ASSUME IInv, TypeOK', NEW U \in SUBSET Units, DrainThermal(U)
  PROVE  IInv'
<1>1. /\ up /\ up' /\ seq' = seq + 1 /\ AppendLog(U)
      /\ late' = NoPrefix /\ published' = published /\ prefix' = prefix /\ inbox' = inbox
      /\ LogKept' /\ SegmentsKept' /\ RowsAreSnapshots' /\ HeadReached' /\ MemoryIsCurrent'
  BY CommitThermalFacts DEF DrainThermal
<1>2. cut' = cut /\ dirty' = Mark(U) /\ wq' = wq /\ seg' = seg
  BY DEF DrainThermal, CommitThermal
<1>3. CutFrozen' /\ NothingForgotten'
  BY <1>1, <1>2, CommitKeepsCut
<1>4. WriterQueue' /\ CutWritten' /\ ConfirmedIsDurable' /\ Confirmation'
  BY <1>1, <1>2, Frames
<1> QED
  BY <1>1, <1>3, <1>4 DEF IInv

(* A cut that the timer or compact may open. *)
LEMMA WantedCutKeeps ==
  ASSUME IInv, TypeOK', up, NEW d \in SUBSET Units, dirty \subseteq d,
         MaybeOpen(TRUE, cut, run, seq, published, mem, d, wq),
         UNCHANGED <<tables, late, up, seq, mem, entries, published, inbox, collecting, run, hist>>
  PROVE  IInv'
<1> USE DEF tables
<1>1. cut \in Cut /\ seq \in Nat /\ mem \in Content /\ wq \in Seq(Requests)
  BY DEF IInv, TypeOK
<1>2. cut.attempt = 0 => wq = <<>>
  BY Idle DEF Cutting
<1>3. LogKept' /\ SegmentsKept' /\ RowsAreSnapshots' /\ HeadReached' /\ MemoryIsCurrent'
  BY Frames
<1>4. CASE cut' = cut /\ dirty' = d /\ wq' = wq
  <2>1. NothingForgotten'
    BY <1>4 DEF IInv, NothingForgotten, Cutting
  <2>2. CutFrozen' /\ WriterQueue' /\ CutWritten' /\ ConfirmedIsDurable' /\ Confirmation'
    BY <1>4, Frames
  <2> QED
    BY <1>3, <2>1, <2>2 DEF IInv
<1>5. CASE /\ cut.attempt = 0 /\ ~run /\ seq > published /\ cut' = NewCut(seq, mem, d)
           /\ Len(wq') = 1 /\ wq'[1] = Send("begin", NewCut(seq, mem, d), {})
  <2>1. ~Cutting /\ prefix = published
    BY <1>5, Idle DEF Cutting
  <2>2. \A t \in hist' : t.seq <= seq' /\ (t.seq > published' => t.units \subseteq d)
    BY <2>1 DEF IInv, NothingForgotten, HeadReached
  <2>3. \A u \in Units : mem'[u] = Edits(hist', u)
    BY <1>5 DEF IInv, MemoryIsCurrent, LiveUnits
  <2>4. published' < seq'
    BY <1>5 DEF IInv, TypeOK, Prefixes, NoPrefix
  <2>5. NothingForgotten' /\ CutFrozen' /\ WriterQueue' /\ CutWritten'
    BY <1>5, <2>2, <2>3, <2>4, OpenKeeps
  <2>6. ConfirmedIsDurable' /\ Confirmation'
    BY <2>1 DEF IInv, ConfirmedIsDurable, Confirmation
  <2> QED
    BY <1>3, <2>5, <2>6 DEF IInv
<1> QED
  BY <1>1, <1>2, <1>4, <1>5, MaybeOpenCases

(* compact keeps the invariant. *)
LEMMA CompactKeeps ==
  ASSUME IInv, TypeOK', NEW c \in Callers, NEW R \in SUBSET Units, Compact(c, R)
  PROVE  IInv'
<1> USE DEF tables
<1>1. CASE seq <= published
  <2>1. NothingForgotten'
    BY <1>1 DEF Compact, Mark, IInv, NothingForgotten, Cutting
  <2>2. UNCHANGED <<tables, late, up, seq, mem, entries, published, inbox, collecting, run,
                    hist, cut, wq>>
    BY <1>1 DEF Compact
  <2> QED
    BY <2>1, <2>2, Frames DEF IInv, Compact
<1>2. CASE ~(seq <= published)
  <2>1. MaybeOpen(TRUE, cut, run, seq, published, mem, Mark(R), wq)
        /\ UNCHANGED <<tables, late, up, seq, mem, entries, published, inbox, collecting, run,
                       hist>> /\ up
    BY <1>2 DEF Compact
  <2>2. dirty \subseteq Mark(R) /\ Mark(R) \in SUBSET Units
    BY DEF Mark, IInv, TypeOK
  <2> QED
    BY <2>1, <2>2, WantedCutKeeps
<1> QED
  BY <1>1, <1>2

(* The timer that asks for a cut keeps it. *)
LEMMA CutTimerKeeps ==
  ASSUME IInv, TypeOK', CutTimer
  PROVE  IInv'
<1>1. dirty \in SUBSET Units
  BY DEF IInv, TypeOK
<1> QED
  BY <1>1, WantedCutKeeps DEF CutTimer

(* A tick and a step of a thermal run keep it. *)
LEMMA ThermalKeeps ==
  ASSUME IInv, TypeOK', NEW U \in SUBSET Units, ThermalTick \/ ThermalStep(U)
  PROVE  IInv'
<1> USE DEF tables, worldVars, schedVars
<1>1. CASE ThermalTick
  <2>1. MemoryIsCurrent'
    BY <1>1 DEF ThermalTick, IInv, MemoryIsCurrent, LiveUnits
  <2>2. HeadReached'
    BY <1>1 DEF ThermalTick, IInv, HeadReached, Reached
  <2> QED
    BY <1>1, <2>1, <2>2, Frames DEF ThermalTick, IInv
<1>2. CASE ThermalStep(U)
  <2>1. \A u \in Units : mem'[u] \ {Live} = mem[u] \ {Live}
    BY <1>2 DEF ThermalStep, Apply, IInv, TypeOK
  <2>2. MemoryIsCurrent'
    BY <1>2, <2>1 DEF ThermalStep, IInv, MemoryIsCurrent
  <2> QED
    BY <1>2, <2>2, Frames DEF ThermalStep, IInv
<1> QED
  BY <1>1, <1>2

-----------------------------------------------------------------------------
(* The writer. *)

(* What the request at the head of the queue is. *)
LEMMA HeadRequest ==
  ASSUME IInv, up, wq # <<>>
  PROVE  /\ Cutting /\ Head(wq) \in Requests /\ Head(wq).seq = cut.seq
         /\ Head(wq).attempt = cut.attempt /\ prefix = published
         /\ prefix < cut.seq /\ cut.seq \in Nat
         /\ Head(wq).type = "batch" => Head(wq).frozen = cut.frozen
         /\ Head(wq).type = "publish" => Len(wq) = 1 /\ cut.publishing
         /\ Tail(wq) \in Seq(Requests) /\ Len(Tail(wq)) = Len(wq) - 1 /\ Len(wq) \in Nat
         /\ \A i \in 1..Len(Tail(wq)) : Tail(wq)[i] = wq[i + 1]
         /\ Head(wq) = wq[1]
<1>1. wq \in Seq(Requests) /\ cut.seq \in Nat
  BY DEF IInv, TypeOK, Cut
<1>2. /\ Len(wq) \in Nat \ {0} /\ Head(wq) = wq[1] /\ Head(wq) \in Requests
      /\ Tail(wq) \in Seq(Requests) /\ Len(Tail(wq)) = Len(wq) - 1
      /\ \A i \in 1..Len(Tail(wq)) : Tail(wq)[i] = wq[i + 1]
  BY <1>1, QueueFacts
<1>3. 1 \in 1..Len(wq)
  BY <1>2
<1>4. Cutting /\ prefix = published
  BY DEF IInv, WriterQueue, Confirmation
<1>5. prefix < cut.seq
  BY <1>4 DEF IInv, CutFrozen
<1>6. /\ wq[1].seq = cut.seq /\ wq[1].attempt = cut.attempt
      /\ wq[1].type = "batch" => wq[1].frozen = cut.frozen
      /\ wq[1].type = "publish" => 1 = Len(wq) /\ cut.publishing
  BY <1>3 DEF IInv, WriterQueue
<1> QED
  BY <1>1, <1>2, <1>4, <1>5, <1>6

(* The requests behind the head are still those of the cut. *)
LEMMA TailKeepsQueue ==
  ASSUME IInv, up, wq # <<>>, wq' = Tail(wq), cut' = cut, up' = up
  PROVE  WriterQueue' /\ \A i \in 1..Len(wq') : wq'[i].type # "begin"
<1>1. \A i \in 1..Len(wq') : wq'[i] = wq[i + 1] /\ i + 1 \in 1..Len(wq) /\ i + 1 # 1
  BY HeadRequest
<1>2. Len(wq') = Len(wq) - 1 /\ Len(wq) \in Nat
  BY HeadRequest
<1>3. Cutting' /\ \A i \in 1..Len(wq) :
             /\ wq[i].seq = cut'.seq
             /\ wq[i].attempt = cut'.attempt
             /\ wq[i].type = "begin" => i = 1
             /\ wq[i].type = "batch" => wq[i].frozen = cut'.frozen
             /\ wq[i].type = "publish" => i = Len(wq) /\ cut'.publishing
  BY HeadRequest DEF IInv, WriterQueue, Cutting
<1>4. ASSUME NEW i \in 1..Len(wq')
      PROVE  /\ wq'[i].seq = cut'.seq /\ wq'[i].attempt = cut'.attempt
             /\ wq'[i].type # "begin"
             /\ wq'[i].type = "batch" => wq'[i].frozen = cut'.frozen
             /\ wq'[i].type = "publish" => i = Len(wq') /\ cut'.publishing
  <2>1. wq'[i] = wq[i + 1] /\ i + 1 \in 1..Len(wq) /\ i + 1 # 1
    BY <1>1
  <2>2. i + 1 = Len(wq) => i = Len(wq')
    <3>1. i \in Int
      OBVIOUS
    <3>2. \A n \in Nat : i + 1 = n => i = n - 1
      BY <3>1
    <3> QED
      BY <1>2, <3>2, Zenon
  <2> QED
    BY <1>3, <2>1, <2>2
<1> QED
  BY <1>3, <1>4 DEF WriterQueue

(* A reply about the cut is added to the inbox. *)
LEMMA ReplyKeeps ==
  ASSUME IInv, up, wq # <<>>, NEW type \in {"begun", "ack", "published"}, Reply(type)
  PROVE  /\ \A i \in 1..Len(inbox') : inbox'[i].type # "failed"
         /\ \A i \in 1..Len(inbox') : inbox'[i].attempt = inbox'[i].seq + 1
         /\ \A i \in 1..Len(inbox') : inbox'[i].type = "published" =>
              inbox'[i].seq <= prefix \/ (type = "published" /\ inbox'[i].seq = cut.seq)
<1> DEFINE e == [type |-> type, attempt |-> Head(wq).attempt, seq |-> Head(wq).seq]
<1>1. e \in Replies /\ e.attempt = e.seq + 1 /\ e.seq = cut.seq
  BY HeadRequest DEF IInv, CutFrozen, Requests, Replies
<1>2. inbox \in Seq(Replies) /\ inbox' = Append(inbox, e)
  BY DEF IInv, TypeOK, Reply
<1> HIDE DEF e
<1>3. /\ Len(inbox') = Len(inbox) + 1 /\ Len(inbox) \in Nat
      /\ \A i \in 1..Len(inbox) : inbox'[i] = inbox[i]
      /\ inbox'[Len(inbox) + 1] = e
  BY <1>1, <1>2, AppendFacts
<1>4. \A i \in 1..Len(inbox) :
        /\ inbox[i].type # "failed" /\ inbox[i].attempt = inbox[i].seq + 1
        /\ inbox[i].type = "published" => inbox[i].seq <= prefix
  BY DEF IInv, ConfirmedIsDurable, Confirmation
<1>5. e.type = type
  BY DEF e
<1>6. \A i \in 1..Len(inbox') : i \in 1..Len(inbox) \/ i = Len(inbox) + 1
  BY <1>3
<1> QED
  BY <1>1, <1>3, <1>4, <1>5, <1>6

(* Clearing what no cut published takes away nothing that counts. *)
LEMMA WriterBeginKeeps ==
  ASSUME IInv, TypeOK', WriterBegin
  PROVE  IInv'
<1> USE DEF tables, worldVars, schedVars
<1>1. /\ up /\ wq # <<>> /\ wq' = Tail(wq) /\ Head(wq).type = "begin"
      /\ UNCHANGED <<log, prefix, late, up, seq, mem, dirty, entries, published, cut,
                     collecting, run, hist>>
  BY DEF WriterBegin, WriterTakes
<1>2. ~Covered(Head(wq).seq)
  BY <1>1, HeadRequest DEF Covered, IInv, TypeOK, Prefixes, NoPrefix
<1>3. seg' = ClearSegments(seg, prefix) /\ globals' = ClearGlobals(globals, prefix)
      /\ Reply("begun")
  BY <1>2 DEF WriterBegin
<1>4. LogKept' /\ HeadReached' /\ MemoryIsCurrent' /\ NothingForgotten' /\ CutFrozen'
  BY <1>1, Frames
<1>5. SegmentsKept' /\ RowsAreSnapshots'
  <2>1. RowsAreSnapshots'
    BY <1>1, <1>3 DEF IInv, RowsAreSnapshots, ClearSegments
  <2>2. \A r \in seg' : Reached(r.cut)'
    BY <1>1, <1>3 DEF IInv, SegmentsKept, Reached, ClearSegments
  <2>3. \A r \in seg : r.cut <= prefix => r \in seg'
    BY <1>3 DEF ClearSegments
  <2>4. prefix # NoPrefix => prefix \in globals'
    BY <1>3 DEF IInv, SegmentsKept, ClearGlobals, TypeOK, Prefixes
  <2> QED
    BY <1>1, <2>1, <2>2, <2>3, <2>4 DEF IInv, SegmentsKept
<1>6. WriterQueue'
  BY <1>1, TailKeepsQueue
<1>7. CutWritten'
  <2>1. 1 \in 1..Len(wq) /\ wq[1].type = "begin" /\ Cutting /\ prefix < cut.seq
        /\ Len(Tail(wq)) = Len(wq) - 1 /\ \A i \in 1..Len(Tail(wq)) : Tail(wq)[i] = wq[i + 1]
        /\ Len(wq) \in Nat
    BY <1>1, HeadRequest, QueueFacts DEF IInv, TypeOK
  <2> SUFFICES ASSUME NEW u \in cut.units, u \notin cut.todo
               PROVE  \E i \in 1..Len(wq') : wq'[i].type = "batch" /\ u \in wq'[i].units
    BY <1>1 DEF CutWritten, Cutting
  <2>2. PICK i \in 1..Len(wq) : wq[i].type = "batch" /\ u \in wq[i].units
    BY <1>1, <2>1 DEF IInv, CutWritten
  <2>3. i # 1
    BY <2>1, <2>2
  <2>4. i - 1 \in 1..Len(wq') /\ wq'[i - 1] = wq[i]
    BY <1>1, <2>1, <2>3
  <2> QED
    BY <2>2, <2>4
<1>8. ConfirmedIsDurable' /\ Confirmation'
  <2>1. prefix = published
    BY <1>1, HeadRequest
  <2> QED
    BY <1>1, <1>3, <2>1, ReplyKeeps DEF IInv, ConfirmedIsDurable, Confirmation
<1> QED
  BY <1>1, <1>4, <1>5, <1>6, <1>7, <1>8 DEF IInv

(* The rows of a batch are those of the cut. *)
LEMMA WriterBatchKeeps ==
  ASSUME IInv, TypeOK', WriterBatch
  PROVE  IInv'
<1> USE DEF tables, worldVars, schedVars
<1>1. /\ up /\ wq # <<>> /\ wq' = Tail(wq) /\ Head(wq).type = "batch"
      /\ seg' = seg \cup RowsOf(Head(wq)) /\ Reply("ack")
      /\ UNCHANGED <<log, globals, prefix, late, up, seq, mem, dirty, entries, published, cut,
                     collecting, run, hist>>
  BY DEF WriterBatch, WriterTakes
<1>2. /\ Cutting /\ Head(wq).seq = cut.seq /\ Head(wq).frozen = cut.frozen
      /\ Head(wq).units \subseteq Units /\ cut.seq \in Nat
      /\ prefix < cut.seq /\ prefix = published /\ Head(wq) = wq[1]
  BY <1>1, HeadRequest DEF Requests
<1>3. \A r : r \in RowsOf(Head(wq)) <=>
        \E u \in Head(wq).units : r = [unit |-> u, cut |-> cut.seq, val |-> cut.frozen[u]]
  BY <1>2 DEF RowsOf
<1>4. LogKept' /\ HeadReached' /\ MemoryIsCurrent' /\ NothingForgotten' /\ CutFrozen'
  BY <1>1, Frames
<1>5. SegmentsKept'
  <2>1. Reached(cut.seq)
    <3>1. cut.seq <= seq /\ Reached(seq) /\ seq \in Nat
      BY <1>1, <1>2 DEF IInv, CutFrozen, HeadReached, TypeOK
    <3>2. prefix \in Int /\ \A t \in hist : t.seq \in Nat
      BY DEF IInv, TypeOK, Prefixes, NoPrefix, Txn
    <3> QED
      BY <1>2, <3>1, <3>2 DEF Reached
  <2>2. \A r \in seg' : Reached(r.cut)
    BY <1>1, <1>3, <2>1 DEF IInv, SegmentsKept
  <2> QED
    BY <1>1, <2>2 DEF IInv, SegmentsKept, Reached
<1>6. RowsAreSnapshots'
  <2> SUFFICES ASSUME NEW r \in seg', r \notin seg
               PROVE  r.val = {s \in Edits(hist, r.unit) : s <= r.cut}
    BY <1>1 DEF IInv, RowsAreSnapshots
  <2>1. PICK u \in Head(wq).units : r = [unit |-> u, cut |-> cut.seq, val |-> cut.frozen[u]]
    BY <1>1, <1>3
  <2>2. u \in Units /\ cut.frozen[u] = {s \in Edits(hist, u) : s <= cut.seq}
    BY <1>1, <1>2 DEF IInv, CutFrozen
  <2> QED
    BY <2>1, <2>2
<1>7. WriterQueue' /\ \A i \in 1..Len(wq') : wq'[i].type # "begin"
  BY <1>1, TailKeepsQueue
<1>8. CutWritten'
  <2> SUFFICES ASSUME NEW u \in cut.units, u \notin cut.todo,
                      \A i \in 1..Len(wq') : ~(wq'[i].type = "batch" /\ u \in wq'[i].units)
               PROVE  \E r \in seg' : r.unit = u /\ r.cut = cut.seq
    BY <1>1, <1>7 DEF CutWritten, Cutting
  <2>1. CASE \E r \in seg : r.unit = u /\ r.cut = cut.seq
    BY <1>1, <2>1
  <2>2. CASE \E i \in 1..Len(wq) : wq[i].type = "batch" /\ u \in wq[i].units
    <3>1. PICK i \in 1..Len(wq) : wq[i].type = "batch" /\ u \in wq[i].units
      BY <2>2
    <3>2. i = 1
      <4>1. Len(wq') = Len(wq) - 1 /\ Len(wq) \in Nat
            /\ \A j \in 1..Len(wq') : wq'[j] = wq[j + 1]
        BY <1>1, HeadRequest
      <4>2. i # 1 => i - 1 \in 1..Len(wq') /\ wq'[i - 1] = wq[i]
        BY <4>1
      <4> QED
        BY <3>1, <4>2
    <3>3. [unit |-> u, cut |-> cut.seq, val |-> cut.frozen[u]] \in seg'
      BY <1>1, <1>2, <1>3, <3>1, <3>2
    <3> QED
      BY <3>3
  <2> QED
    BY <1>1, <1>2, <2>1, <2>2 DEF IInv, CutWritten
<1>9. ConfirmedIsDurable' /\ Confirmation'
  BY <1>1, <1>2, ReplyKeeps DEF IInv, ConfirmedIsDurable, Confirmation
<1> QED
  BY <1>1, <1>4, <1>5, <1>6, <1>7, <1>8, <1>9 DEF IInv

(* Publishing the cut: its rows and the older versions of the units it does *)
(* not have cover every transaction up to it.                              *)
LEMMA WriterPublishKeeps ==
  ASSUME IInv, TypeOK', WriterPublish
  PROVE  IInv'
<1> USE DEF tables, worldVars, schedVars
<1>1. /\ up /\ wq # <<>> /\ wq' = Tail(wq) /\ Head(wq).type = "publish"
      /\ UNCHANGED <<log, seg, late, up, seq, mem, dirty, entries, published, cut, run, hist>>
  BY DEF WriterPublish, WriterTakes
<1>2. /\ Cutting /\ Head(wq).seq = cut.seq /\ cut.seq \in Nat /\ prefix < cut.seq
      /\ prefix = published /\ Len(wq) = 1 /\ cut.publishing /\ Head(wq) = wq[1]
      /\ Len(Tail(wq)) = 0 /\ Tail(wq) \in Seq(Requests)
  BY <1>1, HeadRequest
<1>3. prefix \in Int /\ seq \in Nat /\ \A t \in hist : t.seq \in Nat
  BY DEF IInv, TypeOK, Prefixes, NoPrefix, Txn
<1>4. ~Covered(Head(wq).seq)
  BY <1>2, <1>3 DEF Covered
<1>5. /\ globals' = globals \cup {cut.seq} /\ prefix' = cut.seq /\ collecting' = cut.seq
      /\ Reply("published")
  BY <1>2, <1>4 DEF WriterPublish
<1>6. cut.todo = {} /\ cut.seq <= seq /\ published < cut.seq
  BY <1>1, <1>2 DEF IInv, CutFrozen
<1>7. wq' = <<>>
  BY <1>1, <1>2, EmptySeq
<1>8. LogKept'
  BY <1>1, <1>2, <1>3, <1>5 DEF IInv, LogKept
<1>9. SegmentsKept'
  <2>1. \A c \in Int : Reached(c) => c <= 0 \/ \E t \in hist' : c <= t.seq
    BY <1>1, <1>2, <1>3, <1>5 DEF Reached
  <2>2. \A r \in seg : r.cut \in Int
    BY DEF IInv, TypeOK, Row
  <2>3. ASSUME NEW t \in hist, t.seq <= cut.seq, NEW u \in t.units
        PROVE  \E r \in seg : r.unit = u /\ t.seq <= r.cut /\ r.cut <= cut.seq
    <3>1. CASE t.seq <= prefix
      <4>1. PICK r \in seg : r.unit = u /\ t.seq <= r.cut /\ r.cut <= prefix
        BY <2>3, <3>1 DEF IInv, SegmentsKept
      <4> QED
        BY <1>2, <1>3, <2>2, <4>1
    <3>2. CASE ~(t.seq <= prefix)
      <4>1. u \in cut.units
        BY <1>1, <1>2, <1>3, <2>3, <3>2 DEF IInv, NothingForgotten
      <4>2. \A i \in 1..Len(wq) : wq[i].type = "publish"
        BY <1>1, <1>2
      <4>3. PICK r \in seg : r.unit = u /\ r.cut = cut.seq
        BY <1>1, <1>2, <1>6, <4>1, <4>2 DEF IInv, CutWritten
      <4> QED
        BY <1>2, <2>3, <4>3
    <3> QED
      BY <3>1, <3>2
  <2>4. \A r \in seg' : Reached(r.cut)'
    BY <1>1, <2>1, <2>2 DEF IInv, SegmentsKept, Reached
  <2> QED
    BY <1>1, <1>5, <2>3, <2>4 DEF SegmentsKept
<1>10. RowsAreSnapshots' /\ MemoryIsCurrent' /\ NothingForgotten' /\ CutFrozen'
  BY <1>1 DEF IInv, RowsAreSnapshots, MemoryIsCurrent, LiveUnits, NothingForgotten,
              CutFrozen, Cutting
<1>11. HeadReached'
  <2>1. Reached(seq)'
    BY <1>1, <1>2, <1>3, <1>5 DEF IInv, HeadReached, Reached
  <2>2. prefix' <= seq' /\ collecting' <= prefix' /\ \A t \in hist' : t.seq <= seq'
    BY <1>1, <1>2, <1>5, <1>6 DEF IInv, HeadReached
  <2>3. Reached(prefix)'
    BY <1>1, <1>2, <1>3, <1>5, <1>6 DEF IInv, HeadReached, Reached
  <2> QED
    BY <1>1, <2>1, <2>2, <2>3 DEF HeadReached
<1>12. WriterQueue'
  BY <1>1, TailKeepsQueue
<1>13. CutWritten'
  BY <1>1, <1>2, <1>5 DEF CutWritten
<1>14. ConfirmedIsDurable' /\ Confirmation'
  <2>1. /\ \A i \in 1..Len(inbox') : inbox'[i].type # "failed"
        /\ \A i \in 1..Len(inbox') : inbox'[i].attempt = inbox'[i].seq + 1
        /\ \A i \in 1..Len(inbox') : inbox'[i].type = "published" =>
             inbox'[i].seq <= prefix \/ inbox'[i].seq = cut.seq
    BY <1>1, <1>5, ReplyKeeps
  <2>2. \A i \in 1..Len(inbox') : inbox'[i].seq \in Nat
    <3>1. inbox' \in Seq(Replies)
      BY DEF TypeOK
    <3>2. \A i \in 1..Len(inbox') : inbox'[i] \in Replies
      BY <3>1
    <3> QED
      BY <3>2 DEF Replies
  <2>3. ConfirmedIsDurable'
    BY <1>1, <1>2, <1>3, <1>5, <1>6, <2>1 DEF ConfirmedIsDurable, Cutting
  <2>4. Confirmation'
    BY <1>1, <1>2, <1>3, <1>5, <1>7, <2>1, <2>2 DEF Confirmation
  <2> QED
    BY <2>3, <2>4
<1> QED
  BY <1>1, <1>8, <1>9, <1>10, <1>11, <1>12, <1>13, <1>14 DEF IInv

(* collect deletes only what a restart does not read. *)
LEMMA WriterCollectKeeps ==
  ASSUME IInv, TypeOK', WriterCollect
  PROVE  IInv'
<1> USE DEF tables, worldVars, schedVars
<1>1. PICK L \in SUBSET {t \in log : t.seq <= collecting},
           S \in SUBSET Superseded(seg, collecting),
           G \in SUBSET {g \in globals : g < collecting} :
        log' = log \ L /\ seg' = seg \ S /\ globals' = globals \ G
  BY DEF WriterCollect
<1>2. /\ up /\ UNCHANGED <<prefix, late, up, seq, mem, dirty, entries, published, cut, wq, inbox,
                           collecting, run, hist>>
  BY DEF WriterCollect
<1>3. prefix \in Int /\ collecting \in Int /\ \A r \in seg : r.cut \in Nat
  BY DEF IInv, TypeOK, Prefixes, NoPrefix, Row
<1>4. collecting <= prefix
  BY DEF IInv, HeadReached
<1>5. LogKept'
  <2>1. \A t \in hist : t.seq \in Nat
    BY DEF IInv, TypeOK, Txn
  <2> QED
    BY <1>1, <1>2, <1>3, <1>4, <2>1 DEF IInv, LogKept
<1>6. SegmentsKept'
  <2>1. ASSUME NEW t \in hist, t.seq <= prefix, NEW u \in t.units
        PROVE  \E r \in seg' : r.unit = u /\ t.seq <= r.cut /\ r.cut <= prefix
    <3>1. PICK r \in seg : r.unit = u /\ t.seq <= r.cut /\ r.cut <= prefix
      BY <2>1 DEF IInv, SegmentsKept
    <3>2. PICK n \in seg \ Superseded(seg, collecting) :
            n.unit = r.unit /\ r.cut <= n.cut /\ n.cut <= prefix
      BY <1>3, <1>4, <3>1, CollectKeepsNewest
    <3>3. t.seq \in Nat
      BY DEF IInv, TypeOK, Txn
    <3> QED
      BY <1>1, <1>3, <3>1, <3>2, <3>3
  <2>2. \A r \in seg' : Reached(r.cut)'
    BY <1>1, <1>2 DEF IInv, SegmentsKept, Reached
  <2>3. prefix # NoPrefix => prefix \in globals'
    BY <1>1, <1>3, <1>4 DEF IInv, SegmentsKept
  <2> QED
    BY <1>2, <2>1, <2>2, <2>3 DEF SegmentsKept
<1>7. RowsAreSnapshots'
  BY <1>1, <1>2 DEF IInv, RowsAreSnapshots
<1>8. CutWritten'
  <2>1. ASSUME Cutting, prefix < cut.seq, NEW r \in seg, r.cut = cut.seq PROVE r \in seg'
    <3>1. ~(r.cut < collecting)
      BY <1>3, <1>4, <2>1
    <3> QED
      BY <1>1, <3>1 DEF Superseded
  <2> QED
    BY <1>2, <2>1 DEF IInv, CutWritten, Cutting
<1>9. HeadReached' /\ MemoryIsCurrent' /\ NothingForgotten' /\ CutFrozen' /\ WriterQueue'
      /\ ConfirmedIsDurable' /\ Confirmation'
  BY <1>2, Frames
<1> QED
  BY <1>2, <1>5, <1>6, <1>7, <1>8, <1>9 DEF IInv

(* The end of the collection keeps the invariant. *)
LEMMA WriterCollectedKeeps ==
  ASSUME IInv, TypeOK', WriterCollected
  PROVE  IInv'
<1> USE DEF tables, worldVars, schedVars
<1>1. HeadReached'
  <2>1. up /\ NoPrefix <= prefix
    BY DEF WriterCollected, IInv, TypeOK, Prefixes, NoPrefix
  <2> QED
    BY <2>1 DEF WriterCollected, IInv, HeadReached, Reached
<1> QED
  BY <1>1, Frames DEF WriterCollected, IInv

-----------------------------------------------------------------------------
(* The handlers of the writer's replies. *)

(* pump sends nothing that the cut does not still owe. *)
LEMMA PumpKeeps ==
  ASSUME IInv, TypeOK', up, Cutting, NEW c \in Cut, NEW n, Pump(c, n),
         c.attempt = cut.attempt, c.seq = cut.seq, c.frozen = cut.frozen, c.units = cut.units,
         c.todo = cut.todo, c.publishing = cut.publishing,
         UNCHANGED <<up, published, seq, hist, prefix, seg, dirty>>
  PROVE  /\ CutFrozen' /\ WriterQueue' /\ CutWritten' /\ NothingForgotten'
         /\ cut'.attempt = cut.attempt /\ cut'.seq = cut.seq
         /\ prefix # published => wq' = <<>> /\ cut'.publishing
<1>1. wq \in Seq(Requests) /\ Len(wq) \in Nat
  BY DEF IInv, TypeOK
<1>2. /\ \A i \in 1..Len(wq) :
           /\ wq[i].seq = cut.seq /\ wq[i].attempt = cut.attempt
           /\ wq[i].type = "begin" => i = 1
           /\ wq[i].type = "batch" => wq[i].frozen = cut.frozen
           /\ wq[i].type = "publish" => i = Len(wq) /\ cut.publishing
      /\ cut.publishing => cut.todo = {}
  BY DEF IInv, WriterQueue, CutFrozen
<1>3. ASSUME cut'.attempt = cut.attempt, cut'.seq = cut.seq, cut'.frozen = cut.frozen,
             cut'.units = cut.units, cut'.publishing => cut'.todo = {}
      PROVE  CutFrozen' /\ NothingForgotten'
  BY <1>3 DEF IInv, CutFrozen, NothingForgotten, Cutting
<1>4. ASSUME NEW B \in SUBSET c.todo, MaySend(c),
             cut' = [c EXCEPT !.todo = @ \ B, !.credits = @ - 1],
             wq' = Append(wq, Send("batch", c, B))
      PROVE  /\ CutFrozen' /\ WriterQueue' /\ CutWritten' /\ NothingForgotten'
             /\ cut'.attempt = cut.attempt /\ cut'.seq = cut.seq
             /\ prefix # published => wq' = <<>> /\ cut'.publishing
  <2>1. /\ cut'.attempt = cut.attempt /\ cut'.seq = cut.seq /\ cut'.frozen = cut.frozen
        /\ cut'.units = cut.units /\ cut'.todo = cut.todo \ B
        /\ cut'.publishing = cut.publishing /\ ~cut.publishing
    BY <1>4 DEF MaySend, Cut
  <2>2. B \in SUBSET Units /\ Send("batch", c, B) \in Requests
    <3>1. B \in SUBSET Units
      BY DEF Cut
    <3> QED
      BY <3>1, SendType
  <2>3. /\ Len(wq') = Len(wq) + 1
        /\ \A i \in 1..Len(wq) : wq'[i] = wq[i]
        /\ wq'[Len(wq) + 1] = Send("batch", c, B)
    BY <1>1, <1>4, <2>2, AppendFacts
  <2>4. /\ Send("batch", c, B).type = "batch" /\ Send("batch", c, B).seq = cut.seq
        /\ Send("batch", c, B).attempt = cut.attempt
        /\ Send("batch", c, B).frozen = cut.frozen /\ Send("batch", c, B).units = B
    BY DEF Send
  <2>5. \A i \in 1..Len(wq') : i \in 1..Len(wq) \/ i = Len(wq) + 1
    BY <1>1, <2>3
  <2>6. WriterQueue'
    <3>1. \A i \in 1..Len(wq') :
             /\ wq'[i].seq = cut'.seq /\ wq'[i].attempt = cut'.attempt
             /\ wq'[i].type = "begin" => i = 1
             /\ wq'[i].type = "batch" => wq'[i].frozen = cut'.frozen
             /\ wq'[i].type # "publish"
      BY <1>2, <2>1, <2>3, <2>4, <2>5
    <3> QED
      BY <2>1, <3>1 DEF WriterQueue, Cutting
  <2>7. CutWritten'
    <3> SUFFICES ASSUME prefix < cut.seq, NEW u \in cut.units, u \notin cut'.todo,
                        \A i \in 1..Len(wq') : ~(wq'[i].type = "batch" /\ u \in wq'[i].units)
                 PROVE  /\ \E r \in seg : r.unit = u /\ r.cut = cut.seq
                        /\ \A i \in 1..Len(wq') : wq'[i].type # "begin"
      BY <2>1 DEF CutWritten, Cutting
    <3>1. Len(wq) + 1 \in 1..Len(wq') /\ \A i \in 1..Len(wq) : i \in 1..Len(wq')
      BY <1>1, <2>3
    <3>2. u \notin B /\ u \notin cut.todo
      BY <2>1, <2>3, <2>4, <3>1
    <3>3. \A i \in 1..Len(wq) : ~(wq[i].type = "batch" /\ u \in wq[i].units)
      BY <2>3, <3>1
    <3>4. /\ \E r \in seg : r.unit = u /\ r.cut = cut.seq
          /\ \A i \in 1..Len(wq) : wq[i].type # "begin"
      BY <3>2, <3>3 DEF IInv, CutWritten
    <3> QED
      BY <2>3, <2>4, <2>5, <3>4
  <2>8. prefix = published
    BY <2>1 DEF IInv, Confirmation
  <2>9. CutFrozen' /\ NothingForgotten'
    BY <1>3, <2>1
  <2> QED
    BY <2>1, <2>6, <2>7, <2>8, <2>9
<1>5. ASSUME MayPublish(c), cut' = [c EXCEPT !.publishing = TRUE],
             wq' = Append(wq, Send("publish", c, {}))
      PROVE  /\ CutFrozen' /\ WriterQueue' /\ CutWritten' /\ NothingForgotten'
             /\ cut'.attempt = cut.attempt /\ cut'.seq = cut.seq
             /\ prefix # published => wq' = <<>> /\ cut'.publishing
  <2>1. /\ cut'.attempt = cut.attempt /\ cut'.seq = cut.seq /\ cut'.frozen = cut.frozen
        /\ cut'.units = cut.units /\ cut'.todo = cut.todo /\ cut.todo = {}
        /\ cut'.publishing /\ ~cut.publishing
    BY <1>5 DEF MayPublish, Cut
  <2>2. Send("publish", c, {}) \in Requests
    BY SendType
  <2>3. /\ Len(wq') = Len(wq) + 1
        /\ \A i \in 1..Len(wq) : wq'[i] = wq[i]
        /\ wq'[Len(wq) + 1] = Send("publish", c, {})
    BY <1>1, <1>5, <2>2, AppendFacts
  <2>4. /\ Send("publish", c, {}).type = "publish" /\ Send("publish", c, {}).seq = cut.seq
        /\ Send("publish", c, {}).attempt = cut.attempt
    BY DEF Send
  <2>5. \A i \in 1..Len(wq') : i \in 1..Len(wq) \/ i = Len(wq) + 1
    BY <1>1, <2>3
  <2>6. WriterQueue'
    <3>1. \A i \in 1..Len(wq') :
             /\ wq'[i].seq = cut'.seq /\ wq'[i].attempt = cut'.attempt
             /\ wq'[i].type = "begin" => i = 1
             /\ wq'[i].type = "batch" => wq'[i].frozen = cut'.frozen
             /\ wq'[i].type = "publish" => i = Len(wq')
      BY <1>2, <2>1, <2>3, <2>4, <2>5
    <3> QED
      BY <2>1, <3>1 DEF WriterQueue, Cutting
  <2>7. CutWritten'
    <3>1. \A i \in 1..Len(wq) : i \in 1..Len(wq') /\ wq'[i] = wq[i]
      BY <1>1, <2>3
    <3>2. \A i \in 1..Len(wq') : wq'[i].type = "begin" => i \in 1..Len(wq)
      BY <2>3, <2>4, <2>5
    <3> QED
      BY <2>1, <3>1, <3>2 DEF IInv, CutWritten, Cutting
  <2>8. prefix = published
    BY <2>1 DEF IInv, Confirmation
  <2>9. CutFrozen' /\ NothingForgotten'
    BY <1>3, <2>1
  <2> QED
    BY <2>1, <2>6, <2>7, <2>8, <2>9
<1>6. ASSUME cut' = c, wq' = wq
      PROVE  /\ CutFrozen' /\ WriterQueue' /\ CutWritten' /\ NothingForgotten'
             /\ cut'.attempt = cut.attempt /\ cut'.seq = cut.seq
             /\ prefix # published => wq' = <<>> /\ cut'.publishing
  <2>1. CutFrozen' /\ NothingForgotten'
    BY <1>2, <1>3, <1>6
  <2>2. WriterQueue' /\ CutWritten'
    BY <1>6 DEF IInv, WriterQueue, CutWritten, Cutting
  <2> QED
    BY <1>6, <2>1, <2>2 DEF IInv, Confirmation
<1> QED
  BY <1>4, <1>5, <1>6 DEF Pump

(* What is left of the inbox. *)
LEMMA ReceivedFacts ==
  ASSUME IInv, up, inbox # <<>>, inbox' = Tail(inbox)
  PROVE  /\ \A i \in 1..Len(inbox') :
              /\ inbox'[i].type # "failed" /\ inbox'[i].attempt = inbox'[i].seq + 1
              /\ inbox'[i].type = "published" => inbox'[i].seq <= prefix
         /\ Head(inbox) \in Replies /\ Head(inbox).attempt = Head(inbox).seq + 1
         /\ Head(inbox).type = "published" => Head(inbox).seq <= prefix
<1>1. /\ Len(inbox) \in Nat \ {0} /\ Head(inbox) = inbox[1] /\ Head(inbox) \in Replies
      /\ Len(inbox') = Len(inbox) - 1
      /\ \A i \in 1..Len(inbox') : inbox'[i] = inbox[i + 1]
  BY QueueFacts DEF IInv, TypeOK
<1>2. 1 \in 1..Len(inbox) /\ \A i \in 1..Len(inbox') : i + 1 \in 1..Len(inbox)
  BY <1>1
<1>3. \A i \in 1..Len(inbox) :
        /\ inbox[i].type # "failed" /\ inbox[i].attempt = inbox[i].seq + 1
        /\ inbox[i].type = "published" => inbox[i].seq <= prefix
  BY DEF IInv, ConfirmedIsDurable, Confirmation
<1> QED
  BY <1>1, <1>2, <1>3

(* A handler that only pumps keeps the invariant. *)
LEMMA HandlerKeeps ==
  ASSUME IInv, TypeOK', up, HandlerFrame,
         \A i \in 1..Len(inbox') :
           /\ inbox'[i].type # "failed" /\ inbox'[i].attempt = inbox'[i].seq + 1
           /\ inbox'[i].type = "published" => inbox'[i].seq <= prefix,
         \/ UNCHANGED <<cut, wq>>
         \/ /\ CutFrozen' /\ WriterQueue' /\ CutWritten' /\ NothingForgotten'
            /\ cut'.attempt = cut.attempt /\ cut'.seq = cut.seq
            /\ prefix # published => wq' = <<>> /\ cut'.publishing
  PROVE  IInv'
<1> USE DEF tables, schedVars
<1>1. UNCHANGED <<log, seg, globals, prefix, late, up, seq, mem, dirty, entries, published,
                  collecting, run, hist>>
  BY DEF HandlerFrame
<1>2. LogKept' /\ SegmentsKept' /\ RowsAreSnapshots' /\ HeadReached' /\ MemoryIsCurrent'
  BY <1>1, Frames
<1>3. CutFrozen' /\ WriterQueue' /\ CutWritten' /\ NothingForgotten'
  BY <1>1, Frames
<1>4. ConfirmedIsDurable'
  BY <1>1 DEF IInv, ConfirmedIsDurable, Cutting
<1>5. Confirmation'
  BY <1>1 DEF IInv, Confirmation
<1> QED
  BY <1>1, <1>2, <1>3, <1>4, <1>5 DEF IInv

(* The answer to the begin keeps it. *)
LEMMA PageBegunKeeps ==
  ASSUME IInv, TypeOK', PageBegun
  PROVE  IInv'
<1> DEFINE c == [cut EXCEPT !.begun = TRUE]
<1>1. up /\ inbox # <<>> /\ inbox' = Tail(inbox) /\ HandlerFrame
  BY DEF PageBegun, Receive
<1>2. CASE ~Current
  BY <1>1, <1>2, ReceivedFacts, HandlerKeeps DEF PageBegun
<1>3. CASE Current
  <2>5. cut \in Cut /\ c \in Cut
    BY <1>3, CutBegunType DEF IInv, TypeOK, Current, Cutting
  <2>1. /\ c.attempt = cut.attempt /\ c.seq = cut.seq /\ c.frozen = cut.frozen
        /\ c.units = cut.units /\ c.todo = cut.todo /\ c.publishing = cut.publishing
    BY <2>5 DEF Cut
  <2>2. Cutting /\ Pump(c, pumps)
    BY <1>3 DEF PageBegun, Current
  <2>3. UNCHANGED <<up, published, seq, hist, prefix, seg, dirty>>
    BY <1>1 DEF HandlerFrame, tables
  <2> HIDE DEF c
  <2>4. /\ CutFrozen' /\ WriterQueue' /\ CutWritten' /\ NothingForgotten'
        /\ cut'.attempt = cut.attempt /\ cut'.seq = cut.seq
        /\ prefix # published => wq' = <<>> /\ cut'.publishing
    BY <1>1, <2>1, <2>2, <2>3, <2>5, PumpKeeps
  <2> QED
    BY <1>1, <2>4, ReceivedFacts, HandlerKeeps
<1> QED
  BY <1>2, <1>3

(* The answer to a batch keeps it. *)
LEMMA PageAckKeeps ==
  ASSUME IInv, TypeOK', PageAck
  PROVE  IInv'
<1>1. up /\ inbox # <<>> /\ inbox' = Tail(inbox) /\ HandlerFrame
  BY DEF PageAck, Receive
<1>2. CASE ~Current
  BY <1>1, <1>2, ReceivedFacts, HandlerKeeps DEF PageAck
<1>3. CASE Current
  <2>5. cut \in Cut /\ Credited \in Cut
    BY CreditedType DEF IInv, TypeOK
  <2>1. /\ Credited.attempt = cut.attempt /\ Credited.seq = cut.seq
        /\ Credited.frozen = cut.frozen /\ Credited.units = cut.units
        /\ Credited.todo = cut.todo /\ Credited.publishing = cut.publishing
    BY <2>5 DEF Cut, Credited
  <2>2. Cutting /\ Pump(Credited, pumps)
    BY <1>3 DEF PageAck, Current
  <2>3. UNCHANGED <<up, published, seq, hist, prefix, seg, dirty>>
    BY <1>1 DEF HandlerFrame, tables
  <2>4. /\ CutFrozen' /\ WriterQueue' /\ CutWritten' /\ NothingForgotten'
        /\ cut'.attempt = cut.attempt /\ cut'.seq = cut.seq
        /\ prefix # published => wq' = <<>> /\ cut'.publishing
    BY <1>1, <2>1, <2>2, <2>3, <2>5, PumpKeeps
  <2> QED
    BY <1>1, <2>4, ReceivedFacts, HandlerKeeps
<1> QED
  BY <1>2, <1>3

(* The World's own :page_pump keeps it. *)
LEMMA PagePumpKeeps ==
  ASSUME IInv, TypeOK', PagePump
  PROVE  IInv'
<1>1. up /\ inbox' = inbox /\ HandlerFrame
  BY DEF PagePump
<1>2. \A i \in 1..Len(inbox') :
        /\ inbox'[i].type # "failed" /\ inbox'[i].attempt = inbox'[i].seq + 1
        /\ inbox'[i].type = "published" => inbox'[i].seq <= prefix
  BY <1>1 DEF IInv, ConfirmedIsDurable, Confirmation
<1>3. CASE ~cut.begun
  BY <1>1, <1>2, <1>3, HandlerKeeps DEF PagePump
<1>4. CASE cut.begun
  <2>1. cut \in Cut /\ Pump(cut, pumps - 1)
    BY <1>4 DEF PagePump, IInv, TypeOK
  <2>2. Cutting
    BY <1>4 DEF IInv, TypeOK, Cut, Cutting
  <2>3. UNCHANGED <<up, published, seq, hist, prefix, seg, dirty>>
    BY <1>1 DEF HandlerFrame, tables
  <2>4. /\ CutFrozen' /\ WriterQueue' /\ CutWritten' /\ NothingForgotten'
        /\ cut'.attempt = cut.attempt /\ cut'.seq = cut.seq
        /\ prefix # published => wq' = <<>> /\ cut'.publishing
    BY <1>1, <2>1, <2>2, <2>3, PumpKeeps
  <2> QED
    BY <1>1, <1>2, <2>4, HandlerKeeps
<1> QED
  BY <1>3, <1>4

(* The confirmation of the cut under way. *)
LEMMA PagePublishedKeeps ==
  ASSUME IInv, TypeOK', PagePublished
  PROVE  IInv'
<1> USE DEF tables
<1>1. /\ up /\ inbox # <<>> /\ inbox' = Tail(inbox) /\ Head(inbox).type = "published"
      /\ UNCHANGED <<log, seg, globals, prefix, late, up, seq, mem, collecting, run, hist>>
  BY DEF PagePublished, Receive
<1>2. /\ \A i \in 1..Len(inbox') :
           /\ inbox'[i].type # "failed" /\ inbox'[i].attempt = inbox'[i].seq + 1
           /\ inbox'[i].type = "published" => inbox'[i].seq <= prefix
      /\ Head(inbox) \in Replies /\ Head(inbox).attempt = Head(inbox).seq + 1
      /\ Head(inbox).seq <= prefix
  BY <1>1, ReceivedFacts
<1>3. LogKept' /\ SegmentsKept' /\ RowsAreSnapshots' /\ HeadReached'
  BY <1>1, Frames
<1>4. CASE ~Current
  <2>1. UNCHANGED <<published, entries, cut, dirty, wq>>
    BY <1>4 DEF PagePublished
  <2>2. MemoryIsCurrent' /\ NothingForgotten' /\ CutFrozen' /\ WriterQueue' /\ CutWritten'
    BY <1>1, <2>1, Frames
  <2>3. ConfirmedIsDurable' /\ Confirmation'
    BY <1>1, <1>2, <2>1 DEF IInv, ConfirmedIsDurable, Confirmation, Cutting
  <2> QED
    BY <1>1, <1>3, <2>2, <2>3 DEF IInv
<1>5. CASE Current
  <2> DEFINE p == Head(inbox).seq
  <2>1. PICK R \in SUBSET Units : Confirm(p, R)
    BY <1>5 DEF PagePublished
  <2>2. Cutting /\ p = cut.seq /\ p = prefix /\ p \in Nat /\ published < p /\ wq = <<>>
    <3>1. Cutting /\ Head(inbox).attempt = cut.attempt
      BY <1>5 DEF Current
    <3>2. cut.attempt = cut.seq + 1 /\ published < cut.seq /\ cut.seq \in Nat /\ p \in Nat
      BY <1>1, <1>2, <3>1 DEF IInv, CutFrozen, TypeOK, Cut, Replies
    <3>3. p = cut.seq
      BY <1>2, <3>1, <3>2
    <3>4. prefix \in Int /\ published \in Int
      BY DEF IInv, TypeOK, Prefixes, NoPrefix
    <3>5. prefix # published
      BY <1>2, <3>2, <3>3, <3>4
    <3>6. prefix = cut.seq /\ wq = <<>>
      BY <1>1, <3>5 DEF IInv, ConfirmedIsDurable, Confirmation
    <3> QED
      BY <3>1, <3>2, <3>3, <3>6
  <2> HIDE DEF p
  <2>3. published' = p /\ entries' = Retained(p)
        /\ MaybeOpen(\E c \in Callers : StillWaiting(p)[c] # NoPrefix,
                     NoCut, run, seq, p, mem, Mark(R), wq)
    BY <2>1 DEF Confirm
  <2>4. MemoryIsCurrent'
    <3>1. published \in Int /\ \A t \in hist : t.seq \in Nat
      BY DEF IInv, TypeOK, Prefixes, NoPrefix, Txn
    <3>2. entries = {t.seq : t \in {x \in hist : x.seq > published}}
      BY <1>1 DEF IInv, MemoryIsCurrent
    <3>3. entries' = {t.seq : t \in {x \in hist : x.seq > p}}
      BY <2>2, <2>3, <3>1, <3>2 DEF Retained
    <3> QED
      BY <1>1, <2>3, <3>3 DEF IInv, MemoryIsCurrent, LiveUnits
  <2>5. \A t \in hist : t.seq > p => t.units \subseteq Mark(R)
    <3>1. \A t \in hist : t.seq \in Nat
      BY DEF IInv, TypeOK, Txn
    <3>2. published \in Int
      BY DEF IInv, TypeOK, Prefixes, NoPrefix
    <3> QED
      BY <1>1, <2>2, <3>1, <3>2 DEF IInv, NothingForgotten, Mark
  <2>6. NoCut \in Cut /\ seq \in Nat /\ mem \in Content /\ Mark(R) \in SUBSET Units
        /\ wq \in Seq(Requests)
    BY NoCutType DEF IInv, TypeOK, Mark
  <2>7. ConfirmedIsDurable' /\ (prefix' = published')
    BY <1>1, <1>2, <2>2, <2>3 DEF ConfirmedIsDurable
  <2>8. Confirmation'
    BY <1>1, <1>2, <2>7 DEF Confirmation
  <2>9. CASE cut' = NoCut /\ dirty' = Mark(R) /\ wq' = wq
    <3>1. ~Cutting'
      BY <2>9 DEF Cutting, NoCut
    <3>2. NothingForgotten'
      BY <1>1, <2>3, <2>5, <2>9, <3>1 DEF NothingForgotten
    <3>3. Len(wq') = 0
      BY <2>2, <2>9, EmptySeq
    <3>4. CutFrozen' /\ WriterQueue' /\ CutWritten'
      BY <2>2, <2>9, <3>1, <3>3 DEF CutFrozen, WriterQueue, CutWritten
    <3> QED
      BY <1>1, <1>3, <2>4, <2>7, <2>8, <3>2, <3>4 DEF IInv
  <2>10. CASE /\ ~run /\ seq > p /\ cut' = NewCut(seq, mem, Mark(R))
              /\ Len(wq') = 1 /\ wq'[1] = Send("begin", NewCut(seq, mem, Mark(R)), {})
    <3>1. \A t \in hist' : t.seq <= seq' /\ (t.seq > published' => t.units \subseteq Mark(R))
      BY <1>1, <2>3, <2>5 DEF IInv, HeadReached
    <3>2. \A u \in Units : mem'[u] = Edits(hist', u)
      BY <1>1, <2>10 DEF IInv, MemoryIsCurrent, LiveUnits
    <3>3. published' < seq'
      BY <1>1, <2>2, <2>3, <2>6, <2>10
    <3>4. NothingForgotten' /\ CutFrozen' /\ WriterQueue' /\ CutWritten'
      BY <1>1, <2>6, <2>10, <3>1, <3>2, <3>3, OpenKeeps
    <3> QED
      BY <1>1, <1>3, <2>4, <2>7, <2>8, <3>4 DEF IInv
  <2> QED
    BY <2>2, <2>3, <2>6, <2>9, <2>10, MaybeOpenCases
<1> QED
  BY <1>4, <1>5

-----------------------------------------------------------------------------
(* Death and restart. *)

(* A crash takes nothing from the tables. *)
LEMMA LostKeeps ==
  ASSUME IInv, TypeOK', Lost, prefix' = prefix, late' = NoPrefix, hist \subseteq hist',
         LogKept', SegmentsKept', RowsAreSnapshots'
  PROVE  IInv'
<1>1. ~up' /\ wq' = <<>> /\ inbox' = <<>> /\ ~run' /\ collecting' = NoPrefix
  BY DEF Lost
<1>2. HeadReached'
  <2>1. Reached(prefix)'
    BY DEF IInv, HeadReached, Reached
  <2> QED
    BY <1>1, <2>1 DEF HeadReached, IInv, TypeOK, Prefixes, NoPrefix
<1>3. /\ MemoryIsCurrent' /\ NothingForgotten' /\ CutFrozen' /\ WriterQueue' /\ CutWritten'
      /\ ConfirmedIsDurable' /\ Confirmation'
  BY <1>1 DEF MemoryIsCurrent, NothingForgotten, CutFrozen, WriterQueue, CutWritten,
              ConfirmedIsDurable, Confirmation
<1> QED
  BY <1>2, <1>3 DEF IInv

(* A crash keeps the invariant, no COMMIT being under way. *)
LEMMA CrashKeeps ==
  ASSUME LateCommit = FALSE, IInv, TypeOK', Crash
  PROVE  IInv'
<1> USE DEF tables
<1>1. Lost /\ UNCHANGED <<log, seg, globals, prefix, hist>> /\ late' \in {late} \cup Committing
  BY DEF Crash
<1>2. late' = NoPrefix
  BY <1>1 DEF Committing, IInv
<1>3. LogKept' /\ SegmentsKept' /\ RowsAreSnapshots'
  BY <1>1, Frames
<1> QED
  BY <1>1, <1>2, <1>3, LostKeeps

(* So does a crash whose append had committed. *)
LEMMA CrashInAppendKeeps ==
  ASSUME IInv, TypeOK', NEW U \in SUBSET Units, CrashInAppend(U)
  PROVE  IInv'
<1>1. up /\ AppendLog(U) /\ Lost /\ UNCHANGED <<seg, globals, prefix, late>>
  BY DEF CrashInAppend
<1>2. LogKept' /\ SegmentsKept' /\ RowsAreSnapshots'
  BY <1>1, AppendKeepsTables
<1>3. late' = NoPrefix /\ hist \subseteq hist'
  BY <1>1 DEF IInv, AppendLog
<1> QED
  BY <1>1, <1>2, <1>3, LostKeeps

(* At any moment a restart rebuilds every edit. *)
LEMMA AlwaysRecoverable ==
  ASSUME IInv
  PROVE  Recoverable
<1> SUFFICES ASSUME NEW u \in Units PROVE Recovered(log, seg, prefix, u) = Edits(hist, u)
  BY DEF Recoverable, IInv, SegmentsKept
<1>1. /\ prefix \in Int /\ \A t \in hist : t.seq \in Nat
      /\ \A r \in seg : r.cut \in Nat
  BY DEF IInv, TypeOK, Prefixes, NoPrefix, Txn, Row
<1>2. log \subseteq hist /\ \A t \in hist : t \in log \/ t.seq <= prefix
  BY DEF IInv, LogKept
<1>3. \A r \in seg : r.val = {s \in Edits(hist, r.unit) : s <= r.cut}
  BY DEF IInv, RowsAreSnapshots
<1>4. \A t \in hist : t.seq <= prefix =>
        \A w \in t.units : \E r \in seg : r.unit = w /\ t.seq <= r.cut /\ r.cut <= prefix
  BY DEF IInv, SegmentsKept
<1> QED
  BY <1>1, <1>2, <1>3, <1>4, RecoveredIsComplete

(* The World that recovers from the tables satisfies the invariant. *)
LEMMA RestartKeeps ==
  ASSUME IInv, TypeOK', Restart
  PROVE  IInv'
<1> DEFINE first == prefix = NoPrefix
           loaded == [u \in Units |-> Recovered(log, seg, prefix, u)]
           touched == UNION {t.units : t \in Suffix(log, prefix)}
           heads == {IF first THEN 0 ELSE prefix} \cup {t.seq : t \in Suffix(log, prefix)}
           d == IF first THEN {u \in Units : loaded[u] # {}} ELSE touched
<1>1. PICK s \in heads :
        /\ \A h \in heads : h <= s
        /\ seq' = s
        /\ MaybeOpen(first, NoCut, FALSE, s, prefix, loaded, d, <<>>)
  BY DEF Restart
<1>2. /\ ~up /\ up' /\ mem' = loaded /\ published' = prefix
      /\ entries' = {t.seq : t \in Suffix(log, prefix)}
      /\ seg' = (IF first THEN ClearSegments(seg, NoPrefix) ELSE seg)
      /\ globals' = (IF first THEN ClearGlobals(globals, NoPrefix) ELSE globals)
      /\ UNCHANGED <<log, prefix, late, inbox, collecting, run, hist>>
  BY DEF Restart
<1>3. /\ prefix \in Int /\ prefix >= -1 /\ NoPrefix = -1
      /\ \A t \in hist : t.seq \in Nat \ {0} /\ t.units \subseteq Units
      /\ \A r \in seg : r.cut \in Nat
  BY DEF IInv, TypeOK, Prefixes, NoPrefix, Txn, Row
<1>4. /\ log \subseteq hist /\ \A t \in hist : t \in log \/ t.seq <= prefix
      /\ wq = <<>> /\ inbox = <<>> /\ ~run /\ collecting = NoPrefix
  BY <1>2 DEF IInv, LogKept, HeadReached
<1>5. s \in Nat /\ prefix <= s
  BY <1>1, <1>3, <1>4 DEF Suffix
<1>6. \A u \in Units : loaded[u] = Edits(hist, u)
  BY AlwaysRecoverable DEF Recoverable
<1>7. loaded \in Content
  BY <1>2 DEF TypeOK
<1>8. \A t \in Suffix(log, prefix) : t.seq \in heads /\ t.units \subseteq touched
  OBVIOUS
<1>9. s = 0 \/ s = prefix \/ \E t \in hist : s = t.seq
  BY <1>1, <1>4 DEF Suffix
<1>10. first => d = {u \in Units : loaded[u] # {}}
  OBVIOUS
<1>11. ~first => d = touched
  OBVIOUS
<1>12. d \in SUBSET Units
  BY <1>3, <1>4 DEF Suffix
<1> HIDE DEF loaded, touched, heads, d
<1>13. \A t \in hist : t.seq > prefix => t \in Suffix(log, prefix)
  BY <1>3, <1>4 DEF Suffix
<1>14. \A t \in hist : t.seq <= s
  BY <1>1, <1>3, <1>5, <1>8, <1>13
<1>15. \A t \in hist : t.seq > prefix => t.units \subseteq d
  <2> SUFFICES ASSUME NEW t \in hist, t.seq > prefix, NEW u \in t.units PROVE u \in d
    OBVIOUS
  <2>1. CASE first
    <3>1. t.seq \in Edits(hist, u) /\ u \in Units
      BY <1>3 DEF Edits
    <3> QED
      BY <1>6, <1>10, <2>1, <3>1
  <2>2. CASE ~first
    BY <1>8, <1>11, <1>13, <2>2
  <2> QED
    BY <2>1, <2>2
<1>16. LogKept'
  BY <1>2 DEF IInv, LogKept
<1>17. SegmentsKept' /\ RowsAreSnapshots'
  <2>1. CASE first
    <3>1. seg' = {} /\ prefix = -1
      BY <1>2, <1>3, <2>1 DEF ClearSegments
    <3> QED
      BY <1>2, <1>3, <2>1, <3>1 DEF SegmentsKept, RowsAreSnapshots
  <2>2. CASE ~first
    BY <1>2, <2>2, Frames
  <2> QED
    BY <2>1, <2>2
<1>18. HeadReached'
  <2>2. Reached(prefix)
    BY DEF IInv, HeadReached
  <2>1. Reached(seq)' /\ Reached(prefix)'
    BY <1>1, <1>2, <1>3, <1>5, <1>9, <2>2 DEF Reached
  <2> QED
    BY <1>1, <1>2, <1>3, <1>4, <1>5, <1>14, <2>1 DEF HeadReached
<1>19. \A u \in Units : mem'[u] = Edits(hist', u)
  BY <1>2, <1>6
<1>20. MemoryIsCurrent'
  <2>1. \A u \in Units : Live \notin Edits(hist, u)
    BY <1>3 DEF Edits, Live
  <2>2. entries' = {t.seq : t \in {x \in hist : x.seq > prefix}}
    BY <1>2, <1>4, <1>13 DEF Suffix
  <2> QED
    BY <1>2, <1>19, <2>1, <2>2 DEF MemoryIsCurrent, LiveUnits
<1>21. ConfirmedIsDurable' /\ Confirmation'
  <2>1. Len(inbox') = 0
    BY <1>2, <1>4, EmptySeq
  <2> QED
    BY <1>2, <1>3, <2>1 DEF ConfirmedIsDurable, Confirmation
<1>22. NoCut \in Cut
  BY NoCutType
<1>25. MaybeOpen(first, NoCut, FALSE, s, prefix, loaded, d, wq) /\ wq \in Seq(Requests)
  BY <1>1, <1>4, Zenon DEF IInv, TypeOK
<1>23. CASE cut' = NoCut /\ dirty' = d /\ wq' = wq
  <2>1. ~Cutting'
    BY <1>23 DEF Cutting, NoCut
  <2>2. NothingForgotten'
    BY <1>2, <1>15, <1>23, <2>1 DEF NothingForgotten
  <2>3. Len(wq') = 0
    BY <1>4, <1>23, EmptySeq
  <2>4. CutFrozen' /\ WriterQueue' /\ CutWritten'
    BY <1>23, <2>1, <2>3 DEF CutFrozen, WriterQueue, CutWritten
  <2> QED
    BY <1>2, <1>16, <1>17, <1>18, <1>20, <1>21, <2>2, <2>4 DEF IInv
<1>24. CASE /\ s > prefix /\ cut' = NewCut(s, loaded, d)
            /\ Len(wq') = 1 /\ wq'[1] = Send("begin", NewCut(s, loaded, d), {})
  <2>1. \A t \in hist' : t.seq <= seq' /\ (t.seq > published' => t.units \subseteq d)
    BY <1>1, <1>2, <1>14, <1>15
  <2>2. published' < seq'
    BY <1>1, <1>2, <1>3, <1>5, <1>24
  <2>3. /\ cut' = NewCut(seq', mem', d) /\ Len(wq') = 1
        /\ wq'[1] = Send("begin", NewCut(seq', mem', d), {})
    BY <1>1, <1>2, <1>24
  <2>4. NothingForgotten' /\ CutFrozen' /\ WriterQueue' /\ CutWritten'
    BY <1>2, <1>12, <1>19, <2>1, <2>2, <2>3, OpenKeeps
  <2> QED
    BY <1>2, <1>16, <1>17, <1>18, <1>20, <1>21, <2>4 DEF IInv
<1>27. \/ /\ NoCut.attempt = 0 /\ ~FALSE /\ s > prefix /\ cut' = NewCut(s, loaded, d)
          /\ Len(wq') = 1 /\ wq'[1] = Send("begin", NewCut(s, loaded, d), {})
       \/ cut' = NoCut /\ dirty' = d /\ wq' = wq
  <2> DEFINE o == Opens(first, NoCut, FALSE, s, prefix)
  <2>1. CASE o
    <3>1. s > prefix
      BY <2>1 DEF Opens
    <3>2. cut' = NewCut(s, loaded, d) /\ wq' = Append(wq, Send("begin", NewCut(s, loaded, d), {}))
      BY <1>25, <2>1 DEF MaybeOpen
    <3>3. NewCut(s, loaded, d) \in Cut
      BY <1>5, <1>7, <1>12, ParameterAssumption DEF NewCut, Cut
    <3>4. Send("begin", NewCut(s, loaded, d), {}) \in Requests
      BY <3>3, SendType
    <3> QED
      BY <1>4, <1>25, <3>1, <3>2, <3>4, FirstRequest DEF NoCut
  <2>2. CASE ~o
    BY <1>25, <2>2 DEF MaybeOpen
  <2> QED
    BY <2>1, <2>2
<1> QED
  BY <1>23, <1>24, <1>27

-----------------------------------------------------------------------------
(* The invariant is inductive. *)

(* A fresh world, or one with a log from before it had pages. *)
LEMMA InitIInv ==
  ASSUME Init
  PROVE  IInv
<1>1. /\ hist = log /\ seg = {} /\ prefix = NoPrefix /\ late = NoPrefix /\ ~up /\ ~run
      /\ wq = <<>> /\ inbox = <<>> /\ collecting = NoPrefix
  BY DEF Init
<1>2. TypeOK
  BY InitType
<1>3. \A t \in hist : t.seq \in Nat
  BY <1>2 DEF TypeOK, Txn
<1>4. LogKept /\ SegmentsKept /\ RowsAreSnapshots /\ HeadReached
  BY <1>1, <1>3 DEF LogKept, SegmentsKept, RowsAreSnapshots, HeadReached, Reached, NoPrefix
<1>5. /\ MemoryIsCurrent /\ NothingForgotten /\ CutFrozen /\ WriterQueue /\ CutWritten
      /\ ConfirmedIsDurable /\ Confirmation
  BY <1>1 DEF MemoryIsCurrent, NothingForgotten, CutFrozen, WriterQueue, CutWritten,
              ConfirmedIsDurable, Confirmation
<1> QED
  BY <1>1, <1>2, <1>4, <1>5 DEF IInv

(* Every step keeps the invariant. *)
LEMMA NextIInv ==
  ASSUME LateCommit = FALSE, IInv, [Next]_vars
  PROVE  IInv'
<1>1. TypeOK'
  BY TypeStep DEF IInv, LateNext
<1>2. ASSUME UNCHANGED vars PROVE IInv'
  BY <1>1, <1>2, Frames DEF vars, tables, worldVars, schedVars, IInv, HeadReached, Reached
<1>3. ASSUME NEW U \in SUBSET Units, CommitOperation(U) \/ CommitDeathDrop(U) PROVE IInv'
  BY <1>1, <1>3, CommitTxnKeeps DEF CommitOperation, CommitDeathDrop
<1>4. ASSUME NEW U \in SUBSET Units, ThermalTick \/ ThermalStep(U) PROVE IInv'
  BY <1>1, <1>4, ThermalKeeps
<1>5. ASSUME NEW U \in SUBSET Units, ThermalDone(U) \/ DrainThermal(U) PROVE IInv'
  BY <1>1, <1>5, ThermalDoneKeeps, DrainThermalKeeps
<1>6. ASSUME NEW c \in Callers, NEW R \in SUBSET Units, Compact(c, R) PROVE IInv'
  BY <1>1, <1>6, CompactKeeps
<1>7. ASSUME CutTimer PROVE IInv'
  BY <1>1, <1>7, CutTimerKeeps
<1>8. ASSUME Writer PROVE IInv'
  BY <1>1, <1>8, WriterBeginKeeps, WriterBatchKeeps, WriterPublishKeeps, WriterCollectKeeps,
     WriterCollectedKeeps DEF Writer
<1>9. ASSUME Handler PROVE IInv'
  BY <1>1, <1>9, PageBegunKeeps, PageAckKeeps, PagePumpKeeps, PagePublishedKeeps DEF Handler
<1>10. ASSUME NEW U \in SUBSET Units, CrashInAppend(U) PROVE IInv'
  BY <1>1, <1>10, CrashInAppendKeeps
<1>11. ASSUME Crash PROVE IInv'
  BY <1>1, <1>11, CrashKeeps
<1>12. ASSUME Restart PROVE IInv'
  BY <1>1, <1>12, RestartKeeps
<1>13. ThermalTick => IInv'
  <2>1. {} \in SUBSET Units
    OBVIOUS
  <2> QED
    BY <1>4, <2>1
<1> QED
  BY <1>2, <1>3, <1>4, <1>5, <1>6, <1>7, <1>8, <1>9, <1>10, <1>11, <1>12, <1>13 DEF Next

-----------------------------------------------------------------------------
(* Theorems. *)

(* The state of the World, its writer and the tables is always well typed.  *)
THEOREM TypeCorrect == Spec => []TypeOK
<1>1. Init => TypeOK
  BY InitType
<1>2. TypeOK /\ [Next]_vars => TypeOK'
  BY TypeStep DEF LateNext
<1> QED
  BY <1>1, <1>2, PTL DEF Spec

(* The inductive invariant holds when a dead writer commits nothing later.  *)
THEOREM Invariance == ASSUME LateCommit = FALSE PROVE Spec => []IInv
<1>1. Init => IInv
  BY InitIInv
<1>2. IInv /\ [Next]_vars => IInv'
  BY NextIInv
<1> QED
  BY <1>1, <1>2, PTL DEF Spec

(* No interleaving of commits, cuts, batches, publishing, collection and    *)
(* crashes loses or doubles an edit for the next restart.                  *)
THEOREM Durability == ASSUME LateCommit = FALSE PROVE Spec => []Recoverable
<1>1. IInv => Recoverable
  BY AlwaysRecoverable
<1> QED
  BY <1>1, Invariance, PTL

(* Every row, published or half written, is a snapshot of its cut.         *)
THEOREM Snapshots == ASSUME LateCommit = FALSE PROVE Spec => []RowsAreSnapshots
<1>1. IInv => RowsAreSnapshots
  BY DEF IInv
<1> QED
  BY <1>1, Invariance, PTL

(* No edit falls between two cuts: it is in the one under way or dirty.     *)
THEOREM NoneForgotten == ASSUME LateCommit = FALSE PROVE Spec => []NothingForgotten
<1>1. IInv => NothingForgotten
  BY DEF IInv
<1> QED
  BY <1>1, Invariance, PTL

(* The memory of the World, and the entries it retains, are current.        *)
THEOREM MemoryCurrent == ASSUME LateCommit = FALSE PROVE Spec => []MemoryIsCurrent
<1>1. IInv => MemoryIsCurrent
  BY DEF IInv
<1> QED
  BY <1>1, Invariance, PTL

(* What the World has confirmed is durable.                                *)
THEOREM ConfirmedDurable == ASSUME LateCommit = FALSE PROVE Spec => []ConfirmedIsDurable
<1>1. IInv => ConfirmedIsDurable
  BY DEF IInv
<1> QED
  BY <1>1, Invariance, PTL

(* Rows, marks, memory and confirmation together: what a restart finds, what *)
(* the next cut takes and what the callers were told agree.                  *)
THEOREM StateIsKept == ASSUME LateCommit = FALSE PROVE Spec => []StateKept
<1>1. IInv => StateKept
  BY DEF IInv, StateKept
<1> QED
  BY <1>1, Invariance, PTL

(* compact answers a caller only when its transactions are durable.         *)
LEMMA CompactStep ==
  ASSUME IInv, TypeOK', [Next]_vars, NEW c \in Callers,
         waiters[c] # NoPrefix, waiters'[c] = NoPrefix, up'
  PROVE  waiters[c] <= prefix
<1> USE DEF tables, worldVars, schedVars
<1>1. CASE UNCHANGED waiters
  BY <1>1
<1>2. ASSUME NEW k \in Callers, NEW R \in SUBSET Units, Compact(k, R) PROVE waiters[c] <= prefix
  <2>1. waiters' = waiters \/ waiters' = [waiters EXCEPT ![k] = seq]
    BY <1>2 DEF Compact
  <2>2. waiters \in [Callers -> Prefixes] /\ waiters[k] = NoPrefix
    BY <1>2 DEF Compact, IInv, TypeOK
  <2> QED
    BY <2>1, <2>2
<1>3. ASSUME PagePublished PROVE waiters[c] <= prefix
  <2>1. CASE ~Current
    BY <1>1, <1>3, <2>1 DEF PagePublished
  <2>2. CASE Current
    <3> DEFINE p == Head(inbox).seq
    <3>1. p <= prefix /\ p \in Nat
      BY <1>3, ReceivedFacts DEF PagePublished, Receive, Replies
    <3>2. PICK R \in SUBSET Units : Confirm(p, R)
      BY <1>3, <2>2 DEF PagePublished
    <3>3. waiters' = StillWaiting(p)
      BY <3>2 DEF Confirm
    <3>4. waiters[c] <= p
      BY <3>3 DEF StillWaiting, CoveredWaiters
    <3>5. waiters[c] \in Int /\ prefix \in Int
      BY DEF IInv, TypeOK, Prefixes, NoPrefix
    <3> QED
      BY <3>1, <3>4, <3>5
  <2> QED
    BY <2>1, <2>2
<1>4. ASSUME Lost PROVE FALSE
  BY <1>4 DEF Lost
<1>5. ASSUME Writer PROVE UNCHANGED waiters
  BY <1>5 DEF Writer, WriterBegin, WriterBatch, WriterPublish, WriterCollect, WriterCollected
<1>6. ASSUME PageBegun \/ PageAck \/ PagePump PROVE UNCHANGED waiters
  BY <1>6 DEF PageBegun, PageAck, PagePump, HandlerFrame
<1>7. ASSUME NEW U \in SUBSET Units,
             \/ CommitOperation(U) \/ CommitDeathDrop(U) \/ ThermalStep(U) \/ ThermalDone(U)
             \/ DrainThermal(U) \/ ThermalTick \/ CutTimer \/ Restart
             \/ UNCHANGED vars
      PROVE  UNCHANGED waiters
  BY <1>7 DEF CommitOperation, CommitDeathDrop, CommitTxn, ThermalStep, ThermalDone,
              DrainThermal, CommitThermal, ThermalTick, CutTimer, Restart, vars
<1>8. ASSUME NEW U \in SUBSET Units, CrashInAppend(U) PROVE FALSE
  BY <1>4, <1>8 DEF CrashInAppend
<1>9. ASSUME Crash PROVE FALSE
  BY <1>4, <1>9 DEF Crash
<1>10. {} \in SUBSET Units
  OBVIOUS
<1> QED
  BY <1>1, <1>2, <1>3, <1>5, <1>6, <1>7, <1>8, <1>9, <1>10 DEF Next, Handler

(* A caller of compact that is answered has everything up to its call safe. *)
THEOREM CompactDurable == ASSUME LateCommit = FALSE PROVE Spec => CompactIsDurable
<1>1. IInv /\ TypeOK' /\ [Next]_vars =>
        [\A c \in Callers :
           (waiters[c] # NoPrefix /\ waiters'[c] = NoPrefix /\ up') => waiters[c] <= prefix]_vars
  BY CompactStep
<1> QED
  BY <1>1, Invariance, TypeCorrect, PTL DEF Spec, CompactIsDurable

-----------------------------------------------------------------------------
(* The published prefix, late COMMITs included. *)

(* A publish under way is above the prefix: no other one passes it.         *)
LateAbove == late # NoPrefix => prefix < late

(* Every step keeps the publish under way above the prefix. *)
LEMMA PrefixStep ==
  ASSUME TypeOK, LateAbove, [LateNext]_vars
  PROVE  LateAbove' /\ prefix <= prefix'
<1> USE DEF tables, worldVars, schedVars, LateAbove
<1>1. prefix \in Int /\ late \in Int
  BY DEF TypeOK, Prefixes, NoPrefix
<1>2. CASE UNCHANGED <<prefix, late>>
  BY <1>1, <1>2
<1>3. ASSUME WriterPublish PROVE LateAbove' /\ prefix <= prefix'
  <2>1. late = NoPrefix /\ late' = late
    BY <1>3 DEF WriterPublish, PrefixFree
  <2>2. prefix' = prefix \/ (~(prefix >= Head(wq).seq) /\ prefix' = Head(wq).seq)
    BY <1>3 DEF WriterPublish, Covered
  <2>3. Head(wq).seq \in Nat
    <3>1. wq # <<>> /\ wq \in Seq(Requests)
      BY <1>3 DEF WriterPublish, WriterTakes, TypeOK
    <3>2. Head(wq) \in Requests
      BY <3>1, QueueFacts
    <3> QED
      BY <3>2 DEF Requests
  <2> QED
    BY <1>1, <2>1, <2>2, <2>3
<1>4. ASSUME LatePublish PROVE LateAbove' /\ prefix <= prefix'
  BY <1>1, <1>4 DEF LatePublish
<1>5. ASSUME Crash PROVE LateAbove' /\ prefix <= prefix'
  <2>1. prefix' = prefix /\ late' \in {late} \cup Committing
    BY <1>5 DEF Crash
  <2>2. \A s \in Committing : prefix < s
    BY DEF Committing
  <2> QED
    BY <1>1, <2>1, <2>2
<1>6. ASSUME WriterBegin \/ WriterBatch \/ WriterCollect \/ WriterCollected
      PROVE  UNCHANGED <<prefix, late>>
  BY <1>6 DEF WriterBegin, WriterBatch, WriterCollect, WriterCollected
<1>7. ASSUME Handler PROVE UNCHANGED <<prefix, late>>
  BY <1>7 DEF Handler, PageBegun, PageAck, PagePump, PagePublished, HandlerFrame
<1>8. ASSUME NEW U \in SUBSET Units,
             \/ CommitOperation(U) \/ CommitDeathDrop(U) \/ ThermalStep(U) \/ ThermalDone(U)
             \/ DrainThermal(U) \/ CrashInAppend(U) \/ ThermalTick \/ CutTimer \/ Restart
             \/ UNCHANGED vars
      PROVE  UNCHANGED <<prefix, late>>
  BY <1>8 DEF CommitOperation, CommitDeathDrop, CommitTxn, ThermalStep, ThermalDone,
              DrainThermal, CommitThermal, CrashInAppend, ThermalTick, CutTimer, Restart, vars
<1>9. ASSUME NEW c \in Callers, NEW R \in SUBSET Units, Compact(c, R)
      PROVE  UNCHANGED <<prefix, late>>
  BY <1>9 DEF Compact
<1>10. {} \in SUBSET Units
  OBVIOUS
<1> QED
  BY <1>2, <1>3, <1>4, <1>5, <1>6, <1>7, <1>8, <1>9, <1>10 DEF LateNext, Next, Writer

(* The published prefix never falls, whatever a dead writer still commits.  *)
THEOREM PrefixNeverFalls == LateSpec => PrefixRises
<1>1. Init => TypeOK /\ LateAbove
  BY InitType DEF Init, LateAbove
<1>2. TypeOK /\ LateAbove /\ [LateNext]_vars
        => TypeOK' /\ LateAbove' /\ [prefix' >= prefix]_vars
  <2> SUFFICES ASSUME TypeOK, LateAbove, [LateNext]_vars
               PROVE  TypeOK' /\ LateAbove' /\ prefix' >= prefix
    OBVIOUS
  <2>1. TypeOK' /\ LateAbove' /\ prefix <= prefix'
    BY PrefixStep, TypeStep
  <2>2. prefix \in Int /\ prefix' \in Int
    BY <2>1 DEF TypeOK, Prefixes, NoPrefix
  <2> QED
    BY <2>1, <2>2
<1> QED
  BY <1>1, <1>2, PTL DEF LateSpec, PrefixRises

-----------------------------------------------------------------------------
(* The write-back implements the ledger. *)

(* The last number of a bounded set of transactions. *)
LEMMA HeadOfMax ==
  ASSUME NEW T \in SUBSET Txn, NEW b \in Nat, \A t \in T : t.seq <= b
  PROVE  /\ HeadOf(T) \in {t.seq : t \in T} \cup {0}
         /\ HeadOf(T) \in Nat /\ \A t \in T : t.seq <= HeadOf(T)
<1> DEFINE S == {t.seq : t \in T} \cup {0}
<1>1. S \in SUBSET Nat /\ S # {} /\ \A x \in S : x <= b
  BY DEF Txn
<1>2. \A t \in T : t.seq \in S
  OBVIOUS
<1> HIDE DEF S
<1>3. PICK m \in S : \A x \in S : x <= m
  BY <1>1, BoundedMax
<1>4. \E s \in S : \A t \in T : t.seq <= s
  BY <1>2, <1>3
<1>5. HeadOf(T) \in S /\ \A t \in T : t.seq <= HeadOf(T)
  BY <1>4 DEF HeadOf, S
<1> QED
  BY <1>1, <1>5 DEF S

(* The head of the history is the number the World is at.                   *)
LEMMA HeadIsSeq ==
  ASSUME IInv, up
  PROVE  HeadOf(hist) = seq
<1>1. hist \in SUBSET Txn /\ seq \in Nat /\ \A t \in hist : t.seq <= seq
  BY DEF IInv, TypeOK, HeadReached
<1>2. /\ HeadOf(hist) \in {t.seq : t \in hist} \cup {0}
      /\ HeadOf(hist) \in Nat /\ \A t \in hist : t.seq <= HeadOf(hist)
  BY <1>1, HeadOfMax
<1>3. HeadOf(hist) <= seq
  BY <1>1, <1>2
<1>4. seq <= HeadOf(hist)
  <2>1. Reached(seq) /\ \A t \in hist : t.seq \in Nat
    BY <1>1 DEF IInv, HeadReached, Txn
  <2> QED
    BY <1>1, <1>2, <2>1 DEF Reached
<1> QED
  BY <1>1, <1>2, <1>3, <1>4

(* The three things a step can do to the ledger. *)
LEMMA LedgerCases ==
  ASSUME IInv, TypeOK', [Next]_vars
  PROVE  \/ UNCHANGED <<hist, prefix>>
         \/ up /\ (\E U \in SUBSET Units : AppendLog(U)) /\ prefix' = prefix
         \/ up /\ hist' = hist /\ prefix < prefix' /\ prefix' <= seq
<1> USE DEF tables, worldVars, schedVars
<1>1. ASSUME NEW U \in SUBSET Units,
             \/ CommitOperation(U) \/ CommitDeathDrop(U) \/ ThermalDone(U) \/ DrainThermal(U)
             \/ CrashInAppend(U)
      PROVE  up /\ AppendLog(U) /\ prefix' = prefix
  BY <1>1 DEF CommitOperation, CommitDeathDrop, CommitTxn, ThermalDone, DrainThermal,
              CommitThermal, CrashInAppend
<1>2. ASSUME WriterPublish
      PROVE  \/ UNCHANGED <<hist, prefix>>
             \/ up /\ hist' = hist /\ prefix < prefix' /\ prefix' <= seq
  <2>1. up /\ wq # <<>> /\ hist' = hist
    BY <1>2 DEF WriterPublish, WriterTakes
  <2>2. prefix < cut.seq /\ Head(wq).seq = cut.seq /\ cut.seq <= seq
    BY <2>1, HeadRequest DEF IInv, CutFrozen
  <2> QED
    BY <1>2, <2>1, <2>2 DEF WriterPublish
<1>3. ASSUME WriterBegin \/ WriterBatch \/ WriterCollect \/ WriterCollected
      PROVE  UNCHANGED <<hist, prefix>>
  BY <1>3 DEF WriterBegin, WriterBatch, WriterCollect, WriterCollected
<1>4. ASSUME Handler PROVE UNCHANGED <<hist, prefix>>
  BY <1>4 DEF Handler, PageBegun, PageAck, PagePump, PagePublished, HandlerFrame
<1>5. ASSUME NEW U \in SUBSET Units,
             ThermalStep(U) \/ ThermalTick \/ CutTimer \/ Crash \/ Restart \/ UNCHANGED vars
      PROVE  UNCHANGED <<hist, prefix>>
  BY <1>5 DEF ThermalStep, ThermalTick, CutTimer, Crash, Restart, vars
<1>6. ASSUME NEW c \in Callers, NEW R \in SUBSET Units, Compact(c, R)
      PROVE  UNCHANGED <<hist, prefix>>
  BY <1>6 DEF Compact
<1>7. {} \in SUBSET Units
  OBVIOUS
<1> QED
  BY <1>1, <1>2, <1>3, <1>4, <1>5, <1>6, <1>7 DEF Next, Writer

(* Every step is a step of the ledger, or changes nothing it sees. *)
LEMMA LedgerStep ==
  ASSUME IInv, TypeOK', Recoverable, Recoverable', [Next]_vars
  PROVE  [Ledger!LedgerNext]_(Ledger!ledgerVars)
<1> DEFINE R == [u \in Units |-> Recovered(log, seg, prefix, u)]
<1>1. R = [u \in Units |-> Edits(hist, u)] /\ R' = [u \in Units |-> Edits(hist', u)]
  BY DEF Recoverable
<1>2. CASE UNCHANGED <<hist, prefix>>
  <2>1. HeadOf(hist)' = HeadOf(hist) /\ R' = R
    BY <1>1, <1>2 DEF HeadOf
  <2> QED
    BY <1>2, <2>1 DEF Ledger!ledgerVars
<1>3. ASSUME up, NEW U \in SUBSET Units, AppendLog(U), prefix' = prefix
      PROVE  Ledger!AppendTxn(U)
  <2>1. HeadOf(hist) = seq /\ seq \in Nat
    BY <1>3, HeadIsSeq DEF IInv, TypeOK
  <2>2. hist' = hist \cup {NextTxn(U)} /\ NextTxn(U).seq = seq + 1
        /\ \A t \in hist : t.seq <= seq
    BY <1>3 DEF AppendLog, NextTxn, IInv, HeadReached
  <2>3. hist' \in SUBSET Txn /\ \A t \in hist' : t.seq <= seq + 1
    <3>1. \A t \in hist : t.seq \in Nat
      BY DEF IInv, TypeOK, Txn
    <3> QED
      BY <2>1, <2>2, <3>1 DEF TypeOK
  <2>4. HeadOf(hist') = seq + 1
    <3>1. /\ HeadOf(hist') \in {t.seq : t \in hist'} \cup {0}
          /\ HeadOf(hist') \in Nat /\ \A t \in hist' : t.seq <= HeadOf(hist')
      <4>1. \A T \in SUBSET Txn, b \in Nat : (\A t \in T : t.seq <= b) =>
              /\ HeadOf(T) \in {t.seq : t \in T} \cup {0}
              /\ HeadOf(T) \in Nat /\ \A t \in T : t.seq <= HeadOf(T)
        BY HeadOfMax
      <4>2. seq + 1 \in Nat
        BY <2>1
      <4> QED
        BY <2>3, <4>1, <4>2, Zenon
    <3>2. NextTxn(U) \in hist'
      BY <2>2
    <3>3. seq + 1 <= HeadOf(hist')
      BY <2>2, <3>1, <3>2
    <3>4. HeadOf(hist') <= seq + 1
      <4> DEFINE h == HeadOf(hist')
      <4>1. h \in {t.seq : t \in hist'} \/ h = 0
        BY <3>1
      <4> HIDE DEF h
      <4>2. h <= seq + 1
        BY <2>1, <2>3, <4>1
      <4> QED
        BY <4>2 DEF h
    <3> QED
      BY <2>1, <3>1, <3>3, <3>4
  <2>5. \A u \in Units : Edits(hist', u) =
          IF u \in U THEN Edits(hist, u) \cup {seq + 1} ELSE Edits(hist, u)
    BY <1>3, EditsOfAppend
  <2>6. R' = [u \in Units |-> IF u \in U THEN R[u] \cup {seq + 1} ELSE R[u]]
    BY <1>1, <2>5
  <2> HIDE DEF R
  <2> QED
    BY <1>3, <2>1, <2>4, <2>6 DEF Ledger!AppendTxn, R
<1>4. ASSUME up, hist' = hist, prefix < prefix', prefix' <= seq
      PROVE  Ledger!PublishCut
  <2>1. HeadOf(hist) = seq /\ HeadOf(hist)' = HeadOf(hist)
    BY <1>4, HeadIsSeq DEF HeadOf
  <2>2. R' = R
    BY <1>1, <1>4
  <2> QED
    BY <1>4, <2>1, <2>2 DEF Ledger!PublishCut
<1> QED
  BY <1>2, <1>3, <1>4, LedgerCases DEF Ledger!LedgerNext

(* The initial tables are an initial ledger. *)
LEMMA LedgerStart ==
  ASSUME Init, IInv, Recoverable
  PROVE  Ledger!LedgerInit
<1>1. hist \in SUBSET Txn /\ MaxSeq \in Nat /\ \A t \in hist : t.seq <= MaxSeq
  BY ParameterAssumption DEF Init
<1>2. HeadOf(hist) \in Nat /\ \A t \in hist : t.seq <= HeadOf(hist)
  BY <1>1, HeadOfMax
<1>3. ASSUME NEW u \in Units
      PROVE  Recovered(log, seg, prefix, u) \in SUBSET (1..HeadOf(hist))
  <2>1. Recovered(log, seg, prefix, u) = Edits(hist, u)
    BY DEF Recoverable
  <2>2. \A t \in hist : t.seq \in 1..HeadOf(hist)
    BY <1>1, <1>2 DEF Txn
  <2> QED
    BY <2>1, <2>2 DEF Edits
<1>4. prefix = -1
  BY DEF Init, NoPrefix
<1> QED
  BY <1>2, <1>3, <1>4 DEF Ledger!LedgerInit

(* Tables, writer, crashes and recovery together implement the ledger.      *)
THEOREM ImplementsLedger == ASSUME LateCommit = FALSE PROVE Spec => LedgerSpec
<1>1. Init /\ IInv /\ Recoverable => Ledger!LedgerInit
  BY LedgerStart
<1>2. IInv /\ TypeOK' /\ Recoverable /\ Recoverable' /\ [Next]_vars
        => [Ledger!LedgerNext]_(Ledger!ledgerVars)
  BY LedgerStep
<1> QED
  BY <1>1, <1>2, Invariance, TypeCorrect, Durability, PTL DEF Spec, LedgerSpec, Ledger!LedgerSpec

-----------------------------------------------------------------------------
(* Messages between the World and its writer. *)

(* A message of the same kind leaves a queue of that kind. *)
LEMMA OnlyAppend ==
  ASSUME NEW S, NEW q \in Seq(S), NEW e \in S, NEW T, OnlyOf(q, T), e.type \in T
  PROVE  OnlyOf(Append(q, e), T) /\ Len(Append(q, e)) = Len(q) + 1 /\ Len(q) \in Nat
<1>1. /\ Len(Append(q, e)) = Len(q) + 1 /\ Len(q) \in Nat
      /\ \A i \in 1..Len(q) : Append(q, e)[i] = q[i]
      /\ Append(q, e)[Len(q) + 1] = e
  BY AppendFacts
<1>2. ASSUME NEW i \in 1..Len(Append(q, e)) PROVE Append(q, e)[i].type \in T
  <2>1. i \in 1..Len(q) \/ i = Len(q) + 1
    BY <1>1
  <2> QED
    BY <1>1, <2>1 DEF OnlyOf
<1> QED
  BY <1>1, <1>2 DEF OnlyOf

(* The same of a message that is taken. *)
LEMMA OnlyTail ==
  ASSUME NEW S, NEW q \in Seq(S), q # <<>>, NEW T, OnlyOf(q, T)
  PROVE  /\ OnlyOf(Tail(q), T) /\ Head(q).type \in T /\ Head(q) \in S
         /\ Tail(q) \in Seq(S) /\ Len(Tail(q)) = Len(q) - 1 /\ Len(q) \in Nat \ {0}
<1>1. /\ Len(q) \in Nat \ {0} /\ Head(q) = q[1] /\ Head(q) \in S
      /\ Tail(q) \in Seq(S) /\ Len(Tail(q)) = Len(q) - 1
      /\ \A i \in 1..Len(Tail(q)) : Tail(q)[i] = q[i + 1]
  BY QueueFacts
<1>2. ASSUME NEW i \in 1..Len(Tail(q)) PROVE Tail(q)[i].type \in T
  <2>1. i + 1 \in 1..Len(q)
    BY <1>1
  <2> QED
    BY <1>1, <2>1 DEF OnlyOf
<1>3. 1 \in 1..Len(q)
  BY <1>1
<1> QED
  BY <1>1, <1>2, <1>3 DEF OnlyOf

(* A queue without messages. *)
LEMMA NoMessages ==
  ASSUME NEW S, NEW q \in Seq(S)
  PROVE  /\ Len(q) \in Nat /\ (q = <<>> <=> Len(q) = 0)
         /\ Len(q) = 0 => \A T : OnlyOf(q, T)
<1>1. Len(q) \in Nat /\ (q = <<>> <=> Len(q) = 0)
  BY EmptySeq, LenProperties
<1>2. Len(q) = 0 => \A T : OnlyOf(q, T)
  BY DEF OnlyOf
<1> QED
  BY <1>1, <1>2

(* How many messages of a type a queue of one type holds. *)
LEMMA CountOnly ==
  ASSUME NEW S, NEW q \in Seq(S), NEW t, NEW T, OnlyOf(q, T)
  PROVE  LET n == Cardinality({i \in 1..Len(q) : q[i].type = t}) IN
         /\ T = {t} => n = Len(q)
         /\ t \notin T => n = 0
<1>1. Len(q) \in Nat
  BY LenProperties
<1>2. CASE T = {t}
  <2>1. {i \in 1..Len(q) : q[i].type = t} = 1..Len(q)
    BY <1>2 DEF OnlyOf
  <2>2. Cardinality(1..Len(q)) = Len(q)
    <3> DEFINE n == Len(q)
    <3>1. n \in Int /\ n >= 0 /\ 1 \in Int
      BY <1>1
    <3> HIDE DEF n
    <3>2. Cardinality(1..n) = IF 1 > n THEN 0 ELSE n - 1 + 1
      BY <3>1, FS_Interval
    <3>3. Cardinality(1..n) = n
      BY <3>1, <3>2
    <3> QED
      BY <3>3 DEF n
  <2> QED
    BY <1>2, <2>1, <2>2
<1>3. CASE t \notin T
  <2>1. {i \in 1..Len(q) : q[i].type = t} = {}
    BY <1>3 DEF OnlyOf
  <2> QED
    BY <1>3, <2>1, FS_EmptySet
<1> QED
  BY <1>2, <1>3

(* Every stage accounts for the credits. *)
LEMMA PipelineFlows == TypeOK /\ Pipeline => FlowControl
<1> SUFFICES ASSUME TypeOK, Pipeline PROVE FlowControl
  OBVIOUS
<1> DEFINE B == Cardinality({i \in 1..Len(wq) : wq[i].type = "batch"})
           A == Cardinality({i \in 1..Len(inbox) : inbox[i].type = "ack"})
<1>1. /\ wq \in Seq(Requests) /\ inbox \in Seq(Replies) /\ cut.credits \in Nat
      /\ Len(wq) \in Nat /\ Len(inbox) \in Nat /\ Window \in Nat
  BY LenProperties, ParameterAssumption DEF TypeOK, Cut
<1>2. \A T : /\ OnlyOf(wq, T) /\ T = {"batch"} => B = Len(wq)
             /\ OnlyOf(wq, T) /\ "batch" \notin T => B = 0
             /\ OnlyOf(inbox, T) /\ T = {"ack"} => A = Len(inbox)
             /\ OnlyOf(inbox, T) /\ "ack" \notin T => A = 0
  <2> TAKE T
  <2>1. OnlyOf(wq, T) => (T = {"batch"} => B = Len(wq)) /\ ("batch" \notin T => B = 0)
    BY <1>1, CountOnly
  <2>2. OnlyOf(inbox, T) => (T = {"ack"} => A = Len(inbox)) /\ ("ack" \notin T => A = 0)
    BY <1>1, CountOnly
  <2> QED
    BY <2>1, <2>2
<1> HIDE DEF A, B
<1>3. ASSUME Sending PROVE cut.credits + (B + A) = Window
  <2>1. B = Len(wq) /\ A = Len(inbox)
    BY <1>2, <1>3 DEF Sending
  <2> QED
    BY <1>1, <1>3, <2>1 DEF Sending, Waiting
<1>4. ASSUME Beginning PROVE cut.credits + (B + A) = Window
  <2>1. "batch" \notin {"begin"} /\ "ack" \notin {"begun"}
    OBVIOUS
  <2>2. B = 0 /\ A = 0
    BY <1>2, <1>4, <2>1 DEF Beginning
  <2> QED
    BY <1>1, <1>4, <2>2 DEF Beginning
<1>5. ASSUME Publishing PROVE cut.credits + (B + A) = Window
  <2>1. "batch" \notin {"publish"} /\ "ack" \notin {"published"}
    OBVIOUS
  <2>2. B = 0 /\ A = 0
    BY <1>2, <1>5, <2>1 DEF Publishing
  <2> QED
    BY <1>1, <1>5, <2>2 DEF Publishing
<1>6. ASSUME ~Cutting PROVE cut.credits + (B + A) = Window
  <2>1. Len(wq) = 0 /\ Len(inbox) = 0 /\ cut.credits = Window
    BY <1>1, <1>6, NoMessages DEF Pipeline
  <2>2. OnlyOf(wq, {}) /\ OnlyOf(inbox, {})
    BY <1>1, <2>1, NoMessages
  <2>3. B = 0 /\ A = 0
    BY <1>2, <2>2
  <2> QED
    BY <1>1, <2>1, <2>3
<1>7. cut.credits + (B + A) = Window
  BY <1>3, <1>4, <1>5, <1>6 DEF Pipeline
<1> QED
  BY <1>7 DEF FlowControl, Unacknowledged, A, B

(* What does not concern the cut leaves its stage. *)
LEMMA PipelineFrame ==
  ASSUME Pipeline, UNCHANGED <<up, cut, wq, inbox>>
  PROVE  Pipeline'
BY DEF Pipeline, Cutting, Beginning, Sending, Publishing, Waiting, OnlyOf

(* A cut that opens is in its first stage. *)
LEMMA OpenPipes ==
  ASSUME up', NEW c \in Cut, NEW q \in Seq(Requests), c.attempt = 0 => q = <<>> /\ inbox' = <<>>,
         NEW wants, NEW r, NEW s \in Nat, NEW p, NEW m \in Content, NEW d \in SUBSET Units,
         MaybeOpen(wants, c, r, s, p, m, d, q)
  PROVE  Pipeline' \/ (cut' = c /\ wq' = q)
<1>1. \/ /\ c.attempt = 0 /\ cut' = NewCut(s, m, d)
         /\ Len(wq') = 1 /\ wq'[1] = Send("begin", NewCut(s, m, d), {})
      \/ cut' = c /\ wq' = q
  BY MaybeOpenCases
<1>2. CASE /\ c.attempt = 0 /\ cut' = NewCut(s, m, d)
           /\ Len(wq') = 1 /\ wq'[1] = Send("begin", NewCut(s, m, d), {})
  <2>1. /\ cut'.attempt = s + 1 /\ ~cut'.begun /\ ~cut'.publishing /\ cut'.credits = Window
        /\ wq'[1].type = "begin" /\ cut'.attempt # 0
    BY <1>2 DEF NewCut, Send
  <2>2. Len(inbox') = 0
    BY <1>2
  <2>3. OnlyOf(wq', {"begin"}) /\ OnlyOf(inbox', {"begun"})
    BY <1>2, <2>1, <2>2 DEF OnlyOf
  <2>4. Beginning'
    BY <1>2, <2>1, <2>2, <2>3 DEF Beginning, Waiting, OnlyOf
  <2> QED
    BY <2>1, <2>2, <2>4 DEF Pipeline, Cutting
<1> QED
  BY <1>1, <1>2

(* A wanted cut opens only while there is none. *)
LEMMA WantedPipes ==
  ASSUME TypeOK, Pipeline, up, up', inbox' = inbox,
         NEW wants, NEW r, NEW s \in Nat, NEW p, NEW m \in Content, NEW d \in SUBSET Units,
         MaybeOpen(wants, cut, r, s, p, m, d, wq)
  PROVE  Pipeline'
<1>1. cut \in Cut /\ wq \in Seq(Requests) /\ (cut.attempt = 0 => wq = <<>> /\ inbox' = <<>>)
  BY DEF TypeOK, Pipeline, Cutting
<1>2. Pipeline' \/ (cut' = cut /\ wq' = wq)
  BY <1>1, OpenPipes
<1> QED
  BY <1>2, PipelineFrame

(* Without a cut, none opens without its begin. *)
LEMMA FirstPipes ==
  ASSUME up', inbox' = <<>>,
         NEW wants, NEW r, NEW s \in Nat, NEW p, NEW m \in Content, NEW d \in SUBSET Units,
         MaybeOpen(wants, NoCut, r, s, p, m, d, <<>>)
  PROVE  Pipeline'
<1>1. NoCut \in Cut /\ NoCut.attempt = 0 /\ NoCut.credits = Window /\ <<>> \in Seq(Requests)
  BY NoCutType DEF NoCut
<1>2. Pipeline' \/ (cut' = NoCut /\ wq' = <<>>)
  BY <1>1, OpenPipes
<1>3. CASE cut' = NoCut /\ wq' = <<>>
  BY <1>1, <1>3 DEF Pipeline, Cutting
<1> QED
  BY <1>2, <1>3

(* The answer of the writer stands for the request it took. *)
LEMMA AnswerPipes ==
  ASSUME IInv, Pipeline, up, up', wq # <<>>, wq' = Tail(wq), cut' = cut,
         NEW t \in {"begun", "ack", "published"}, Reply(t),
         \/ Head(wq).type = "begin" /\ t = "begun"
         \/ Head(wq).type = "batch" /\ t = "ack"
         \/ Head(wq).type = "publish" /\ t = "published"
  PROVE  Pipeline'
<1> DEFINE e == [type |-> t, attempt |-> Head(wq).attempt, seq |-> Head(wq).seq]
<1>1. wq \in Seq(Requests) /\ inbox \in Seq(Replies) /\ cut.credits \in Nat /\ Window \in Nat
  BY ParameterAssumption DEF IInv, TypeOK, Cut
<1>2. Cutting /\ Head(wq).attempt = cut.attempt /\ e \in Replies
  BY HeadRequest DEF Requests, Replies
<1>3. inbox' = Append(inbox, e) /\ e.type = t /\ e.attempt = cut.attempt
  BY <1>2 DEF Reply
<1> HIDE DEF e
<1>4. /\ Len(inbox') = Len(inbox) + 1 /\ Len(inbox) \in Nat
      /\ Len(wq') = Len(wq) - 1 /\ Len(wq) \in Nat \ {0}
  BY <1>1, <1>2, <1>3, AppendFacts, QueueFacts
<1>5. Waiting' = Waiting
  BY <1>4 DEF Waiting
<1>6. \A i \in 1..Len(inbox') : inbox'[i].attempt = cut'.attempt
  <2>1. \A i \in 1..Len(inbox) : inbox'[i] = inbox[i] /\ inbox[i].attempt = cut.attempt
    BY <1>1, <1>2, <1>3, AppendFacts DEF Pipeline
  <2>2. inbox'[Len(inbox) + 1] = e
    BY <1>1, <1>2, <1>3, AppendFacts
  <2>3. \A i \in 1..Len(inbox') : i \in 1..Len(inbox) \/ i = Len(inbox) + 1
    BY <1>4
  <2> QED
    BY <1>3, <2>1, <2>2, <2>3
<1>7. \A T : OnlyOf(wq, T) => OnlyOf(wq', T) /\ Head(wq).type \in T
  BY <1>1, OnlyTail
<1>8. \A T : OnlyOf(inbox, T) /\ t \in T => OnlyOf(inbox', T)
  BY <1>1, <1>2, <1>3, OnlyAppend
<1>9. Beginning => Beginning'
  <2> SUFFICES ASSUME Beginning PROVE Beginning'
    OBVIOUS
  <2>1. OnlyOf(wq, {"begin"}) /\ OnlyOf(inbox, {"begun"})
    BY DEF Beginning
  <2>2. OnlyOf(wq', {"begin"}) /\ OnlyOf(inbox', {"begun"})
    BY <1>7, <1>8, <2>1
  <2> QED
    BY <1>5, <2>2 DEF Beginning, OnlyOf
<1>10. Sending => Sending'
  <2> SUFFICES ASSUME Sending PROVE Sending'
    OBVIOUS
  <2>1. OnlyOf(wq, {"batch"}) /\ OnlyOf(inbox, {"ack"})
    BY DEF Sending
  <2>2. OnlyOf(wq', {"batch"}) /\ OnlyOf(inbox', {"ack"})
    BY <1>7, <1>8, <2>1
  <2> QED
    BY <1>5, <2>2 DEF Sending, OnlyOf
<1>11. Publishing => Publishing'
  <2> SUFFICES ASSUME Publishing PROVE Publishing'
    OBVIOUS
  <2>1. OnlyOf(wq, {"publish"}) /\ OnlyOf(inbox, {"published"})
    BY DEF Publishing
  <2>2. OnlyOf(wq', {"publish"}) /\ OnlyOf(inbox', {"published"})
    BY <1>7, <1>8, <2>1
  <2> QED
    BY <1>5, <2>2 DEF Publishing, OnlyOf
<1> QED
  BY <1>2, <1>6, <1>9, <1>10, <1>11 DEF Pipeline, Cutting

(* Every step of the writer passes the stage on. *)
LEMMA WriterPipes ==
  ASSUME IInv, Pipeline, Writer
  PROVE  Pipeline'
<1>1. ASSUME WriterBegin PROVE Pipeline'
  <2>1. /\ up /\ up' = up /\ wq # <<>> /\ wq' = Tail(wq) /\ cut' = cut
        /\ Head(wq).type = "begin"
    BY <1>1 DEF WriterBegin, WriterTakes
  <2>2. ~Covered(Head(wq).seq)
    BY <2>1, HeadRequest DEF Covered, IInv, TypeOK, Prefixes, NoPrefix
  <2>3. Reply("begun")
    BY <1>1, <2>2 DEF WriterBegin
  <2> QED
    BY <2>1, <2>3, AnswerPipes
<1>2. ASSUME WriterBatch PROVE Pipeline'
  <2>1. /\ up /\ up' = up /\ wq # <<>> /\ wq' = Tail(wq) /\ cut' = cut
        /\ Head(wq).type = "batch" /\ Reply("ack")
    BY <1>2 DEF WriterBatch, WriterTakes
  <2> QED
    BY <2>1, AnswerPipes
<1>3. ASSUME WriterPublish PROVE Pipeline'
  <2>1. /\ up /\ up' = up /\ wq # <<>> /\ wq' = Tail(wq) /\ cut' = cut
        /\ Head(wq).type = "publish"
    BY <1>3 DEF WriterPublish, WriterTakes
  <2>2. ~Covered(Head(wq).seq)
    BY <2>1, HeadRequest DEF Covered, IInv, TypeOK, Prefixes, NoPrefix
  <2>3. Reply("published")
    BY <1>3, <2>2 DEF WriterPublish
  <2> QED
    BY <2>1, <2>3, AnswerPipes
<1>4. ASSUME WriterCollect \/ WriterCollected PROVE Pipeline'
  BY <1>4, PipelineFrame DEF WriterCollect, WriterCollected, worldVars
<1> QED
  BY <1>1, <1>2, <1>3, <1>4 DEF Writer

(* What of the inbox is left when the World takes a reply. *)
LEMMA TakenReply ==
  ASSUME TypeOK, Pipeline, up, inbox # <<>>, inbox' = Tail(inbox)
  PROVE  /\ Cutting /\ Current /\ Len(wq) \in Nat /\ inbox' \in Seq(Replies)
         /\ Len(inbox') \in Nat /\ Len(inbox) = Len(inbox') + 1
         /\ \A i \in 1..Len(inbox') : inbox'[i].attempt = cut.attempt
         /\ Head(inbox).type = "begun" => Beginning
         /\ Head(inbox).type = "ack" => Sending
         /\ Head(inbox).type = "published" => Publishing
         /\ \A T : OnlyOf(inbox, T) => OnlyOf(inbox', T)
<1>1. inbox \in Seq(Replies) /\ wq \in Seq(Requests)
  BY DEF TypeOK
<1>2. /\ Len(inbox) \in Nat \ {0} /\ Head(inbox) = inbox[1] /\ inbox' \in Seq(Replies)
      /\ Len(inbox') = Len(inbox) - 1 /\ Len(wq) \in Nat
      /\ \A i \in 1..Len(inbox') : inbox'[i] = inbox[i + 1]
  BY <1>1, QueueFacts, LenProperties
<1>3. Cutting
  BY DEF Pipeline
<1>4. \A i \in 1..Len(inbox) : inbox[i].attempt = cut.attempt
  BY <1>3 DEF Pipeline
<1>5. 1 \in 1..Len(inbox) /\ \A i \in 1..Len(inbox') : i + 1 \in 1..Len(inbox)
  BY <1>2
<1>6. \A T : OnlyOf(inbox, T) => OnlyOf(inbox', T) /\ Head(inbox).type \in T
  BY <1>1, OnlyTail
<1>7. /\ Beginning => Head(inbox).type = "begun"
      /\ Sending => Head(inbox).type = "ack"
      /\ Publishing => Head(inbox).type = "published"
  BY <1>6 DEF Beginning, Sending, Publishing
<1>8. Beginning \/ Sending \/ Publishing
  BY <1>3 DEF Pipeline
<1> QED
  BY <1>2, <1>3, <1>4, <1>5, <1>6, <1>7, <1>8 DEF Current

(* pump sends a batch for a credit, or publishes when it has all of them. *)
LEMMA PumpPipes ==
  ASSUME TypeOK, Cutting, up', NEW c \in Cut, NEW n, c.attempt = cut.attempt,
         c.begun, ~c.publishing, c.credits + (Len(wq) + Len(inbox')) = Window,
         OnlyOf(wq, {"batch"}), OnlyOf(inbox', {"ack"}), inbox' \in Seq(Replies),
         \A i \in 1..Len(inbox') : inbox'[i].attempt = cut.attempt,
         Pump(c, n)
  PROVE  Pipeline'
<1>1. /\ wq \in Seq(Requests) /\ Len(wq) \in Nat /\ Len(inbox') \in Nat
      /\ c.credits \in Nat /\ Window \in Nat
  BY LenProperties, ParameterAssumption DEF TypeOK, Cut
<1>2. ASSUME MaySend(c), NEW B \in SUBSET c.todo,
             cut' = [c EXCEPT !.todo = @ \ B, !.credits = @ - 1],
             wq' = Append(wq, Send("batch", c, B))
      PROVE  Pipeline'
  <2>1. /\ cut'.attempt = cut.attempt /\ cut'.begun /\ ~cut'.publishing
        /\ cut'.credits = c.credits - 1
    BY <1>2 DEF Cut
  <2>2. B \in SUBSET Units
    BY DEF Cut
  <2>3. Send("batch", c, B) \in Requests /\ Send("batch", c, B).type \in {"batch"}
    BY <2>2, SendType DEF Send
  <2>4. OnlyOf(wq', {"batch"}) /\ Len(wq') = Len(wq) + 1
    BY <1>1, <1>2, <2>3, OnlyAppend
  <2>5. cut'.credits + (Len(wq') + Len(inbox')) = Window
    BY <1>1, <2>1, <2>4
  <2>6. Sending'
    BY <2>1, <2>4, <2>5 DEF Sending, Waiting, OnlyOf
  <2> QED
    BY <2>1, <2>6 DEF Pipeline, Cutting
<1>3. ASSUME MayPublish(c), cut' = [c EXCEPT !.publishing = TRUE],
             wq' = Append(wq, Send("publish", c, {}))
      PROVE  Pipeline'
  <2>1. /\ cut'.attempt = cut.attempt /\ cut'.begun /\ cut'.publishing
        /\ cut'.credits = Window
    BY <1>3 DEF Cut, MayPublish
  <2>2. Len(wq) = 0 /\ Len(inbox') = 0
    BY <1>1, <1>3 DEF MayPublish
  <2>3. OnlyOf(wq, {"publish"}) /\ OnlyOf(inbox', {"published"})
    BY <2>2 DEF OnlyOf
  <2>4. Send("publish", c, {}) \in Requests /\ Send("publish", c, {}).type \in {"publish"}
    BY SendType DEF Send
  <2>5. OnlyOf(wq', {"publish"}) /\ Len(wq') = Len(wq) + 1
    BY <1>1, <1>3, <2>3, <2>4, OnlyAppend
  <2>6. Publishing'
    BY <2>1, <2>2, <2>3, <2>5 DEF Publishing, Waiting, OnlyOf
  <2> QED
    BY <2>1, <2>6 DEF Pipeline, Cutting
<1>4. ASSUME cut' = c, wq' = wq PROVE Pipeline'
  <2>1. Sending'
    BY <1>4 DEF Sending, Waiting, OnlyOf
  <2> QED
    BY <1>4, <2>1 DEF Pipeline, Cutting
<1> QED
  BY <1>2, <1>3, <1>4 DEF Pump

(* A reply to the World moves the cut on to its next stage. *)
LEMMA HandlerPipes ==
  ASSUME IInv, TypeOK', Pipeline, Handler
  PROVE  Pipeline'
<1>1. TypeOK /\ cut \in Cut /\ Window \in Nat /\ cut.credits \in Nat
  BY ParameterAssumption DEF IInv, TypeOK, Cut
<1>2. ASSUME PageBegun PROVE Pipeline'
  <2> DEFINE c == [cut EXCEPT !.begun = TRUE]
  <2>1. /\ up /\ up' = up /\ inbox # <<>> /\ inbox' = Tail(inbox)
        /\ Head(inbox).type = "begun"
    BY <1>2 DEF PageBegun, Receive, HandlerFrame
  <2>2. Cutting /\ Current /\ Beginning
    BY <1>1, <2>1, TakenReply
  <2>3. /\ Len(wq) \in Nat /\ inbox' \in Seq(Replies) /\ Len(inbox') \in Nat
        /\ Len(inbox) = Len(inbox') + 1
        /\ \A i \in 1..Len(inbox') : inbox'[i].attempt = cut.attempt
    BY <1>1, <2>1, TakenReply
  <2>4. Len(wq) = 0 /\ Len(inbox') = 0
    BY <2>2, <2>3 DEF Beginning, Waiting
  <2>5. OnlyOf(wq, {"batch"}) /\ OnlyOf(inbox', {"ack"})
    BY <2>4 DEF OnlyOf
  <2>6. /\ c \in Cut /\ c.attempt = cut.attempt /\ c.begun /\ ~c.publishing
        /\ c.credits + (Len(wq) + Len(inbox')) = Window
    BY <1>1, <2>2, <2>4, CutBegunType DEF Beginning, Cutting, Cut
  <2>7. Pump(c, pumps)
    BY <1>2, <2>2 DEF PageBegun
  <2> HIDE DEF c
  <2> QED
    BY <1>1, <2>1, <2>2, <2>3, <2>5, <2>6, <2>7, PumpPipes
<1>3. ASSUME PageAck PROVE Pipeline'
  <2>1. /\ up /\ up' = up /\ inbox # <<>> /\ inbox' = Tail(inbox)
        /\ Head(inbox).type = "ack"
    BY <1>3 DEF PageAck, Receive, HandlerFrame
  <2>2. Cutting /\ Current /\ Sending
    BY <1>1, <2>1, TakenReply
  <2>3. /\ Len(wq) \in Nat /\ inbox' \in Seq(Replies) /\ Len(inbox') \in Nat
        /\ Len(inbox) = Len(inbox') + 1
        /\ \A i \in 1..Len(inbox') : inbox'[i].attempt = cut.attempt
    BY <1>1, <2>1, TakenReply
  <2>4. OnlyOf(wq, {"batch"}) /\ OnlyOf(inbox, {"ack"})
    BY <2>2 DEF Sending
  <2>5. OnlyOf(inbox', {"ack"})
    BY <1>1, <2>1, <2>4, TakenReply
  <2>6. /\ Credited \in Cut /\ Credited.attempt = cut.attempt
        /\ Credited.begun /\ ~Credited.publishing
        /\ Credited.credits = cut.credits + 1
    BY <1>1, <2>2, CreditedType DEF Sending, Credited, Cut
  <2>7. Credited.credits + (Len(wq) + Len(inbox')) = Window
    BY <1>1, <2>2, <2>3, <2>6 DEF Sending, Waiting
  <2>8. Pump(Credited, pumps)
    BY <1>3, <2>2 DEF PageAck
  <2> QED
    BY <1>1, <2>1, <2>2, <2>3, <2>4, <2>5, <2>6, <2>7, <2>8, PumpPipes
<1>4. ASSUME PagePump PROVE Pipeline'
  <2>1. up /\ up' = up /\ inbox' = inbox
    BY <1>4 DEF PagePump, HandlerFrame
  <2>2. CASE ~cut.begun
    BY <1>4, <2>1, <2>2, PipelineFrame DEF PagePump
  <2>3. CASE cut.begun /\ cut.publishing
    <3>1. cut' = cut /\ wq' = wq
      BY <1>4, <2>3 DEF PagePump, Pump, MaySend, MayPublish
    <3> QED
      BY <2>1, <3>1, PipelineFrame
  <2>4. CASE cut.begun /\ ~cut.publishing
    <3>1. Cutting /\ inbox \in Seq(Replies) /\ Pump(cut, pumps - 1)
      BY <1>1, <1>4, <2>4 DEF PagePump, Cut, Cutting, TypeOK
    <3>2. Sending /\ \A i \in 1..Len(inbox) : inbox[i].attempt = cut.attempt
      BY <2>4, <3>1 DEF Pipeline, Beginning, Publishing
    <3> QED
      BY <1>1, <2>1, <2>4, <3>1, <3>2, PumpPipes DEF Sending, Waiting
  <2> QED
    BY <2>2, <2>3, <2>4
<1>5. ASSUME PagePublished PROVE Pipeline'
  <2>1. /\ up /\ up' = up /\ inbox # <<>> /\ inbox' = Tail(inbox)
        /\ Head(inbox).type = "published"
    BY <1>5 DEF PagePublished, Receive
  <2>2. Cutting /\ Current /\ Publishing
    BY <1>1, <2>1, TakenReply
  <2>3. /\ Len(wq) \in Nat /\ inbox' \in Seq(Replies) /\ Len(inbox') \in Nat
        /\ Len(inbox) = Len(inbox') + 1
    BY <1>1, <2>1, TakenReply
  <2>4. Len(wq) = 0 /\ Len(inbox') = 0
    BY <2>2, <2>3 DEF Publishing, Waiting
  <2>5. wq = <<>> /\ inbox' = <<>>
    BY <1>1, <2>3, <2>4, NoMessages DEF TypeOK
  <2>6. PICK R \in SUBSET Units : Confirm(Head(inbox).seq, R)
    BY <1>5, <2>2 DEF PagePublished
  <2>7. \E wants : MaybeOpen(wants, NoCut, run, seq, Head(inbox).seq, mem, Mark(R), wq)
    BY <2>6 DEF Confirm
  <2>8. seq \in Nat /\ mem \in Content /\ Mark(R) \in SUBSET Units
    BY <1>1 DEF TypeOK, Mark
  <2> QED
    BY <2>1, <2>5, <2>7, <2>8, FirstPipes
<1> QED
  BY <1>2, <1>3, <1>4, <1>5 DEF Handler

(* A dead World has no cut. *)
LEMMA CrashPipes ==
  ASSUME TypeOK', Pipeline, \/ Crash \/ \E U \in SUBSET Units : CrashInAppend(U)
  PROVE  Pipeline'
<1>1. Lost
  BY DEF Crash, CrashInAppend
<1>2. ~up' /\ wq' = <<>> /\ inbox' = <<>> /\ cut'.attempt = 0 /\ cut'.credits = Window
  BY <1>1 DEF Lost, NoCut
<1> QED
  BY <1>2 DEF Pipeline, Cutting

(* A restart begins a cut or none. *)
LEMMA RestartPipes ==
  ASSUME TypeOK, TypeOK', Pipeline, Restart
  PROVE  Pipeline'
<1> DEFINE first == prefix = NoPrefix
           loaded == [u \in Units |-> Recovered(log, seg, prefix, u)]
           touched == UNION {t.units : t \in Suffix(log, prefix)}
           d == IF first THEN {u \in Units : loaded[u] # {}} ELSE touched
<1>1. ~up /\ up' /\ inbox' = inbox /\ mem' = loaded
  BY DEF Restart
<1>2. inbox' = <<>>
  BY <1>1 DEF Pipeline
<1>3. MaybeOpen(first, NoCut, FALSE, seq', prefix, loaded, d, <<>>)
  BY DEF Restart
<1>4. seq' \in Nat /\ loaded \in Content
  BY <1>1 DEF TypeOK
<1>5. d \in SUBSET Units
  BY DEF TypeOK, Suffix, Txn
<1> HIDE DEF d, loaded
<1> QED
  BY <1>1, <1>2, <1>3, <1>4, <1>5, FirstPipes

(* The stages follow each other in every step. *)
LEMMA NextPipes ==
  ASSUME IInv, TypeOK', Pipeline, [Next]_vars
  PROVE  Pipeline'
<1> USE DEF schedVars, worldVars
<1>1. TypeOK
  BY DEF IInv
<1>2. ASSUME UNCHANGED vars PROVE Pipeline'
  BY <1>2, PipelineFrame DEF vars
<1>3. ASSUME NEW U \in SUBSET Units, CommitOperation(U) \/ CommitDeathDrop(U) PROVE Pipeline'
  BY <1>3, PipelineFrame DEF CommitOperation, CommitDeathDrop, CommitTxn
<1>4. ASSUME NEW U \in SUBSET Units, ThermalStep(U) PROVE Pipeline'
  BY <1>4, PipelineFrame DEF ThermalStep
<1>5. ASSUME NEW U \in SUBSET Units, ThermalDone(U) PROVE Pipeline'
  <2>1. /\ up /\ up' = up /\ inbox' = inbox
        /\ MaybeOpen(wanted, cut, FALSE, seq + 1, published, mem', Mark(U), wq)
    BY <1>5 DEF ThermalDone, CommitThermal
  <2>2. seq + 1 \in Nat /\ mem' \in Content /\ Mark(U) \in SUBSET Units
    BY <1>1 DEF TypeOK, Mark
  <2> QED
    BY <1>1, <2>1, <2>2, WantedPipes
<1>6. ASSUME NEW U \in SUBSET Units, DrainThermal(U) PROVE Pipeline'
  BY <1>6, PipelineFrame DEF DrainThermal, CommitThermal
<1>7. ASSUME NEW c \in Callers, NEW R \in SUBSET Units, Compact(c, R) PROVE Pipeline'
  <2>1. up /\ up' = up /\ inbox' = inbox
    BY <1>7 DEF Compact
  <2>2. CASE seq <= published
    BY <1>7, <2>1, <2>2, PipelineFrame DEF Compact
  <2>3. CASE ~(seq <= published)
    <3>1. MaybeOpen(TRUE, cut, run, seq, published, mem, Mark(R), wq)
      BY <1>7, <2>3 DEF Compact
    <3>2. seq \in Nat /\ mem \in Content /\ Mark(R) \in SUBSET Units
      BY <1>1 DEF TypeOK, Mark
    <3> QED
      BY <1>1, <2>1, <3>1, <3>2, WantedPipes
  <2> QED
    BY <2>2, <2>3
<1>8. ASSUME ThermalTick PROVE Pipeline'
  BY <1>8, PipelineFrame DEF ThermalTick
<1>9. ASSUME CutTimer PROVE Pipeline'
  <2>1. up /\ up' = up /\ inbox' = inbox /\ MaybeOpen(TRUE, cut, run, seq, published, mem, dirty, wq)
    BY <1>9 DEF CutTimer
  <2>2. seq \in Nat /\ mem \in Content /\ dirty \in SUBSET Units
    BY <1>1 DEF TypeOK
  <2> QED
    BY <1>1, <2>1, <2>2, WantedPipes
<1>10. ASSUME Writer PROVE Pipeline'
  BY <1>10, WriterPipes
<1>11. ASSUME Handler PROVE Pipeline'
  BY <1>11, HandlerPipes
<1>12. ASSUME Crash \/ \E U \in SUBSET Units : CrashInAppend(U) PROVE Pipeline'
  BY <1>12, CrashPipes
<1>13. ASSUME Restart PROVE Pipeline'
  BY <1>1, <1>13, RestartPipes
<1> QED
  BY <1>2, <1>3, <1>4, <1>5, <1>6, <1>7, <1>8, <1>9, <1>10, <1>11, <1>12, <1>13 DEF Next

-----------------------------------------------------------------------------
(* The simulation. *)

(* assess wakes what it no longer lets wait. *)
LEMMA AssessKeeps ==
  ASSUME NEW l, NEW p, NEW r, NEW woken, Assess(l, p, r, woken), run' = r,
         p \in BOOLEAN, r \in BOOLEAN, woken \in BOOLEAN, woken \/ r \/ p
  PROVE  (tick' \/ run' \/ paused') /\ (paused' => AtLeastMid(level'))
BY DEF Assess

(* A thermal domain that neither runs nor is scheduled waits in mid. *)
LEMMA NextSimulates ==
  ASSUME TypeOK, TypeOK', SimulationKept, [Next]_vars
  PROVE  SimulationKept'
<1> DEFINE Awake == (tick' \/ run' \/ paused') /\ (paused' => AtLeastMid(level'))
<1>1. /\ tick \in BOOLEAN /\ run \in BOOLEAN /\ paused \in BOOLEAN
      /\ up => (tick \/ run \/ paused) /\ (paused => AtLeastMid(level))
  BY DEF TypeOK, SimulationKept
<1>2. ASSUME UNCHANGED <<up, tick, run, paused, level>> PROVE SimulationKept'
  BY <1>2 DEF SimulationKept
<1>3. ASSUME NEW m, NEW U, NEW r \in BOOLEAN, RememberEntry(m, U, r), run' = r, up
      PROVE  Awake
  <2>1. Assess(LevelOf(seq + 1, published, Mark(U)), paused, r, tick \/ ~r)
    BY <1>3 DEF RememberEntry
  <2>2. (tick \/ ~r) \in BOOLEAN /\ ((tick \/ ~r) \/ r \/ paused)
    BY <1>1, <1>3
  <2> QED
    BY <1>1, <1>3, <2>1, <2>2, AssessKeeps
<1>4. ASSUME NEW U, CommitTxn(U) PROVE Awake
  BY <1>1, <1>3, <1>4 DEF CommitTxn
<1>5. ASSUME NEW U, CommitThermal(U) PROVE Awake
  BY <1>1, <1>3, <1>5 DEF CommitThermal
<1>6. ASSUME ThermalTick PROVE Awake
  BY <1>1, <1>6 DEF ThermalTick
<1>7. ASSUME NEW p, NEW R, Confirm(p, R), run' = run, up PROVE Awake
  <2> DEFINE first == LevelOf(seq, p, dirty)
             resumed == paused /\ ~AtLeastMid(first)
  <2>1. IF seq > p
        THEN Assess(LevelOf(seq, p, dirty'), paused /\ ~resumed, run, tick \/ (resumed /\ ~run))
        ELSE Assess(first, paused, run, tick)
    BY <1>7 DEF Confirm
  <2>2. CASE seq > p
    <3>1. /\ (paused /\ ~resumed) \in BOOLEAN /\ (tick \/ (resumed /\ ~run)) \in BOOLEAN
          /\ (tick \/ (resumed /\ ~run)) \/ run \/ (paused /\ ~resumed)
      BY <1>1, <1>7
    <3> HIDE DEF resumed
    <3> QED
      BY <1>1, <1>7, <2>1, <2>2, <3>1, AssessKeeps
  <2>3. CASE ~(seq > p)
    BY <1>1, <1>7, <2>1, <2>3, AssessKeeps
  <2> QED
    BY <2>2, <2>3
<1>8. ASSUME PagePublished PROVE SimulationKept'
  BY <1>2, <1>7, <1>8 DEF PagePublished, Receive, SimulationKept
<1>9. ASSUME Writer \/ PageBegun \/ PageAck \/ PagePump \/ CutTimer \/ UNCHANGED vars
      PROVE  UNCHANGED <<up, tick, run, paused, level>>
  BY <1>9 DEF Writer, WriterBegin, WriterBatch, WriterPublish, WriterCollect, WriterCollected,
     PageBegun, PageAck, PagePump, HandlerFrame, CutTimer, vars, schedVars, worldVars
<1>10. ASSUME NEW c, NEW R, Compact(c, R) PROVE UNCHANGED <<up, tick, run, paused, level>>
  BY <1>10 DEF Compact
<1>11. ASSUME NEW U, ThermalStep(U) PROVE UNCHANGED <<up, tick, run, paused, level>>
  BY <1>11 DEF ThermalStep, schedVars
<1>12. ASSUME NEW U, Crash \/ CrashInAppend(U) PROVE ~up'
  BY <1>12 DEF Crash, CrashInAppend, Lost
<1>13. ASSUME Restart PROVE Awake
  BY <1>13 DEF Restart
<1>14. Awake => SimulationKept'
  BY DEF SimulationKept
<1>15. ~up' => SimulationKept'
  BY DEF SimulationKept
<1> HIDE DEF Awake
<1> QED
  BY <1>2, <1>4, <1>5, <1>6, <1>8, <1>9, <1>10, <1>11, <1>12, <1>13, <1>14, <1>15
     DEF Next, Handler, CommitOperation, CommitDeathDrop, ThermalDone, DrainThermal

-----------------------------------------------------------------------------
(* Theorems. *)

(* In every state the simulation runs, is scheduled or waits for a backlog   *)
(* that is assessed, and no credit of the cut under way is lost or invented *)
(* (PageCut.assess, pump, the credit of an ack).                            *)
THEOREM SchedulingIsKept == ASSUME LateCommit = FALSE PROVE Spec => []SchedulingKept
<1>1. Init => Pipeline /\ SimulationKept
  BY DEF Init, Pipeline, Cutting, NoCut, SimulationKept
<1>2. IInv /\ TypeOK /\ TypeOK' /\ Pipeline /\ SimulationKept /\ [Next]_vars
        => Pipeline' /\ SimulationKept'
  BY NextPipes, NextSimulates
<1>3. TypeOK /\ Pipeline /\ SimulationKept => SchedulingKept
  BY PipelineFlows DEF SchedulingKept
<1> QED
  BY <1>1, <1>2, <1>3, Invariance, TypeCorrect, PTL DEF Spec
===============================================================================
