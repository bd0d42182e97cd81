-------------------------- MODULE ClientShell_proofs ---------------------------
(*****************************************************************************)
(* Proofs about the two programs that read the network thread's events: they *)
(* answer and send alike, and both say that it gave up.                     *)
(*****************************************************************************)
EXTENDS ClientShell, FiniteSetTheorems, SequenceTheorems, TLAPS

Event ==
  {Plain(k) : k \in {"entered", "disconnected", "failed", "reconnecting"}}
  \cup {About("seen", a) : a \in Actors \cup {Me}}
  \cup {About(k, a) : k \in {"leave", "identity"}, a \in Actors}
  \cup {About("stale", c) : c \in Chunks}
Views ==
  [joined : BOOLEAN, gaveUp : BOOLEAN, status : {"told", "retrying", "gave up", "blocked"}, pos : BOOLEAN,
   players : SUBSET (Actors \cup {Me}), identity : SUBSET Actors,
   target : Actors \cup {None}, tabbed : BOOLEAN, point : BOOLEAN]
Stays == {"loop", "moving", "settle", "waiting"}

ShellTypes ==
  /\ net \in {"trying", "in", "away", "over"} /\ attempt \in 0..MaxAttempts + 1
  /\ net # "over" => attempt <= MaxAttempts
  /\ events \in Nat
  /\ inbox \in [Programs -> Seq(Event)]
  /\ view \in [Programs -> Views]
  /\ head \in [at : Stays \cup {"scene", "ended"}, left : Nat,
               why : {"runs", "channel gone", "no scene", "blocked", "no position", "quit"}]
  /\ resyncs \subseteq Chunks /\ asked \subseteq Chunks

(* Only the window aims with Tab, at an actor it knows; it never lists       *)
(* itself; whoever joined has a position.                                   *)
Sane(p, v) ==
  /\ v.tabbed => v.target \in v.identity /\ p = "gui"
  /\ v.joined => v.pos
  /\ Me \in v.players => p = "head"

(* The headless loop runs behind a scene entry, which gave it a position.    *)
LoopHasPosition ==
  /\ head.at \in Stays => view["head"].pos
  /\ head.why # "no position"

(* What the events sent so far make known, whoever takes them. *)
Lore == [joined : BOOLEAN, gaveUp : BOOLEAN, players : SUBSET Actors, identity : SUBSET Actors]
Nobody(on) == [joined |-> on, gaveUp |-> FALSE, players |-> {}, identity |-> {}]
Learns(a, e) ==
  CASE e.kind = "entered" -> Nobody(TRUE)
    [] e.kind = "disconnected" -> Nobody(FALSE)
    [] e.kind = "reconnecting" -> [a EXCEPT !.joined = FALSE, !.gaveUp = FALSE]
    [] e.kind = "failed" -> [a EXCEPT !.joined = FALSE, !.gaveUp = TRUE]
    [] e.kind = "seen" -> [a EXCEPT !.players = @ \cup ({e.cid} \ {Me})]
    [] e.kind = "leave" -> [a EXCEPT !.players = @ \ {e.cid}, !.identity = @ \ {e.cid}]
    [] e.kind = "identity" -> [a EXCEPT !.identity = @ \cup {e.cid}]
    [] e.kind = "stale" -> a

(* What a program that knows so much holds. *)
Holds(p, v, a) ==
  /\ v.joined = a.joined /\ v.identity = a.identity /\ v.players \ {Me} = a.players
  /\ p = "gui" => v.gaveUp = a.gaveUp /\ (a.gaveUp => v.status \in {"gave up", "blocked"})
  /\ p = "head" => (a.gaveUp => v.status = "gave up")

(* tale[n] is known once n events are taken; q are the ones behind them. *)
Follows(tale, n, q) == \A i \in 1..Len(q) : tale[n + i] = Learns(tale[n + i - 1], q[i])
Tells(tale, p) ==
  /\ Len(inbox[p]) <= events
  /\ Holds(p, view[p], tale[events - Len(inbox[p])])
  /\ Follows(tale, events - Len(inbox[p]), inbox[p])
Ends(tale) == net = "over" => tale[events].gaveUp /\ ~tale[events].joined
Story == \E tale \in [Nat -> Lore] : Ends(tale) /\ \A p \in Programs : Tells(tale, p)

ShellInv ==
  /\ ShellTypes
  /\ \A p \in Programs : Sane(p, view[p])
  /\ LoopHasPosition
  /\ Story

-----------------------------------------------------------------------------
(* Events. *)

(* The kinds of events there are, and whom they are about. *)
LEMMA EventKinds ==
  ASSUME NEW e \in Event
  PROVE  \/ e.kind \in {"entered", "disconnected", "failed", "reconnecting"}
         \/ e.kind = "seen" /\ e.cid \in Actors \cup {Me}
         \/ e.kind \in {"leave", "identity"} /\ e.cid \in Actors
         \/ e.kind = "stale" /\ e.cid \in Chunks
BY DEF Event, Plain, About

(* What there is to know stays of its type. *)
LEMMA LearnsLore == ASSUME NEW a \in Lore, NEW e \in Event PROVE Learns(a, e) \in Lore
<1>1. CASE e.kind \in {"entered", "disconnected"}
  BY <1>1 DEF Learns, Lore, Nobody
<1>2. CASE e.kind = "reconnecting"
  BY <1>2 DEF Learns, Lore
<1>3. CASE e.kind = "failed"
  BY <1>3 DEF Learns, Lore
<1>4. CASE e.kind = "seen"
  <2>1. {e.cid} \ {Me} \subseteq Actors
    BY <1>4, EventKinds
  <2>2. Learns(a, e) = [a EXCEPT !.players = @ \cup ({e.cid} \ {Me})]
    BY <1>4 DEF Learns
  <2> QED
    BY <2>1, <2>2 DEF Lore
<1>5. CASE e.kind = "leave"
  BY <1>5 DEF Learns, Lore
<1>6. CASE e.kind = "identity"
  <2>1. e.cid \in Actors
    BY <1>6, EventKinds
  <2>2. Learns(a, e) = [a EXCEPT !.identity = @ \cup {e.cid}]
    BY <1>6 DEF Learns
  <2> QED
    BY <2>1, <2>2 DEF Lore
<1>7. CASE e.kind = "stale"
  BY <1>7 DEF Learns
<1> QED
  BY <1>1, <1>2, <1>3, <1>4, <1>5, <1>6, <1>7, EventKinds

(* A tale goes on over the events that are sent: two at most at once. *)
LEMMA GoesOn ==
  ASSUME NEW tale \in [Nat -> Lore], NEW n \in Nat, NEW es \in Seq(Event), Len(es) <= 2
  PROVE  \E more \in [Nat -> Lore] :
            (\A i \in 0..n : more[i] = tale[i]) /\ Follows(more, n, es)
<1>1. Len(es) \in Nat /\ \A k \in Nat : k <= 2 => k = 0 \/ k = 1 \/ k = 2
  BY LenProperties
<1>2. CASE Len(es) = 0
  BY <1>2 DEF Follows
<1>3. CASE Len(es) = 1
  <2>1. es[1] \in Event /\ tale[n] \in Lore
    BY <1>3, ElementOfSeq
  <2> DEFINE one == Learns(tale[n], es[1])
  <2> DEFINE more == [i \in Nat |-> IF i <= n THEN tale[i] ELSE one]
  <2>2. one \in Lore
    BY <2>1, LearnsLore
  <2> HIDE DEF one
  <2>3. more \in [Nat -> Lore] /\ more[n] = tale[n] /\ more[n + 1] = one /\ \A i \in 0..n : more[i] = tale[i]
    BY <2>2
  <2> HIDE DEF more
  <2>4. Follows(more, n, es)
    BY <1>3, <2>3 DEF one, Follows
  <2> QED
    BY <2>3, <2>4
<1>4. CASE Len(es) = 2
  <2>1. 1 \in 1..Len(es) /\ 2 \in 1..Len(es)
    BY <1>4
  <2>2. es[1] \in Event /\ es[2] \in Event /\ tale[n] \in Lore
    BY <2>1, ElementOfSeq
  <2> DEFINE one == Learns(tale[n], es[1])
  <2> DEFINE two == Learns(one, es[2])
  <2> DEFINE more == [i \in Nat |-> IF i <= n THEN tale[i] ELSE IF i = n + 1 THEN one ELSE two]
  <2>3. one \in Lore
    BY <2>2, LearnsLore
  <2> HIDE DEF one
  <2>4. two \in Lore
    BY <2>2, <2>3, LearnsLore
  <2> HIDE DEF two
  <2>5. /\ more \in [Nat -> Lore] /\ more[n] = tale[n] /\ more[n + 1] = one /\ more[n + 2] = two
        /\ \A i \in 0..n : more[i] = tale[i]
    BY <2>3, <2>4
  <2> HIDE DEF more
  <2>6. more[n + 1] = Learns(more[n], es[1]) /\ more[n + 2] = Learns(more[n + 1], es[2])
    BY <2>5 DEF one, two
  <2>7. ASSUME NEW i \in 1..2 PROVE more[n + i] = Learns(more[n + i - 1], es[i])
    <3>1. (i = 1 /\ n + i - 1 = n /\ n + i = n + 1) \/ (i = 2 /\ n + i - 1 = n + 1 /\ n + i = n + 2)
      OBVIOUS
    <3> QED
      BY <2>6, <3>1
  <2> QED
    BY <1>4, <2>5, <2>7 DEF Follows
<1>5. Len(es) = 0 \/ Len(es) = 1 \/ Len(es) = 2
  BY <1>1
<1> QED
  BY <1>2, <1>3, <1>4, <1>5

(* A tale of the events there are and of those that are sent. *)
LEMMA FollowsBoth ==
  ASSUME NEW tale \in [Nat -> Lore], NEW more \in [Nat -> Lore], NEW n \in Nat,
         NEW q \in Seq(Event), NEW es \in Seq(Event), Len(q) <= n,
         \A i \in 0..n : more[i] = tale[i],
         Follows(tale, n - Len(q), q), Follows(more, n, es)
  PROVE  Follows(more, n - Len(q), q \o es)
<1>1. /\ Len(q) \in Nat /\ Len(es) \in Nat /\ Len(q \o es) = Len(q) + Len(es)
      /\ \A i \in 1..Len(q) + Len(es) : (q \o es)[i] = IF i <= Len(q) THEN q[i] ELSE es[i - Len(q)]
  BY ConcatProperties, LenProperties
<1> DEFINE k == n - Len(q)
<1>2. k \in Nat /\ k + Len(q) = n
  BY <1>1
<1>3. SUFFICES ASSUME NEW i \in 1..Len(q) + Len(es)
               PROVE more[k + i] = Learns(more[k + i - 1], (q \o es)[i])
  BY <1>1 DEF Follows
<1>4. CASE i <= Len(q)
  <2>1. i \in 1..Len(q) /\ k + i \in 0..n /\ k + i - 1 \in 0..n
    BY <1>1, <1>2, <1>4
  <2>2. tale[k + i] = Learns(tale[k + i - 1], q[i])
    BY <2>1 DEF Follows
  <2>3. (q \o es)[i] = q[i] /\ more[k + i] = tale[k + i] /\ more[k + i - 1] = tale[k + i - 1]
    BY <1>1, <1>4, <2>1
  <2> QED
    BY <2>2, <2>3
<1>5. CASE ~(i <= Len(q))
  <2> DEFINE j == i - Len(q)
  <2>1. j \in 1..Len(es) /\ n + j = k + i /\ n + j - 1 = k + i - 1
    BY <1>1, <1>2, <1>5
  <2>2. more[n + j] = Learns(more[n + j - 1], es[j])
    BY <2>1 DEF Follows
  <2>3. (q \o es)[i] = es[j]
    BY <1>1, <1>5
  <2> QED
    BY <2>1, <2>2, <2>3
<1> QED
  BY <1>4, <1>5

-----------------------------------------------------------------------------
(* What the programs make of an event. *)

(* What is written over a view stays a view. *)
LEMMA ViewWrites ==
  ASSUME NEW v \in Views
  PROVE  /\ NoTarget(v) \in Views /\ NoRemotes(v) \in Views
         /\ \A cid \in Actors : Leave(v, cid) \in Views /\ \A b \in BOOLEAN : Targets(v, cid, b) \in Views
BY DEF NoTarget, NoRemotes, Leave, Targets, Views

(* The window. *)
LEMMA GuiTakesEvent ==
  ASSUME NEW v \in Views, NEW e \in Event, NEW a \in Lore, Sane("gui", v), Holds("gui", v, a)
  PROVE  LET w == GuiApply(v, e) IN
         w \in Views /\ Sane("gui", w) /\ Holds("gui", w, Learns(a, e))
<1>1. CASE e.kind = "entered"
  <2>1. GuiApply(v, e) = GuiEntered(v) /\ Learns(a, e) = Nobody(TRUE)
    BY <1>1 DEF GuiApply, Learns
  <2> DEFINE w == GuiEntered(v)
  <2>2. w \in Views
    BY DEF GuiEntered, NoTarget, NoRemotes, Views
  <2>3. /\ w.joined = TRUE /\ w.gaveUp = FALSE /\ w.pos = TRUE /\ w.players = {} /\ w.identity = {}
        /\ w.tabbed = FALSE
    BY DEF GuiEntered, NoTarget, NoRemotes, Views
  <2> HIDE DEF w
  <2>4. Sane("gui", w) /\ Holds("gui", w, Nobody(TRUE))
    BY <2>3 DEF Sane, Holds, Nobody
  <2> QED
    BY <2>1, <2>2, <2>4 DEF w
<1>2. CASE e.kind = "disconnected"
  <2>1. GuiApply(v, e) = GuiDropped(v) /\ Learns(a, e) = Nobody(FALSE)
    BY <1>2 DEF GuiApply, Learns
  <2> DEFINE w == GuiDropped(v)
  <2>2. w \in Views
    BY DEF GuiDropped, NoTarget, NoRemotes, Views
  <2>3. /\ w.joined = FALSE /\ w.gaveUp = FALSE /\ w.pos = FALSE /\ w.players = {} /\ w.identity = {}
        /\ w.tabbed = FALSE
    BY DEF GuiDropped, NoTarget, NoRemotes, Views
  <2> HIDE DEF w
  <2>4. Sane("gui", w) /\ Holds("gui", w, Nobody(FALSE))
    BY <2>3 DEF Sane, Holds, Nobody
  <2> QED
    BY <2>1, <2>2, <2>4 DEF w
<1>3. CASE e.kind = "reconnecting"
  <2>1. /\ GuiApply(v, e) = [v EXCEPT !.joined = FALSE, !.gaveUp = FALSE, !.status = "retrying"]
        /\ Learns(a, e) = [a EXCEPT !.joined = FALSE, !.gaveUp = FALSE]
    BY <1>3 DEF GuiApply, Learns
  <2> QED
    BY <2>1 DEF Views, Sane, Holds, Lore
<1>4. CASE e.kind = "failed"
  <2>1. /\ GuiApply(v, e) = [v EXCEPT !.joined = FALSE, !.gaveUp = TRUE, !.status = "gave up"]
        /\ Learns(a, e) = [a EXCEPT !.joined = FALSE, !.gaveUp = TRUE]
    BY <1>4 DEF GuiApply, Learns
  <2> QED
    BY <2>1 DEF Views, Sane, Holds, Lore
<1>5. CASE e.kind = "seen"
  <2>1. /\ GuiApply(v, e) = GuiMeets(v, e.cid)
        /\ Learns(a, e) = [a EXCEPT !.players = @ \cup ({e.cid} \ {Me})]
    BY <1>5 DEF GuiApply, Learns
  <2>2. e.cid \in Actors \cup {Me}
    BY <1>5, EventKinds
  <2> DEFINE w == GuiMeets(v, e.cid)
  <2> DEFINE b == [a EXCEPT !.players = @ \cup ({e.cid} \ {Me})]
  <2>3. w \in Views
    BY <2>2 DEF GuiMeets, Views
  <2>4. /\ w.joined = v.joined /\ w.gaveUp = v.gaveUp /\ w.status = v.status /\ w.pos = v.pos
        /\ w.players = v.players \cup ({e.cid} \ {Me}) /\ w.identity = v.identity
        /\ w.target = v.target /\ w.tabbed = v.tabbed
        /\ b.joined = a.joined /\ b.gaveUp = a.gaveUp
        /\ b.players = a.players \cup ({e.cid} \ {Me}) /\ b.identity = a.identity
    BY DEF GuiMeets, Views, Lore
  <2> HIDE DEF w, b
  <2>5. Sane("gui", w) /\ Holds("gui", w, b)
    BY <2>2, <2>4, ShellAssumption DEF Sane, Holds
  <2> QED
    BY <2>1, <2>3, <2>4, <2>5 DEF w, b
<1>6. CASE e.kind = "leave"
  <2>1. /\ GuiApply(v, e) = Leave(v, e.cid)
        /\ Learns(a, e) = [a EXCEPT !.players = @ \ {e.cid}, !.identity = @ \ {e.cid}]
    BY <1>6 DEF GuiApply, Learns
  <2>2. e.cid \in Actors
    BY <1>6, EventKinds
  <2> DEFINE w == Leave(v, e.cid)
  <2> DEFINE b == [a EXCEPT !.players = @ \ {e.cid}, !.identity = @ \ {e.cid}]
  <2>3. w \in Views
    BY <2>2 DEF Leave, Views
  <2>4. /\ w.joined = v.joined /\ w.gaveUp = v.gaveUp /\ w.status = v.status /\ w.pos = v.pos
        /\ w.players = v.players \ {e.cid} /\ w.identity = v.identity \ {e.cid}
        /\ (v.target # e.cid /\ w.target = v.target /\ w.tabbed = v.tabbed) \/ w.tabbed = FALSE
        /\ b.joined = a.joined /\ b.gaveUp = a.gaveUp
        /\ b.players = a.players \ {e.cid} /\ b.identity = a.identity \ {e.cid}
    BY DEF Leave, Views, Lore
  <2> HIDE DEF w, b
  <2>5. Sane("gui", w) /\ Holds("gui", w, b)
    BY <2>2, <2>4, ShellAssumption DEF Sane, Holds
  <2> QED
    BY <2>1, <2>3, <2>4, <2>5 DEF w, b
<1>7. CASE e.kind = "identity"
  <2>1. /\ GuiApply(v, e) = [v EXCEPT !.identity = @ \cup {e.cid}]
        /\ Learns(a, e) = [a EXCEPT !.identity = @ \cup {e.cid}]
    BY <1>7 DEF GuiApply, Learns
  <2>2. e.cid \in Actors
    BY <1>7, EventKinds
  <2> DEFINE w == [v EXCEPT !.identity = @ \cup {e.cid}]
  <2> DEFINE b == [a EXCEPT !.identity = @ \cup {e.cid}]
  <2>3. w \in Views
    BY <2>2 DEF Views
  <2>4. /\ w.joined = v.joined /\ w.gaveUp = v.gaveUp /\ w.status = v.status /\ w.pos = v.pos
        /\ w.players = v.players /\ w.identity = v.identity \cup {e.cid}
        /\ w.target = v.target /\ w.tabbed = v.tabbed
        /\ b.joined = a.joined /\ b.gaveUp = a.gaveUp
        /\ b.players = a.players /\ b.identity = a.identity \cup {e.cid}
    BY DEF Views, Lore
  <2> HIDE DEF w, b
  <2>5. Sane("gui", w) /\ Holds("gui", w, b)
    BY <2>2, <2>4, ShellAssumption DEF Sane, Holds
  <2> QED
    BY <2>1, <2>3, <2>4, <2>5 DEF w, b
<1>8. CASE e.kind = "stale"
  BY <1>8 DEF GuiApply, Learns
<1> QED
  BY <1>1, <1>2, <1>3, <1>4, <1>5, <1>6, <1>7, <1>8, EventKinds

(* The headless program; the position it once had stays. *)
LEMMA HeadTakesEvent ==
  ASSUME NEW v \in Views, NEW e \in Event, NEW a \in Lore, Sane("head", v), Holds("head", v, a)
  PROVE  LET w == HeadApply(v, e) IN
         w \in Views /\ Sane("head", w) /\ Holds("head", w, Learns(a, e)) /\ (v.pos => w.pos)
<1>1. CASE e.kind = "entered"
  <2>1. HeadApply(v, e) = HeadEntered(v) /\ Learns(a, e) = Nobody(TRUE)
    BY <1>1 DEF HeadApply, Learns
  <2> DEFINE w == HeadEntered(v)
  <2>2. w \in Views
    BY DEF HeadEntered, NoRemotes, Views
  <2>3. /\ w.joined = TRUE /\ w.pos = TRUE /\ w.players = {} /\ w.identity = {}
        /\ w.tabbed => v.tabbed
    BY DEF HeadEntered, NoRemotes, Views
  <2> HIDE DEF w
  <2>4. Sane("head", w) /\ Holds("head", w, Nobody(TRUE))
    BY <2>3 DEF Sane, Holds, Nobody
  <2> QED
    BY <2>1, <2>2, <2>3, <2>4 DEF w
<1>2. CASE e.kind = "disconnected"
  <2>1. HeadApply(v, e) = HeadDropped(v) /\ Learns(a, e) = Nobody(FALSE)
    BY <1>2 DEF HeadApply, Learns
  <2> DEFINE w == HeadDropped(v)
  <2>2. w \in Views
    BY DEF HeadDropped, NoTarget, NoRemotes, Views
  <2>3. /\ w.joined = FALSE /\ w.pos = v.pos /\ w.players = {} /\ w.identity = {}
        /\ w.tabbed => v.tabbed
    BY DEF HeadDropped, NoTarget, NoRemotes, Views
  <2> HIDE DEF w
  <2>4. Sane("head", w) /\ Holds("head", w, Nobody(FALSE))
    BY <2>3 DEF Sane, Holds, Nobody
  <2> QED
    BY <2>1, <2>2, <2>3, <2>4 DEF w
<1>3. CASE e.kind = "reconnecting"
  <2>1. /\ HeadApply(v, e) = [v EXCEPT !.joined = FALSE, !.status = "retrying"]
        /\ Learns(a, e) = [a EXCEPT !.joined = FALSE, !.gaveUp = FALSE]
    BY <1>3 DEF HeadApply, Learns
  <2> QED
    BY <2>1 DEF Views, Sane, Holds, Lore
<1>4. CASE e.kind = "failed"
  <2>1. /\ HeadApply(v, e) = HeadGivesUp(v)
        /\ Learns(a, e) = [a EXCEPT !.joined = FALSE, !.gaveUp = TRUE]
    BY <1>4 DEF HeadApply, Learns
  <2> QED
    BY <2>1 DEF HeadGivesUp, Views, Sane, Holds, Lore
<1>5. CASE e.kind = "seen"
  <2>1. /\ HeadApply(v, e) = [v EXCEPT !.players = @ \cup {e.cid}]
        /\ Learns(a, e) = [a EXCEPT !.players = @ \cup ({e.cid} \ {Me})]
    BY <1>5 DEF HeadApply, Learns
  <2>2. e.cid \in Actors \cup {Me}
    BY <1>5, EventKinds
  <2> DEFINE w == [v EXCEPT !.players = @ \cup {e.cid}]
  <2> DEFINE b == [a EXCEPT !.players = @ \cup ({e.cid} \ {Me})]
  <2>3. w \in Views
    BY <2>2 DEF Views
  <2>4. /\ w.joined = v.joined /\ w.gaveUp = v.gaveUp /\ w.status = v.status /\ w.pos = v.pos
        /\ w.players = v.players \cup {e.cid} /\ w.identity = v.identity
        /\ w.target = v.target /\ w.tabbed = v.tabbed
        /\ b.joined = a.joined /\ b.gaveUp = a.gaveUp
        /\ b.players = a.players \cup ({e.cid} \ {Me}) /\ b.identity = a.identity
    BY DEF Views, Lore
  <2> HIDE DEF w, b
  <2>5. Sane("head", w) /\ Holds("head", w, b)
    BY <2>2, <2>4, ShellAssumption DEF Sane, Holds
  <2> QED
    BY <2>1, <2>3, <2>4, <2>5 DEF w, b
<1>6. CASE e.kind = "leave"
  <2>1. /\ HeadApply(v, e) = Leave(v, e.cid)
        /\ Learns(a, e) = [a EXCEPT !.players = @ \ {e.cid}, !.identity = @ \ {e.cid}]
    BY <1>6 DEF HeadApply, Learns
  <2>2. e.cid \in Actors
    BY <1>6, EventKinds
  <2> DEFINE w == Leave(v, e.cid)
  <2> DEFINE b == [a EXCEPT !.players = @ \ {e.cid}, !.identity = @ \ {e.cid}]
  <2>3. w \in Views
    BY <2>2 DEF Leave, Views
  <2>4. /\ w.joined = v.joined /\ w.gaveUp = v.gaveUp /\ w.status = v.status /\ w.pos = v.pos
        /\ w.players = v.players \ {e.cid} /\ w.identity = v.identity \ {e.cid}
        /\ (v.target # e.cid /\ w.target = v.target /\ w.tabbed = v.tabbed) \/ w.tabbed = FALSE
        /\ b.joined = a.joined /\ b.gaveUp = a.gaveUp
        /\ b.players = a.players \ {e.cid} /\ b.identity = a.identity \ {e.cid}
    BY DEF Leave, Views, Lore
  <2> HIDE DEF w, b
  <2>5. Sane("head", w) /\ Holds("head", w, b)
    BY <2>2, <2>4, ShellAssumption DEF Sane, Holds
  <2> QED
    BY <2>1, <2>3, <2>4, <2>5 DEF w, b
<1>7. CASE e.kind = "identity"
  <2>1. /\ HeadApply(v, e) = [v EXCEPT !.identity = @ \cup {e.cid}]
        /\ Learns(a, e) = [a EXCEPT !.identity = @ \cup {e.cid}]
    BY <1>7 DEF HeadApply, Learns
  <2>2. e.cid \in Actors
    BY <1>7, EventKinds
  <2> DEFINE w == [v EXCEPT !.identity = @ \cup {e.cid}]
  <2> DEFINE b == [a EXCEPT !.identity = @ \cup {e.cid}]
  <2>3. w \in Views
    BY <2>2 DEF Views
  <2>4. /\ w.joined = v.joined /\ w.gaveUp = v.gaveUp /\ w.status = v.status /\ w.pos = v.pos
        /\ w.players = v.players /\ w.identity = v.identity \cup {e.cid}
        /\ w.target = v.target /\ w.tabbed = v.tabbed
        /\ b.joined = a.joined /\ b.gaveUp = a.gaveUp
        /\ b.players = a.players /\ b.identity = a.identity \cup {e.cid}
    BY DEF Views, Lore
  <2> HIDE DEF w, b
  <2>5. Sane("head", w) /\ Holds("head", w, b)
    BY <2>2, <2>4, ShellAssumption DEF Sane, Holds
  <2> QED
    BY <2>1, <2>3, <2>4, <2>5 DEF w, b
<1>8. CASE e.kind = "stale"
  BY <1>8 DEF HeadApply, Learns
<1> QED
  BY <1>1, <1>2, <1>3, <1>4, <1>5, <1>6, <1>7, <1>8, EventKinds

-----------------------------------------------------------------------------
(* The tale goes on. *)

(* A program tells the same if what it holds and has not taken stays. *)
LEMMA SameStory ==
  ASSUME Story, net' = net, events' = events, inbox' = inbox, view \in [Programs -> Views],
         view' \in [Programs -> Views],
         \A p \in Programs, a \in Lore : Holds(p, view[p], a) => Holds(p, view'[p], a),
         inbox \in [Programs -> Seq(Event)], events \in Nat
  PROVE  Story'
<1>1. PICK tale \in [Nat -> Lore] : Ends(tale) /\ \A p \in Programs : Tells(tale, p)
  BY DEF Story
<1>2. Ends(tale)'
  BY <1>1 DEF Ends
<1>3. ASSUME NEW p \in Programs PROVE Tells(tale, p)'
  <2>1. Len(inbox[p]) \in Nat /\ Tells(tale, p)
    BY <1>1, LenProperties
  <2>2. events - Len(inbox[p]) \in Nat
    BY <2>1 DEF Tells
  <2>3. tale[events - Len(inbox[p])] \in Lore
    BY <2>2
  <2>4. Holds(p, view'[p], tale[events - Len(inbox[p])])
    BY <2>1, <2>3 DEF Tells
  <2> QED
    BY <2>1, <2>4 DEF Tells
<1> QED
  BY <1>2, <1>3 DEF Story

(* What is sent is behind what was not yet taken. *)
LEMMA SendsStory ==
  ASSUME ShellTypes, Story, NEW es \in Seq(Event), Len(es) <= 2, Sends(es),
         net' = "over" => Len(es) # 0 /\ es[Len(es)].kind = "failed"
  PROVE  Story'
<1>1. PICK tale \in [Nat -> Lore] : Ends(tale) /\ \A p \in Programs : Tells(tale, p)
  BY DEF Story
<1>2. /\ events \in Nat /\ Len(es) \in Nat /\ events' = events + Len(es) /\ view' = view
      /\ inbox \in [Programs -> Seq(Event)] /\ inbox' = [p \in Programs |-> inbox[p] \o es]
  BY LenProperties DEF ShellTypes, Sends
<1>3. PICK more \in [Nat -> Lore] : (\A i \in 0..events : more[i] = tale[i]) /\ Follows(more, events, es)
  BY <1>2, GoesOn
<1>4. Ends(more)'
  <2> SUFFICES ASSUME net' = "over" PROVE more[events'].gaveUp /\ ~more[events'].joined
    BY DEF Ends
  <2>1. Len(es) \in 1..Len(es)
    BY <1>2
  <2>2. more[events + Len(es)] = Learns(more[events + Len(es) - 1], es[Len(es)])
    BY <1>3, <2>1 DEF Follows
  <2>3. events + Len(es) - 1 \in Nat
    BY <1>2, <2>1
  <2>4. PICK a \in Lore : a = more[events + Len(es) - 1]
    BY <2>3
  <2>5. Learns(a, es[Len(es)]) = [a EXCEPT !.joined = FALSE, !.gaveUp = TRUE]
    BY DEF Learns
  <2>6. more[events'] = [a EXCEPT !.joined = FALSE, !.gaveUp = TRUE]
    BY <1>2, <2>2, <2>4, <2>5
  <2> QED
    BY <2>6 DEF Lore
<1>5. ASSUME NEW p \in Programs PROVE Tells(more, p)'
  <2> DEFINE q == inbox[p]
  <2>1. q \in Seq(Event) /\ Len(q) \in Nat /\ Tells(tale, p) /\ inbox'[p] = q \o es
    BY <1>1, <1>2, LenProperties
  <2>2. Len(q \o es) = Len(q) + Len(es)
    BY <2>1, ConcatProperties
  <2>3. Len(q) <= events /\ events - Len(q) \in 0..events /\ events' - Len(q \o es) = events - Len(q)
    BY <1>2, <2>1, <2>2 DEF Tells
  <2>4. Follows(more, events - Len(q), q \o es)
    BY <1>2, <1>3, <2>1, <2>3, FollowsBoth DEF Tells
  <2>5. Holds(p, view[p], more[events - Len(q)])
    BY <1>3, <2>1, <2>3 DEF Tells
  <2>6. Len(q \o es) <= events'
    BY <1>2, <2>1, <2>2, <2>3
  <2> QED
    BY <1>2, <2>1, <2>3, <2>4, <2>5, <2>6 DEF Tells
<1> QED
  BY <1>4, <1>5 DEF Story

(* Each program knows something. *)
LEMMA KnowsSome ==
  ASSUME ShellTypes, Story, NEW p \in Programs
  PROVE  \E a \in Lore : Holds(p, view[p], a)
<1>1. PICK tale \in [Nat -> Lore] : Tells(tale, p)
  BY DEF Story
<1>2. inbox[p] \in Seq(Event) /\ events \in Nat
  BY DEF ShellTypes
<1>3. Len(inbox[p]) \in Nat /\ Len(inbox[p]) <= events
  BY <1>1, <1>2, LenProperties DEF Tells
<1>4. events - Len(inbox[p]) \in Nat
  BY <1>2, <1>3
<1> QED
  BY <1>1, <1>4 DEF Tells

(* An event that is taken is told of no more. *)
LEMMA TakesStory ==
  ASSUME ShellTypes, Story, NEW p \in Programs, inbox[p] # << >>, NEW w \in Views,
         net' = net, events' = events, view' = [view EXCEPT ![p] = w],
         inbox' = [inbox EXCEPT ![p] = Tail(@)],
         \A a \in Lore : Holds(p, view[p], a) => Holds(p, w, Learns(a, Head(inbox[p])))
  PROVE  Story'
<1>1. PICK tale \in [Nat -> Lore] : Ends(tale) /\ \A s \in Programs : Tells(tale, s)
  BY DEF Story
<1>2. events \in Nat /\ inbox \in [Programs -> Seq(Event)] /\ view \in [Programs -> Views]
  BY DEF ShellTypes
<1>3. Ends(tale)'
  BY <1>1 DEF Ends
<1>4. ASSUME NEW s \in Programs, s # p PROVE Tells(tale, s)'
  <2>1. inbox'[s] = inbox[s] /\ view'[s] = view[s]
    BY <1>2, <1>4
  <2> QED
    BY <1>1, <2>1 DEF Tells
<1>5. Tells(tale, p)'
  <2> DEFINE q == inbox[p]
  <2> DEFINE n == events - Len(q)
  <2>1. q \in Seq(Event) /\ Tells(tale, p) /\ inbox'[p] = Tail(q) /\ view'[p] = w
    BY <1>1, <1>2
  <2>2. /\ Len(q) \in Nat \ {0} /\ Head(q) = q[1] /\ Len(Tail(q)) = Len(q) - 1
        /\ \A i \in 1..Len(Tail(q)) : Tail(q)[i] = q[i + 1]
    BY <2>1, HeadTailProperties, EmptySeq, LenProperties
  <2>3. n \in Nat /\ events - Len(Tail(q)) = n + 1 /\ Len(Tail(q)) <= events
    BY <1>2, <2>1, <2>2 DEF Tells
  <2>4. ASSUME NEW i \in 1..Len(Tail(q)) PROVE tale[n + 1 + i] = Learns(tale[n + 1 + i - 1], Tail(q)[i])
    <3> HIDE DEF n
    <3>1. i + 1 \in 1..Len(q) /\ i \in Nat
      BY <2>2
    <3>2. i + 1 \in 1..Len(q) /\ n + (i + 1) = n + 1 + i /\ n + (i + 1) - 1 = n + 1 + i - 1
      BY <2>3, <3>1
    <3> USE DEF n
    <3>3. tale[n + (i + 1)] = Learns(tale[n + (i + 1) - 1], q[i + 1])
      BY <2>1, <3>2 DEF Tells, Follows
    <3> QED
      BY <2>2, <3>2, <3>3
  <2>5. tale[n + 1] = Learns(tale[n], Head(q)) /\ tale[n] \in Lore
    <3>1. 1 \in 1..Len(q) /\ n + 1 - 1 = n
      BY <2>2, <2>3
    <3> QED
      BY <2>1, <2>2, <2>3, <3>1 DEF Tells, Follows
  <2>6. Holds(p, w, tale[n + 1])
    BY <2>1, <2>5 DEF Tells
  <2>7. Follows(tale, n + 1, Tail(q))
    BY <2>4 DEF Follows
  <2> QED
    BY <2>1, <2>3, <2>6, <2>7 DEF Tells
<1> QED
  BY <1>3, <1>4, <1>5 DEF Story

-----------------------------------------------------------------------------
(* The network thread. *)

(* A step of the network thread sends to both. *)
LEMMA ThreadSends ==
  ASSUME ShellInv, NEW es \in Seq(Event), Len(es) <= 2, Sends(es),
         net' \in {"trying", "in", "away", "over"}, attempt' \in 0..MaxAttempts + 1,
         net' # "over" => attempt' <= MaxAttempts,
         net' = "over" => Len(es) # 0 /\ es[Len(es)].kind = "failed"
  PROVE  ShellInv'
<1>1. Story'
  BY SendsStory DEF ShellInv
<1>2. /\ events' = events + Len(es) /\ view' = view /\ UNCHANGED head_vars
      /\ inbox' = [p \in Programs |-> inbox[p] \o es]
  BY DEF Sends
<1>3. ShellTypes'
  <2>1. inbox' \in [Programs -> Seq(Event)]
    <3>1. ASSUME NEW p \in Programs PROVE inbox[p] \o es \in Seq(Event)
      <4>1. inbox[p] \in Seq(Event)
        BY DEF ShellInv, ShellTypes
      <4> QED
        BY <4>1, ConcatProperties
    <3> QED
      BY <1>2, <3>1
  <2>2. events \in Nat /\ Len(es) \in Nat
    BY LenProperties DEF ShellInv, ShellTypes
  <2>3. events' \in Nat
    BY <1>2, <2>2
  <2> QED
    BY <1>2, <2>1, <2>3 DEF ShellInv, ShellTypes, head_vars
<1> QED
  BY <1>1, <1>2, <1>3 DEF ShellInv, Sane, LoopHasPosition, head_vars

(* What the thread sends are events. *)
LEMMA SentEvents ==
  /\ <<>> \in Seq(Event) /\ Len(<<>>) = 0
  /\ \A e \in Event : <<e>> \in Seq(Event) /\ Len(<<e>>) = 1 /\ <<e>>[1] = e
  /\ \A e, f \in Event : /\ <<e>> \o <<f>> \in Seq(Event) /\ Len(<<e>> \o <<f>>) = 2
                         /\ (<<e>> \o <<f>>)[2] = f
  /\ \A e \in Event : <<>> \o <<e>> = <<e>> /\ <<e>> \o <<>> = <<e>>
  /\ <<>> \o <<>> = <<>>
OBVIOUS

(* The steps of the network thread. *)
LEMMA ThreadShell == ASSUME ShellInv, NetThread PROVE ShellInv'
<1>0. /\ MaxAttempts \in Nat /\ attempt \in 0..MaxAttempts + 1 /\ net \in {"trying", "in", "away", "over"}
      /\ net # "over" => attempt <= MaxAttempts
  BY ShellAssumption DEF ShellInv, ShellTypes
<1>5. /\ Plain("entered") \in Event /\ Plain("reconnecting") \in Event
      /\ Plain("disconnected") \in Event /\ Plain("failed") \in Event
  <2>1. \A k \in {"entered", "disconnected", "failed", "reconnecting"} : Plain(k) \in Event
    BY DEF Event
  <2> QED
    BY <2>1
<1>6. ASSUME NEW e \in Event, Sends(<<e>>), net' \in {"trying", "in"}, attempt' = attempt, net # "over"
      PROVE  ShellInv'
  <2>1. <<e>> \in Seq(Event) /\ Len(<<e>>) = 1
    BY SentEvents
  <2> QED
    BY <1>0, <1>6, <2>1, ThreadSends
<1>1. CASE EntersScene
  <2>1. Sends(<<Plain("entered")>>) /\ net' = "in" /\ attempt' = attempt /\ net = "trying"
    BY <1>1 DEF EntersScene
  <2> QED
    BY <1>5, <1>6, <2>1
<1>2. CASE SessionEnds
  <2> DEFINE told == IF net = "in" \/ attempt = 0 THEN <<Plain("disconnected")>> ELSE <<>>
  <2> DEFINE over == attempt' > MaxAttempts
  <2> DEFINE last == IF over THEN <<Plain("failed")>> ELSE <<>>
  <2>1. /\ net \in {"trying", "in"} /\ attempt' = (IF net = "in" THEN 1 ELSE attempt + 1)
        /\ Sends(told \o last) /\ net' = (IF over THEN "over" ELSE "away")
    BY <1>2 DEF SessionEnds
  <2> DEFINE f == Plain("failed")
  <2>2. f \in Event /\ f.kind = "failed"
    BY <1>5 DEF Plain
  <2>3. /\ told = <<>> \/ \E e \in Event : told = <<e>>
        /\ (last = <<>> /\ ~over) \/ (last = <<f>> /\ over)
    BY <1>5
  <2> DEFINE es == told \o last
  <2> HIDE DEF told, last, f
  <2>4. es \in Seq(Event) /\ (Len(es) = 0 \/ Len(es) = 1 \/ Len(es) = 2)
    <3>1. CASE told = <<>>
      <4>1. es = <<>> \/ es = <<f>>
        BY <2>2, <2>3, <3>1, SentEvents
      <4> QED
        BY <2>2, <4>1, SentEvents
    <3>2. CASE \E e \in Event : told = <<e>>
      <4>1. PICK e \in Event : told = <<e>>
        BY <3>2
      <4>2. es = <<e>> \/ es = <<e>> \o <<f>>
        BY <2>3, <4>1, SentEvents
      <4> QED
        BY <2>2, <4>1, <4>2, SentEvents
    <3> QED
      BY <2>3, <3>1, <3>2
  <2>5. over => Len(es) # 0 /\ es[Len(es)].kind = "failed"
    <3> SUFFICES ASSUME over PROVE Len(es) # 0 /\ es[Len(es)].kind = "failed"
      OBVIOUS
    <3>1. last = <<f>> /\ f \in Event /\ f.kind = "failed"
      BY <2>2, <2>3
    <3>2. CASE told = <<>>
      <4>1. es = <<f>>
        BY <3>1, <3>2, SentEvents
      <4>2. Len(<<f>>) = 1 /\ <<f>>[1] = f
        BY <3>1, SentEvents
      <4> QED
        BY <3>1, <4>1, <4>2
    <3>3. CASE \E e \in Event : told = <<e>>
      <4>1. PICK e \in Event : told = <<e>>
        BY <3>3
      <4>2. es = <<e>> \o <<f>> /\ Len(<<e>> \o <<f>>) = 2 /\ (<<e>> \o <<f>>)[2] = f
        BY <3>1, <4>1, SentEvents
      <4> QED
        BY <3>1, <4>2
    <3> QED
      BY <2>3, <3>2, <3>3
  <2>6. attempt' \in 0..MaxAttempts + 1 /\ (~over => attempt' <= MaxAttempts)
    <3>1. attempt' \in 0..MaxAttempts + 1
      BY <1>0, <2>1
    <3> QED
      BY <1>0, <3>1
  <2>7. /\ Len(es) <= 2 /\ Sends(es) /\ net' \in {"away", "over"}
        /\ net' # "over" => attempt' <= MaxAttempts
        /\ net' = "over" => Len(es) # 0 /\ es[Len(es)].kind = "failed"
    BY <2>1, <2>4, <2>5, <2>6
  <2> HIDE DEF over, es
  <2> QED
    BY <2>4, <2>6, <2>7, ThreadSends
<1>3. CASE TriesAgain
  <2>1. Sends(<<Plain("reconnecting")>>) /\ net' = "trying" /\ attempt' = attempt /\ net = "away"
    BY <1>3 DEF TriesAgain
  <2> QED
    BY <1>5, <1>6, <2>1
<1>4. CASE SceneTells
  <2>1. /\ \A a \in Actors \cup {Me} : About("seen", a) \in Event
        /\ \A k \in {"leave", "identity"}, a \in Actors : About(k, a) \in Event
        /\ \A c \in Chunks : About("stale", c) \in Event
    BY DEF Event
  <2>2. PICK e \in {About("seen", a) : a \in Actors \cup {Me}}
                  \cup {About(k, a) : k \in {"leave", "identity"}, a \in Actors}
                  \cup {About("stale", c) : c \in Chunks} : Sends(<<e>>)
    BY <1>4 DEF SceneTells
  <2>3. e \in Event
    BY <2>1, <2>2
  <2>4. net = "in" /\ net' = net /\ attempt' = attempt
    BY <1>4 DEF SceneTells
  <2> QED
    BY <1>6, <2>2, <2>3, <2>4
<1> QED
  BY <1>1, <1>2, <1>3, <1>4 DEF NetThread

-----------------------------------------------------------------------------
(* The window. *)

(* A program holds the same if only what it aims at changes. *)
LEMMA HoldsOn ==
  ASSUME NEW p, NEW v, NEW w, w.joined = v.joined, w.identity = v.identity, w.players = v.players,
         w.gaveUp = v.gaveUp, w.status = v.status \/ (p = "gui" /\ w.status = "blocked")
  PROVE  \A a \in Lore : Holds(p, v, a) => Holds(p, w, a)
BY DEF Holds

(* A line that aims at an actor, at a point or at nothing. *)
LEMMA LineAims ==
  ASSUME NEW p \in Programs, NEW v \in Views, Sane(p, v), NEW line \in TargetLines \cup PointLines
  PROVE  LET w == AfterLine(v, line) IN
         w \in Views /\ Sane(p, w) /\ w.pos = v.pos /\ \A a \in Lore : Holds(p, v, a) => Holds(p, w, a)
<1> DEFINE w == AfterLine(v, line)
<1>1. \/ line.kind = "target" /\ line.cid \in Actors
      \/ line.kind \in {"clear_target", "target_point", "clear_target_point"}
  BY DEF TargetLines, PointLines, Plain, About
<1>2. /\ w \in Views
      /\ w.joined = v.joined /\ w.identity = v.identity /\ w.players = v.players /\ w.gaveUp = v.gaveUp
      /\ w.status = v.status /\ w.pos = v.pos
      /\ w.tabbed = FALSE \/ (w.tabbed = v.tabbed /\ w.target = v.target)
  <2>1. CASE line.kind = "target"
    <3>1. w = Targets(v, line.cid, FALSE) /\ line.cid \in Actors
      BY <1>1, <2>1 DEF AfterLine
    <3> HIDE DEF w
    <3> QED
      BY <3>1 DEF Targets, Views
  <2>2. CASE line.kind = "clear_target"
    <3>1. w = [v EXCEPT !.target = None, !.tabbed = FALSE]
      BY <2>2 DEF AfterLine
    <3> HIDE DEF w
    <3> QED
      BY <3>1 DEF Views
  <2>3. CASE line.kind = "target_point"
    <3>1. w = [v EXCEPT !.point = TRUE, !.target = None, !.tabbed = FALSE]
      BY <2>3 DEF AfterLine
    <3> HIDE DEF w
    <3> QED
      BY <3>1 DEF Views
  <2>4. CASE line.kind = "clear_target_point"
    <3>1. w = [v EXCEPT !.point = FALSE]
      BY <2>4 DEF AfterLine
    <3> HIDE DEF w
    <3> QED
      BY <3>1 DEF Views
  <2> QED
    BY <1>1, <2>1, <2>2, <2>3, <2>4
<1> HIDE DEF w
<1>3. Sane(p, w)
  BY <1>2 DEF Sane
<1>4. \A a \in Lore : Holds(p, v, a) => Holds(p, w, a)
  BY <1>2, HoldsOn
<1> QED
  BY <1>2, <1>3, <1>4 DEF w

(* A command of the window. *)
LEMMA GuiSays ==
  ASSUME ShellInv, NEW w \in Views, Knows("gui", w), UNCHANGED <<net_vars, inbox, head_vars>>,
         Sane("gui", w), \A a \in Lore : Holds("gui", view["gui"], a) => Holds("gui", w, a)
  PROVE  ShellInv'
<1>1. /\ view \in [Programs -> Views] /\ view' = [view EXCEPT !["gui"] = w]
      /\ inbox \in [Programs -> Seq(Event)] /\ events \in Nat
  BY DEF ShellInv, ShellTypes, Knows
<1>2. /\ view' \in [Programs -> Views] /\ view'["gui"] = w /\ view'["head"] = view["head"]
      /\ Programs = {"gui", "head"}
  BY <1>1 DEF Programs
<1>3. Story'
  <2>1. \A p \in Programs, a \in Lore : Holds(p, view[p], a) => Holds(p, view'[p], a)
    BY <1>2
  <2> QED
    BY <1>1, <1>2, <2>1, SameStory DEF ShellInv, net_vars
<1>4. ShellTypes'
  BY <1>2 DEF ShellInv, ShellTypes, net_vars, head_vars
<1>5. \A p \in Programs : Sane(p, view'[p])
  BY <1>2 DEF ShellInv
<1>6. LoopHasPosition'
  BY <1>2 DEF ShellInv, LoopHasPosition, head_vars
<1> QED
  BY <1>3, <1>4, <1>5, <1>6 DEF ShellInv, Sane

(* The steps of the window. *)
LEMMA FrameShell == ASSUME ShellInv, Frame PROVE ShellInv'
<1>0. /\ "gui" \in Programs /\ view["gui"] \in Views /\ Sane("gui", view["gui"])
      /\ view \in [Programs -> Views] /\ inbox \in [Programs -> Seq(Event)]
  BY DEF ShellInv, ShellTypes, Programs
<1> DEFINE v == view["gui"]
<1>1. CASE GuiPolls
  <2> DEFINE q == inbox["gui"]
  <2> DEFINE w == GuiApply(v, Head(q))
  <2>1. /\ q # <<>> /\ q \in Seq(Event) /\ view' = [view EXCEPT !["gui"] = w]
        /\ inbox' = [inbox EXCEPT !["gui"] = Tail(@)] /\ UNCHANGED <<net_vars, head_vars>>
    BY <1>0, <1>1 DEF GuiPolls, Knows
  <2>2. Head(q) \in Event /\ Tail(q) \in Seq(Event)
    BY <2>1, HeadTailProperties
  <2>3. PICK a \in Lore : Holds("gui", v, a)
    BY <1>0, KnowsSome DEF ShellInv
  <2>4. w \in Views /\ Sane("gui", w)
    BY <1>0, <2>2, <2>3, GuiTakesEvent
  <2>5. \A b \in Lore : Holds("gui", v, b) => Holds("gui", w, Learns(b, Head(q)))
    BY <1>0, <2>2, GuiTakesEvent
  <2> HIDE DEF w
  <2>6. Story'
    BY <1>0, <2>1, <2>4, <2>5, TakesStory DEF ShellInv, net_vars
  <2>7. /\ view' \in [Programs -> Views] /\ view'["gui"] = w /\ view'["head"] = view["head"]
        /\ inbox' \in [Programs -> Seq(Event)] /\ Programs = {"gui", "head"}
    BY <1>0, <2>1, <2>2, <2>4 DEF Programs
  <2>8. ShellTypes'
    BY <2>1, <2>7 DEF ShellInv, ShellTypes, net_vars, head_vars
  <2>9. \A p \in Programs : Sane(p, view'[p])
    BY <2>4, <2>7 DEF ShellInv
  <2>10. LoopHasPosition'
    BY <2>1, <2>7 DEF ShellInv, LoopHasPosition, head_vars
  <2> QED
    BY <2>6, <2>8, <2>9, <2>10 DEF ShellInv, Sane
<1>2. CASE GuiLine
  <2>1. PICK line \in TargetLines \cup PointLines : Knows("gui", AfterLine(v, line))
    BY <1>2 DEF GuiLine
  <2>2. UNCHANGED <<net_vars, inbox, head_vars>>
    BY <1>2 DEF GuiLine, GuiTakes
  <2> QED
    BY <1>0, <2>1, <2>2, LineAims, GuiSays
<1>3. CASE GuiSkill
  <2> DEFINE blocked == [v EXCEPT !.status = "blocked"]
  <2>1. Knows("gui", v) \/ Knows("gui", blocked)
    BY <1>3 DEF GuiSkill
  <2>2. UNCHANGED <<net_vars, inbox, head_vars>>
    BY <1>3 DEF GuiSkill, GuiTakes
  <2>3. /\ blocked \in Views /\ Sane("gui", blocked) /\ blocked.joined = v.joined
        /\ blocked.identity = v.identity /\ blocked.players = v.players /\ blocked.gaveUp = v.gaveUp
        /\ blocked.status = "blocked"
    BY <1>0 DEF Views, Sane
  <2> HIDE DEF blocked
  <2>4. \A a \in Lore : Holds("gui", v, a) => Holds("gui", blocked, a)
    BY <2>3, HoldsOn
  <2> QED
    BY <1>0, <2>1, <2>2, <2>3, <2>4, GuiSays
<1>4. CASE GuiTab
  <2> DEFINE w == TabNext(v)
  <2>1. Knows("gui", w) /\ UNCHANGED <<net_vars, inbox, head_vars>>
    BY <1>4 DEF GuiTab, GuiTakes
  <2>2. \/ w = [v EXCEPT !.target = None, !.tabbed = FALSE]
        \/ \E a \in v.identity : w = Targets(v, a, TRUE)
    <3>1. CASE v.identity = {}
      BY <3>1 DEF TabNext
    <3>2. CASE v.identity # {}
      <4> DEFINE b == CHOOSE a \in v.identity : v.identity # {v.target} => a # v.target
      <4>1. \E a \in v.identity : v.identity # {v.target} => a # v.target
        BY <3>2
      <4>2. b \in v.identity
        BY <4>1
      <4> QED
        BY <3>2, <4>2 DEF TabNext
    <3> QED
      BY <3>1, <3>2
  <2> HIDE DEF w
  <2>3. /\ w \in Views /\ w.joined = v.joined /\ w.identity = v.identity /\ w.players = v.players
        /\ w.gaveUp = v.gaveUp /\ w.status = v.status /\ w.pos = v.pos
        /\ w.tabbed => w.target \in v.identity
    BY <1>0, <2>2 DEF Targets, Views
  <2>4. Sane("gui", w) /\ \A a \in Lore : Holds("gui", v, a) => Holds("gui", w, a)
    BY <1>0, <2>3, HoldsOn DEF Sane
  <2> QED
    BY <2>1, <2>3, <2>4, GuiSays
<1>5. CASE GuiPoint
  <2> DEFINE w == [v EXCEPT !.point = TRUE, !.target = None, !.tabbed = FALSE]
  <2>1. Knows("gui", w) /\ UNCHANGED <<net_vars, inbox, head_vars>>
    BY <1>5 DEF GuiPoint, GuiTakes
  <2>2. /\ w \in Views /\ w.joined = v.joined /\ w.identity = v.identity /\ w.players = v.players
        /\ w.gaveUp = v.gaveUp /\ w.status = v.status /\ w.pos = v.pos /\ w.tabbed = FALSE
    BY <1>0 DEF Views
  <2> HIDE DEF w
  <2>3. Sane("gui", w) /\ \A a \in Lore : Holds("gui", v, a) => Holds("gui", w, a)
    BY <1>0, <2>2, HoldsOn DEF Sane
  <2> QED
    BY <2>1, <2>2, <2>3, GuiSays
<1>6. CASE GuiQuit \/ GuiExits
  <2>1. UNCHANGED <<net_vars, inbox, view, head_vars>>
    BY <1>6 DEF GuiQuit, GuiExits
  <2>2. Knows("gui", v) /\ \A a \in Lore : Holds("gui", v, a) => Holds("gui", v, a)
    BY <1>0, <2>1 DEF Knows
  <2> QED
    BY <1>0, <2>1, <2>2, GuiSays
<1> QED
  BY <1>1, <1>2, <1>3, <1>4, <1>5, <1>6 DEF Frame

-----------------------------------------------------------------------------
(* The headless program. *)

(* A step of the loop that leaves the view alone. *)
LEMMA LoopShell ==
  ASSUME ShellInv, UNCHANGED <<net_vars, inbox, view>>,
         head' \in [at : Stays \cup {"scene", "ended"}, left : Nat,
                   why : {"runs", "channel gone", "no scene", "blocked", "no position", "quit"}],
         resyncs' \subseteq Chunks, asked' \subseteq Chunks, LoopHasPosition'
  PROVE  ShellInv'
<1>1. /\ view \in [Programs -> Views] /\ inbox \in [Programs -> Seq(Event)] /\ events \in Nat
      /\ view' = view /\ inbox' = inbox /\ events' = events /\ net' = net /\ attempt' = attempt
  BY DEF ShellInv, ShellTypes, net_vars
<1>2. Story'
  BY <1>1, SameStory DEF ShellInv
<1>3. ShellTypes'
  BY <1>1 DEF ShellInv, ShellTypes
<1> QED
  BY <1>1, <1>2, <1>3 DEF ShellInv, Sane

(* The steps of the loop but those that take an event or a line. *)
LEMMA LoopStays ==
  ASSUME ShellInv,
         \/ ChannelGone \/ WaitsForScene \/ HeadIdles \/ HeadSkill \/ HeadMove
         \/ HeadSample \/ HeadSettled \/ HeadWait \/ HeadWaits \/ HeadQuit
  PROVE  ShellInv'
<1> DEFINE why == {"runs", "channel gone", "no scene", "blocked", "no position", "quit"}
<1> DEFINE at == Stays \cup {"scene", "ended"}
<1>1. /\ head \in [at : at, left : Nat, why : why] /\ LoopHasPosition
      /\ resyncs \subseteq Chunks /\ asked \subseteq Chunks
      /\ view["head"].joined => view["head"].pos
  BY DEF ShellInv, ShellTypes, Sane, Programs
<1>2. UNCHANGED <<net_vars, inbox, view>>
  BY DEF ChannelGone, WaitsForScene, HeadIdles, HeadSkill, HeadMove, HeadSample, HeadSettled,
         HeadWait, HeadWaits, HeadQuit, HeadOnly, Turn, Takes
<1>3. resyncs' \subseteq Chunks /\ asked' \subseteq Chunks
  <2>1. AsksAgain \/ UNCHANGED <<resyncs, asked>>
    BY DEF ChannelGone, WaitsForScene, HeadIdles, HeadSkill, HeadMove, HeadSample, HeadSettled,
           HeadWait, HeadWaits, HeadQuit, Turn, Takes
  <2> QED
    BY <1>1, <2>1 DEF AsksAgain
<1>4. \A y \in why : AtEnd(y) /\ y # "no position"
                    => head' \in [at : at, left : Nat, why : why] /\ LoopHasPosition'
  <2> SUFFICES ASSUME NEW y \in why, AtEnd(y), y # "no position"
               PROVE  head' \in [at : at, left : Nat, why : why] /\ LoopHasPosition'
    OBVIOUS
  <2>1. head' = [head EXCEPT !.at = "ended", !.why = y]
    BY DEF AtEnd
  <2>2. head' \in [at : at, left : Nat, why : why] /\ head'.at = "ended" /\ head'.why = y
    BY <1>1, <2>1
  <2> QED
    BY <2>2 DEF LoopHasPosition, Stays
<1>5. \A x \in Stays : Goes(x) /\ view["head"].pos
                      => head' \in [at : at, left : Nat, why : why] /\ LoopHasPosition'
  <2> SUFFICES ASSUME NEW x \in Stays, Goes(x), view["head"].pos
               PROVE  head' \in [at : at, left : Nat, why : why] /\ LoopHasPosition'
    OBVIOUS
  <2>1. head' = [head EXCEPT !.at = x]
    BY DEF Goes
  <2>2. head' \in [at : at, left : Nat, why : why] /\ head'.why = head.why
    BY <1>1, <2>1
  <2>3. view' = view
    BY <1>2
  <2> QED
    BY <1>1, <2>2, <2>3 DEF LoopHasPosition
<1>6. head' = head => head' \in [at : at, left : Nat, why : why] /\ LoopHasPosition'
  BY <1>1, <1>2 DEF LoopHasPosition
<1>7. SUFFICES head' \in [at : at, left : Nat, why : why] /\ LoopHasPosition'
  BY <1>2, <1>3, LoopShell
<1>8. head.at \in Stays => view["head"].pos
  BY <1>1 DEF LoopHasPosition
<1>9. CASE ChannelGone
  BY <1>4, <1>9 DEF ChannelGone
<1>10. CASE WaitsForScene
  BY <1>1, <1>4, <1>5, <1>10 DEF WaitsForScene, Stays
<1>11. CASE HeadIdles
  BY <1>6, <1>11 DEF HeadIdles
<1>12. CASE HeadSkill
  <2>1. head' = head \/ Goes("settle") \/ AtEnd("blocked")
    BY <1>12 DEF HeadSkill
  <2>2. view["head"].pos
    BY <1>8, <1>12 DEF HeadSkill, Takes, Turn, Drained, Stays
  <2> QED
    BY <1>4, <1>5, <1>6, <2>1, <2>2 DEF Stays
<1>13. CASE HeadMove
  <2>1. view["head"].pos
    BY <1>8, <1>13 DEF HeadMove, Takes, Turn, Drained, Stays
  <2>2. head' = [head EXCEPT !.at = "moving", !.left = MaxSamples] /\ MaxSamples \in Nat
    BY <1>13, <2>1, ShellAssumption DEF HeadMove
  <2>3. head' \in [at : at, left : Nat, why : why] /\ head'.why = head.why
    BY <1>1, <2>2 DEF Stays
  <2> QED
    BY <1>1, <1>2, <2>1, <2>3 DEF LoopHasPosition
<1>14. CASE HeadSample
  <2>1. view["head"].pos
    BY <1>8, <1>14 DEF HeadSample, Drained, Stays
  <2>2. (head.left > 0 /\ head' = [head EXCEPT !.left = @ - 1]) \/ Goes("settle")
    BY <1>14 DEF HeadSample
  <2>3. CASE head.left > 0 /\ head' = [head EXCEPT !.left = @ - 1]
    <3>1. head.left \in Nat /\ head.left - 1 \in Nat
      <4>1. head.left \in Nat
        BY <1>1
      <4> QED
        BY <2>3, <4>1
    <3>2. head' = [head EXCEPT !.left = head.left - 1]
      BY <2>3
    <3>3. head' \in [at : at, left : Nat, why : why] /\ head'.why = head.why
      BY <1>1, <3>1, <3>2
    <3> QED
      BY <1>1, <1>2, <2>1, <3>3 DEF LoopHasPosition
  <2> QED
    BY <1>5, <2>1, <2>2, <2>3 DEF Stays
<1>15. CASE HeadSettled
  BY <1>5, <1>8, <1>15 DEF HeadSettled, Drained, Stays
<1>16. CASE HeadWait
  <2>1. Goes("settle") \/ Goes("waiting")
    BY <1>16 DEF HeadWait
  <2>2. view["head"].pos
    BY <1>8, <1>16 DEF HeadWait, Takes, Turn, Drained, Stays
  <2> QED
    BY <1>5, <2>1, <2>2 DEF Stays
<1>17. CASE HeadWaits
  <2>1. head' = head \/ Goes("loop")
    BY <1>17 DEF HeadWaits, Goes
  <2>2. view["head"].pos
    BY <1>8, <1>17 DEF HeadWaits, Drained, Stays
  <2> QED
    BY <1>5, <1>6, <2>1, <2>2 DEF Stays
<1>18. CASE HeadQuit
  BY <1>4, <1>18 DEF HeadQuit
<1> QED
  BY <1>9, <1>10, <1>11, <1>12, <1>13, <1>14, <1>15, <1>16, <1>17, <1>18

(* The steps of the headless program. *)
LEMMA HeadShell == ASSUME ShellInv, HeadRuns PROVE ShellInv'
<1>0. /\ "head" \in Programs /\ Programs = {"gui", "head"} /\ view["head"] \in Views
      /\ Sane("head", view["head"]) /\ view \in [Programs -> Views] /\ inbox \in [Programs -> Seq(Event)]
      /\ events \in Nat
  BY DEF ShellInv, ShellTypes, Programs
<1> DEFINE v == view["head"]
<1>1. CASE HeadDrains
  <2> DEFINE q == inbox["head"]
  <2> DEFINE w == HeadApply(v, Head(q))
  <2>1. /\ q # <<>> /\ q \in Seq(Event) /\ view' = [view EXCEPT !["head"] = w]
        /\ inbox' = [inbox EXCEPT !["head"] = Tail(@)] /\ UNCHANGED <<net_vars, head, asked>>
        /\ resyncs' = IF Head(q).kind = "stale" THEN resyncs \cup {Head(q).cid} ELSE resyncs
    BY <1>0, <1>1 DEF HeadDrains, Knows
  <2>2. Head(q) \in Event /\ Tail(q) \in Seq(Event)
    BY <2>1, HeadTailProperties
  <2>3. PICK a \in Lore : Holds("head", v, a)
    BY <1>0, KnowsSome DEF ShellInv
  <2>4. w \in Views /\ Sane("head", w) /\ (v.pos => w.pos)
    BY <1>0, <2>2, <2>3, HeadTakesEvent
  <2>5. \A b \in Lore : Holds("head", v, b) => Holds("head", w, Learns(b, Head(q)))
    BY <1>0, <2>2, HeadTakesEvent
  <2>6. resyncs' \subseteq Chunks
    <3>1. Head(q).kind = "stale" => Head(q).cid \in Chunks
      BY <2>2, EventKinds
    <3> QED
      BY <2>1, <3>1 DEF ShellInv, ShellTypes
  <2> HIDE DEF w
  <2>7. Story'
    BY <1>0, <2>1, <2>4, <2>5, TakesStory DEF ShellInv, net_vars
  <2>8. /\ view' \in [Programs -> Views] /\ view'["head"] = w /\ view'["gui"] = view["gui"]
        /\ inbox' \in [Programs -> Seq(Event)]
    BY <1>0, <2>1, <2>2, <2>4
  <2>9. ShellTypes'
    BY <2>1, <2>6, <2>8 DEF ShellInv, ShellTypes, net_vars
  <2>10. \A p \in Programs : Sane(p, view'[p])
    BY <1>0, <2>4, <2>8 DEF ShellInv
  <2>11. LoopHasPosition'
    BY <2>1, <2>4, <2>8 DEF ShellInv, LoopHasPosition
  <2> QED
    BY <2>7, <2>9, <2>10, <2>11 DEF ShellInv, Sane
<1>2. CASE HeadLine
  <2>1. PICK line \in TargetLines \cup PointLines : Knows("head", AfterLine(v, line))
    BY <1>2 DEF HeadLine
  <2>2. UNCHANGED <<net_vars, inbox, head>> /\ AsksAgain
    BY <1>2 DEF HeadLine, Takes, Turn
  <2> DEFINE w == AfterLine(v, line)
  <2>3. /\ w \in Views /\ Sane("head", w) /\ w.pos = v.pos
        /\ \A a \in Lore : Holds("head", v, a) => Holds("head", w, a)
    BY <1>0, <2>1, LineAims
  <2> HIDE DEF w
  <2>4. /\ view' = [view EXCEPT !["head"] = w] /\ view' \in [Programs -> Views]
        /\ view'["head"] = w /\ view'["gui"] = view["gui"]
    BY <1>0, <2>1, <2>3 DEF Knows, w
  <2>5. resyncs' \subseteq Chunks /\ asked' \subseteq Chunks
    BY <2>2 DEF AsksAgain, ShellInv, ShellTypes
  <2>6. Story'
    <3>1. \A p \in Programs, a \in Lore : Holds(p, view[p], a) => Holds(p, view'[p], a)
      BY <1>0, <2>3, <2>4
    <3> QED
      BY <1>0, <2>2, <2>4, <3>1, SameStory DEF ShellInv, net_vars
  <2>7. ShellTypes'
    BY <2>2, <2>4, <2>5 DEF ShellInv, ShellTypes, net_vars
  <2>8. \A p \in Programs : Sane(p, view'[p])
    BY <1>0, <2>3, <2>4 DEF ShellInv
  <2>9. LoopHasPosition'
    BY <2>2, <2>3, <2>4 DEF ShellInv, LoopHasPosition
  <2> QED
    BY <2>6, <2>7, <2>8, <2>9 DEF ShellInv, Sane
<1> QED
  BY <1>1, <1>2, LoopStays DEF HeadRuns

-----------------------------------------------------------------------------
(* The whole, and what follows from it. *)

(* Nothing is told before the first event. *)
LEMMA InitShell == ASSUME Init PROVE ShellInv
<1>1. /\ <<>> \in Seq(Event) /\ Len(<<>>) = 0 /\ 0 \in Nat
      /\ inbox = [p \in Programs |-> <<>>] /\ view = [p \in Programs |-> EmptyView]
  BY DEF Init
<1>2. EmptyView \in Views
  BY DEF EmptyView, Views
<1>3. inbox \in [Programs -> Seq(Event)] /\ view \in [Programs -> Views]
  BY <1>1, <1>2
<1>4. ShellTypes
  <2>1. MaxAttempts \in Nat
    BY ShellAssumption
  <2>2. net = "trying" /\ attempt = 0 /\ events = 0 /\ resyncs = {} /\ asked = {}
    BY DEF Init
  <2>3. head = [at |-> "scene", left |-> 0, why |-> "runs"]
    BY DEF Init
  <2> QED
    BY <1>3, <2>1, <2>2, <2>3 DEF ShellTypes
<1>5. \A p \in Programs : Sane(p, view[p])
  BY <1>1 DEF Sane, EmptyView
<1>6. LoopHasPosition
  BY DEF Init, LoopHasPosition, Stays
<1>7. Story
  <2> DEFINE tale == [n \in Nat |-> Nobody(FALSE)]
  <2>1. tale \in [Nat -> Lore] /\ tale[0] = Nobody(FALSE)
    BY DEF Nobody, Lore
  <2>2. Ends(tale)
    BY DEF Init, Ends
  <2> HIDE DEF tale
  <2>3. ASSUME NEW p \in Programs PROVE Holds(p, view[p], tale[0])
    <3>1. /\ EmptyView.joined = FALSE /\ EmptyView.identity = {} /\ EmptyView.players = {}
          /\ EmptyView.gaveUp = FALSE
      BY DEF EmptyView
    <3>2. /\ tale[0].joined = FALSE /\ tale[0].identity = {} /\ tale[0].players = {}
          /\ tale[0].gaveUp = FALSE
      BY <2>1 DEF Nobody
    <3>3. view[p] = EmptyView
      BY <1>1
    <3> QED
      BY <3>1, <3>2, <3>3 DEF Holds
  <2>4. \A p \in Programs : Len(inbox[p]) = 0 /\ events = 0
    BY <1>1 DEF Init
  <2>5. \A p \in Programs : Tells(tale, p)
    BY <2>3, <2>4 DEF Tells, Follows
  <2> QED
    BY <2>1, <2>2, <2>5 DEF Story
<1> QED
  BY <1>4, <1>5, <1>6, <1>7 DEF ShellInv

(* Every step keeps the invariant. *)
LEMMA NextShell == ASSUME ShellInv, [Next]_vars PROVE ShellInv'
<1>1. CASE Next
  BY <1>1, ThreadShell, FrameShell, HeadShell DEF Next
<1>2. CASE UNCHANGED vars
  <2>1. UNCHANGED <<net_vars, inbox, view, head_vars>>
    BY <1>2 DEF vars
  <2>2. LoopHasPosition'
    BY <2>1 DEF ShellInv, LoopHasPosition, head_vars
  <2> QED
    BY <2>1, <2>2, LoopShell DEF ShellInv, ShellTypes, head_vars
<1> QED
  BY <1>1, <1>2

(* Programs that have the same events before them know the same. *)
LEMMA KnowTheSame ==
  ASSUME ShellInv, inbox["gui"] = inbox["head"]
  PROVE  \E a \in Lore : Holds("gui", view["gui"], a) /\ Holds("head", view["head"], a)
<1>1. PICK tale \in [Nat -> Lore] : Tells(tale, "gui") /\ Tells(tale, "head")
  BY DEF ShellInv, Story, Programs
<1>2. inbox["gui"] \in Seq(Event) /\ events \in Nat
  BY DEF ShellInv, ShellTypes, Programs
<1>3. Len(inbox["gui"]) \in Nat /\ Len(inbox["gui"]) <= events
  BY <1>1, <1>2, LenProperties DEF Tells
<1>4. events - Len(inbox["gui"]) \in Nat
  BY <1>2, <1>3
<1> QED
  BY <1>1, <1>4 DEF Tells

(* What was known of both comes to the answers and orders of both. *)
LEMMA AnswerAlike ==
  ASSUME ShellInv
  PROVE  SameAnswers /\ SameOrders
<1> DEFINE g == view["gui"]
<1> DEFINE h == view["head"]
<1>1. /\ g \in Views /\ h \in Views /\ Sane("gui", g) /\ Sane("head", h)
  BY DEF ShellInv, ShellTypes, Programs
<1>2. Me \notin Actors /\ Npcs \subseteq Actors
  BY ShellAssumption
<1>3. ASSUME inbox["gui"] = inbox["head"]
      PROVE  /\ g.joined = h.joined /\ g.identity = h.identity /\ g.players = h.players \ {Me}
             /\ g.identity \subseteq Actors
  <2>1. PICK a \in Lore : Holds("gui", g, a) /\ Holds("head", h, a)
    BY <1>3, KnowTheSame
  <2>2. g.players = g.players \ {Me}
    BY <1>1 DEF Sane
  <2> QED
    BY <1>1, <2>1, <2>2 DEF Holds, Views
<1> HIDE DEF g, h
<1>4. SameAnswers
  <2> SUFFICES ASSUME inbox["gui"] = inbox["head"]
               PROVE  /\ SnapshotAnswer(g) = SnapshotAnswer(h)
                      /\ PlayersAnswer(g) = PlayersAnswer(h) \ {Me}
                      /\ NpcsAnswer(g) = NpcsAnswer(h)
    BY DEF SameAnswers, g, h
  <2>1. SnapshotAnswer(g) = SnapshotAnswer(h)
    BY <1>3 DEF SnapshotAnswer
  <2>2. PlayersAnswer(g) = PlayersAnswer(h) \ {Me}
    BY <1>3 DEF PlayersAnswer
  <2>3. NpcsAnswer(g) = NpcsAnswer(h)
    BY <1>2, <1>3 DEF NpcsAnswer
  <2> QED
    BY <2>1, <2>2, <2>3
<1>5. SameOrders
  <2> DEFINE others == TalkLines \cup WatchLines \cup BuildLines \cup QueryLines
  <2> SUFFICES ASSUME inbox["gui"] = inbox["head"], g.joined, g.target = h.target, g.point = h.point,
                      NEW line \in others \cup (IF h.players = {Me} THEN {} ELSE SkillLines)
               PROVE  GuiSends(g, line) = HeadSends(h, line)
    BY DEF SameOrders, g, h
  <2>1. g.pos /\ h.pos
    BY <1>1, <1>3 DEF Sane
  <2>2. CASE line \in others
    <3>1. line.kind # "skill"
      BY <2>2 DEF TalkLines, WatchLines, BuildLines, QueryLines, Plain, About
    <3>2. GuiBuilds(line) = HeadBuilds(line)
      BY DEF GuiBuilds, HeadBuilds
    <3>3. CASE line.kind \in {"chat", "reconcile_stats", "va-follow", "va-subscribe", "va-edit"}
      BY <2>1, <3>3 DEF GuiSends, HeadSends
    <3>4. CASE line.kind \notin {"chat", "reconcile_stats", "va-follow", "va-subscribe", "va-edit"}
      <4>1. GuiSends(g, line) = GuiBuilds(line) /\ HeadSends(h, line) = HeadBuilds(line)
        BY <3>1, <3>4 DEF GuiSends, HeadSends
      <4> QED
        BY <3>2, <4>1
    <3> QED
      BY <3>3, <3>4
  <2>3. CASE line \in SkillLines /\ h.players # {Me}
    <3>1. line.kind = "skill"
      BY <2>3 DEF SkillLines
    <3>2. g.players # {} <=> h.players # {}
      BY <1>3, <2>3
    <3> DEFINE cid == Given(line, g)
    <3>3. Given(line, h) = cid
      BY DEF Given
    <3> HIDE DEF cid
    <3>4. Castable(g, line.skill, cid) <=> Castable(h, line.skill, cid)
      BY <3>2 DEF Castable
    <3>5. Cast(g, line.skill, cid) = Cast(h, line.skill, cid)
      BY <3>4 DEF Cast
    <3>6. /\ GuiSends(g, line) = Cast(g, line.skill, cid)
          /\ HeadSends(h, line) = Cast(h, line.skill, cid)
      BY <3>1, <3>3 DEF GuiSends, HeadSends, cid
    <3> QED
      BY <3>5, <3>6
  <2> QED
    BY <2>2, <2>3
<1> QED
  BY <1>4, <1>5

(* The invariant of the two programs: each stands where the same tale of    *)
(* the events had come, at its own pace.                                    *)
THEOREM ShellInvariance == Spec => []ShellInv
  BY InitShell, NextShell, PTL DEF Spec

(* The two programs answer and send alike at the same place of the events,  *)
(* Tab aims at nobody who is gone, and a move finds a position              *)
(* (net/plugin.rs, stdio/plugin.rs, headless/runner.rs).                    *)
THEOREM ProgramsAgree == Spec => []ShellOK
<1>1. ASSUME ShellInv PROVE ShellOK
  <2>1. TypeOK
    BY <1>1 DEF ShellInv, ShellTypes, TypeOK, Views
  <2>2. TabbedIsKnown
    BY <1>1 DEF ShellInv, Sane, TabbedIsKnown
  <2>3. MoveHasPosition
    BY <1>1 DEF ShellInv, LoopHasPosition, MoveHasPosition
  <2> QED
    BY <1>1, <2>1, <2>2, <2>3, AnswerAlike DEF ShellOK
<1> QED
  BY <1>1, ShellInvariance, PTL

(* A spent reconnect budget is said by each program that took every event   *)
(* (net/runtime.rs, net/plugin.rs, headless/runner.rs).                     *)
THEOREM GivingUpIsSaid == Spec => []GaveUpIsSaid
<1>1. ASSUME ShellInv PROVE GaveUpIsSaid
  <2> SUFFICES ASSUME net = "over"
               PROVE  /\ inbox["head"] = <<>> => ~view["head"].joined /\ view["head"].status = "gave up"
                      /\ inbox["gui"] = <<>> => /\ view["gui"].gaveUp /\ ~view["gui"].joined
                                                /\ view["gui"].status \in {"gave up", "blocked"}
    BY DEF GaveUpIsSaid
  <2>1. PICK tale \in [Nat -> Lore] : Ends(tale) /\ \A p \in Programs : Tells(tale, p)
    BY <1>1 DEF ShellInv, Story
  <2>2. tale[events].gaveUp /\ ~tale[events].joined /\ events \in Nat
    BY <1>1, <2>1 DEF Ends, ShellInv, ShellTypes
  <2>3. ASSUME NEW p \in Programs, inbox[p] = <<>> PROVE Holds(p, view[p], tale[events])
    <3>1. Len(inbox[p]) = 0
      BY <2>3
    <3>2. events - 0 = events
      BY <2>2
    <3> QED
      BY <2>1, <3>1, <3>2 DEF Tells
  <2> QED
    BY <2>2, <2>3 DEF Holds, Programs
<1> QED
  BY <1>1, ShellInvariance, PTL
================================================================================
