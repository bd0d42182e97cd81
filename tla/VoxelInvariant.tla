---------------------------- MODULE VoxelInvariant -----------------------------
(* The inductive invariant of VoxelView.  What is under way is taken by the     *)
(* app in whole frames only, so it is stated of what the app comes to when it   *)
(* has taken everything that is under way (Due), and of the commands the server *)
(* will then have before it (Orders).                                           *)
EXTENDS VoxelView

Versions == Nat \ {0}
(* A chunk as the server had it at that version. *)
Truths == {[version |-> v, edits |-> 1..v] : v \in Versions}
Stores == UNION {[C -> Truths] : C \in SUBSET Chunks}
Centers == {CenterOf(TileOf(c)) : c \in Chunks}
Payloads ==
  [kind : {"snapshot"}, chunk : Chunks, version : Versions]
  \cup [kind : {"delta"}, chunk : Chunks, base : Versions]
  \cup [kind : {"invalidate"}, chunk : Chunks]
  \cup [kind : {"light"}, light : 0..2]
Notices == [kind : {"entered", "position"}, chunk : Chunks] \cup [kind : {"disconnected"}]
Messages == Payloads \cup Notices
Claimed == UNION {[C -> Versions] : C \in SUBSET Chunks}
Commands ==
  [kind : {"subscribe"}, center : Int, radius : Nat, known : Claimed]
  \cup [kind : {"unsubscribe"}, chunks : SUBSET Chunks]
Apps ==
  [joined : BOOLEAN, center : {NoCenter} \cup Centers, attempts : 0..MaxRetries,
   held : Stores, dirty : SUBSET Chunks, light : 0..2, gate : SUBSET Chunks,
   wanted : SUBSET Chunks, inbox : Seq(Payloads), out : Seq(Commands)]

(* Between two frames nothing is left inside the app. *)
Rests(a) == a.wanted = {} /\ a.inbox = << >> /\ a.out = << >> /\ (a.joined => a.center # NoCenter)

ViewTypes ==
  /\ ver \in [Chunks -> Versions] /\ ready \in BOOLEAN /\ linked \in BOOLEAN
  /\ subs \subseteq Chunks /\ owed \subseteq subs /\ pos \in Chunks
  /\ up \in Seq(Commands) /\ down \in Seq(Messages)
  /\ app \in Apps /\ Rests(app)
  /\ queue \in Seq(Chunks) /\ IsInjective(queue) /\ stale \subseteq Chunks
  /\ disk \in Stores

(* What is held or kept is not ahead of the server.                             *)
Behind(v, f) == \A c \in DOMAIN f : f[c].version <= v[c]
(* What is under way is not ahead of the server, nor behind what is held.       *)
Fresh(v, a, m) ==
  /\ m.kind = "snapshot" => /\ m.version <= v[m.chunk]
                            /\ m.chunk \in Held(a) => a.held[m.chunk].version <= m.version
  /\ m.kind = "delta" => /\ m.base < v[m.chunk]
                         /\ m.chunk \in Held(a) => a.held[m.chunk].version <= m.base
AllFresh ==
  Behind(ver, app.held) /\ Behind(ver, disk) /\ \A i \in 1..Len(down) : Fresh(ver, app, down[i])

(* Without a session or a region the server serves nobody. *)
Served == (~ready => subs = {}) /\ (~linked => subs = {} /\ up = << >>)

(* What the app comes to. *)
Due == Ingested(Polled(app, down))
Orders == up \o Due.out

Covers(cmd, c) == cmd.kind = "subscribe" /\ c \in Window(cmd.center, cmd.radius)
Claims(v, cmd, c) == Covers(cmd, c) /\ c \in DOMAIN cmd.known /\ cmd.known[c] = v[c]
(* Served, it has the chunk sent again, or no longer subscribed.                *)
Mends(v, cmd, c) ==
  \/ cmd.kind = "unsubscribe" /\ c \in cmd.chunks
  \/ Covers(cmd, c) /\ ~(c \in DOMAIN cmd.known /\ cmd.known[c] = v[c])

(* The chunk needs no snapshot but by the orders after the first n of them.     *)
Settled(v, a, c) ==
  \/ c \in a.gate
  \/ a.center = NoCenter \/ c \notin Window(a.center, Radius)
  \/ c \in Held(a) /\ a.held[c].version = v[c]
Provided(v, a, orders, n, c) ==
  Settled(v, a, c) \/ \E j \in n + 1..Len(orders) : Mends(v, orders[j], c)

(* What the client claims to know it does know, or it will be sent: when the    *)
(* server believes it, and when it has believed it.                             *)
NeverAhead(v, cmd) == cmd.kind = "subscribe" => \A c \in DOMAIN cmd.known : cmd.known[c] <= v[c]
Trusted(v, a, orders) ==
  \A n \in 1..Len(orders) :
    /\ NeverAhead(v, orders[n])
    /\ \A c \in Chunks : Claims(v, orders[n], c) => Provided(v, a, orders, n, c)
Believed ==
  /\ Trusted(ver, Due, Orders)
  /\ \A c \in subs \ owed : Provided(ver, Due, Orders, 0, c)

ViewInv == ViewTypes /\ AllFresh /\ Served /\ Believed /\ MeshCurrent
================================================================================
