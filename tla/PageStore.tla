------------------------------ MODULE PageStore ------------------------------
(***************************************************************************)
(* The durable side of a voxel world: the PostgreSQL tables of             *)
(* DataService.Voxel.OverlayLogStore and DataService.Voxel.PageStore, as   *)
(* operators on the sets of rows they hold.                                *)
(*                                                                         *)
(* A transaction of the overlay log is [seq, units]: its number and the    *)
(* page units (page segments) it edited.  The content of a unit is the set *)
(* of numbers of the transactions applied to it, so a stale, a torn and a  *)
(* future content are all different values.  A row of voxel_page_segment   *)
(* is [unit, cut, val]: the content of one unit written for the cut at     *)
(* sequence number cut.  A prefix is a published sequence number, or       *)
(* NoPrefix while voxel_safe_prefix has no row.                            *)
(***************************************************************************)
EXTENDS Integers, FiniteSets

NoPrefix == -1

(* The edits of unit u that the transactions T made. *)
Edits(T, u) == {t.seq : t \in {x \in T : u \in x.units}}

(* The log rows above prefix p: what a restart replays. *)
Suffix(log, p) == {t \in log : t.seq > p}

(* SELECT DISTINCT ON (unit) ... WHERE cut_seq <= p ORDER BY cut_seq DESC:  *)
(* the newest published version of unit u, at most one row.                *)
VisibleRows(seg, p, u) ==
  {r \in seg : /\ r.unit = u /\ r.cut <= p
               /\ \A n \in seg : (n.unit = u /\ n.cut <= p) => n.cut <= r.cut}

Visible(seg, p, u) == UNION {r.val : r \in VisibleRows(seg, p, u)}

(* What a restart would rebuild for unit u: the visible version and the     *)
(* replayed suffix over it; without a prefix the whole log over nothing.    *)
Recovered(log, seg, p, u) == Visible(seg, p, u) \cup Edits(Suffix(log, p), u)

(* Mutant: the cut at the prefix is cleared with the unpublished ones. *)
ClearSegmentsAtPrefix(seg, p) == {r \in seg : r.cut < p}

(* clear_unpublished: delete the rows of every cut above p. *)
ClearSegments(seg, p) == {r \in seg : r.cut <= p}
ClearGlobals(globals, p) == {g \in globals : g <= p}

(* Mutant: a newer version of any unit retires a row. *)
SupersededByAnyUnit(seg, p) ==
  {o \in seg : o.cut < p /\ \E n \in seg : n.cut > o.cut /\ n.cut <= p}

(* The versions collect may delete once p is published: below p, and with   *)
(* a newer published version of the same unit.                             *)
Superseded(seg, p) ==
  {o \in seg : /\ o.cut < p
               /\ \E n \in seg : n.unit = o.unit /\ n.cut > o.cut /\ n.cut <= p}
==============================================================================
