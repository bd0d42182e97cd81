---------------------------- MODULE PageWriteback ----------------------------
(***************************************************************************)
(* Write-back of one voxel world.  The World process is the only writer of *)
(* truth: it appends each transaction to the overlay log before it adopts  *)
(* it (VoxelRegion.World.Log), and in the background it freezes a cut of   *)
(* its dirty page units and hands it, batch by batch, to the linked writer *)
(* process (World.PageCut, World.PageWriter), which publishes the cut in   *)
(* PostgreSQL (DataService.Voxel.PageStore).  Either process may die at    *)
(* any point; both then restart and the World recovers from the tables.    *)
(***************************************************************************)
EXTENDS PageStore, Sequences

CONSTANTS
  Units,       \* page units of the world
  Callers,     \* processes that call compact
  Window,      \* batches the World may have in flight (@window)
  Batch,       \* units of one batch (@batch)
  TxnLimits,   \* backlog limits [soft, mid, hard] on suffix_txns
  UnitLimits,  \* backlog limits [soft, mid, hard] on dirty_units
  LegacyLogs,  \* logs a world may have before its first published cut
  LateCommit,  \* whether a COMMIT the dead writer had sent may be under way
  MaxSeq,      \* bound: no transaction beyond this sequence number
  MaxCrashes   \* bound: crashes of the World and its writer

VARIABLES
  (* PostgreSQL, it survives a crash *)
  log, seg, globals, prefix,
  late,        \* the cut whose COMMIT is still under way in PostgreSQL
  (* the World and its writer, lost in a crash *)
  up, seq, mem, dirty, entries, published, cut, wanted, waiters,
  wq, inbox, pumps, collecting,
  (* the scheduling state of the World *)
  timer, level, paused, tick, run,
  (* history, read by no action of the code *)
  hist,        \* every transaction whose append committed
  crashes

tables   == <<log, seg, globals, prefix>>
worldVars == <<up, seq, mem, dirty, entries, published, cut, wanted, waiters,
               wq, inbox, pumps, collecting>>
schedVars == <<timer, level, paused, tick, run>>
vars == <<tables, late, worldVars, schedVars, hist, crashes>>

Limits == [soft : Nat, mid : Nat, hard : Nat]
Txn == [seq : Nat \ {0}, units : SUBSET Units]

ASSUME ParameterAssumption ==
  /\ Window \in Nat \ {0} /\ Batch \in Nat \ {0}
  /\ TxnLimits \in Limits /\ UnitLimits \in Limits
  /\ IsFiniteSet(Units)
  /\ LegacyLogs \subseteq SUBSET {t \in Txn : t.seq <= MaxSeq}
  /\ LateCommit \in BOOLEAN
  /\ MaxSeq \in Nat /\ MaxCrashes \in Nat

Levels == {"ok", "soft", "mid", "hard"}
Prefixes == Nat \cup {NoPrefix}
Content == [Units -> SUBSET Nat]
Live == 0    \* in a content: what a thermal run has written and not committed
Empty == [u \in Units |-> {}]

(* The cut under way: attempt 0 stands for cut = nil. *)
Cut ==
  {c \in [attempt : Nat, seq : Nat, frozen : Content, units : SUBSET Units,
          todo : SUBSET Units, credits : Nat, begun : BOOLEAN, publishing : BOOLEAN] :
     c.begun => c.attempt # 0}
NoCut == [attempt |-> 0, seq |-> 0, frozen |-> Empty, units |-> {}, todo |-> {},
          credits |-> Window, begun |-> FALSE, publishing |-> FALSE]
Cutting == cut.attempt # 0

Row == [unit : Units, cut : Nat, val : SUBSET Nat]
Requests == [type : {"begin", "batch", "publish"}, attempt : Nat, seq : Nat,
             units : SUBSET Units, frozen : Content]
Replies == [type : {"begun", "ack", "published", "failed"}, attempt : Nat, seq : Nat]

-----------------------------------------------------------------------------
(* Backlog levels (PageCut.assess/1, level/1). *)

GradeOf(value, limits) ==
  IF value >= limits.hard THEN 3 ELSE IF value >= limits.mid THEN 2
  ELSE IF value >= limits.soft THEN 1 ELSE 0

LevelOf(s, p, d) ==
  IF p = NoPrefix THEN "ok"
  ELSE LET txns == GradeOf(s - p, TxnLimits)
           units == GradeOf(Cardinality(d), UnitLimits)
           grade == IF txns > units THEN txns ELSE units
       IN  CASE grade = 0 -> "ok" [] grade = 1 -> "soft"
             [] grade = 2 -> "mid" [] grade = 3 -> "hard"

AtLeastMid(l) == l \in {"mid", "hard"}

(* Mutant: the simulations paused in the mid level are never woken. *)
AssessWakesNone(l, p, r, woken) == level' = l /\ paused' = p /\ tick' = woken

(* assess: the new level; below mid it wakes the simulations it had paused. *)
(* woken: whether the caller has itself scheduled a thermal tick.           *)
Assess(l, p, r, woken) ==
  /\ level' = l
  /\ paused' = (p /\ AtLeastMid(l))
  /\ tick' = (woken \/ (p /\ ~AtLeastMid(l) /\ ~r))

-----------------------------------------------------------------------------
(* Opening a cut (PageCut.maybe_open/1). *)

Send(type, c, units) ==
  [type |-> type, attempt |-> c.attempt, seq |-> c.seq, units |-> units,
   frozen |-> IF type = "batch" THEN c.frozen ELSE Empty]

NewCut(s, m, d) ==
  [attempt |-> s + 1, seq |-> s, frozen |-> m, units |-> d, todo |-> d,
   credits |-> Window, begun |-> FALSE, publishing |-> FALSE]

(* Mutants: a cut opens inside a thermal run; one transaction opens none. *)
OpensInRun(wants, c, r, s, p) == wants /\ c.attempt = 0 /\ s > p
OpensAtTwo(wants, c, r, s, p) == wants /\ c.attempt = 0 /\ ~r /\ s > p + 1

(* The cut opens: freeze m, take the dirty units d, ask the writer to begin. *)
Opens(wants, c, r, s, p) == wants /\ c.attempt = 0 /\ ~r /\ s > p

MaybeOpen(wants, c, r, s, p, m, d, q) ==
  IF Opens(wants, c, r, s, p)
  THEN /\ cut' = NewCut(s, m, d) /\ dirty' = {} /\ wanted' = FALSE
       /\ wq' = Append(q, Send("begin", NewCut(s, m, d), {}))
  ELSE /\ cut' = c /\ dirty' = d /\ wq' = q
       /\ wanted' = (wants /\ (c.attempt # 0 \/ r))

(* A wanted cut that a thermal commit in progress holds back retries. *)
Retries(wants, c, r) == wants /\ c.attempt = 0 /\ r

-----------------------------------------------------------------------------
(* Commit: append to the log, then remember_entry.  MaxSeq leaves room for *)
(* the commit of a thermal run that has begun.                             *)

NextTxn(U) == [seq |-> seq + 1, units |-> U]
Apply(m, s, U) == [u \in Units |-> IF u \in U THEN m[u] \cup {s} ELSE m[u]]

(* remember: the units U need a row in the next cut. *)
Mark(U) == dirty \cup U

LiveUnits == {u \in Units : Live \in mem[u]}
Settled == [u \in Units |-> mem[u] \ {Live}]

AppendLog(U) ==
  /\ seq < MaxSeq
  /\ log' = log \cup {NextTxn(U)} /\ hist' = hist \cup {NextTxn(U)}

(* remember_entry after the append: content, dirty units, retained entry,   *)
(* Thermal.touch (a sleeping thermal domain gets a tick) and                *)
(* PageCut.schedule (assess, and a timer unless one or a cut is there).     *)
RememberEntry(m, U, r) ==
  /\ seq' = seq + 1
  /\ mem' = Apply(m, seq + 1, U)
  /\ entries' = entries \cup {seq + 1}
  /\ Assess(LevelOf(seq + 1, published, Mark(U)), paused, r, tick \/ ~r)

CommitTxn(U) ==
  /\ up /\ (run => seq + 1 < MaxSeq) /\ AppendLog(U)
  /\ RememberEntry(mem, U, run)
  /\ dirty' = Mark(U) /\ timer' = (timer \/ ~Cutting)
  /\ UNCHANGED <<seg, globals, prefix, late, up, published, cut, wanted, waiters,
                 wq, inbox, pumps, collecting, run, crashes>>

(* An operation of a client is refused in the hard level. *)
CommitOperation(U) == level # "hard" /\ CommitTxn(U)

(* The drop of a dead body commits in every level. *)
CommitDeathDrop(U) == CommitTxn(U)

-----------------------------------------------------------------------------
(* Simulation: a thermal run spans several messages and commits at its end. *)

(* A tick starts a run, or in the mid level waits for the write-back. *)
ThermalTick ==
  /\ up /\ tick /\ ~run
  /\ tick' = FALSE
  /\ IF AtLeastMid(level) THEN paused' = TRUE /\ run' = run
     ELSE seq < MaxSeq /\ run' = TRUE /\ paused' = paused
  /\ UNCHANGED <<tables, late, worldVars, timer, level, hist, crashes>>

(* A step of the run writes property rows of the units U in place: neither *)
(* logged nor dirty before the run commits.                                *)
ThermalStep(U) ==
  /\ up /\ run
  /\ mem' = Apply(mem, Live, U)
  /\ UNCHANGED <<tables, late, up, seq, dirty, entries, published, cut, wanted, waiters,
                 wq, inbox, pumps, collecting, schedVars, hist, crashes>>

(* The last step commits the rows the run has visited. *)
CommitThermal(U) ==
  /\ up /\ run /\ LiveUnits \subseteq U /\ AppendLog(U)
  /\ run' = FALSE
  /\ RememberEntry(Settled, U, FALSE)
  /\ timer' = (timer \/ ~Cutting)
  /\ UNCHANGED <<seg, globals, prefix, late, up, published, waiters, inbox,
                 pumps, collecting, crashes>>

(* On its own tick the domain then opens a wanted cut. *)
ThermalDone(U) ==
  /\ CommitThermal(U)
  /\ MaybeOpen(wanted, cut, FALSE, seq + 1, published, mem', Mark(U), wq)

(* Another simulation drains the run first: its commit opens no cut. *)
DrainThermal(U) ==
  /\ CommitThermal(U)
  /\ dirty' = Mark(U) /\ UNCHANGED <<cut, wanted, wq>>

-----------------------------------------------------------------------------
(* Requests for a cut (PageCut.want/1, compact/2). *)

CutTimer ==
  /\ up /\ timer
  /\ MaybeOpen(TRUE, cut, run, seq, published, mem, dirty, wq)
  /\ timer' = Retries(TRUE, cut, run)
  /\ UNCHANGED <<tables, late, up, seq, mem, entries, published, waiters, inbox,
                 pumps, collecting, level, paused, tick, run, hist, crashes>>

(* compact rebases the regions with sparse edits, whose units R it marks    *)
(* dirty; it replies at once when the current seq is published.            *)
Compact(c, R) ==
  /\ up /\ waiters[c] = NoPrefix
  /\ IF seq <= published
     THEN /\ dirty' = Mark(R)
          /\ UNCHANGED <<cut, wanted, waiters, wq, timer>>
     ELSE /\ waiters' = [waiters EXCEPT ![c] = seq]
          /\ MaybeOpen(TRUE, cut, run, seq, published, mem, Mark(R), wq)
          /\ timer' = Retries(TRUE, cut, run)
  /\ UNCHANGED <<tables, late, up, seq, mem, entries, published, inbox, pumps,
                 collecting, level, paused, tick, run, hist, crashes>>

-----------------------------------------------------------------------------
(* The writer process: one request at a time, in order (PageWriter.run/2). *)

WriterTakes(type) ==
  /\ up /\ collecting = NoPrefix /\ wq # <<>> /\ Head(wq).type = type
  /\ wq' = Tail(wq)

Reply(type) ==
  inbox' = Append(inbox, [type |-> type, attempt |-> Head(wq).attempt, seq |-> Head(wq).seq])

(* The prefix already covers the cut at c: a request repeated. *)
Covered(c) == prefix >= c

WriterBegin ==
  /\ WriterTakes("begin")
  /\ IF Covered(Head(wq).seq)
     THEN Reply("published") /\ UNCHANGED <<seg, globals>>
     ELSE /\ seg' = ClearSegments(seg, prefix)
          /\ globals' = ClearGlobals(globals, prefix)
          /\ Reply("begun")
  /\ UNCHANGED <<log, prefix, late, up, seq, mem, dirty, entries, published, cut,
                 wanted, waiters, pumps, collecting, schedVars, hist, crashes>>

RowsOf(request) ==
  {[unit |-> u, cut |-> request.seq, val |-> request.frozen[u]] : u \in request.units}

WriterBatch ==
  /\ WriterTakes("batch")
  /\ seg' = seg \cup RowsOf(Head(wq))
  /\ Reply("ack")
  /\ UNCHANGED <<log, globals, prefix, late, up, seq, mem, dirty, entries, published,
                 cut, wanted, waiters, pumps, collecting, schedVars, hist, crashes>>

(* SELECT ... FOR UPDATE of the prefix row waits for a publish under way. *)
PrefixFree == late = NoPrefix

(* One transaction locks the prefix, waiting for a publish still under way, *)
(* writes the globals row and advances the prefix; at a prefix not below   *)
(* the cut it writes nothing.                                              *)
WriterPublish ==
  /\ WriterTakes("publish") /\ PrefixFree
  /\ IF Covered(Head(wq).seq)
     THEN /\ Reply(IF prefix = Head(wq).seq THEN "published" ELSE "failed")
          /\ UNCHANGED <<globals, prefix, collecting>>
     ELSE /\ globals' = globals \cup {Head(wq).seq}
          /\ prefix' = Head(wq).seq
          /\ Reply("published")
          /\ collecting' = Head(wq).seq
  /\ UNCHANGED <<log, seg, late, up, seq, mem, dirty, entries, published, cut,
                 wanted, waiters, pumps, schedVars, hist, crashes>>

(* collect deletes at most @collect_batch rows of a kind per statement,     *)
(* here any of the retired rows, until none is left.                       *)
WriterCollect ==
  /\ up /\ collecting # NoPrefix
  /\ \E L \in SUBSET {t \in log : t.seq <= collecting},
        S \in SUBSET Superseded(seg, collecting),
        G \in SUBSET {g \in globals : g < collecting} :
       /\ L # {} \/ S # {} \/ G # {}
       /\ log' = log \ L /\ seg' = seg \ S /\ globals' = globals \ G
  /\ UNCHANGED <<prefix, late, worldVars, schedVars, hist, crashes>>

WriterCollected ==
  /\ up /\ collecting # NoPrefix
  /\ \A t \in log : t.seq > collecting
  /\ Superseded(seg, collecting) = {}
  /\ \A g \in globals : g >= collecting
  /\ collecting' = NoPrefix
  /\ UNCHANGED <<tables, late, up, seq, mem, dirty, entries, published, cut, wanted,
                 waiters, wq, inbox, pumps, schedVars, hist, crashes>>

-----------------------------------------------------------------------------
(* Replies of the writer (PageCut.handle/2, pump/1). *)

Receive(type) ==
  /\ up /\ inbox # <<>> /\ Head(inbox).type = type
  /\ inbox' = Tail(inbox)

Current == Cutting /\ Head(inbox).attempt = cut.attempt

Least(a, b) == IF a < b THEN a ELSE b

(* Mutant: batches are sent without credit. *)
MaySendUnbounded(c) == ~c.publishing /\ c.todo # {}

MaySend(c) == ~c.publishing /\ c.todo # {} /\ c.credits > 0
MayPublish(c) == ~c.publishing /\ c.todo = {} /\ c.credits = Window

(* pump: send the next batch of c, or with every batch acknowledged the     *)
(* publish request; more units to send leave a :page_pump in the mailbox.  *)
Pump(c, n) ==
  \/ /\ MaySend(c)
     /\ \E B \in SUBSET c.todo :
          /\ Cardinality(B) = Least(Batch, Cardinality(c.todo))
          /\ cut' = [c EXCEPT !.todo = @ \ B, !.credits = @ - 1]
          /\ wq' = Append(wq, Send("batch", c, B))
          /\ pumps' = IF c.todo # B THEN n + 1 ELSE n
  \/ /\ MayPublish(c)
     /\ cut' = [c EXCEPT !.publishing = TRUE]
     /\ wq' = Append(wq, Send("publish", c, {}))
     /\ pumps' = n
  \/ /\ ~MaySend(c) /\ ~MayPublish(c)
     /\ cut' = c /\ wq' = wq /\ pumps' = n

HandlerFrame ==
  UNCHANGED <<tables, late, up, seq, mem, dirty, entries, published, wanted,
              waiters, collecting, schedVars, hist, crashes>>

PageBegun ==
  /\ Receive("begun")
  /\ IF Current THEN Pump([cut EXCEPT !.begun = TRUE], pumps)
     ELSE UNCHANGED <<cut, wq, pumps>>
  /\ HandlerFrame

(* Mutant: an acknowledgement gives no credit back. *)
NotCredited == cut

Credited == [cut EXCEPT !.credits = @ + 1]

PageAck ==
  /\ Receive("ack")
  /\ IF Current THEN Pump(Credited, pumps)
     ELSE UNCHANGED <<cut, wq, pumps>>
  /\ HandlerFrame

PagePump ==
  /\ up /\ pumps > 0
  /\ IF cut.begun THEN Pump(cut, pumps - 1)
     ELSE pumps' = pumps - 1 /\ UNCHANGED <<cut, wq>>
  /\ UNCHANGED inbox
  /\ HandlerFrame

(* Mutant: every waiter is answered. *)
EveryWaiter(p) == Callers

CoveredWaiters(p) == {c \in Callers : waiters[c] <= p}
Retained(p) == {s \in entries : s > p}

StillWaiting(p) ==
  [c \in Callers |-> IF c \in CoveredWaiters(p) THEN NoPrefix ELSE waiters[c]]

(* published: retire the retained entries, answer the covered waiters,      *)
(* assess, below the soft level rebase large regions R, then open the next *)
(* cut a waiter wants and schedule one for the commits since.              *)
Confirm(p, R) ==
  LET wants == \E c \in Callers : StillWaiting(p)[c] # NoPrefix
      first == LevelOf(seq, p, dirty)
      resumed == paused /\ ~AtLeastMid(first)
  IN
  /\ first # "ok" => R = {}
  /\ published' = p /\ entries' = Retained(p) /\ waiters' = StillWaiting(p)
  /\ MaybeOpen(wants, NoCut, run, seq, p, mem, Mark(R), wq)
  /\ timer' = (timer \/ Retries(wants, NoCut, run) \/ (seq > p /\ cut' = NoCut))
  /\ IF seq > p
     THEN Assess(LevelOf(seq, p, dirty'), paused /\ ~resumed, run,
                 tick \/ (resumed /\ ~run))
     ELSE Assess(first, paused, run, tick)

PagePublished ==
  /\ Receive("published")
  /\ IF Current THEN \E R \in SUBSET Units : Confirm(Head(inbox).seq, R)
     ELSE UNCHANGED <<published, entries, waiters, cut, dirty, wanted, wq, timer,
                      level, paused, tick>>
  /\ UNCHANGED <<tables, late, up, seq, mem, pumps, collecting, run, hist, crashes>>

-----------------------------------------------------------------------------
(* Death of the World and its linked writer, and the restart. *)

Lost ==
  /\ up' = FALSE /\ seq' = 0 /\ mem' = Empty /\ dirty' = {} /\ entries' = {}
  /\ published' = NoPrefix /\ cut' = NoCut /\ wanted' = FALSE
  /\ waiters' = [c \in Callers |-> NoPrefix]
  /\ wq' = <<>> /\ inbox' = <<>> /\ pumps' = 0 /\ collecting' = NoPrefix
  /\ timer' = FALSE /\ level' = "ok" /\ paused' = FALSE /\ tick' = FALSE
  /\ run' = FALSE
  /\ crashes' = crashes + 1

(* The publish request the writer was executing, if PostgreSQL had its      *)
(* COMMIT: it may complete after the World has restarted.                  *)
Committing ==
  IF LateCommit /\ late = NoPrefix /\ wq # <<>> /\ collecting = NoPrefix
     /\ Head(wq).type = "publish" /\ prefix < Head(wq).seq
  THEN {Head(wq).seq} ELSE {}

(* Any failed statement kills the process that made it, and the link the   *)
(* other one; so does a "failed" reply, on which the World raises.         *)
Crash ==
  /\ up /\ crashes < MaxCrashes
  /\ Lost
  /\ late' \in {late} \cup Committing
  /\ UNCHANGED <<tables, hist>>

(* The append committed, but its result never reached the World. *)
CrashInAppend(U) ==
  /\ up /\ crashes < MaxCrashes
  /\ AppendLog(U)
  /\ Lost
  /\ UNCHANGED <<seg, globals, prefix, late>>

(* That transaction completes, or is rolled back. *)
LatePublish ==
  /\ late # NoPrefix /\ late' = NoPrefix
  /\ \/ globals' = globals \cup {late} /\ prefix' = late
     \/ UNCHANGED <<globals, prefix>>
  /\ UNCHANGED <<log, seg, worldVars, schedVars, hist, crashes>>

(* restore_pages and init: load the published versions, replay the suffix;  *)
(* without a prefix clear every unpublished row, replay the whole log and  *)
(* cut every unit at once.                                                 *)
Restart ==
  LET replayed == Suffix(log, prefix)
      first == prefix = NoPrefix
      loaded == [u \in Units |-> Recovered(log, seg, prefix, u)]
      touched == UNION {t.units : t \in replayed}
      heads == {IF first THEN 0 ELSE prefix} \cup {t.seq : t \in replayed}
  IN
  /\ ~up /\ up' = TRUE
  /\ seg' = IF first THEN ClearSegments(seg, NoPrefix) ELSE seg
  /\ globals' = IF first THEN ClearGlobals(globals, NoPrefix) ELSE globals
  /\ \E s \in heads :
       /\ \A h \in heads : h <= s
       /\ seq' = s
       /\ MaybeOpen(first, NoCut, FALSE, s, prefix, loaded,
                    IF first THEN {u \in Units : loaded[u] # {}} ELSE touched, <<>>)
       /\ level' = LevelOf(s, prefix, dirty')
  /\ mem' = loaded
  /\ entries' = {t.seq : t \in replayed}
  /\ published' = prefix
  /\ timer' = (replayed # {})
  /\ paused' = FALSE /\ tick' = TRUE
  /\ UNCHANGED <<log, prefix, late, waiters, inbox, pumps, collecting, run, hist,
                 crashes>>

-----------------------------------------------------------------------------
Init ==
  /\ log \in LegacyLogs /\ hist = log
  /\ seg = {} /\ globals = {} /\ prefix = NoPrefix /\ late = NoPrefix
  /\ up = FALSE /\ seq = 0 /\ mem = Empty /\ dirty = {} /\ entries = {}
  /\ published = NoPrefix /\ cut = NoCut /\ wanted = FALSE
  /\ waiters = [c \in Callers |-> NoPrefix]
  /\ wq = <<>> /\ inbox = <<>> /\ pumps = 0 /\ collecting = NoPrefix
  /\ timer = FALSE /\ level = "ok" /\ paused = FALSE /\ tick = FALSE /\ run = FALSE
  /\ crashes = 0

Writer ==
  WriterBegin \/ WriterBatch \/ WriterPublish \/ WriterCollect \/ WriterCollected

Handler == PageBegun \/ PageAck \/ PagePump \/ PagePublished

Next ==
  \/ \E U \in SUBSET Units :
       \/ CommitOperation(U) \/ CommitDeathDrop(U)
       \/ ThermalStep(U) \/ ThermalDone(U) \/ DrainThermal(U) \/ CrashInAppend(U)
  \/ \E c \in Callers, R \in SUBSET Units : Compact(c, R)
  \/ ThermalTick \/ CutTimer \/ Writer \/ Handler
  \/ Crash \/ Restart

Spec == Init /\ [][Next]_vars

(* The same, where what a dead writer had sent may still complete. *)
LateNext == Next \/ LatePublish
LateSpec == Init /\ [][LateNext]_vars

(* The World and its writer take their messages, a timer that is set fires, *)
(* a thermal run that has begun ends, and the supervisor restarts them.    *)
Fairness ==
  /\ WF_vars(Writer) /\ WF_vars(Handler) /\ WF_vars(CutTimer) /\ WF_vars(Restart)
  /\ WF_vars(\E U \in SUBSET Units : ThermalDone(U) \/ DrainThermal(U))

FairSpec == Spec /\ Fairness

-----------------------------------------------------------------------------
(* The state is well typed. *)
TypeOK ==
  /\ log \subseteq Txn /\ seg \subseteq Row /\ globals \subseteq Nat
  /\ prefix \in Prefixes /\ late \in Prefixes
  /\ up \in BOOLEAN /\ seq \in Nat /\ mem \in Content
  /\ dirty \subseteq Units /\ entries \subseteq Nat /\ published \in Prefixes
  /\ cut \in Cut /\ wanted \in BOOLEAN /\ waiters \in [Callers -> Prefixes]
  /\ wq \in Seq(Requests) /\ inbox \in Seq(Replies) /\ pumps \in Nat
  /\ collecting \in Prefixes
  /\ timer \in BOOLEAN /\ level \in Levels /\ paused \in BOOLEAN
  /\ tick \in BOOLEAN /\ run \in BOOLEAN
  /\ hist \subseteq Txn /\ crashes \in Nat

(* The published prefix never falls, not even by a publish of a dead writer *)
(* that completes behind a restarted World (LateSpec).                     *)
PrefixRises == [][prefix' >= prefix]_vars

(* Whatever has been published, half written, collected or lost with a dead *)
(* process, a restart at this moment rebuilds every unit with exactly the  *)
(* edits that were ever appended, and finds the globals row it reads.      *)
Recoverable ==
  /\ \A u \in Units : Recovered(log, seg, prefix, u) = Edits(hist, u)
  /\ prefix # NoPrefix => prefix \in globals

(* A row, published or not, holds its unit exactly as of its cut: the      *)
(* freeze keeps the commits made during write-back out of it, and no cut   *)
(* freezes a thermal run half way.                                         *)
RowsAreSnapshots ==
  \A r \in seg : r.val = {s \in Edits(hist, r.unit) : s <= r.cut}

(* An edit above the confirmed prefix is in a unit that the cut under way   *)
(* took, or, made since, in a unit still dirty: none falls between two cuts. *)
NothingForgotten ==
  up => \A t \in hist : t.seq > published =>
          t.units \subseteq IF Cutting /\ t.seq <= cut.seq THEN cut.units ELSE dirty

(* The World holds every edit and between runs nothing else, and for late   *)
(* subscribers retains exactly the transactions above its confirmed prefix. *)
MemoryIsCurrent ==
  up => /\ \A u \in Units : mem[u] \ {Live} = Edits(hist, u)
        /\ ~run => LiveUnits = {}
        /\ entries = {t.seq : t \in {x \in hist : x.seq > published}}

(* The World confirms a prefix only after it is durable, and what is        *)
(* durable but unconfirmed is the cut under way, never refused by the      *)
(* publish transaction.                                                    *)
ConfirmedIsDurable ==
  up => /\ published <= prefix
        /\ prefix # published => Cutting /\ prefix = cut.seq
        /\ \A i \in 1..Len(inbox) : inbox[i].type # "failed"

(* No credit is lost or invented: a cut has Window batches less those sent  *)
(* and not yet acknowledged, so the publish request comes after them all.  *)
Unacknowledged ==
  Cardinality({i \in 1..Len(wq) : wq[i].type = "batch"})
    + Cardinality({i \in 1..Len(inbox) : inbox[i].type = "ack"})
FlowControl == cut.credits + Unacknowledged = Window

(* A simulation that waits for the write-back is resumed when the backlog   *)
(* falls: the thermal domain always runs, is scheduled or waits in mid.    *)
SimulationKept ==
  up => /\ tick \/ run \/ paused
        /\ paused => AtLeastMid(level)

(* What the tables, the memory and the marks keep of the world, in every     *)
(* state.                                                                   *)
StateKept == RowsAreSnapshots /\ NothingForgotten /\ MemoryIsCurrent /\ ConfirmedIsDurable

(* What keeps the simulation and the batches going, in every state.         *)
SchedulingKept == SimulationKept /\ FlowControl

-----------------------------------------------------------------------------
(* The inductive invariant, part by part. *)

(* A sequence number no later transaction can take. *)
Reached(c) == c <= 0 \/ \E t \in hist : c <= t.seq

LogKept ==
  /\ log \subseteq hist
  /\ \A t \in hist : t \in log \/ t.seq <= prefix

SegmentsKept ==
  /\ \A r \in seg : Reached(r.cut)
  /\ \A t \in hist : t.seq <= prefix =>
       \A u \in t.units : \E r \in seg : r.unit = u /\ t.seq <= r.cut /\ r.cut <= prefix
  /\ prefix # NoPrefix => prefix \in globals

HeadReached ==
  /\ Reached(prefix)
  /\ up => Reached(seq) /\ prefix <= seq /\ \A t \in hist : t.seq <= seq
  /\ collecting <= prefix
  /\ ~up => wq = <<>> /\ inbox = <<>> /\ ~run /\ collecting = NoPrefix

CutFrozen ==
  up /\ Cutting =>
    /\ cut.attempt = cut.seq + 1 /\ published < cut.seq /\ cut.seq <= seq
    /\ \A u \in Units : cut.frozen[u] = {s \in Edits(hist, u) : s <= cut.seq}
    /\ cut.publishing => cut.todo = {}

WriterQueue ==
  up => /\ wq # <<>> => Cutting
        /\ \A i \in 1..Len(wq) :
             /\ wq[i].seq = cut.seq
             /\ wq[i].attempt = cut.attempt
             /\ wq[i].type = "begin" => i = 1
             /\ wq[i].type = "batch" => wq[i].frozen = cut.frozen
             /\ wq[i].type = "publish" => i = Len(wq) /\ cut.publishing

(* Each unit of the cut has still to be sent, is in a queued batch or has   *)
(* its row, which no queued begin will clear.                              *)
CutWritten ==
  up /\ Cutting /\ prefix < cut.seq =>
    \A u \in cut.units :
      \/ u \in cut.todo
      \/ \E i \in 1..Len(wq) : wq[i].type = "batch" /\ u \in wq[i].units
      \/ /\ \E r \in seg : r.unit = u /\ r.cut = cut.seq
         /\ \A i \in 1..Len(wq) : wq[i].type # "begin"

Confirmation ==
  up => /\ prefix # published => wq = <<>> /\ cut.publishing
        /\ \A i \in 1..Len(inbox) :
             /\ inbox[i].attempt = inbox[i].seq + 1
             /\ inbox[i].type = "published" => inbox[i].seq <= prefix

IInv ==
  /\ TypeOK /\ late = NoPrefix
  /\ LogKept /\ SegmentsKept /\ RowsAreSnapshots /\ HeadReached
  /\ MemoryIsCurrent /\ NothingForgotten
  /\ CutFrozen /\ WriterQueue /\ CutWritten /\ ConfirmedIsDurable /\ Confirmation

(* Messages between World and writer: one for the begin of a cut and for its *)
(* publish, Window less its credits while batches are under way.            *)
OnlyOf(q, T) == \A i \in 1..Len(q) : q[i].type \in T
Waiting == Len(wq) + Len(inbox)

Beginning ==
  /\ ~cut.begun /\ ~cut.publishing /\ cut.credits = Window /\ Waiting = 1
  /\ OnlyOf(wq, {"begin"}) /\ OnlyOf(inbox, {"begun"})
Sending ==
  /\ cut.begun /\ ~cut.publishing /\ cut.credits + Waiting = Window
  /\ OnlyOf(wq, {"batch"}) /\ OnlyOf(inbox, {"ack"})
Publishing ==
  /\ cut.begun /\ cut.publishing /\ cut.credits = Window /\ Waiting = 1
  /\ OnlyOf(wq, {"publish"}) /\ OnlyOf(inbox, {"published"})

(* The stages of a cut, and none without a World. *)
Pipeline ==
  /\ up \/ ~Cutting
  /\ IF Cutting
     THEN /\ \A i \in 1..Len(inbox) : inbox[i].attempt = cut.attempt
          /\ Beginning \/ Sending \/ Publishing
     ELSE wq = <<>> /\ inbox = <<>> /\ cut.credits = Window

-----------------------------------------------------------------------------
(* compact answers only when the prefix covers the seq it was called at. *)
CompactIsDurable ==
  [][\A c \in Callers :
       (waiters[c] # NoPrefix /\ waiters'[c] = NoPrefix /\ up') => waiters[c] <= prefix]_vars

(* Every caller of compact is answered, or loses the World it called. *)
CompactAnswered == \A c \in Callers : waiters[c] # NoPrefix ~> waiters[c] = NoPrefix

(* Every transaction is published in the end, across restarts. *)
EverythingPublished ==
  \A s \in 1..MaxSeq : (\E t \in hist : t.seq = s) ~> prefix >= s

(* The backlog recedes: commits are admitted again and a paused simulation  *)
(* resumes without new input.                                              *)
BacklogRecedes == (level = "hard" ~> level # "hard") /\ (paused ~> ~paused)

(* What is appended is published, and back-pressure ends with it. *)
BacklogEnds == EverythingPublished /\ BacklogRecedes

(* The tables, the writer and the restart implement the ledger. *)
HeadOf(T) == CHOOSE s \in {t.seq : t \in T} \cup {0} : \A t \in T : t.seq <= s
Ledger == INSTANCE WorldLedger WITH
  head <- HeadOf(hist), safe <- prefix,
  rebuilt <- [u \in Units |-> Recovered(log, seg, prefix, u)]
LedgerSpec == Ledger!LedgerSpec
=============================================================================
