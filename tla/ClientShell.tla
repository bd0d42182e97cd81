---------------------------- MODULE ClientShell ----------------------------
(***************************************************************************)
(* The two programs that read the network thread's events and carry out    *)
(* what is typed on the attached console: the windowed client, frame by    *)
(* frame, and the headless one, whose loop blocks in a move or a wait      *)
(* (src/clients/bevy_client/src: net/plugin.rs, stdio, headless, skill).   *)
(* Both are given the same events; each takes them at its own pace.        *)
(* Commands that only answer, or only pass one command on, change nothing  *)
(* here: they are operators, and events that only change numbers shown are *)
(* left out.                                                               *)
(* Voxel truth, prediction and the lane have modules of their own.         *)
(***************************************************************************)
EXTENDS Integers, FiniteSets, Sequences

CONSTANTS
    Me,           \* the own character
    Actors,       \* the others
    Npcs,         \* those of them that are NPCs
    Chunks,       \* chunks whose deltas may not fit
    None,
    MaxAttempts,  \* MAX_RECONNECT_ATTEMPTS
    MaxSamples,   \* inputs a typed move sends at most
    MaxEvents,    \* bound on the events of a behaviour
    MaxTyped      \* bound on the commands the two take between them

ASSUME ShellAssumption ==
    /\ Npcs \subseteq Actors /\ Me \notin Actors /\ None \notin Actors \cup {Me}
    /\ {MaxAttempts, MaxSamples, MaxEvents, MaxTyped} \subseteq Nat

VARIABLES
    net,      \* the network thread: "trying", "in", "away" or "over"
    attempt,  \* its failed attempts in a row
    events,   \* events it has sent, for the bound MaxEvents
    inbox,    \* [program -> events sent to it and not yet taken]
    view,     \* [program -> what it knows]
    gui,      \* the windowed client: "runs", "leaving" or "ended"
    head,     \* the headless loop: [at, left, why]
    mode,     \* the headless program: "stdio" or "script"
    resyncs,  \* chunks the headless store wants again
    asked,    \* chunks it has asked for again
    typed     \* commands taken so far, for the bound MaxTyped

net_vars == <<net, attempt, events>>
head_vars == <<head, mode, resyncs, asked>>
vars == <<net_vars, inbox, view, gui, head_vars, typed>>

Programs == {"gui", "head"}
Plain(kind) == [kind |-> kind]
About(kind, cid) == [kind |-> kind, cid |-> cid]

EmptyView == [joined |-> FALSE, gaveUp |-> FALSE, status |-> "told", pos |-> FALSE,
              players |-> {}, identity |-> {}, target |-> None, tabbed |-> FALSE, point |-> FALSE]
----------------------------------------------------------------------------
(* The network thread, as far as the order of its events goes.              *)

Sends(es) ==
    /\ events + Len(es) <= MaxEvents
    /\ events' = events + Len(es)
    /\ inbox' = [p \in Programs |-> inbox[p] \o es]
    /\ UNCHANGED <<view, gui, head_vars, typed>>

EntersScene ==
    /\ net = "trying" /\ net' = "in"
    /\ Sends(<<Plain("entered")>>)
    /\ UNCHANGED attempt

\* A session that had joined starts the count of attempts afresh; one that
\* never joined is told of only the first time.
SessionEnds ==
    /\ net \in {"trying", "in"}
    /\ attempt' = IF net = "in" THEN 1 ELSE attempt + 1
    /\ LET told == IF net = "in" \/ attempt = 0 THEN <<Plain("disconnected")>> ELSE <<>>
           over == attempt' > MaxAttempts
       IN  /\ Sends(told \o (IF over THEN <<Plain("failed")>> ELSE <<>>))
           /\ net' = IF over THEN "over" ELSE "away"

TriesAgain ==
    /\ net = "away" /\ net' = "trying"
    /\ Sends(<<Plain("reconnecting")>>)
    /\ UNCHANGED attempt

\* An entry or a move shows an actor; a player's own may come back to it.
SceneTells ==
    /\ net = "in"
    /\ \E e \in {About("seen", a) : a \in Actors \cup {Me}}
                \cup {About(k, a) : k \in {"leave", "identity"}, a \in Actors}
                \cup {About("stale", c) : c \in Chunks} : Sends(<<e>>)
    /\ UNCHANGED <<net, attempt>>
----------------------------------------------------------------------------
(* What each program makes of an event.                                     *)

NoTarget(v) == [v EXCEPT !.target = None, !.point = FALSE, !.tabbed = FALSE]
NoRemotes(v) == [v EXCEPT !.players = {}, !.identity = {}]
Targets(v, cid, tab) == [v EXCEPT !.target = cid, !.point = FALSE, !.tabbed = tab]

Leave(v, cid) ==
    LET w == [v EXCEPT !.players = @ \ {cid}, !.identity = @ \ {cid}]
    IN  IF v.target = cid THEN [w EXCEPT !.target = None, !.tabbed = FALSE] ELSE w

\* The windowed client knows itself and never lists itself.
GuiEntered(v) == [NoTarget(NoRemotes(v)) EXCEPT !.joined = TRUE, !.gaveUp = FALSE,
                                                !.status = "told", !.pos = TRUE]
GuiDropped(v) == [NoTarget(NoRemotes(v)) EXCEPT !.joined = FALSE, !.gaveUp = FALSE,
                                                !.status = "told", !.pos = FALSE]
GuiMeets(v, cid) == IF cid = Me THEN v ELSE [v EXCEPT !.players = @ \cup {cid}]

GuiApply(v, e) ==
    CASE e.kind = "entered" -> GuiEntered(v)
      [] e.kind = "disconnected" -> GuiDropped(v)
      [] e.kind = "reconnecting" -> [v EXCEPT !.joined = FALSE, !.gaveUp = FALSE, !.status = "retrying"]
      [] e.kind = "failed" -> [v EXCEPT !.joined = FALSE, !.gaveUp = TRUE, !.status = "gave up"]
      [] e.kind = "seen" -> GuiMeets(v, e.cid)
      [] e.kind = "leave" -> Leave(v, e.cid)
      [] e.kind = "identity" -> [v EXCEPT !.identity = @ \cup {e.cid}]
      [] e.kind = "stale" -> v

\* The headless one keeps its target over a scene entry, and its position over
\* a disconnect.
HeadEntered(v) == [NoRemotes(v) EXCEPT !.joined = TRUE, !.pos = TRUE]
\* As if only the target went.
HeadDroppedKeeps(v) == [NoTarget(v) EXCEPT !.joined = FALSE, !.status = "told"]
HeadDropped(v) == [NoTarget(NoRemotes(v)) EXCEPT !.joined = FALSE, !.status = "told"]

\* As if the reconnect events fell through to the last arm.
HeadIgnores(v) == v
HeadGivesUp(v) == [v EXCEPT !.joined = FALSE, !.status = "gave up"]

HeadApply(v, e) ==
    CASE e.kind = "entered" -> HeadEntered(v)
      [] e.kind = "disconnected" -> HeadDropped(v)
      [] e.kind = "reconnecting" -> [v EXCEPT !.joined = FALSE, !.status = "retrying"]
      [] e.kind = "failed" -> HeadGivesUp(v)
      [] e.kind = "seen" -> [v EXCEPT !.players = @ \cup {e.cid}]
      [] e.kind = "leave" -> Leave(v, e.cid)
      [] e.kind = "identity" -> [v EXCEPT !.identity = @ \cup {e.cid}]
      [] e.kind = "stale" -> v
----------------------------------------------------------------------------
(* Answers to queries, and the check before a skill is cast.                *)

SnapshotAnswer(v) ==
    [joined |-> v.joined, people |-> Cardinality(v.identity \ Npcs),
     npcs |-> Cardinality(v.identity \cap Npcs)]
PlayersAnswer(v) == v.players \ (v.identity \cap Npcs)
NpcsAnswer(v) == v.players \cap v.identity \cap Npcs

\* A cast that is sure to fail is not sent: it needs its own kind of target
\* or some actor in sight.
Skills == {"actor", "point", "other"}
Castable(v, skill, cid) ==
    \/ v.players # {}
    \/ skill = "actor" /\ cid # None
    \/ skill = "point" /\ v.point
    \/ skill = "other"

\* What a typed line can ask for.
TargetLines == {About("target", a) : a \in Actors} \cup {Plain("clear_target")}
PointLines == {Plain("target_point"), Plain("clear_target_point")}
SkillLines == {[kind |-> "skill", skill |-> s, cid |-> a] : s \in Skills, a \in Actors \cup {None}}

AfterLine(v, line) ==
    CASE line.kind = "target" -> Targets(v, line.cid, FALSE)
      [] line.kind = "clear_target" -> [v EXCEPT !.target = None, !.tabbed = FALSE]
      [] line.kind = "target_point" -> [v EXCEPT !.point = TRUE, !.target = None, !.tabbed = FALSE]
      [] line.kind = "clear_target_point" -> [v EXCEPT !.point = FALSE]

Given(line, v) == IF line.cid # None THEN line.cid ELSE v.target

\* Lines for the network thread, and lines that only answer.  Moves are left
\* out: the window follows them frame by frame, the headless loop at once.
TalkLines == {Plain("chat"), Plain("reconcile_stats"), Plain("va-follow")}
WatchLines == {About(k, c) : k \in {"va-subscribe", "va-edit"}, c \in Chunks}
BuildLines == {About(k, c) : k \in {"va-prefab", "va-surface", "va-unsubscribe"}, c \in Chunks}
QueryLines == {Plain(k) : k \in {"position", "transport", "diag_render", "echo", "va-fields"}}
              \cup {About(k, c) : k \in {"va-chunk", "va-semi", "va-surface-list"}, c \in Chunks}
NothingSent == Plain("nothing")

\* What a cast names: an actor, a point, or neither, for the server to choose.
Cast(v, skill, cid) ==
    IF ~Castable(v, skill, cid) THEN NothingSent
    ELSE [kind |-> "CastSkillTargeted", cid |-> IF skill = "point" THEN None ELSE cid,
          point |-> skill = "point" /\ v.point]

GuiBuilds(line) ==
    CASE line.kind = "va-unsubscribe" -> About("UnsubscribeChunks", line.cid)
      [] line.kind = "va-prefab" -> About("PlacePrefab", line.cid)
      [] line.kind = "va-surface" -> About("PlaceSurfaceElement", line.cid)
      [] OTHER -> NothingSent
GuiSends(v, line) ==
    CASE line.kind = "chat" -> Plain("Chat")
      [] line.kind = "reconcile_stats" -> Plain("RequestReconcileStats")
      [] line.kind = "skill" -> Cast(v, line.skill, Given(line, v))
      [] line.kind = "va-subscribe" -> About("SubscribeChunks", line.cid)
      [] line.kind = "va-edit" -> About("EditVoxel", line.cid)
      [] line.kind = "va-follow" -> IF v.pos THEN Plain("SubscribeChunks") ELSE NothingSent
      [] OTHER -> GuiBuilds(line)

\* The headless program: the same, from its own match.
HeadBuilds(line) ==
    CASE line.kind = "va-prefab" -> About("PlacePrefab", line.cid)
      [] line.kind = "va-surface" -> About("PlaceSurfaceElement", line.cid)
      [] line.kind = "va-unsubscribe" -> About("UnsubscribeChunks", line.cid)
      [] OTHER -> NothingSent
HeadSends(v, line) ==
    CASE line.kind = "skill" -> Cast(v, line.skill, Given(line, v))
      [] line.kind = "chat" -> Plain("Chat")
      [] line.kind = "reconcile_stats" -> Plain("RequestReconcileStats")
      [] line.kind = "va-follow" -> IF v.pos THEN Plain("SubscribeChunks") ELSE NothingSent
      [] line.kind = "va-subscribe" -> About("SubscribeChunks", line.cid)
      [] line.kind = "va-edit" -> About("EditVoxel", line.cid)
      [] OTHER -> HeadBuilds(line)
----------------------------------------------------------------------------
(* The windowed client.  A frame takes every event there is and then its    *)
(* commands; an event that comes in between waits for the next frame, so a  *)
(* command may find any number of them not taken.                           *)

Steps == typed < MaxTyped /\ typed' = typed + 1
Knows(p, v) == view' = [view EXCEPT ![p] = v]

GuiPolls ==
    /\ gui = "runs" /\ inbox["gui"] # <<>>
    /\ Knows("gui", GuiApply(view["gui"], Head(inbox["gui"])))
    /\ inbox' = [inbox EXCEPT !["gui"] = Tail(@)]
    /\ UNCHANGED <<net_vars, gui, head_vars, typed>>

GuiTakes == gui # "ended" /\ Steps /\ UNCHANGED <<net_vars, inbox, gui, head_vars>>

GuiLine ==
    /\ GuiTakes
    /\ \E line \in TargetLines \cup PointLines : Knows("gui", AfterLine(view["gui"], line))

\* A refused cast takes the place of the connection's status.
GuiSkill ==
    /\ GuiTakes
    /\ \E line \in SkillLines :
          Knows("gui", IF Castable(view["gui"], line.skill, Given(line, view["gui"]))
                       THEN view["gui"] ELSE [view["gui"] EXCEPT !.status = "blocked"])

\* Tab goes round the actors whose identity is known.
TabNext(v) ==
    IF v.identity = {} THEN [v EXCEPT !.target = None, !.tabbed = FALSE]
    ELSE Targets(v, CHOOSE a \in v.identity : v.identity # {v.target} => a # v.target, TRUE)

GuiTab == GuiTakes /\ Knows("gui", TabNext(view["gui"]))

GuiPoint ==
    /\ GuiTakes
    /\ Knows("gui", [view["gui"] EXCEPT !.point = TRUE, !.target = None, !.tabbed = FALSE])

\* What is left of the frame's commands is carried out behind a quit.
GuiQuit ==
    /\ gui = "runs" /\ Steps /\ gui' = "leaving"
    /\ UNCHANGED <<net_vars, inbox, view, head_vars>>
GuiExits ==
    /\ gui = "leaving" /\ gui' = "ended"
    /\ UNCHANGED <<net_vars, inbox, view, head_vars, typed>>
----------------------------------------------------------------------------
(* The headless program.  It drains the events wherever it waits; when the  *)
(* network thread is gone and its last event taken, draining is an error.   *)

AtEnd(why) == head' = [head EXCEPT !.at = "ended", !.why = why]
Goes(at) == head' = [head EXCEPT !.at = at]

HeadDrains ==
    /\ head.at # "ended" /\ inbox["head"] # <<>>
    /\ LET e == Head(inbox["head"])
       IN  /\ Knows("head", HeadApply(view["head"], e))
           /\ resyncs' = IF e.kind = "stale" THEN resyncs \cup {e.cid} ELSE resyncs
    /\ inbox' = [inbox EXCEPT !["head"] = Tail(@)]
    /\ UNCHANGED <<net_vars, gui, head, mode, asked, typed>>

Drained(at) == head.at = at /\ inbox["head"] = <<>>
HeadOnly == UNCHANGED <<net_vars, inbox, view, gui, mode, typed>>

ChannelGone ==
    /\ head.at # "ended" /\ inbox["head"] = <<>> /\ net = "over"
    /\ AtEnd("channel gone")
    /\ HeadOnly /\ UNCHANGED <<resyncs, asked>>

WaitsForScene ==
    /\ Drained("scene")
    /\ IF view["head"].joined THEN Goes("loop") ELSE AtEnd("no scene")
    /\ HeadOnly /\ UNCHANGED <<resyncs, asked>>

\* As if the loop asked for nothing while a command waits.
AsksUnlessTyped == typed = MaxTyped /\ asked' = asked \cup resyncs /\ resyncs' = {}
\* Only the console's loop and its wait ask again; a script's never does.
AsksAgain ==
    IF mode = "stdio" THEN asked' = asked \cup resyncs /\ resyncs' = {}
    ELSE UNCHANGED <<resyncs, asked>>

\* A turn of the loop: drain, ask again, and at most one command.
Turn == Drained("loop") /\ AsksAgain /\ UNCHANGED <<net_vars, inbox, gui, mode>>
Takes == Turn /\ Steps

HeadIdles == Turn /\ resyncs' # resyncs /\ UNCHANGED <<head, view, typed>>

HeadLine ==
    /\ Takes /\ mode = "stdio" /\ UNCHANGED head
    /\ \E line \in TargetLines \cup PointLines : Knows("head", AfterLine(view["head"], line))

\* A refused cast ends a script; the console is told and goes on.
HeadSkill ==
    /\ Takes /\ UNCHANGED view
    /\ \E line \in SkillLines :
          IF mode = "stdio" THEN UNCHANGED head
          ELSE IF Castable(view["head"], line.skill, view["head"].target)
          THEN Goes("settle") ELSE AtEnd("blocked")

HeadMove ==
    /\ Takes /\ UNCHANGED view
    /\ IF view["head"].pos
       THEN head' = [head EXCEPT !.at = "moving", !.left = MaxSamples]
       ELSE AtEnd("no position")

\* Each sample follows a drain; a brake ends the move whatever happened.
HeadSample ==
    /\ Drained("moving")
    /\ IF head.left > 0
       THEN head' = [head EXCEPT !.left = @ - 1] ELSE Goes("settle")
    /\ HeadOnly /\ UNCHANGED <<resyncs, asked>>

HeadSettled ==
    /\ Drained("settle") /\ Goes("loop")
    /\ HeadOnly /\ UNCHANGED <<resyncs, asked>>

HeadWait ==
    /\ Takes /\ UNCHANGED view
    /\ Goes(IF mode = "script" THEN "settle" ELSE "waiting")

HeadWaits ==
    /\ Drained("waiting") /\ AsksAgain
    /\ head' \in {head, [head EXCEPT !.at = "loop"]}
    /\ HeadOnly

\* Typed, or put last in the queue by the reader when the input ends.
HeadQuit == Takes /\ UNCHANGED view /\ AtEnd("quit")
----------------------------------------------------------------------------
Init ==
    /\ net = "trying" /\ attempt = 0 /\ events = 0
    /\ inbox = [p \in Programs |-> <<>>]
    /\ view = [p \in Programs |-> EmptyView]
    /\ gui = "runs"
    /\ head = [at |-> "scene", left |-> 0, why |-> "runs"]
    /\ mode \in {"stdio", "script"}
    /\ resyncs = {} /\ asked = {}
    /\ typed = 0

NetThread == EntersScene \/ SessionEnds \/ TriesAgain \/ SceneTells
Frame ==
    \/ GuiPolls \/ GuiLine \/ GuiSkill \/ GuiTab \/ GuiPoint \/ GuiQuit \/ GuiExits
HeadRuns ==
    \/ HeadDrains \/ ChannelGone \/ WaitsForScene \/ HeadIdles
    \/ HeadLine \/ HeadSkill \/ HeadMove \/ HeadSample \/ HeadSettled
    \/ HeadWait \/ HeadWaits \/ HeadQuit

Next == NetThread \/ Frame \/ HeadRuns

\* The headless loop runs on by itself: it drains, samples, settles and asks.
Fairness ==
    /\ WF_vars(HeadDrains) /\ WF_vars(WaitsForScene) /\ WF_vars(HeadIdles)
    /\ WF_vars(HeadSample) /\ WF_vars(HeadSettled) /\ WF_vars(HeadWaits)
Spec == Init /\ [][Next]_vars /\ Fairness
----------------------------------------------------------------------------
TypeOK ==
    /\ net \in {"trying", "in", "away", "over"}
    /\ attempt \in 0..MaxAttempts + 1
    /\ \A p \in Programs : view[p].players \subseteq Actors \cup {Me}
                           /\ view[p].identity \subseteq Actors
    /\ resyncs \subseteq Chunks /\ asked \subseteq Chunks

\* Given the same events the two programs answer alike: joined or not, how
\* many people and NPCs, who is where - but for the player itself, which the
\* headless list may hold (runner.rs and stdio/plugin.rs, "parity").
SameAnswers ==
    inbox["gui"] = inbox["head"] =>
        LET g == view["gui"]
            h == view["head"]
        IN  /\ SnapshotAnswer(g) = SnapshotAnswer(h)
            /\ PlayersAnswer(g) = PlayersAnswer(h) \ {Me}
            /\ NpcsAnswer(g) = NpcsAnswer(h)

\* In a scene, with the same events taken and the same target, a line makes the
\* two programs send the same command.  A cast is excepted where the headless
\* list holds nobody but the player itself, which counts there as someone to
\* aim at (run_stdio in headless/runner.rs, poll_stdio_commands in
\* stdio/plugin.rs).
SameOrders ==
    LET g == view["gui"]
        h == view["head"]
        lines == TalkLines \cup WatchLines \cup BuildLines \cup QueryLines
                 \cup (IF h.players = {Me} THEN {} ELSE SkillLines)
    IN  inbox["gui"] = inbox["head"] /\ g.joined /\ g.target = h.target /\ g.point = h.point
            => \A line \in lines : GuiSends(g, line) = HeadSends(h, line)

\* A target picked with Tab is an actor the client still knows: leaving,
\* dropping and entering anew all take it away (skill/plugin.rs, net/plugin.rs).
TabbedIsKnown == \A p \in Programs : view[p].tabbed => view[p].target \in view[p].identity

\* Once the scene was joined a headless move is never refused for want of a
\* position, whatever was lost in between (run_move in headless/runner.rs).
MoveHasPosition == head.why # "no position"

\* The two programs agree on what they answer and send, neither aims with Tab
\* at an actor that is gone, and a move finds a position.
ShellOK == TypeOK /\ SameAnswers /\ SameOrders /\ TabbedIsKnown /\ MoveHasPosition

\* When the reconnect budget is spent, a program that has taken every event
\* says so and is in no scene; in the window only a refused cast may hide it.
GaveUpIsSaid ==
    net = "over" =>
        /\ inbox["head"] = <<>> => ~view["head"].joined /\ view["head"].status = "gave up"
        /\ inbox["gui"] = <<>> => /\ view["gui"].gaveUp /\ ~view["gui"].joined
                                  /\ view["gui"].status \in {"gave up", "blocked"}

\* On the console every chunk whose delta did not fit is asked for again, even
\* behind a move or a wait, unless the program ends first.
ResyncsAsked ==
    \A c \in Chunks : (mode = "stdio" /\ c \in resyncs) ~> (c \in asked \/ head.at = "ended")
============================================================================
