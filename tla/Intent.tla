------------------------------- MODULE Intent -------------------------------
(***************************************************************************)
(* finalizeAction: what was said becomes a typed action.  Names resolve    *)
(* against the snapshot, "this" and "here" against the gaze ring at the    *)
(* word, and what cannot be resolved becomes a question.                   *)
(*                                                                         *)
(* Of an action's confidence, note and labels nothing is kept: the         *)
(* executor reads none of them.  Distances are in centimetres.             *)
(*                                                                         *)
(* Operators no one uses, each before the one it varies, are that one with *)
(* a plausible bug.                                                        *)
(***************************************************************************)
EXTENDS GazeResolver, RuleIntent

Active == "active"      \* leave the choice to the compositor's selection

ASSUME ActiveAssumption == Active \notin DOMAIN NameWords

Sources == {"none", "active", "named", "semantic", "deixis"}

\* SAction before anything is resolved.
Unresolved(r) ==
  [verb |-> r.verb, target |-> None, source |-> "none", anchor |-> r.anchor, sub |-> r.sub,
   delta |-> r.delta, app |-> <<>>, window |-> None, workspace |-> r.workspace,
   gaze |-> NoGaze, asked |-> {}]

Ask(a) == [a EXCEPT !.verb = "clarify"]
AskWhich(a, candidates) == [Ask(a) EXCEPT !.asked = candidates]
Aim(a, target, source) == [a EXCEPT !.target = target, !.source = source]
AimAtGaze(a, gz) == [Aim(a, gz.name, "deixis") EXCEPT !.gaze = gz]

isIndex(n) == n \in 1 .. 99
onLiveMonitor(gz, ctx) == gz.valid /\ gz.name # None /\ hasMonitor(ctx, gz.name)
-----------------------------------------------------------------------------
(* The parts of a resolution.                                              *)

Abs(n) == IF n < 0 THEN -n ELSE n

\* An amount counts only if a unit was spoken; the direction spoken wins.
sanitizeDeltaM(delta, u) ==
  LET asked == Abs(delta)
      mag   == IF says(u, {"meter", "meters", "foot", "feet"}) /\ asked \in 5 .. 100 THEN asked
               ELSE IF Step # 0 THEN Abs(Step) ELSE 25
      pull  == says(u, {"closer", "nearer", "bring"}) \/ saysPair(u, "come", "here")
      push  == says(u, {"further", "farther", "away", "back", "push"})
  IN  IF pull \/ (~push /\ delta <= 0) THEN -mag ELSE mag

\* "the active one", and no other word, speaks the compositor's selection.
namesActiveTarget(phrase) ==
  LET selected == {"active", "focused", "focus", "current", "selected"}
  IN  /\ says(phrase, selected)
      /\ ToSet(phrase) \subseteq selected \cup MonitorNouns \cup {"one", "thing"}

named(r, ctx) == IF namesActiveTarget(r.target) THEN NoMatch ELSE resolveMonitor(ctx, r.target)

deixisIsSubject(r) == r.deictic /\ ~r.isPlace

\* A name competes with "this" for the subject, but not with "here".
pointed(r, ring, ctx) ==
  LET sem == named(r, ctx)
  IN  IF /\ r.deictic /\ ~namesActiveTarget(r.target)
         /\ deixisIsSubject(r) => ~sem.matched \/ sem.candidates # {}
      THEN resolveDeixis(r.wordAt, ring, ctx) ELSE NoGaze

\* The monitor half of a move: by side, by name, by gaze; else a question.
resolveMoveDestination(a, r, gz, ctx) ==
  LET mon == IF r.spatial # "none" THEN resolveSpatialMonitor(ctx, r.spatial)
             ELSE resolveMonitor(ctx, r.monitor)
  IN  IF mon.candidates # {} THEN AskWhich(a, mon.candidates)
      ELSE IF mon.matched
      THEN Aim(a, mon.name, IF r.spatial # "none" THEN "semantic" ELSE "named")
      ELSE IF r.spatial = "none" /\ onLiveMonitor(gz, ctx) THEN AimAtGaze(a, gz)
      ELSE Ask(a)
-----------------------------------------------------------------------------
(* One operator per kind of verb.                                          *)

switchWorkspace(a) == IF isIndex(a.workspace) THEN a ELSE Ask(a)

launchApp(a, r) == IF r.app = <<>> THEN Ask(a) ELSE [a EXCEPT !.app = r.app]

moveWorkspace(a, r, gz, ctx) ==
  IF isIndex(a.workspace) THEN resolveMoveDestination(a, r, gz, ctx) ELSE Ask(a)

\* The name is minted here, and is that of no monitor.
createMonitor(a, gz, ctx) ==
  LET name == nextXrMonitorName(ctx)
  IN  IF name = None THEN Ask(a) ELSE [Aim(a, name, "named") EXCEPT !.gaze = gz]

\* A window that was named and not found is a question; "this" is not a name.
moveWindow(a, r, gz, ctx) ==
  LET win == resolveWindow(ctx, r.window)
      it  == [a EXCEPT !.window = win.name]
  IN  IF win.candidates # {} THEN AskWhich(a, win.candidates)
      ELSE IF ~win.matched /\ r.window # <<>> /\ ~isDeicticWindowPhrase(r.window) THEN Ask(a)
      ELSE IF r.toWorkspace THEN (IF isIndex(a.workspace) THEN it ELSE Ask(it))
      ELSE resolveMoveDestination(it, r, gz, ctx)

focusOrFullscreen(a, r, gz, ctx) ==
  LET win == resolveWindow(ctx, r.target)
  IN  IF win.candidates # {} THEN AskWhich(a, win.candidates)
      ELSE IF win.matched THEN [a EXCEPT !.window = win.name, !.source = "semantic"]
      ELSE IF a.verb = "focus" /\ ~r.deictic THEN Ask(a)
      ELSE IF onLiveMonitor(gz, ctx) THEN AimAtGaze(a, gz)
      ELSE Aim(a, Active, "active")

\* "here" is a pose; the thing placed is the one named, else the one selected.
place(a, r, gz, ctx) ==
  LET sem == named(r, ctx)
      it  == IF sem.matched /\ sem.candidates = {} THEN Aim(a, sem.name, "semantic")
             ELSE Aim(a, Active, IF gz.valid THEN "deixis" ELSE "active")
  IN  [it EXCEPT !.gaze = gz]

\* Nothing named, nothing pointed at: where a bare motion was looking when it
\* began, else the pointer's monitor, else the selection.
fallBack(a, r, ring, ctx) ==
  LET bare == resolveDeixis(1, ring, ctx)
      hov  == hoveredMonitor(ctx)
  IN  IF a.verb = "move_dist" /\ onLiveMonitor(bare, ctx) THEN AimAtGaze(a, bare)
      ELSE IF hov # None THEN Aim(a, hov, "active") ELSE Aim(a, Active, "active")

\* The other monitor verbs.
monitorVerbGuessing(a, r, gz, ring, ctx) ==
  LET sem == named(r, ctx)
  IN  IF namesActiveTarget(r.target) THEN Aim(a, Active, "active")
      ELSE IF sem.matched THEN [Aim(a, sem.name, "semantic") EXCEPT !.asked = sem.candidates]
      ELSE IF gz.valid /\ gz.name # None THEN AimAtGaze(a, gz)
      ELSE fallBack([a EXCEPT !.gaze = gz], r, ring, ctx)
monitorVerb(a, r, gz, ring, ctx) ==
  LET sem == named(r, ctx)
  IN  IF namesActiveTarget(r.target) THEN Aim(a, Active, "active")
      ELSE IF sem.matched THEN [Aim(a, sem.name, "semantic") EXCEPT !.asked = sem.candidates]
      ELSE IF gz.valid /\ gz.name # None THEN AimAtGaze(a, gz)
      ELSE IF deixisIsSubject(r) THEN Ask([a EXCEPT !.gaze = gz])
      ELSE fallBack([a EXCEPT !.gaze = gz], r, ring, ctx)
-----------------------------------------------------------------------------
finalizeAction(r, t, ring, ctx) ==
  LET gz == pointed(r, ring, ctx)
      a  == [Unresolved(r) EXCEPT
               !.delta = IF r.verb = "move_dist" THEN sanitizeDeltaM(r.delta, t.words) ELSE @]
  IN  CASE r.verb \in {"none", "hand_input", "monitor_view"} -> a
        [] r.verb = "workspace"                  -> switchWorkspace(a)
        [] r.verb = "launch_app"                 -> launchApp(a, r)
        [] r.verb = "move_workspace"             -> moveWorkspace(a, r, gz, ctx)
        [] r.verb = "create_monitor"             -> createMonitor(a, gz, ctx)
        [] r.verb = "move_window"                -> moveWindow(a, r, gz, ctx)
        [] r.verb \in {"focus", "fullscreen"}    -> focusOrFullscreen(a, r, gz, ctx)
        [] r.verb = "place"                      -> place(a, r, gz, ctx)
        [] OTHER                                 -> monitorVerb(a, r, gz, ring, ctx)

\* CRuleIntent::resolve: the rule-based backend, end to end.
resolve(t, ring, ctx) == finalizeAction(detect(t), t, ring, ctx)
=============================================================================
