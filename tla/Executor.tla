------------------------------ MODULE Executor ------------------------------
(***************************************************************************)
(* planFor, validateStep and the precondition of a step: a typed action    *)
(* becomes a plan of hyprctl commands, each from a closed set.             *)
(*                                                                         *)
(* A command is a record: what it does, and the monitor, window, number or *)
(* word it does it with.  A reason for a refusal is one word.              *)
(*                                                                         *)
(* Operators no one uses, each before the one it varies, are that one with *)
(* a plausible bug.                                                        *)
(***************************************************************************)
EXTENDS Intent

CONSTANTS
  Apps,    \* the applications in the launch allowlist
  Plain    \* the monitor names of letters, digits, "-", "_" and "." only

\* SExecConfig: the switches.
Config == [dryRun : BOOLEAN, xrmonitor : BOOLEAN, launch : BOOLEAN, window : BOOLEAN,
           create : BOOLEAN, targetedGrab : BOOLEAN, placeAtPose : BOOLEAN]

\* SExecStep: `wait' is the monitor that must be there before it runs.
do(cmd) == [cmd |-> cmd, mon |-> None, win |-> None, num |-> 0, arg |-> "", wait |-> None]
doAt(cmd, mon) == [do(cmd) EXCEPT !.mon = mon]
doOn(cmd, mon, arg) == [doAt(cmd, mon) EXCEPT !.arg = arg]
doNumber(cmd, n) == [do(cmd) EXCEPT !.num = n]
doWord(cmd, arg) == [do(cmd) EXCEPT !.arg = arg]
focusWindow(win) == [do("focuswindow") EXCEPT !.win = win]
moveWorkspaceTo(n, mon) == [doAt("moveworkspacetomonitor", mon) EXCEPT !.num = n]
placeAt(mon, gaze) == [doAt("place", mon) EXCEPT !.num = gaze.place]
placeNew(mon, gaze) == [placeAt(mon, gaze) EXCEPT !.wait = mon]

Plan(steps) == [ok |-> TRUE, why |-> "", steps |-> steps]
Refuse(why) == [ok |-> FALSE, why |-> why, steps |-> <<>>]

\* A point that went through projectPlacePoint is never at the head.
hasPoint(gaze) == gaze.valid /\ gaze.place > 0
isActive(target) == target \in {None, Active}
isLive(target, ctx) == ~isActive(target) /\ hasMonitor(ctx, target)
-----------------------------------------------------------------------------
(* Windows and workspaces.                                                 *)

planMoveWorkspace(a, ctx) ==
  IF ~isIndex(a.workspace) THEN Refuse("range")
  ELSE IF ~isLive(a.target, ctx) THEN Refuse("not live")
  ELSE Plan(<<moveWorkspaceTo(a.workspace, a.target)>>)

planSwitch(a) ==
  IF isIndex(a.workspace) THEN Plan(<<doNumber("workspace", a.workspace)>>) ELSE Refuse("range")

\* Hyprland moves the active window: focus the one that was named first.
focusFirst(a) == IF a.window = None THEN <<>> ELSE <<focusWindow(a.window)>>

planMoveFocused(a, ctx) ==
  IF a.workspace \in 1 .. 99 THEN Plan(<<doNumber("movetoworkspace", a.workspace)>>)
  ELSE IF isLive(a.target, ctx) THEN Plan(<<doAt("movewindow", a.target)>>)
  ELSE Refuse("not live")
planMoveWindow(a, ctx) ==
  IF a.window # None /\ ~hasWindow(ctx, a.window) THEN Refuse("not live")
  ELSE IF a.workspace > 99 THEN Refuse("range")
  ELSE IF a.workspace > 0
  THEN Plan(focusFirst(a) \o <<doNumber("movetoworkspace", a.workspace)>>)
  ELSE IF ~isLive(a.target, ctx) THEN Refuse("not live")
  ELSE Plan(focusFirst(a) \o <<doAt("movewindow", a.target)>>)

\* "This window" on the monitor looked at: go there first.
lookFirst(a, ctx) ==
  IF a.window # None THEN focusFirst(a)
  ELSE IF a.source = "deixis" /\ a.target # None /\ hasMonitor(ctx, a.target)
  THEN <<doAt("focusmonitor", a.target)>> ELSE <<>>

planFocus(a, ctx) ==
  IF a.window # None /\ ~hasWindow(ctx, a.window) THEN Refuse("not live")
  ELSE IF a.verb = "fullscreen"
  THEN Plan(lookFirst(a, ctx)
            \o <<doWord("fullscreen", IF a.sub = "maximize" THEN "1" ELSE "0")>>)
  ELSE IF lookFirst(a, ctx) = <<>> THEN Refuse("no subject")
  ELSE Plan(lookFirst(a, ctx))

planWindow(a, ctx, cfg) ==
  IF ~cfg.window THEN Refuse("disabled")
  ELSE CASE a.verb = "move_workspace" -> planMoveWorkspace(a, ctx)
         [] a.verb = "workspace"      -> planSwitch(a)
         [] a.verb = "move_window"    -> planMoveWindow(a, ctx)
         [] OTHER                     -> planFocus(a, ctx)
-----------------------------------------------------------------------------
(* XR monitors.                                                            *)

\* A new monitor registers late, so its placement waits for it.
planCreate(a, ctx, cfg) ==
  LET placed == IF hasPoint(a.gaze) THEN <<placeNew(a.target, a.gaze)>> ELSE <<>>
  IN  IF ~cfg.create THEN Refuse("disabled")
      ELSE IF a.target \notin ToSet(Creatable) THEN Refuse("not a name")
      ELSE IF hasMonitor(ctx, a.target) THEN Refuse("exists")
      ELSE Plan(<<doAt("create", a.target)>> \o placed)

\* Commands without a monitor of their own act on the selection.
selected(a, steps) ==
  IF isActive(a.target) THEN steps ELSE <<doAt("select", a.target)>> \o steps

addressed(a) == IF isActive(a.target) THEN Active ELSE a.target

planPick(a, cfg) ==
  IF cfg.targetedGrab /\ ~isActive(a.target) THEN Plan(<<doAt("gazegrab", a.target)>>)
  ELSE Plan(selected(a, <<doOn("anchor", addressed(a), "head")>>))

planPlace(a, cfg) ==
  IF cfg.placeAtPose /\ hasPoint(a.gaze) THEN Plan(<<placeAt(addressed(a), a.gaze)>>)
  ELSE Plan(<<doOn("anchor", addressed(a), "local")>>)

planDistance(a) ==
  Plan(selected(a, <<doNumber("distance", IF a.delta # 0 THEN a.delta ELSE -Step)>>))

planFollow(a) ==
  LET roam == IF a.anchor \in {"head", "body"} THEN a.anchor
              ELSE IF a.sub \in {"head", "body"} THEN a.sub ELSE ""
      on   == <<doWord("adaptive", "on")>>
  IN  Plan(selected(a, IF roam = "" THEN on ELSE on \o <<doWord("roam", roam)>>))

planAnchor(a) ==
  IF a.anchor = "unset" THEN Refuse("unspecified")
  ELSE Plan(<<doOn("anchor", addressed(a), a.anchor)>>)

planSwitchable(cmd, sub, words) ==
  LET w == IF sub = "" THEN "toggle" ELSE sub
  IN  IF w \in words THEN Plan(<<doWord(cmd, w)>>) ELSE Refuse("unspecified")

planDock(a) == Plan(selected(a, <<doWord("dock", IF a.sub = "here" THEN "here" ELSE "")>>))

planMonitor(a, ctx, cfg) ==
  IF ~isActive(a.target) /\ ~hasMonitor(ctx, a.target) THEN Refuse("not live")
  ELSE CASE a.verb = "pick"      -> planPick(a, cfg)
         [] a.verb = "place"     -> planPlace(a, cfg)
         [] a.verb = "move_dist" -> planDistance(a)
         [] a.verb = "center"    -> Plan(selected(a, <<do("center")>>))
         [] a.verb = "dock"      -> planDock(a)
         [] a.verb = "undock"    -> Plan(selected(a, <<do("undock")>>))
         [] a.verb = "follow"    -> planFollow(a)
         [] a.verb = "anchor"    -> planAnchor(a)
         [] a.verb = "hand_input" -> planSwitchable("handinput", a.sub, {"on", "off", "auto", "toggle"})
         [] a.verb = "monitor_view" -> planSwitchable("view", a.sub, {"on", "off", "toggle"})
         [] OTHER                -> Refuse("unspecified")
-----------------------------------------------------------------------------
planForUngated(a, ctx, cfg) ==
  IF a.verb = "none" THEN Refuse("out of scope")
  ELSE IF a.verb = "clarify" THEN Refuse("asked")
  ELSE IF a.verb = "launch_app" THEN Plan(<<do("exec")>>)
  ELSE IF a.verb \in {"workspace", "focus", "fullscreen", "move_window", "move_workspace"}
  THEN planWindow(a, ctx, cfg)
  ELSE IF a.verb = "create_monitor" THEN planCreate(a, ctx, cfg)
  ELSE planMonitor(a, ctx, cfg)
planFor(a, ctx, cfg) ==
  IF a.verb = "none" THEN Refuse("out of scope")
  ELSE IF a.verb = "clarify" THEN Refuse("asked")
  ELSE IF a.verb = "launch_app"
  THEN IF ~cfg.launch THEN Refuse("disabled")
       ELSE IF a.app \in Apps THEN Plan(<<do("exec")>>) ELSE Refuse("not listed")
  ELSE IF a.verb \in {"workspace", "focus", "fullscreen", "move_window", "move_workspace"}
  THEN planWindow(a, ctx, cfg)
  ELSE IF ~cfg.xrmonitor THEN Refuse("disabled")
  ELSE IF a.verb = "create_monitor" THEN planCreate(a, ctx, cfg)
  ELSE planMonitor(a, ctx, cfg)

XrCommands == {"select", "anchor", "distance", "center", "adaptive", "dock", "undock", "roam",
               "gazegrab", "gazerelease", "gazepush", "handinput", "view", "place", "create"}
NamingDispatchers == {"focusmonitor", "movewindow", "moveworkspacetomonitor"}
CountingDispatchers == {"workspace", "movetoworkspace", "moveworkspacetomonitor"}

\* The last look before a command runs: its shape, and nothing of the desktop.
validateStep(s) ==
  /\ s.cmd \in XrCommands \cup NamingDispatchers \cup CountingDispatchers
                 \cup {"exec", "focuswindow", "fullscreen"}
  /\ s.cmd = "create" => s.mon \in ToSet(Creatable)
  /\ s.cmd = "view" => s.arg \in {"on", "off", "toggle"}
  /\ s.cmd = "focuswindow" => s.win # None
  /\ s.cmd = "fullscreen" => s.arg \in {"0", "1"}
  /\ s.cmd \in NamingDispatchers => s.mon \in Plain
  /\ s.cmd \in CountingDispatchers => isIndex(s.num)
=============================================================================
