---------------------------- MODULE VoiceCommand ----------------------------
(***************************************************************************)
(* IntentPipeline::process: an accepted utterance becomes commands.  The   *)
(* desktop is asked about in three queries, the utterance is resolved      *)
(* against the answers, and the plan runs one hyprctl process at a time,   *)
(* all on the daemon's one thread and all while the desktop lives on:      *)
(* windows close, the user clicks elsewhere, monitors go, and the output   *)
(* of a "create" registers when it will, if it does.                       *)
(*                                                                         *)
(* The desktop, and what a command does to it, are external: a command     *)
(* about something that is gone exits with an error and does nothing, any  *)
(* other may fail as well.                                                 *)
(*                                                                         *)
(* Operators no one uses, each before the one it varies, are that one with *)
(* a plausible bug.                                                        *)
(***************************************************************************)
EXTENDS Executor

CONSTANTS
  Situations,    \* {[desk, cfg, says]}: a desktop, switches, and what is said
  WaitMonitor,   \* executor.wait_monitor_ms
  WaitPoll,      \* SExecConfig::waitPollMs
  Changes        \* bound: changes to the desktop that no command makes, and failed queries

ASSUME BudgetAssumption == WaitMonitor \in Nat /\ WaitPoll \in Nat /\ Changes \in Nat

\* What is said, and the ring of poses around it.
Utterance == [t : [words : Seq(STRING), timed : BOOLEAN], ring : Seq(Look) \ {<<>>}]

Desktops ==
  LET Place == DOMAIN NameWords \cup {None, Active}
  IN  [mons    : Seq([name : DOMAIN NameWords, x : Int, workspace : STRING \cup {None}]),
       clients : Seq([address : DOMAIN ClassWords, monitor : Place, mapped : BOOLEAN, focus : Nat]),
       status  : Seq([name : DOMAIN NameWords, hovered : BOOLEAN]),
       coming  : SUBSET DOMAIN NameWords,
       chosen  : Place]

\* The compositor names no two monitors alike, and gives no name twice.
distinct(mons) == \A i, j \in DOMAIN mons : mons[i].name = mons[j].name => i = j
unborn(mons, coming) == \A i \in DOMAIN mons : mons[i].name \notin coming

ASSUME SituationsAssumption ==
  \A s \in Situations :
    /\ s.cfg \in Config
    /\ s.says \in Seq(Utterance) \ {<<>>}
    /\ s.desk \in Desktops /\ distinct(s.desk.mons) /\ unborn(s.desk.mons, s.desk.coming)

VARIABLES
  now,      \* the situation: its switches and what is said in it
  turn,     \* the utterance being processed
  desk,     \* [mons, clients, status, coming, chosen]: the desktop
  phase,    \* where process() stands
  reply,    \* the answers to the first two queries
  ctx,      \* the snapshot
  action,   \* SAction
  plan,     \* SExecPlan
  at,       \* the step the runner is at
  slept,    \* how long it has waited for that step's monitor
  ran,      \* history: the commands run for this utterance, and whether each succeeded
  touched,  \* history: the windows and monitors they changed
  meddled,  \* history: did anything else change the desktop since the first query?
  changes   \* such changes and failures so far

vars == <<now, turn, desk, phase, reply, ctx, action, plan, at, slept, ran, touched, meddled,
          changes>>

cfg == now.cfg
said == now.says[turn]      \* [t, ring]: the transcript, and where the user looked
step == plan.steps[at]

NoContext == [monitors |-> <<>>, windows |-> <<>>]
NoAction == Unresolved(Raw)
-----------------------------------------------------------------------------
(* The desktop.                                                            *)

liveMonitors == {desk.mons[i].name : i \in DOMAIN desk.mons}
liveWindows == {desk.clients[i].address : i \in DOMAIN desk.clients}
focused == {c \in ToSet(desk.clients) : c.focus = 0}

\* The clients with `address' used last, or none of them in use.
refocused(clients, address) ==
  [i \in DOMAIN clients |->
     [clients[i] EXCEPT !.focus = IF clients[i].address = address THEN 0 ELSE @ + 1]]

onMonitor(clients, mon) == without(clients, {c \in ToSet(clients) : c.monitor # mon})
lastUsed(clients) ==
  IF clients = <<>> THEN None
  ELSE (CHOOSE c \in ToSet(clients) : \A d \in ToSet(clients) : c.focus <= d.focus).address

\* Commands that need something to be there.
possible(s) ==
  /\ s.cmd = "focuswindow" => s.win \in liveWindows
  /\ s.cmd = "create" => s.mon \notin liveMonitors \cup desk.coming
  /\ s.cmd # "create" /\ s.mon \notin {None, Active} => s.mon \in liveMonitors

effect(s) ==
  CASE s.cmd = "focuswindow"  -> [desk EXCEPT !.clients = refocused(@, s.win)]
    [] s.cmd = "focusmonitor" -> [desk EXCEPT !.clients = refocused(@, lastUsed(onMonitor(@, s.mon)))]
    [] s.cmd = "movewindow"   -> [desk EXCEPT !.clients =
                                    [i \in DOMAIN @ |-> IF @[i].focus = 0
                                                        THEN [@[i] EXCEPT !.monitor = s.mon] ELSE @[i]]]
    [] s.cmd = "create"       -> [desk EXCEPT !.coming = @ \cup {s.mon}]
    [] s.cmd = "select"       -> [desk EXCEPT !.chosen = s.mon]
    [] OTHER                  -> desk

\* What a command changes: a window, by way of the focus; a monitor, named or
\* by way of the selection.
changedBy(s) ==
  CASE s.cmd \in {"fullscreen", "movewindow", "movetoworkspace"} -> {c.address : c \in focused}
    [] s.cmd \in {"distance", "center", "dock", "undock", "adaptive", "roam"} -> {desk.chosen}
    [] s.cmd \in {"anchor", "place", "gazegrab"} -> {IF s.mon = Active THEN desk.chosen ELSE s.mon}
    [] OTHER -> {}
-----------------------------------------------------------------------------
(* process(): one query, or one command, at a time.                        *)

Init ==
  \E situation \in Situations :
    /\ now = [cfg |-> situation.cfg, says |-> situation.says]
    /\ desk = situation.desk
    /\ turn = 1 /\ phase = "monitors" /\ at = 1 /\ slept = 0 /\ changes = 0
    /\ reply = [mons |-> <<>>, clients |-> <<>>]
    /\ ctx = NoContext /\ action = NoAction /\ plan = Refuse("")
    /\ ran = <<>> /\ touched = {} /\ meddled = FALSE

\* hyprctl answers, or fails and answers nothing.
Answer(got, answer) ==
  \/ got = answer /\ UNCHANGED changes
  \/ got = <<>> /\ changes < Changes /\ changes' = changes + 1

\* snapshotDesktop: three processes, one after the other.
QueryMonitors ==
  /\ phase = "monitors"
  /\ phase' = "clients"
  /\ \E got \in {desk.mons, <<>>} : Answer(got, desk.mons) /\ reply' = [reply EXCEPT !.mons = got]
  /\ meddled' = FALSE
  /\ UNCHANGED <<now, turn, desk, ctx, action, plan, at, slept, ran, touched>>

QueryClients ==
  /\ phase = "clients"
  /\ phase' = "status"
  /\ \E got \in {desk.clients, <<>>} :
       Answer(got, desk.clients) /\ reply' = [reply EXCEPT !.clients = got]
  /\ UNCHANGED <<now, turn, desk, ctx, action, plan, at, slept, ran, touched, meddled>>

QueryStatus ==
  /\ phase = "status"
  /\ phase' = "resolve"
  /\ \E got \in {desk.status, <<>>} :
       Answer(got, desk.status) /\ ctx' = parse(reply.mons, reply.clients, got)
  /\ UNCHANGED <<now, turn, desk, reply, action, plan, at, slept, ran, touched, meddled>>

\* The utterance is resolved, planned and announced; a refusal runs nothing.
ResolveWhereItStood ==
  /\ phase = "resolve"
  /\ action' = resolve(said.t, said.ring, ctx)
  /\ plan' = planFor(action', ctx, cfg)
  /\ phase' = IF plan'.ok THEN "step" ELSE "over"
  /\ slept' = 0 /\ ran' = <<>> /\ touched' = {}
  /\ UNCHANGED <<now, turn, desk, reply, ctx, at, meddled, changes>>
Resolve ==
  /\ phase = "resolve"
  /\ action' = resolve(said.t, said.ring, ctx)
  /\ plan' = planFor(action', ctx, cfg)
  /\ phase' = IF plan'.ok THEN "step" ELSE "over"
  /\ at' = 1 /\ slept' = 0 /\ ran' = <<>> /\ touched' = {}
  /\ UNCHANGED <<now, turn, desk, reply, ctx, meddled, changes>>

\* The head of the runner's loop.
NextStep ==
  /\ phase = "step"
  /\ phase' = IF at > Len(plan.steps) \/ ~validateStep(step) THEN "over"
              ELSE IF cfg.dryRun THEN "step"
              ELSE IF step.wait # None THEN "wait" ELSE "run"
  /\ at' = IF phase' = "step" THEN at + 1 ELSE at
  /\ slept' = 0
  /\ UNCHANGED <<now, turn, desk, reply, ctx, action, plan, ran, touched, meddled, changes>>

smaller(a, b) == IF a < b THEN a ELSE b
poll == IF WaitPoll > 1 THEN WaitPoll ELSE 1

\* awaitMonitor: look first, then sleep, never past the budget.
napByPoll(soFar) == soFar + poll
napForEver(soFar) == soFar
nap(soFar) == soFar + smaller(poll, WaitMonitor - soFar)

AwaitMonitor ==
  /\ phase = "wait"
  /\ \E got \in {desk.mons, <<>>} :
       /\ Answer(got, desk.mons)
       /\ phase' = IF \E i \in DOMAIN got : got[i].name = step.wait THEN "run"
                   ELSE IF slept >= WaitMonitor THEN "over" ELSE "wait"
  /\ slept' = IF phase' = "wait" THEN nap(slept) ELSE slept
  /\ UNCHANGED <<now, turn, desk, reply, ctx, action, plan, at, ran, touched, meddled>>

\* A command runs to its end; after one that failed, none runs.
afterAnyStep(ok) == "step"
afterStep(ok) == IF ok THEN "step" ELSE "over"

RunStep ==
  /\ phase = "run"
  /\ \E ok \in {possible(step), FALSE} :
       /\ phase' = afterStep(ok)
       /\ desk' = IF ok THEN effect(step) ELSE desk
       /\ touched' = IF ok THEN touched \cup changedBy(step) ELSE touched
       /\ ran' = Append(ran, [step |-> step, ok |-> ok])
  /\ at' = at + 1
  /\ UNCHANGED <<now, turn, reply, ctx, action, plan, slept, meddled, changes>>

\* The next utterance that the daemon accepts.
Hear ==
  /\ phase = "over"
  /\ turn < Len(now.says)
  /\ turn' = turn + 1
  /\ phase' = "monitors"
  /\ UNCHANGED <<now, desk, reply, ctx, action, plan, at, slept, ran, touched, meddled, changes>>
-----------------------------------------------------------------------------
(* Whatever else happens on the desktop.                                   *)

Meddle(newDesk) ==
  /\ changes < Changes
  /\ changes' = changes + 1
  /\ desk' = newDesk
  /\ meddled' = TRUE
  /\ UNCHANGED <<now, turn, phase, reply, ctx, action, plan, at, slept, ran, touched>>

WindowCloses ==
  \E address \in liveWindows :
    Meddle([desk EXCEPT !.clients = without(@, {c \in ToSet(@) : c.address = address})])

FocusMoves ==
  \E address \in liveWindows :
    Meddle([desk EXCEPT !.clients = refocused(@, address)])

SelectionMoves ==
  \E mon \in liveMonitors : Meddle([desk EXCEPT !.chosen = mon])

\* Its windows stay where they were until the compositor has moved them.
MonitorGoes ==
  \E mon \in liveMonitors :
    Meddle([desk EXCEPT !.mons = without(@, {m \in ToSet(@) : m.name = mon}),
                        !.status = without(@, {s \in ToSet(@) : s.name = mon})])

\* The output of a "create" registers.
MonitorRegisters ==
  \E mon \in desk.coming :
    /\ desk' = [desk EXCEPT !.coming = @ \ {mon},
                            !.mons = Append(@, [name |-> mon, x |-> 0, workspace |-> None]),
                            !.status = Append(@, [name |-> mon, hovered |-> FALSE])]
    /\ UNCHANGED <<now, turn, phase, reply, ctx, action, plan, at, slept, ran, touched, meddled,
                   changes>>

Asking == QueryMonitors \/ QueryClients \/ QueryStatus
Running == NextStep \/ AwaitMonitor \/ RunStep

Desktop == WindowCloses \/ FocusMoves \/ SelectionMoves \/ MonitorGoes \/ MonitorRegisters

Next == Asking \/ Resolve \/ Running \/ Hear \/ Desktop

\* The thread is busy with an utterance until it is done with it.  The second
\* conjunct is WF_vars(Resolve), which is enabled as long as it is not taken.
Fairness ==
  /\ WF_vars(Asking \/ Running)
  /\ []<>(phase # "resolve") \/ []<><<Resolve>>_vars

Spec == Init /\ [][Next]_vars /\ Fairness
-----------------------------------------------------------------------------
(* Properties.                                                             *)

Resolved == phase \in {"step", "wait", "run", "over"}

\* The runner stands at a step of its plan, or just past the last one; it
\* waits or runs only at a step.
TypeOK ==
  /\ phase \in {"monitors", "clients", "status", "resolve", "step", "wait", "run", "over"}
  /\ action.verb \in Verbs /\ action.source \in Sources
  /\ plan.ok \in BOOLEAN
  /\ at \in 1 .. Len(plan.steps) + 1
  /\ phase \in {"wait", "run"} => at <= Len(plan.steps)
  /\ slept \in Nat
  /\ turn \in 1 .. Len(now.says)
  /\ meddled \in BOOLEAN
  /\ changes \in 0 .. Changes

\* The executor's safety contract (Executor.hpp:14-22): a command that runs
\* has a shape of the closed set, names only monitors and windows of the
\* snapshot it was planned from, or the selection, or a new monitor that the
\* snapshot does not have; and no switch forbids it.
permitted(s) ==
  /\ validateStep(s) /\ ~cfg.dryRun
  /\ s.cmd \in XrCommands => cfg.xrmonitor
  /\ s.cmd = "create" => cfg.create
  /\ s.cmd = "exec" => cfg.launch
  /\ s.cmd \notin XrCommands \cup {"exec"} => cfg.window
  /\ s.win # None => hasWindow(ctx, s.win)
  /\ IF s.cmd = "create" \/ s.wait # None THEN ~hasMonitor(ctx, s.mon)
     ELSE s.mon \in {None, Active} \/ hasMonitor(ctx, s.mon)

ContractHolds ==
  Resolved => \A i \in DOMAIN ran : permitted(ran[i].step)

\* The runner runs its plan in order, each command once, and nothing after a
\* command that failed, was refused, or whose monitor never came.
running == phase \in {"step", "wait", "run"}

todo == IF cfg.dryRun THEN <<>> ELSE SubSeq(plan.steps, at, Len(plan.steps))

Runs == INSTANCE PlanRun WITH todo <- todo, done <- ran,
                              state <- IF running THEN "running" ELSE "over"

ImplementsPlanRun == Runs!Spec

\* What the intent tier resolved, the executor refuses as gone only if the gaze
\* named it without having selected anything: both look at the same snapshot,
\* the gaze ring's older answers included.
ResolvedIsLive ==
  Resolved /\ plan.why = "not live" =>
    action.source = "deixis" /\ vote(gazeAt(said.ring, action.gaze.at)) < 0

\* "Move THIS monitor": a monitor that was pointed at is one that the gaze named
\* at one of the instants around the word, or one that some word said fits, or it
\* is asked for; it is never the one under the pointer or the last one selected,
\* which need not be where the user looked.
MonitorVerbs == {"pick", "move_dist", "center", "dock", "undock", "follow", "anchor"}

points(u) == says(u, MonitorWords) /\ ~says(u, PlaceWords)

\* Of the monitors of that name one fits the phrase.
fitted(name, phrase, snapshot) ==
  \E m \in ToSet(snapshot.monitors) :
    m.name = name /\ monitorScore(meaning(phrase), m, snapshot) > 0

\* What the gaze was on at the instants asked for.
namedAt(word, ring) ==
  {answers(word, ring)[i].look.name : i \in DOMAIN answers(word, ring)}

PointedOrAsked ==
  Resolved /\ action.verb \in MonitorVerbs /\ points(said.t.words) =>
    \/ action.source = "deixis" /\ action.target \in namedAt(detect(said.t).wordAt, said.ring)
    \/ action.source = "semantic" /\ fitted(action.target, detect(said.t).target, ctx)
    \/ says(said.t.words, {"active", "focused", "current", "selected"})

\* What moves, moves to the one monitor that fits what was said best: of two
\* that fit equally well neither is picked, the user is asked.
NothingPickedAmongEquals ==
  Resolved /\ action.verb \in {"move_window", "move_workspace"} /\ action.source = "named" =>
    LET dest == meaning(detect(said.t).monitor)
    IN  \A m, n \in ToSet(ctx.monitors) :
          m.name = action.target /\ n.name # action.target =>
            monitorScore(dest, m, ctx) > monitorScore(dest, n, ctx)

\* What the answers of the ring say of the pose chosen among them.
backed(gaze, got) ==
  LET agree == votesFor(vote(gazeAt(said.ring, gaze.at)), got)
  IN  /\ \A i \in agree : got[i].at <= gaze.at
      /\ \A i \in DOMAIN got :
           Cardinality(votesFor(vote(got[i].look), got)) <= Cardinality(agree)
      /\ gaze.stable <=> Cardinality(agree) > Cardinality(DOMAIN got) - Cardinality(agree)

\* The pose that "here" stands for is the latest one of those that agree with
\* the vote, no other monitor had more votes, "stable" means that more than
\* half agreed, and the point is never inside the head.
GazeIsFresh ==
  Resolved /\ action.gaze.valid =>
    /\ \A r \in {detect(said.t)} :
         backed(action.gaze, answers(IF r.deictic THEN r.wordAt ELSE 1, said.ring))
    /\ action.gaze.place >= PlaceFloor

\* Commands act on the focused window and on the selected monitor: unless
\* somebody else changed the desktop meanwhile, those are the window that was
\* named, a window of the monitor looked at, and the monitor resolved.
OnlyTheNamed ==
  Resolved /\ ~meddled =>
    \A x \in touched :
      /\ action.window # None => x = action.window
      /\ action.verb \in MonitorVerbs \cup {"place"} /\ ~isActive(action.target) => x = action.target
      /\ action.verb = "fullscreen" /\ action.source = "deixis" =>
           \E c \in ToSet(desk.clients) : c.address = x /\ c.monitor = action.target

\* The wait for a new monitor never takes longer than its budget, and it is
\* given up only when all of the budget is spent.
WaitWithinBudget ==
  [][/\ slept' <= WaitMonitor
     /\ phase = "wait" /\ phase' = "over" => slept = WaitMonitor]_vars

\* The daemon's thread is done with every utterance in the end, whatever the
\* desktop does meanwhile.
UtterancesEnd == phase # "over" ~> phase = "over"
-----------------------------------------------------------------------------
(* What the documentation and comments say, where the code does otherwise. *)

\* A subject that was named is not replaced by whatever is looked at, selected or
\* hovered: "only when the user named NO subject at all, the fallbacks"
\* (Intent.cpp:1094-1096).
NamedButNotSeenIsAsked ==
  Resolved /\ action.verb \in MonitorVerbs /\ meaning(detect(said.t).target) # <<>> =>
    action.source # "active" \/ namesActiveTarget(detect(said.t).target)
=============================================================================
